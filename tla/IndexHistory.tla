---------------------------- MODULE IndexHistory ----------------------------
(* What a run promises about the files that did not change while it ran:    *)
(* Index with a memory of the moment the run began.                         *)
EXTENDS Index

VARIABLE began   \* the last stamp given out when the run in progress began

HistoryInit == Init /\ began = 0

HistoryNext ==
  /\ Next
  /\ began' = IF pc' = "idle" THEN 0 ELSE IF pc = "idle" THEN clock ELSE began

HistorySpec ==
  HistoryInit /\ [][HistoryNext]_<<vars, began>> /\ WF_vars(RunStep) /\ SF_vars(StartSync)

\* A run that ends well has every readable file that was left alone while it ran
\* with its present text, and no file that was gone before it began, whatever
\* failed, killed or overtaken runs left behind (sync and index_all).  A run on
\* given files says so of those it came to, and removes none.
Asked(f) == kind \in {"sync", "full"} \/ f \in changed \ todo
LeftAlone(f) == disk[f].stamp <= began
RunFresh ==
  pc = "finish" => \A f \in File : LeftAlone(f) =>
    /\ Readable(disk[f].text) /\ Asked(f) => files[f].hash = disk[f].text
    /\ disk[f].text = Missing /\ kind \in {"sync", "full"} => f \notin Tracked
=============================================================================
