------------------------------ MODULE CacheUse ------------------------------
(* The analysis cache in two surroundings, of which a behaviour has one: the *)
(* index rests while calls are under way (CalmNext), or calls keep apart and *)
(* are cut off only where that leaves whole snapshots (OrderlyNext).         *)
EXTENDS AnalysisCache

VARIABLE orderly

UseInit == Init /\ orderly \in BOOLEAN

UseNext ==
  /\ IF orderly THEN OrderlyNext ELSE CalmNext
  /\ UNCHANGED orderly

UseSpec == UseInit /\ [][UseNext]_<<vars, orderly>>

\* Callers that do not keep apart are shown no snapshot.
Unserved == [u \in Cache!Use |-> Absent]

Files ==
  INSTANCE Snapshots WITH
    None <- Absent,
    kept <- IF orderly THEN Kept ELSE Absent,
    older <- IF orderly THEN KeptBefore ELSE Absent,
    served <- IF orderly THEN Served ELSE Unserved,
    faults <- IF orderly THEN faults ELSE 0

\* In orderly surroundings the files behave like two whole snapshots that are
\* replaced, rotated and served in one step each and that only a fault can lose
\* (mod.rs, "One previous generation is kept").
KeepsSnapshots == Files!Spec
=============================================================================
