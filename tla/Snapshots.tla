------------------------------ MODULE Snapshots ------------------------------
(* What the analysis cache promises: two generations of whole snapshots of   *)
(* the index, of which none gets lost without a fault, and answers that are  *)
(* one of them. AnalysisCache implements it with files renamed one by one.   *)
EXTENDS Integers

CONSTANTS Caller, Version, None

VARIABLES
  kept,     \* the current generation, or None
  older,    \* the previous generation, or None
  served,   \* the snapshot each caller uses as its graph, and as base of a diff
  faults    \* kills and failed calls so far

vars == <<kept, older, served, faults>>

Snapshot == [version : Version, fields : BOOLEAN]
Role == {"graph", "base"}
Use == Caller \X Role
Without(c, roles) == [u \in Use |-> IF u[1] = c /\ u[2] \in roles THEN None ELSE served[u]]

Init ==
  /\ kept = None
  /\ older = None
  /\ served = [u \in Use |-> None]
  /\ faults = 0

Put ==
  /\ kept = None
  /\ kept' \in Snapshot
  /\ UNCHANGED <<older, served, faults>>

\* The same index, with fields or without.
Replace ==
  /\ kept # None
  /\ kept' \in Snapshot
  /\ kept'.version = kept.version
  /\ UNCHANGED <<older, served, faults>>

\* The older generation goes to make room for the kept one.
MakeRoom ==
  /\ kept # None
  /\ older' = None
  /\ UNCHANGED <<kept, served, faults>>

Rotate ==
  /\ kept # None
  /\ kept' = None
  /\ older' = kept
  /\ UNCHANGED <<served, faults>>

Serve(u) ==
  /\ served[u] = None
  /\ \E s \in {kept, older} : served' = [served EXCEPT ![u] = s]
  /\ UNCHANGED <<kept, older, faults>>

End(c) ==
  /\ \E roles \in SUBSET Role : served' = Without(c, roles)
  /\ UNCHANGED <<kept, older, faults>>

\* Whatever is lost is lost to a fault, at once or when it shows; what a rotation
\* was cut off at may be the older one by then.
Lose ==
  /\ faults' \in {faults, faults + 1} \ {0}
  /\ kept' \in {kept, None}
  /\ older' \in {older, kept, None}
  /\ \E c \in Caller, roles \in SUBSET Role : served' = Without(c, roles)

Next ==
  \/ Put \/ Replace \/ MakeRoom \/ Rotate \/ Lose
  \/ \E u \in Use : Serve(u)
  \/ \E c \in Caller : End(c)

Spec == Init /\ [][Next]_vars
=============================================================================
