---------------------------- MODULE FileLockCalm ----------------------------
(* FileLock in any interleaving, with a memory of whether every step so far  *)
(* was one of the surroundings the lock is good for: attempts that do not    *)
(* overlap, writers done before the timeout, no unlock of a held lock, no    *)
(* clock set back under one and no failed write of the pid (SerialNext).     *)
EXTENDS FileLock

VARIABLE calm

CalmInit == Init /\ calm = TRUE
CalmNext == Next /\ calm' = (calm /\ SerialNext)
calmVars == <<vars, calm>>

CalmSpec == CalmInit /\ [][CalmNext]_calmVars
CalmFairSpec == CalmSpec /\ WF_vars(Tick) /\ \A h \in Handle : WF_vars(HandleStep(h))

\* At most one FileLock is past its acquire and not yet released, up to the
\* first step outside those surroundings (utils.rs, doc of FileLock).
Excludes == calm => MutualExclusion

\* Up to that step the file of a holder stays in place, young, and names its
\* process: live_holder of everyone else answers with its pid.
Publishes == calm => HeldIsPublished
=============================================================================
