--------------------------- MODULE FileLockProofs ---------------------------
(***************************************************************************)
(* The lock excludes, for any number of handles and processes and any      *)
(* stale timeout, up to the first overlap of two attempts, slow writer,    *)
(* unlock of a held lock, clock set back under one or failed write (calm).  The race of  *)
(* filelock_overlap shows that the first condition cannot be dropped; a    *)
(* file that is not Young is taken from a live writer by StatHolder, which *)
(* is why there are the second and the fourth.                             *)
(***************************************************************************)
EXTENDS FileLockCalm, TLAPS

\* A holder owns the file at the path, young and by a running process; it is
\* published once written.
HolderOwnsFile ==
  \A h \in Handle : Holding(h) =>
    /\ file.exists /\ file.inode = h /\ Young(file.age)
    /\ PidOf[h] \in alive
    /\ (pc[h] # "write" => file.pid = PidOf[h])

\* An attempt that got past live_holder excludes holders; one that is about to
\* stat or to probe has read the pid of the holder, if there is one.
CheckedAlone ==
  \A g, h \in Handle :
    /\ pc[h] \in {"exists", "remove", "create"} => ~Holding(g)
    /\ pc[h] \in {"stat", "probe"} /\ Holding(g) => seen[h] = PidOf[g]

OneAttempt == \A g, h \in Handle : AttemptOpen(g) /\ AttemptOpen(h) => g = h

RunningOwner == \A h \in Handle : pc[h] # "gone" => PidOf[h] \in alive

SerialInv == TypeOK /\ OneAttempt /\ RunningOwner /\ HolderOwnsFile /\ CheckedAlone

\* Nobody holds the lock at first.
LEMMA SerialInit == Init => SerialInv
  BY LockAssumption
  DEF Init, SerialInv, TypeOK, OneAttempt, RunningOwner, HolderOwnsFile, CheckedAlone,
      AttemptOpen, Holding, Young, Ages, Ahead, AcquireSteps, HoldingSteps, Absent, Unwritten

\* One lemma per part of the next-state relation.
LEMMA SerialAcquire ==
  ASSUME SerialInv, NEW h \in Handle, pc[h] = "idle" => \A g \in Handle : ~AttemptOpen(g),
         ReadHolder(h) \/ StatHolder(h) \/ ProbeHolder(h) \/ TestExists(h)
  PROVE  SerialInv'
<1> USE LockAssumption
    DEF SerialInv, TypeOK, OneAttempt, RunningOwner, HolderOwnsFile, CheckedAlone,
        AttemptOpen, Holding, Young, Ages, Ahead, AcquireSteps, HoldingSteps, Goto
<1>1. CASE ReadHolder(h)
  BY <1>1 DEF ReadHolder
<1>2. CASE StatHolder(h)
  BY <1>2 DEF StatHolder
<1>3. CASE ProbeHolder(h)
  BY <1>3 DEF ProbeHolder
<1>4. CASE TestExists(h)
  BY <1>4 DEF TestExists
<1> QED BY <1>1, <1>2, <1>3, <1>4

\* Removing a stale file, creating a new one and writing the pid.
LEMMA SerialTake ==
  ASSUME SerialInv, NEW h \in Handle,
         RemoveStale(h) \/ CreateLock(h) \/ WritePid(h)
  PROVE  SerialInv'
<1> USE LockAssumption
    DEF SerialInv, TypeOK, OneAttempt, RunningOwner, HolderOwnsFile, CheckedAlone,
        AttemptOpen, Holding, Young, Ages, Ahead, AcquireSteps, HoldingSteps, Goto, Absent
<1>1. CASE RemoveStale(h)
  <2>1. TypeOK'
    BY <1>1 DEF RemoveStale
  <2>2. \A g \in Handle : ~Holding(g)'
    BY <1>1 DEF RemoveStale
  <2>3. pc' = [pc EXCEPT ![h] = "create"] /\ pc[h] = "remove" /\ UNCHANGED alive
    BY <1>1 DEF RemoveStale
  <2>4. OneAttempt' /\ RunningOwner'
    BY <2>3
  <2>5. HolderOwnsFile'
    BY <2>2
  <2>6. CheckedAlone'
    BY ONLY <2>2 DEF CheckedAlone, Holding
  <2> QED BY <2>1, <2>4, <2>5, <2>6
<1>2. CASE CreateLock(h)
  <2>1. TypeOK'
    <3>1. file' \in [exists : BOOLEAN, inode : Handle \cup {"none"},
                     pid : Process \cup {Unwritten}, age : Ages]
      <4>1. CASE file.exists
        BY <1>2, <4>1 DEF CreateLock
      <4>2. CASE ~file.exists
        <5>1. file' = [exists |-> TRUE, inode |-> h, pid |-> Unwritten, age |-> 0]
          BY <1>2, <4>2 DEF CreateLock
        <5>2. 0 \in Ages
          BY ONLY LockAssumption DEF Ages, Ahead
        <5> QED BY ONLY <5>1, <5>2
      <4> QED BY <4>1, <4>2
    <3> QED BY <1>2, <3>1 DEF CreateLock
  <2>2. CASE file.exists
    BY <1>2, <2>1, <2>2 DEF CreateLock
  <2>3. CASE ~file.exists
    <3>1. \A g \in Handle : Holding(g)' => g = h
      BY <1>2, <2>3 DEF CreateLock
    <3>2. OneAttempt' /\ RunningOwner'
      BY <1>2, <2>3 DEF CreateLock
    <3>3. HolderOwnsFile'
      BY <1>2, <2>3, <3>1 DEF CreateLock
    <3>4. CheckedAlone'
      BY <1>2, <2>3, <3>1 DEF CreateLock
    <3> QED BY <2>1, <3>2, <3>3, <3>4
  <2> QED BY <2>2, <2>3
<1>3. CASE WritePid(h)
  <2>1. TypeOK'
    <3>1. 0 \in Ages /\ PidOf[h] \in Process
      BY ONLY LockAssumption, h \in Handle DEF Ages, Ahead
    <3> QED BY <1>3, <3>1 DEF WritePid
  <2>2. OneAttempt' /\ RunningOwner'
    BY <1>3 DEF WritePid
  <2>3. HolderOwnsFile'
    BY <1>3 DEF WritePid
  <2>4. CheckedAlone'
    BY <1>3 DEF WritePid
  <2> QED BY <2>1, <2>2, <2>3, <2>4
<1> QED BY <1>1, <1>2, <1>3

\* Reading the pid back and removing the file.
LEMMA SerialRelease ==
  ASSUME SerialInv, NEW h \in Handle, ReleaseRead(h) \/ ReleaseUnlink(h)
  PROVE  SerialInv'
<1> USE LockAssumption
    DEF SerialInv, TypeOK, OneAttempt, RunningOwner, HolderOwnsFile, CheckedAlone,
        AttemptOpen, Holding, Young, Ages, Ahead, AcquireSteps, HoldingSteps, Goto, Absent
<1>1. CASE ReleaseRead(h)
  BY <1>1 DEF ReleaseRead
<1>2. CASE ReleaseUnlink(h)
  BY <1>2 DEF ReleaseUnlink
<1> QED BY <1>1, <1>2

\* Starts and crashes of processes, unlocks of free locks, the clock.
LEMMA SerialSurroundings ==
  ASSUME SerialInv, ProcessStep \/ CalmUnlock \/ CalmClock \/ PromptTick \/ UNCHANGED vars
  PROVE  SerialInv'
<1> USE LockAssumption
    DEF SerialInv, TypeOK, OneAttempt, RunningOwner, HolderOwnsFile, CheckedAlone,
        AttemptOpen, Holding, Young, Ages, Ahead, AcquireSteps, HoldingSteps, Absent
<1>1. ASSUME NEW p \in Process, Crash(p) PROVE SerialInv'
  BY <1>1 DEF Crash
<1>2. ASSUME NEW p \in Process, ReusePid(p) PROVE SerialInv'
  BY <1>2 DEF ReusePid
<1>3. CASE CalmUnlock
  BY <1>3 DEF CalmUnlock, Unlock, Unheld
<1>4. CASE PromptTick
  BY <1>4 DEF PromptTick, Tick, Unheld
<1>5. CASE CalmClock
  BY <1>5 DEF CalmClock, SetClockBack, Unheld
<1>6. CASE UNCHANGED vars
  BY <1>6 DEF vars
<1> QED BY <1>1, <1>2, <1>3, <1>4, <1>5, <1>6 DEF ProcessStep

\* Together: one attempt at a time keeps SerialInv.
LEMMA SerialInductive == SerialInv /\ [SerialNext]_vars => SerialInv'
<1> SUFFICES ASSUME SerialInv, [SerialNext]_vars PROVE SerialInv'
  OBVIOUS
<1>1. ASSUME NEW h \in Handle, SerialStep(h) PROVE SerialInv'
  BY <1>1, SerialAcquire, SerialTake, SerialRelease DEF SerialStep, HandleStep
<1> QED BY <1>1, SerialSurroundings DEF SerialNext

\* Types survive every step of any interleaving.
LEMMA TypeInductive == TypeOK /\ [Next]_vars => TypeOK'
<1> SUFFICES ASSUME TypeOK, [Next]_vars PROVE TypeOK'
  OBVIOUS
<1> USE LockAssumption DEF TypeOK, Ages, Ahead, AcquireSteps, HoldingSteps, Goto, Absent
<1>1. 0 \in Ages /\ \A h \in Handle : PidOf[h] \in Process
  BY ONLY LockAssumption DEF Ages, Ahead
<1>2. ASSUME NEW h \in Handle, ReadHolder(h) \/ StatHolder(h) \/ ProbeHolder(h) \/ TestExists(h)
                                       \/ ReleaseRead(h)
      PROVE  TypeOK'
  BY <1>2 DEF ReadHolder, StatHolder, ProbeHolder, TestExists, ReleaseRead
<1>3. ASSUME NEW h \in Handle, RemoveStale(h) \/ ReleaseUnlink(h) PROVE TypeOK'
  <2>1. file' = [exists |-> FALSE, inode |-> "none", pid |-> Unwritten, age |-> 0]
    BY <1>3 DEF RemoveStale, ReleaseUnlink
  <2>2. file' \in [exists : BOOLEAN, inode : Handle \cup {"none"},
                   pid : Process \cup {Unwritten}, age : Ages]
    BY ONLY <2>1, <1>1
  <2>3. pc' = [pc EXCEPT ![h] = "create"] \/ pc' = [pc EXCEPT ![h] = "idle"]
    BY <1>3 DEF RemoveStale, ReleaseUnlink
  <2>4. UNCHANGED <<seen, alive, turns>>
    BY <1>3 DEF RemoveStale, ReleaseUnlink
  <2> QED BY <2>2, <2>3, <2>4
<1>4. ASSUME NEW h \in Handle, CreateLock(h) PROVE TypeOK'
  <2>1. CASE file.exists
    BY <1>4, <2>1 DEF CreateLock
  <2>2. CASE ~file.exists
    <3>1. file' = [exists |-> TRUE, inode |-> h, pid |-> Unwritten, age |-> 0]
      BY <1>4, <2>2 DEF CreateLock
    <3>2. file' \in [exists : BOOLEAN, inode : Handle \cup {"none"},
                     pid : Process \cup {Unwritten}, age : Ages]
      BY ONLY <3>1, <1>1, h \in Handle
    <3> QED BY <1>4, <2>2, <3>2 DEF CreateLock
  <2> QED BY <2>1, <2>2
<1>5. ASSUME NEW h \in Handle, WritePid(h) \/ WriteFails(h) PROVE TypeOK'
  <2>1. CASE WritePid(h)
    <3>1. 0 \in Ages /\ PidOf[h] \in Process
      BY ONLY <1>1, h \in Handle
    <3> QED BY <2>1, <3>1 DEF WritePid
  <2>2. CASE WriteFails(h)
    BY <2>2 DEF WriteFails
  <2> QED BY <1>5, <2>1, <2>2
<1>6. CASE ProcessStep
  BY <1>6 DEF ProcessStep, Crash, ReusePid
<1>7. CASE Unlock \/ Tick \/ SetClockBack
  <2>1. CASE Unlock
    <3>1. file' = [exists |-> FALSE, inode |-> "none", pid |-> Unwritten, age |-> 0]
      BY <2>1 DEF Unlock
    <3>2. file' \in [exists : BOOLEAN, inode : Handle \cup {"none"},
                     pid : Process \cup {Unwritten}, age : Ages]
      BY ONLY <3>1, <1>1
    <3> QED BY <2>1, <3>2 DEF Unlock
  <2>2. CASE Tick
    BY <2>2 DEF Tick
  <2>3. CASE SetClockBack
    BY <2>3 DEF SetClockBack
  <2> QED BY <1>7, <2>1, <2>2, <2>3
<1>8. CASE UNCHANGED vars
  BY <1>8 DEF vars
<1> QED BY <1>2, <1>3, <1>4, <1>5, <1>6, <1>7, <1>8 DEF Next, HandleStep

CalmInv == TypeOK /\ (calm => SerialInv)

\* In any interleaving it holds up to the first step outside those surroundings.
LEMMA CalmInductive == CalmInv /\ [CalmNext]_calmVars => CalmInv'
<1> SUFFICES ASSUME CalmInv, [CalmNext]_calmVars PROVE CalmInv'
  OBVIOUS
<1>1. CASE CalmNext
  <2>1. TypeOK'
    BY <1>1, TypeInductive DEF CalmNext, CalmInv
  <2>2. calm' => calm /\ SerialNext
    BY <1>1 DEF CalmNext
  <2>3. calm' => SerialInv'
    BY <2>2, SerialInductive DEF CalmInv
  <2> QED BY <2>1, <2>3 DEF CalmInv
<1>2. CASE UNCHANGED calmVars
  <2>1. UNCHANGED vars /\ UNCHANGED calm
    BY <1>2 DEF calmVars
  <2>2. TypeOK'
    BY <2>1, TypeInductive DEF CalmInv
  <2>3. calm => SerialInv'
    BY <2>1, SerialInductive DEF CalmInv
  <2> QED BY <2>1, <2>2, <2>3 DEF CalmInv
<1> QED BY <1>1, <1>2

\* So the types hold always, and SerialInv as long as calm does (FileLock::acquire).
THEOREM CalmInvariant == CalmSpec => []CalmInv
<1>1. CalmInit => CalmInv
  BY SerialInit DEF CalmInit, CalmInv, SerialInv
<1> QED BY <1>1, CalmInductive, PTL DEF CalmSpec

\* Type correctness of the lock file and of every FileLock, in any interleaving.
THEOREM LockTypeCorrect == CalmSpec => []TypeOK
  BY CalmInvariant, PTL DEF CalmInv

\* Two FileLocks never hold the lock together: FileLock's promise that several
\* processes do not write the database simultaneously.
THEOREM LockExcludes == CalmSpec => []Excludes
<1>1. SerialInv => MutualExclusion
  BY DEF SerialInv, HolderOwnsFile, MutualExclusion
<1>2. CalmInv => Excludes
  BY <1>1 DEF CalmInv, Excludes
<1> QED BY <1>2, CalmInvariant, PTL

\* While a FileLock is held its file is in place and names a running process,
\* so every other acquire and spawn_background_sync sees a live holder.
THEOREM LockIsPublished == CalmSpec => []Publishes
<1>1. SerialInv => HeldIsPublished
  BY DEF SerialInv, HolderOwnsFile, HeldIsPublished, Holding, HoldingSteps
<1>2. CalmInv => Publishes
  BY <1>1 DEF CalmInv, Publishes
<1> QED BY <1>2, CalmInvariant, PTL

\* The same for the specification whose every step is one of the surroundings.
THEOREM SerialLockExcludes == SerialSpec => []MutualExclusion
<1>1. SerialInv => MutualExclusion
  BY DEF SerialInv, HolderOwnsFile, MutualExclusion
<1> QED BY <1>1, SerialInit, SerialInductive, PTL DEF SerialSpec
=============================================================================
