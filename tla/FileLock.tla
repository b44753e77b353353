------------------------------ MODULE FileLock ------------------------------
(***************************************************************************)
(* The cross-process write lock of a project: FileLock (src/src/utils.rs), *)
(* a lock file that names the process holding it.  A handle is one         *)
(* FileLock value; a process owns several (the MCP engine's CodeGraph and  *)
(* the fresh CodeGraph its watcher opens for every sync).  Every system    *)
(* call of acquire and release is a step of its own, because other         *)
(* processes run between any two of them.                                  *)
(***************************************************************************)
EXTENDS Integers

CONSTANTS Handle,      \* the FileLock values that contend for one lock path
          Process,     \* the processes, by pid
          PidOf,       \* the process each handle lives in
          StaleAge,    \* STALE_TIMEOUT_MS, in ticks of the clock
          MaxClockBack \* how often the system clock is set back (a bound)

Unwritten == "unwritten"   \* what a lock file says between its creation and the write

ASSUME LockAssumption ==
  /\ Unwritten \notin Process
  /\ PidOf \in [Handle -> Process]
  /\ StaleAge \in Nat \ {0}
  /\ MaxClockBack \in Nat

VARIABLES file,    \* the lock file: whether it exists, what it says, its age
          seen,    \* per handle, the pid that live_holder read
          pc,      \* per handle, its next system call
          alive,   \* the processes that have not exited
          turns    \* how often the clock has been set back

vars == <<file, seen, pc, alive, turns>>

Ahead == -1   \* the age of a file whose modification time lies in the future
Ages == Ahead..StaleAge

Absent == [exists |-> FALSE, inode |-> "none", pid |-> Unwritten, age |-> 0]

AcquireSteps == {"stat", "probe", "exists", "remove", "create"}
HoldingSteps == {"write", "held", "unlink"}

TypeOK ==
  /\ file \in [exists : BOOLEAN, inode : Handle \cup {"none"},
               pid : Process \cup {Unwritten}, age : Ages]
  /\ seen \in [Handle -> Process]
  /\ pc \in [Handle -> {"idle", "gone"} \cup AcquireSteps \cup HoldingSteps]
  /\ alive \subseteq Process
  /\ turns \in 0..MaxClockBack

Init ==
  /\ file = Absent
  /\ seen = PidOf
  /\ pc = [h \in Handle |-> "idle"]
  /\ alive = Process
  /\ turns = 0

Goto(h, from, to) == pc[h] = from /\ pc' = [pc EXCEPT ![h] = to]

-----------------------------------------------------------------------------
(* live_holder, then the rest of acquire *)

\* live_holder reads the file; without a pid in it nobody holds the lock.
ReadHolder(h) ==
  /\ \/ /\ file.exists /\ file.pid # Unwritten
        /\ seen' = [seen EXCEPT ![h] = file.pid]
        /\ Goto(h, "idle", "stat")
     \/ /\ ~file.exists \/ file.pid = Unwritten
        /\ Goto(h, "idle", "exists")
        /\ UNCHANGED seen
  /\ UNCHANGED <<file, alive, turns>>

\* Mutants: the test is the wrong way round; the age is not looked at.
BugInverted(age) == ~(0 <= age /\ age < StaleAge)
BugAgeless(age) == TRUE

\* A file counts while it is young; elapsed() fails for a modification time in
\* the future, and live_holder answers nobody.
Young(age) == 0 <= age /\ age < StaleAge

\* live_holder stats the path, whichever file is there by now.
StatHolder(h) ==
  /\ Goto(h, "stat", IF file.exists /\ Young(file.age) THEN "probe" ELSE "exists")
  /\ UNCHANGED <<file, seen, alive, turns>>

\* It probes the pid that it read; a running holder fails the acquire.
ProbeHolder(h) ==
  /\ Goto(h, "probe", IF seen[h] \in alive THEN "idle" ELSE "exists")
  /\ UNCHANGED <<file, seen, alive, turns>>

TestExists(h) ==
  /\ Goto(h, "exists", IF file.exists THEN "remove" ELSE "create")
  /\ UNCHANGED <<file, seen, alive, turns>>

\* remove_file takes the path, whichever file is there by now.
RemoveStale(h) ==
  /\ Goto(h, "remove", "create")
  /\ file' = Absent
  /\ UNCHANGED <<seen, alive, turns>>

\* The exclusive create: the file exists from here on, still without a pid.
CreateLock(h) ==
  /\ \/ /\ file.exists
        /\ Goto(h, "create", "idle")
        /\ UNCHANGED file
     \/ /\ ~file.exists
        /\ Goto(h, "create", "write")
        /\ file' = [exists |-> TRUE, inode |-> h, pid |-> Unwritten, age |-> 0]
  /\ UNCHANGED <<seen, alive, turns>>

\* Mutants: writes something else than the pid; never writes.
BugWrongId(h) ==
  /\ Goto(h, "write", "held")
  /\ file' = [file EXCEPT !.pid = h]
  /\ UNCHANGED <<seen, alive, turns>>
BugNoWrite(h) == Goto(h, "write", "held") /\ UNCHANGED <<file, seen, alive, turns>>

\* The write goes to the file this handle created, linked at the path or not.
WritePid(h) ==
  /\ Goto(h, "write", "held")
  /\ file' = IF file.inode = h THEN [file EXCEPT !.pid = PidOf[h], !.age = 0]
                               ELSE file
  /\ UNCHANGED <<seen, alive, turns>>

\* The result of the write is ignored: the lock is held without a pid.
WriteFails(h) == Goto(h, "write", "held") /\ UNCHANGED <<file, seen, alive, turns>>

-----------------------------------------------------------------------------
(* release *)

ReleaseRead(h) ==
  /\ Goto(h, "held", IF file.exists /\ file.pid = PidOf[h] THEN "unlink" ELSE "idle")
  /\ UNCHANGED <<file, seen, alive, turns>>

ReleaseUnlink(h) ==
  /\ Goto(h, "unlink", "idle")
  /\ file' = Absent
  /\ UNCHANGED <<seen, alive, turns>>

-----------------------------------------------------------------------------
(* The surroundings of the lock *)

\* `codegraph unlock` deletes the file without asking anyone.
Unlock ==
  /\ file.exists
  /\ file' = Absent
  /\ UNCHANGED <<seen, pc, alive, turns>>

\* A process exits or is killed; its handles take no further step and only the
\* file survives it.
Crash(p) ==
  /\ p \in alive
  /\ alive' = alive \ {p}
  /\ pc' = [h \in Handle |-> IF PidOf[h] = p THEN "gone" ELSE pc[h]]
  /\ UNCHANGED <<file, seen, turns>>

\* The operating system hands a dead process's pid to an unrelated program.
ReusePid(p) ==
  /\ p \in Process \ alive
  /\ alive' = alive \cup {p}
  /\ UNCHANGED <<file, seen, pc, turns>>

\* Nothing refreshes the modification time, so a held lock ages too.
Tick ==
  /\ file.exists /\ file.age < StaleAge
  /\ file' = [file EXCEPT !.age = @ + 1]
  /\ UNCHANGED <<seen, pc, alive, turns>>

\* The system clock is set back, perhaps to before the file was written.
SetClockBack ==
  /\ file.exists /\ turns < MaxClockBack
  /\ \E age \in Ages : age < file.age /\ file' = [file EXCEPT !.age = age]
  /\ turns' = turns + 1
  /\ UNCHANGED <<seen, pc, alive>>

HandleStep(h) ==
  \/ ReadHolder(h) \/ StatHolder(h) \/ ProbeHolder(h) \/ TestExists(h)
  \/ RemoveStale(h) \/ CreateLock(h) \/ WritePid(h) \/ ReleaseRead(h) \/ ReleaseUnlink(h)

ProcessStep == \E p \in Process : Crash(p) \/ ReusePid(p)

Next == (\E h \in Handle : HandleStep(h) \/ WriteFails(h)) \/ ProcessStep \/ Unlock \/ Tick
        \/ SetClockBack

Spec == Init /\ [][Next]_vars

\* Callers come back for the lock (the watcher re-arms its debounce while files
\* are pending), finish what they started, and time passes.
FairSpec == Spec /\ WF_vars(Tick) /\ \A h \in Handle : WF_vars(HandleStep(h))

-----------------------------------------------------------------------------
(* Surroundings in which acquire and release are used *)

Holding(h) == pc[h] \in HoldingSteps
AttemptOpen(h) == pc[h] \in AcquireSteps \cup {"write"}
Unheld == \A h \in Handle : ~Holding(h)

\* No two attempts to acquire overlap.
SerialStep(h) == HandleStep(h) /\ (pc[h] = "idle" => \A g \in Handle : ~AttemptOpen(g))
\* A writer is done before its lock file counts as stale.
PromptTick == Tick /\ (Unheld \/ file.age + 1 < StaleAge)
\* `unlock` is run, and the clock set back, when nothing is writing.
CalmUnlock == Unlock /\ Unheld
CalmClock == SetClockBack /\ Unheld

SerialNext ==
  \/ \E h \in Handle : SerialStep(h)
  \/ ProcessStep \/ CalmUnlock \/ CalmClock \/ PromptTick

SerialSpec == Init /\ [][SerialNext]_vars
OverlapSpec == Init /\ [][\/ \E h \in Handle : HandleStep(h)
                          \/ ProcessStep \/ CalmUnlock \/ CalmClock \/ PromptTick]_vars

-----------------------------------------------------------------------------
(* Properties *)

\* At most one FileLock is past its acquire and not yet released, so no two
\* processes write the database at the same time (utils.rs, doc of FileLock).
MutualExclusion == \A g, h \in Handle : Holding(g) /\ Holding(h) => g = h

\* The file a holder created stays at the path and names its process until the
\* holder lets go: live_holder of everyone else keeps answering with its pid.
HeldIsPublished ==
  \A h \in Handle : pc[h] \in {"held", "unlink"} =>
    /\ file.exists /\ file.inode = h /\ file.pid = PidOf[h]
    /\ Young(file.age) /\ file.pid \in alive

\* A lock file whose owner died, before or after writing its pid, and even if
\* the pid now belongs to an unrelated program, does not lock the project for
\* ever: it goes away as long as somebody still wants the lock.
Orphan == file.exists /\ pc[file.inode] = "gone"
OrphanClears == Orphan ~> (~Orphan \/ \A h \in Handle : pc[h] = "gone")
=============================================================================
