------------------------------- MODULE Watcher -------------------------------
(***************************************************************************)
(* One run of the file watcher (FileWatcher) from its start to its stop,   *)
(* with what it works between: the file system and its notifications, the  *)
(* cross-process write lock, and the catch-up sync that the first tool     *)
(* call of the MCP engine makes.  Three threads step here: the one that    *)
(* owns the handle and serves tool calls, the worker, and whoever else     *)
(* writes files or the index.                                              *)
(*                                                                         *)
(* Every file has a directory of its own below the root, as it takes one   *)
(* to lose sight of it: watches are per directory (Linux).                 *)
(***************************************************************************)
EXTENDS Naturals, Sequences

CONSTANTS File,
          Root,       \* the project root, itself a directory
          MaxEdit,    \* edits explored
          MaxNow,     \* readings of the wall clock
          MaxFault    \* failed syncs, foreign lock holders and clock jumps explored

ASSUME WatcherAssumption ==
  Root \notin File /\ MaxEdit \in Nat /\ MaxNow \in Nat \ {0} /\ MaxFault \in Nat

VARIABLES disk, dirs, edits,       \* per file its content (0: none); the directories
          watches, channel,        \* directories the kernel reports on; messages to the worker
          known, hand,             \* Worker.watched_dirs; a new directory it is listing
          phase, worker,           \* where the handle's thread and the worker are
          stopped, ready, armed,   \* WatcherState; armed: a deadline is set
          pending, started,        \* last_seen_ms per pending file (0: none), sync_started_ms
          outcome,                 \* what sync_fn returned
          index, lock, todo, some, \* the index; whose sync runs, what it has yet to read,
                                   \* and whether its scan found any file
          gate,                    \* the catch-up sync
          now, faults

world == <<disk, dirs, edits>>
inbox == <<watches, channel>>
state == <<stopped, ready, armed, pending, started>>
sync == <<index, lock, todo, some>>
env == <<now, faults>>
vars == <<world, inbox, known, hand, phase, worker, state, outcome, sync, gate, env>>

Dir == File \cup {Root}
Message == [kind : {"file", "dir"}, path : File] \cup {[kind |-> "stop", path |-> Root]}
About(kind, f) == [kind |-> kind, path |-> f]
NonePending == [f \in File |-> 0]

WorkerSteps == {"none", "setup", "top", "wait", "list", "flush", "lock", "sync", "prune",
                "finally", "exited"}
Content == 0..(MaxEdit + 1)

TypeOK ==
  /\ disk \in [File -> Content] /\ dirs \subseteq Dir /\ edits \in 0..MaxEdit
  /\ watches \subseteq Dir /\ channel \in Seq(Message)
  /\ known \subseteq Dir /\ hand \in Dir
  /\ phase \in {"off", "starting", "on", "stopping", "joining", "stopped"}
  /\ worker \in WorkerSteps
  /\ stopped \in BOOLEAN /\ ready \in BOOLEAN /\ armed \in BOOLEAN
  /\ pending \in [File -> 0..MaxNow] /\ started \in 0..MaxNow
  /\ outcome \in {"none", "ok", "lock", "error"}
  /\ index \in [File -> Content] /\ lock \in {"free", "watcher", "catch-up", "other"}
  /\ todo \subseteq File /\ some \in BOOLEAN
  /\ gate \in {"set", "running", "done", "missed"}
  /\ now \in 1..MaxNow /\ faults \in 0..MaxFault

\* The index is whatever earlier syncs left.
Init ==
  /\ disk \in [File -> {0, 1}] /\ index \in [File -> {0, 1}]
  /\ dirs = {Root} \cup {f \in File : disk[f] # 0} /\ edits = 0
  /\ watches = {} /\ channel = <<>> /\ known = {} /\ hand = Root
  /\ phase = "off" /\ worker = "none"
  /\ stopped = FALSE /\ ready = FALSE /\ armed = FALSE
  /\ pending = NonePending /\ started = 0 /\ outcome = "none"
  /\ lock = "free" /\ todo = {} /\ some = FALSE /\ gate = "set"
  /\ now = 1 /\ faults = 0

Work(from, to) == worker = from /\ worker' = to
Fault == faults < MaxFault /\ faults' = faults + 1

-----------------------------------------------------------------------------
(* The file system, and what the kernel reports of it *)

Change(f, content) ==
  /\ edits < MaxEdit /\ edits' = edits + 1
  /\ disk' = [disk EXCEPT ![f] = content]
  /\ UNCHANGED <<known, hand, phase, worker, state, outcome, sync, gate, env>>

\* The message a change sends if directory d is watched.
Reported(d, m) == IF d \in watches THEN <<m>> ELSE <<>>

Write(f) ==
  /\ f \in dirs /\ Change(f, edits + 2)
  /\ channel' = channel \o Reported(f, About("file", f))
  /\ UNCHANGED <<dirs, watches>>

Delete(f) ==
  /\ disk[f] # 0 /\ Change(f, 0)
  /\ channel' = channel \o Reported(f, About("file", f))
  /\ UNCHANGED <<dirs, watches>>

MakeDir(f) ==
  /\ f \notin dirs /\ Change(f, 0)
  /\ dirs' = dirs \cup {f}
  /\ channel' = channel \o Reported(Root, About("dir", f))
  /\ UNCHANGED watches

\* The kernel drops the watch of a directory that is gone.
RemoveDir(f) ==
  /\ f \in dirs /\ Change(f, 0)
  /\ dirs' = dirs \ {f} /\ watches' = watches \ {f}
  /\ channel' = channel \o (IF disk[f] # 0 THEN Reported(f, About("file", f)) ELSE <<>>)
                        \o Reported(Root, About("dir", f))

-----------------------------------------------------------------------------
(* start and stop *)

Start ==
  /\ phase = "off" /\ phase' = "starting"
  /\ Work("none", "setup") /\ stopped' = FALSE
  /\ UNCHANGED <<world, inbox, known, hand, ready, armed, pending, started, outcome, sync,
                 gate, env>>

\* setup walks the tree from the root down; files it meets are not marked.
SetupWatch(d) ==
  /\ worker = "setup" /\ d \in dirs \ known /\ (d = Root \/ Root \in known)
  /\ known' = known \cup {d} /\ watches' = watches \cup {d}
  /\ UNCHANGED <<world, channel, hand, phase, worker, state, outcome, sync, gate, env>>

\* It is done when every directory is watched that was there to be listed.
SetupDone ==
  /\ Work("setup", "top") /\ Root \in known
  /\ \A f \in dirs \ known : \E i \in DOMAIN channel : channel[i] = About("dir", f)
  /\ UNCHANGED <<world, inbox, known, hand, phase, state, outcome, sync, gate, env>>

\* Leaving the thread drops the OS watcher and the channel.
Exit == worker' = "exited" /\ watches' = {} /\ channel' = <<>>

SetupFails ==
  /\ worker = "setup" /\ known = {} /\ Exit
  /\ UNCHANGED <<world, known, hand, phase, state, outcome, sync, gate, env>>

\* The worker already runs when start clears pending_files and sets ready.
StartDone ==
  /\ phase = "starting" /\ worker \notin {"setup", "exited"}
  /\ phase' = "on" /\ ready' = TRUE /\ pending' = NonePending
  /\ UNCHANGED <<world, inbox, known, hand, worker, stopped, armed, started, outcome, sync,
                 gate, env>>

StopState ==
  /\ stopped' = TRUE /\ armed' = FALSE /\ pending' = NonePending /\ ready' = FALSE
  /\ UNCHANGED started

StartFails ==
  /\ phase = "starting" /\ worker = "exited"
  /\ phase' = "stopped" /\ StopState
  /\ UNCHANGED <<world, inbox, known, hand, worker, outcome, sync, gate, env>>

Stop ==
  /\ phase = "on" /\ gate # "running"
  /\ phase' = "stopping" /\ StopState
  /\ UNCHANGED <<world, inbox, known, hand, worker, outcome, sync, gate, env>>

\* Mutant: the state alone says it.
BugQuiet ==
  /\ phase = "stopping" /\ phase' = "joining"
  /\ UNCHANGED <<world, inbox, known, hand, worker, state, outcome, sync, gate, env>>

\* A worker that waits for a message needs one to notice.
SendStop ==
  /\ phase = "stopping" /\ phase' = "joining"
  /\ channel' = IF worker = "exited" THEN channel ELSE Append(channel, About("stop", Root))
  /\ UNCHANGED <<world, watches, known, hand, worker, state, outcome, sync, gate, env>>

Join ==
  /\ phase = "joining" /\ worker = "exited" /\ phase' = "stopped"
  /\ UNCHANGED <<world, inbox, known, hand, worker, state, outcome, sync, gate, env>>

-----------------------------------------------------------------------------
(* The worker's loop: messages and the deadline *)

Top ==
  /\ worker = "top"
  /\ IF stopped THEN Exit ELSE worker' = "wait" /\ UNCHANGED inbox
  /\ UNCHANGED <<world, known, hand, phase, state, outcome, sync, gate, env>>

\* handle_change: pending only once ready, and the deadline is set again.
HandleChange(f) ==
  /\ pending' = IF ready THEN [pending EXCEPT ![f] = now] ELSE pending
  /\ armed' = TRUE
  /\ UNCHANGED <<stopped, ready, started>>

Receive(m) ==
  /\ worker = "wait" /\ channel # <<>> /\ m = Head(channel) /\ channel' = Tail(channel)
  /\ UNCHANGED <<world, phase, outcome, sync, gate, env>>

ReceiveStop ==
  /\ worker = "wait" /\ channel # <<>> /\ Head(channel).kind = "stop" /\ Exit
  /\ UNCHANGED <<world, known, hand, phase, state, outcome, sync, gate, env>>

ReceiveIgnored ==
  /\ stopped /\ \E m \in Message : m.kind # "stop" /\ Receive(m)
  /\ worker' = "top"
  /\ UNCHANGED <<watches, known, hand, state>>

ReceiveFile(f) ==
  /\ ~stopped /\ Receive(About("file", f))
  /\ worker' = "top" /\ HandleChange(f)
  /\ UNCHANGED <<watches, known, hand>>

\* A directory the worker does not know is watched, then listed.
ReceiveNewDir(f) ==
  /\ ~stopped /\ Receive(About("dir", f)) /\ f \in dirs \ known
  /\ known' = known \cup {f} /\ watches' = watches \cup {f}
  /\ worker' = "list" /\ hand' = f
  /\ UNCHANGED state

ReceiveOldDir(f) ==
  /\ ~stopped /\ Receive(About("dir", f)) /\ f \notin dirs \ known
  /\ worker' = "top"
  /\ UNCHANGED <<watches, known, hand, state>>

ListDir ==
  /\ Work("list", "top") /\ hand' = Root
  /\ IF disk[hand] # 0 THEN HandleChange(hand) ELSE UNCHANGED state
  /\ UNCHANGED <<world, inbox, known, phase, outcome, sync, gate, env>>

Fire ==
  /\ Work("wait", "flush") /\ armed /\ armed' = FALSE
  /\ UNCHANGED <<world, inbox, known, hand, phase, stopped, ready, pending, started, outcome,
                 sync, gate, env>>

-----------------------------------------------------------------------------
(* flush: the debounced sync *)

\* Mutant: the entries go when the sync starts.
BugForgetful ==
  /\ Work("flush", "lock") /\ ~stopped /\ started' = now /\ pending' = NonePending
  /\ UNCHANGED <<world, inbox, known, hand, phase, stopped, ready, armed, outcome, sync, gate, env>>

FlushStart ==
  /\ IF stopped THEN Work("flush", "top") /\ UNCHANGED started
                ELSE Work("flush", "lock") /\ started' = now
  /\ UNCHANGED <<world, inbox, known, hand, phase, stopped, ready, armed, pending, outcome, sync,
                 gate, env>>

\* Mutant: directories count as files.
BugListing == {d \in dirs : TRUE}

\* What a sync looks at: the scan of the disk and the tracked files.
Scan == {f \in File : disk[f] # 0 \/ index[f] # 0}

BeginSync(who) ==
  /\ lock = "free" /\ lock' = who
  /\ todo' = Scan /\ some' = (\E f \in File : disk[f] # 0)
  /\ UNCHANGED index
EndSync == lock' = "free" /\ todo' = {} /\ UNCHANGED <<index, some>>

SyncStart ==
  /\ Work("lock", "sync") /\ BeginSync("watcher")
  /\ UNCHANGED <<world, inbox, known, hand, phase, state, outcome, gate, env>>

LockBusy ==
  /\ Work("lock", "prune") /\ lock # "free" /\ outcome' = "lock"
  /\ UNCHANGED <<world, inbox, known, hand, phase, state, sync, gate, env>>

\* One file, whichever sync it is (the Index module has its steps).
SyncFile(f) ==
  /\ lock \in {"watcher", "catch-up"} /\ f \in todo
  /\ index' = [index EXCEPT ![f] = disk[f]] /\ todo' = todo \ {f}
  /\ UNCHANGED <<world, inbox, known, hand, phase, worker, state, outcome, lock, some, gate, env>>

\* A sync that found no file to check, in no time, looks like a busy lock.
SyncDone ==
  /\ Work("sync", "prune") /\ todo = {} /\ EndSync
  /\ outcome' \in (IF some THEN {"ok"} ELSE {"ok", "lock"})
  /\ UNCHANGED <<world, inbox, known, hand, phase, state, gate, env>>

SyncFails ==
  /\ Work("sync", "prune") /\ EndSync /\ outcome' = "error" /\ Fault
  /\ UNCHANGED <<world, inbox, known, hand, phase, state, gate, now>>

OpenFails ==
  /\ Work("lock", "prune") /\ outcome' = "error" /\ Fault
  /\ UNCHANGED <<world, inbox, known, hand, phase, state, sync, gate, now>>

\* Only entries that a successful sync is younger than go.
Prune ==
  /\ Work("prune", "finally")
  /\ pending' = [f \in File |-> IF outcome = "ok" /\ pending[f] <= started THEN 0 ELSE pending[f]]
  /\ UNCHANGED <<world, inbox, known, hand, phase, stopped, ready, armed, started, outcome, sync,
                 gate, env>>

\* Mutant: only a failed sync is tried again.
BugRetryFailed ==
  /\ Work("finally", "top") /\ armed' = (armed \/ (outcome = "error" /\ ~stopped))
  /\ UNCHANGED <<world, inbox, known, hand, phase, stopped, ready, pending, started, outcome,
                 sync, gate, env>>

FlushEnd ==
  /\ Work("finally", "top")
  /\ armed' = (armed \/ (pending # NonePending /\ ~stopped))
  /\ UNCHANGED <<world, inbox, known, hand, phase, stopped, ready, pending, started, outcome,
                 sync, gate, env>>

-----------------------------------------------------------------------------
(* The catch-up sync of the first tool call, and the other processes *)

CatchUpStart ==
  /\ phase = "on" /\ gate = "set" /\ gate' = "running" /\ BeginSync("catch-up")
  /\ UNCHANGED <<world, inbox, known, hand, phase, worker, state, outcome, env>>

CatchUpDone ==
  /\ gate = "running" /\ todo = {} /\ gate' = "done" /\ EndSync
  /\ UNCHANGED <<world, inbox, known, hand, phase, worker, state, outcome, env>>

\* The result of a sync that did not get the lock is taken for an empty one, and
\* one that fails is not made again.
CatchUpSkipped ==
  /\ phase = "on" /\ gate = "set" /\ lock # "free" /\ gate' = "missed"
  /\ UNCHANGED <<world, inbox, known, hand, phase, worker, state, outcome, sync, env>>

CatchUpFails ==
  /\ gate = "running" /\ gate' = "missed" /\ EndSync /\ Fault
  /\ UNCHANGED <<world, inbox, known, hand, phase, worker, state, outcome, now>>

OtherLocks ==
  /\ lock = "free" /\ lock' = "other" /\ Fault
  /\ UNCHANGED <<world, inbox, known, hand, phase, worker, state, outcome, index, todo, some,
                 gate, now>>

OtherUnlocks ==
  /\ lock = "other" /\ lock' = "free"
  /\ UNCHANGED <<world, inbox, known, hand, phase, worker, state, outcome, index, todo, some,
                 gate, env>>

Tick ==
  /\ now < MaxNow /\ now' = now + 1
  /\ UNCHANGED <<world, inbox, known, hand, phase, worker, state, outcome, sync, gate, faults>>

\* SystemTime is set back.
ClockJump ==
  /\ now > 1 /\ now' = 1 /\ Fault
  /\ UNCHANGED <<world, inbox, known, hand, phase, worker, state, outcome, sync, gate>>

-----------------------------------------------------------------------------
SetupStep == (\E d \in Dir : SetupWatch(d)) \/ SetupDone \/ SetupFails
LoopStep ==
  \/ Top \/ ReceiveStop \/ ReceiveIgnored \/ ListDir \/ Fire
  \/ \E f \in File : ReceiveFile(f) \/ ReceiveNewDir(f) \/ ReceiveOldDir(f)
FlushStep ==
  \/ FlushStart \/ SyncStart \/ LockBusy \/ SyncDone \/ Prune \/ FlushEnd
  \/ \E f \in File : SyncFile(f)
WorkerStep == SetupStep \/ LoopStep \/ FlushStep
HandleStep == StartDone \/ StartFails \/ SendStop \/ Join \/ CatchUpDone
CallerStep == Start \/ Stop \/ CatchUpStart
FaultStep == SyncFails \/ OpenFails \/ OtherLocks \/ ClockJump
Missed == CatchUpSkipped \/ CatchUpFails

Edit(f) == Write(f) \/ Delete(f) \/ MakeDir(f) \/ RemoveDir(f)

\* A directory that a watched one was replaced by stays unseen; what goes from a
\* directory before it is watched, or with it, is not reported and stays in the
\* index; a catch-up sync that is missed is not made up for.
Noticed(f) == f \in watches \/ ~ready
SeenEdit(f) ==
  \/ Write(f)
  \/ Delete(f) /\ Noticed(f)
  \/ MakeDir(f) /\ f \notin known
  \/ RemoveDir(f) /\ Noticed(f)

Common == WorkerStep \/ HandleStep \/ CallerStep \/ FaultStep \/ OtherUnlocks \/ Tick
Next == Common \/ Missed \/ \E f \in File : Edit(f)
SeenNext == Common \/ \E f \in File : SeenEdit(f)

Spec == Init /\ [][Next]_vars

\* Threads run, other holders of the lock let go, and the wall clock goes on.
Fairness ==
  WF_vars(WorkerStep) /\ WF_vars(HandleStep) /\ WF_vars(OtherUnlocks) /\ WF_vars(Tick)
SeenSpec == Init /\ [][SeenNext]_vars /\ Fairness

-----------------------------------------------------------------------------
(* Properties *)

\* Once the watcher is up and the catch-up sync was made (not missed), no change is
\* forgotten: a file that differs from the index is pending, or a message that
\* will make it pending is on its way (flush, handle_change, watch_tree).
Live == phase = "on" /\ gate = "done"
Coming(f) ==
  \/ \E i \in DOMAIN channel : channel[i] = About("file", f)
  \/ f \notin known /\ \E i \in DOMAIN channel : channel[i] = About("dir", f)
  \/ worker = "list" /\ hand = f
NoLostEdit == Live => \A f \in File : index[f] # disk[f] => pending[f] # 0 \/ Coming(f)

\* Once nothing changes any more the index catches up, whatever failed before,
\* and the stale-index notices go away (unless no file is left: SyncDone).
Fresh == index = disk
Settles == <>[](Live => Fresh /\ (pending = NonePending \/ disk = NonePending))

\* stop returns, whatever the worker was at: it waits for a sync in flight, and
\* wakes a worker that has no deadline.
StopReturns == phase = "stopping" ~> phase = "stopped"
=============================================================================
