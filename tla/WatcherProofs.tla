----------------------------- MODULE WatcherProofs -----------------------------
(* The watcher: no edit it could see is lost, with any number of files,      *)
(* edits, clock jumps and failed syncs.                                      *)
EXTENDS Watcher, TLAPS

Has(s, m) == \E i \in DOMAIN s : s[i] = m

\* What the worker lists is a directory with files.
Typed == TypeOK /\ (worker = "list" => hand \in File)

Looping == {"top", "wait", "list", "flush", "lock", "sync", "prune", "finally"}

\* The worker sees what happens in a directory it knows, and is told of the others.
WatchInv ==
  /\ Root \in dirs /\ \A f \in File : disk[f] # 0 => f \in dirs
  /\ worker \in Looping \cup {"setup"} => dirs \cap known \subseteq watches
  /\ watches \subseteq known
  /\ worker \in Looping => Root \in known
  /\ worker \in Looping /\ ~stopped => \A f \in dirs \ known : Has(channel, About("dir", f))
  /\ worker = "list" => hand \in known

\* Which thread is where, and whose sync runs.
ThreadInv ==
  /\ phase \in {"off", "starting"} => gate = "set"
  /\ phase \in {"off", "starting", "on"} => ~Has(channel, About("stop", Root))
  /\ worker = "none" => known = {}
  /\ phase = "off" <=> worker = "none"
  /\ phase \in {"starting", "on"} => ~stopped
  /\ phase = "on" => ready /\ worker \in Looping
  /\ gate = "running" => phase = "on"
  /\ gate = "running" <=> lock = "catch-up"
  /\ worker = "sync" <=> lock = "watcher"

\* A message is on its way that will make the file pending.
Told(f) ==
  \/ Has(channel, About("file", f))
  \/ disk[f] # 0 /\ f \notin known /\ Has(channel, About("dir", f))
  \/ disk[f] # 0 /\ worker = "list" /\ hand = f

CatchingUp(f) == gate = "running" /\ f \in todo

\* Every difference is pending, told of, or the catch-up sync's to read; a sync in
\* flight reads or has been told of all of them, so that pruning after it is safe.
EditInv(f) ==
  index[f] # disk[f] =>
    /\ Told(f) \/ CatchingUp(f) \/ pending[f] # 0
    /\ worker = "sync" => Told(f) \/ f \in todo
    /\ worker = "prune" /\ outcome = "ok" => Told(f) \/ CatchingUp(f)

LostInv == phase = "on" /\ gate \in {"running", "done"} => \A f \in File : EditInv(f)

-----------------------------------------------------------------------------
(* Messages                                                                  *)

\* A message about a file is a message.
LEMMA AboutIsMessage ==
  /\ \A f \in File : About("file", f) \in Message /\ About("dir", f) \in Message
  /\ About("stop", Root) \in Message
BY DEF About, Message

\* What is sent is added to what is there.
LEMMA Sent ==
  ASSUME NEW s \in Seq(Message), NEW t \in Seq(Message)
  PROVE  s \o t \in Seq(Message) /\ \A m : Has(s \o t, m) <=> Has(s, m) \/ Has(t, m)
<1>1. s \o t \in Seq(Message) /\ Len(s \o t) = Len(s) + Len(t)
  OBVIOUS
<1>2. \A i \in 1 .. Len(s) : (s \o t)[i] = s[i]
  OBVIOUS
<1>3. \A i \in 1 .. Len(t) : (s \o t)[Len(s) + i] = t[i]
  OBVIOUS
<1>4. ASSUME NEW m, Has(s, m) \/ Has(t, m)
      PROVE  Has(s \o t, m)
  <2>1. CASE Has(s, m)
    BY <1>1, <1>2, <2>1 DEF Has
  <2>2. CASE Has(t, m)
    <3>1. PICK i \in 1 .. Len(t) : t[i] = m
      BY <2>2 DEF Has
    <3>2. Len(s) + i \in 1 .. Len(s \o t)
      BY <1>1, <3>1
    <3> QED BY <1>1, <1>3, <3>1, <3>2 DEF Has
  <2> QED BY <1>4, <2>1, <2>2
<1>5. ASSUME NEW m, Has(s \o t, m)
      PROVE  Has(s, m) \/ Has(t, m)
  <2>1. PICK i \in 1 .. Len(s \o t) : (s \o t)[i] = m
    BY <1>1, <1>5 DEF Has
  <2>2. CASE i \in 1 .. Len(s)
    BY <1>2, <2>1, <2>2 DEF Has
  <2>3. CASE i \notin 1 .. Len(s)
    <3>1. i - Len(s) \in 1 .. Len(t) /\ Len(s) + (i - Len(s)) = i
      BY <1>1, <2>1, <2>3
    <3> QED BY <1>3, <2>1, <3>1 DEF Has
  <2> QED BY <2>2, <2>3
<1> QED BY <1>1, <1>4, <1>5

\* What is received was the first, and the rest stays.
LEMMA Received ==
  ASSUME NEW s \in Seq(Message), s # <<>>
  PROVE  /\ Head(s) \in Message /\ Tail(s) \in Seq(Message) /\ Has(s, Head(s))
         /\ \A m : Has(s, m) <=> m = Head(s) \/ Has(Tail(s), m)
<1>1. /\ Tail(s) \in Seq(Message) /\ Len(Tail(s)) = Len(s) - 1 /\ Len(s) \in Nat \ {0}
      /\ \A i \in 1 .. Len(s) - 1 : Tail(s)[i] = s[i + 1]
      /\ Head(s) = s[1] /\ Head(s) \in Message
  OBVIOUS
<1>2. ASSUME NEW m, Has(s, m), m # Head(s)
      PROVE  Has(Tail(s), m)
  <2>1. PICK i \in 1 .. Len(s) : s[i] = m
    BY <1>2 DEF Has
  <2>2. i - 1 \in 1 .. Len(s) - 1 /\ (i - 1) + 1 = i
    BY <1>1, <1>2, <2>1
  <2>3. Tail(s)[i - 1] = m
    BY <1>1, <2>1, <2>2
  <2>4. i - 1 \in DOMAIN Tail(s)
    BY <1>1, <2>2
  <2> QED BY <2>3, <2>4 DEF Has
<1>3. ASSUME NEW m, Has(Tail(s), m)
      PROVE  Has(s, m)
  <2>1. PICK i \in 1 .. Len(s) - 1 : s[i + 1] = m
    BY <1>1, <1>3 DEF Has
  <2> QED BY <1>1, <2>1 DEF Has
<1>4. Has(s, Head(s))
  BY <1>1 DEF Has
<1> QED BY <1>1, <1>2, <1>3, <1>4

\* A change is reported where somebody watches.
LEMMA ReportedIs ==
  ASSUME NEW d, NEW m \in Message
  PROVE  /\ Reported(d, m) \in Seq(Message)
         /\ \A x : Has(Reported(d, m), x) <=> d \in watches /\ x = m
BY DEF Reported, Has

\* The empty channel holds none.
LEMMA NothingIs == <<>> \in Seq(Message) /\ \A m : ~Has(<<>>, m)
BY DEF Has

-----------------------------------------------------------------------------
(* Types                                                                     *)

\* Edits keep the types.
LEMMA EditTyped ==
  ASSUME TypeOK, NEW f \in File, Edit(f)
  PROVE  TypeOK'
<1> USE DEF world, inbox, state, sync, env
<1>1. ASSUME NEW content \in Content, Change(f, content)
      PROVE  disk' \in [File -> Content] /\ edits' \in 0..MaxEdit
  BY <1>1, WatcherAssumption DEF TypeOK, Change, WatcherAssumption
<1>2. 0 \in Content /\ (edits < MaxEdit => edits + 2 \in Content)
  BY WatcherAssumption DEF TypeOK, Content, WatcherAssumption
<1>3. /\ Reported(f, About("file", f)) \in Seq(Message) /\ Reported(Root, About("dir", f)) \in Seq(Message)
      /\ <<>> \in Seq(Message)
  BY AboutIsMessage, ReportedIs
<1>4. CASE Write(f)
  <2>1. channel' \in Seq(Message)
    BY <1>3, <1>4, Sent DEF TypeOK, Write
  <2>2. disk' \in [File -> Content] /\ edits' \in 0..MaxEdit
    BY <1>1, <1>2, <1>4 DEF Write, Change
  <2> QED BY <1>4, <2>1, <2>2 DEF Write, Change, TypeOK
<1>5. CASE Delete(f)
  <2>1. channel' \in Seq(Message)
    BY <1>3, <1>5, Sent DEF TypeOK, Delete
  <2>2. disk' \in [File -> Content] /\ edits' \in 0..MaxEdit
    BY <1>1, <1>2, <1>5 DEF Delete
  <2> QED BY <1>5, <2>1, <2>2 DEF Delete, Change, TypeOK
<1>6. CASE MakeDir(f)
  <2>1. channel' \in Seq(Message)
    BY <1>3, <1>6, Sent DEF TypeOK, MakeDir
  <2>2. disk' \in [File -> Content] /\ edits' \in 0..MaxEdit
    BY <1>1, <1>2, <1>6 DEF MakeDir
  <2> QED BY <1>6, <2>1, <2>2 DEF MakeDir, Change, TypeOK, Dir
<1>7. CASE RemoveDir(f)
  <2>1. channel' \in Seq(Message)
    BY <1>3, <1>7, Sent DEF TypeOK, RemoveDir
  <2>2. disk' \in [File -> Content] /\ edits' \in 0..MaxEdit
    BY <1>1, <1>2, <1>7 DEF RemoveDir
  <2> QED BY <1>7, <2>1, <2>2 DEF RemoveDir, Change, TypeOK
<1> QED BY <1>4, <1>5, <1>6, <1>7 DEF Edit

\* So does the end of the watcher.
LEMMA ExitTyped ==
  ASSUME TypeOK, Exit
  PROVE  worker' \in WorkerSteps /\ watches' \subseteq Dir /\ channel' \in Seq(Message)
BY NothingIs DEF Exit, WorkerSteps

\* So does setting up the watches.
LEMMA SetupTyped ==
  ASSUME TypeOK, SetupStep
  PROVE  TypeOK'
<1> USE DEF world, inbox, state, sync, env
<1>1. ASSUME NEW d \in Dir, SetupWatch(d)
      PROVE  TypeOK'
  BY <1>1 DEF SetupWatch, TypeOK, Dir
<1>2. CASE SetupDone
  BY <1>2 DEF SetupDone, Work, TypeOK, WorkerSteps
<1>3. CASE SetupFails
  BY <1>3, ExitTyped DEF SetupFails, TypeOK
<1> QED BY <1>1, <1>2, <1>3 DEF SetupStep

\* So does taking a message.
LEMMA HandleTyped ==
  ASSUME TypeOK, HandleStep \/ CallerStep \/ Missed
  PROVE  TypeOK'
<1> USE DEF world, inbox, state, sync, env
<1>1. NonePending \in [File -> 0..MaxNow]
  BY WatcherAssumption DEF NonePending, WatcherAssumption
<1>2. CASE Start
  BY <1>2 DEF Start, Work, TypeOK, WorkerSteps
<1>3. CASE StartDone
  BY <1>1, <1>3 DEF StartDone, TypeOK
<1>4. CASE StartFails
  BY <1>1, <1>4 DEF StartFails, StopState, TypeOK
<1>5. CASE Stop
  BY <1>1, <1>5 DEF Stop, StopState, TypeOK
<1>6. CASE SendStop
  <2>1. channel' \in Seq(Message)
    BY <1>6, AboutIsMessage DEF SendStop, TypeOK
  <2> QED BY <1>6, <2>1 DEF SendStop, TypeOK
<1>7. CASE Join
  BY <1>7 DEF Join, TypeOK
<1>8. CASE CatchUpStart
  BY <1>8 DEF CatchUpStart, BeginSync, Scan, TypeOK
<1>9. CASE CatchUpDone
  BY <1>9 DEF CatchUpDone, EndSync, TypeOK
<1>10. CASE Missed
  BY <1>10, WatcherAssumption DEF Missed, CatchUpSkipped, CatchUpFails, EndSync, Fault, TypeOK, WatcherAssumption
<1> QED BY <1>2, <1>3, <1>4, <1>5, <1>6, <1>7, <1>8, <1>9, <1>10 DEF HandleStep, CallerStep

\* So does a message about a change.
LEMMA HandleChangeTyped ==
  ASSUME TypeOK, NEW f \in File, HandleChange(f)
  PROVE  pending' \in [File -> 0..MaxNow] /\ armed' \in BOOLEAN /\ UNCHANGED <<stopped, ready, started>>
<1>1. now \in 0..MaxNow
  BY WatcherAssumption DEF TypeOK, WatcherAssumption
<1> QED BY <1>1 DEF HandleChange, TypeOK

\* So does the loop around it.
LEMMA LoopTyped ==
  ASSUME Typed, LoopStep
  PROVE  TypeOK'
<1> USE DEF world, inbox, state, sync, env, WorkerSteps, Typed
<1>1. CASE Top
  BY <1>1, ExitTyped DEF Top, TypeOK
<1>2. CASE ReceiveStop
  BY <1>2, ExitTyped DEF ReceiveStop, TypeOK
<1>3. ASSUME NEW m, Receive(m)
      PROVE  channel' \in Seq(Message)
  BY <1>3, Received DEF Receive, TypeOK
<1>4. CASE ReceiveIgnored
  BY <1>3, <1>4 DEF ReceiveIgnored, Receive, TypeOK
<1>5. CASE ListDir
  <2>1. hand' = Root /\ hand' \in Dir
    BY <1>5 DEF ListDir, Dir
  <2>2. CASE disk[hand] # 0
    BY <1>5, <2>1, <2>2, HandleChangeTyped DEF ListDir, Work, TypeOK
  <2>3. CASE disk[hand] = 0
    BY <1>5, <2>1, <2>3 DEF ListDir, Work, TypeOK
  <2> QED BY <2>2, <2>3
<1>6. CASE Fire
  BY <1>6 DEF Fire, Work, TypeOK
<1>7. ASSUME NEW f \in File, ReceiveFile(f)
      PROVE  TypeOK'
  BY <1>3, <1>7, HandleChangeTyped DEF ReceiveFile, Receive, TypeOK
<1>8. ASSUME NEW f \in File, ReceiveNewDir(f)
      PROVE  TypeOK'
  BY <1>3, <1>8 DEF ReceiveNewDir, Receive, TypeOK, Dir
<1>9. ASSUME NEW f \in File, ReceiveOldDir(f)
      PROVE  TypeOK'
  BY <1>3, <1>9 DEF ReceiveOldDir, Receive, TypeOK
<1> QED BY <1>1, <1>2, <1>4, <1>5, <1>6, <1>7, <1>8, <1>9 DEF LoopStep

\* So does a sync of what is pending.
LEMMA FlushTyped ==
  ASSUME TypeOK, FlushStep
  PROVE  TypeOK'
<1> USE DEF world, inbox, state, sync, env, WorkerSteps
<1>1. CASE FlushStart
  BY <1>1, WatcherAssumption DEF FlushStart, Work, TypeOK, WatcherAssumption
<1>2. CASE SyncStart
  BY <1>2 DEF SyncStart, Work, BeginSync, Scan, TypeOK
<1>3. CASE LockBusy
  BY <1>3 DEF LockBusy, Work, TypeOK
<1>4. CASE SyncDone
  BY <1>4 DEF SyncDone, Work, EndSync, TypeOK
<1>5. CASE Prune
  BY <1>5, WatcherAssumption DEF Prune, Work, TypeOK, WatcherAssumption
<1>6. CASE FlushEnd
  <2>1. \E b \in BOOLEAN : armed' = b
    BY <1>6 DEF FlushEnd
  <2> QED BY <1>6, <2>1 DEF FlushEnd, Work, TypeOK
<1>7. ASSUME NEW f \in File, SyncFile(f)
      PROVE  TypeOK'
  BY <1>7 DEF SyncFile, TypeOK
<1> QED BY <1>1, <1>2, <1>3, <1>4, <1>5, <1>6, <1>7 DEF FlushStep

\* So do the other steps.
LEMMA RestTyped ==
  ASSUME TypeOK, FaultStep \/ OtherUnlocks \/ Tick
  PROVE  TypeOK'
<1> USE DEF world, inbox, state, sync, env, WorkerSteps
<1>1. ASSUME Fault
      PROVE  faults' \in 0..MaxFault
  BY <1>1, WatcherAssumption DEF Fault, TypeOK, WatcherAssumption
<1>2. CASE SyncFails
  BY <1>1, <1>2 DEF SyncFails, Work, EndSync, TypeOK
<1>3. CASE OpenFails
  BY <1>1, <1>3 DEF OpenFails, Work, TypeOK
<1>4. CASE OtherLocks
  BY <1>1, <1>4 DEF OtherLocks, TypeOK
<1>5. CASE ClockJump
  BY <1>1, <1>5, WatcherAssumption DEF ClockJump, TypeOK, WatcherAssumption
<1>6. CASE OtherUnlocks
  BY <1>6 DEF OtherUnlocks, TypeOK
<1>7. CASE Tick
  BY <1>7, WatcherAssumption DEF Tick, TypeOK, WatcherAssumption
<1> QED BY <1>2, <1>3, <1>4, <1>5, <1>6, <1>7 DEF FaultStep

\* The steps of the handle's thread, of callers and of others that leave the
\* worker where it is.
LEMMA WorkerStays ==
  ASSUME \/ HandleStep \/ Stop \/ CatchUpStart \/ Missed \/ OtherLocks \/ OtherUnlocks
         \/ Tick \/ ClockJump \/ \E f \in File : Edit(f)
  PROVE  UNCHANGED <<worker, hand, known>>
BY DEF HandleStep, StartDone, StartFails, SendStop, Join, CatchUpDone, Stop, CatchUpStart, Missed,
       CatchUpSkipped, CatchUpFails, OtherLocks, OtherUnlocks, Tick, ClockJump, Edit, Change,
       Write, Delete, MakeDir, RemoveDir

\* A directory that is being listed is a path.
LEMMA HandNext ==
  ASSUME Typed, [Next]_vars
  PROVE  (worker = "list" => hand \in File)'
<1> USE DEF Typed, Work
<1>1. CASE SetupStep \/ Start \/ SyncFails \/ OpenFails \/ FlushStep
  BY <1>1 DEF SetupStep, SetupWatch, SetupDone, SetupFails, Exit, Start, SyncFails, OpenFails, FlushStep,
              FlushStart, SyncStart, LockBusy, SyncDone, Prune, FlushEnd, SyncFile
<1>2. CASE LoopStep
  BY <1>2 DEF LoopStep, Top, Exit, ReceiveStop, ReceiveIgnored, ListDir, Fire, ReceiveFile,
              ReceiveNewDir, ReceiveOldDir
<1>3. CASE UNCHANGED vars
  BY <1>3 DEF vars
<1>4. CASE UNCHANGED <<worker, hand, known>>
  BY <1>4
<1> QED
  BY <1>1, <1>2, <1>3, <1>4, WorkerStays DEF Next, Common, WorkerStep, CallerStep, FaultStep

\* The watcher starts typed.
LEMMA TypedInit == Init => Typed
<1> SUFFICES ASSUME Init
             PROVE  Typed
  OBVIOUS
<1>1. {0, 1} \subseteq Content /\ 0 \in 0..MaxEdit /\ 0 \in 0..MaxNow /\ 1 \in 1..MaxNow /\ 0 \in 0..MaxFault
  BY WatcherAssumption DEF Content, WatcherAssumption
<1>2. disk \in [File -> Content] /\ index \in [File -> Content] /\ pending \in [File -> 0..MaxNow]
  BY <1>1 DEF Init, NonePending
<1>3. dirs \subseteq Dir /\ hand \in Dir
  BY DEF Init, Dir
<1> QED BY <1>1, <1>2, <1>3, NothingIs DEF Init, Typed, TypeOK, WorkerSteps

\* Together: every step keeps the types.
LEMMA TypedNext == Typed /\ [Next]_vars => Typed'
<1> SUFFICES ASSUME Typed, [Next]_vars
             PROVE  TypeOK'
  BY HandNext DEF Typed
<1>1. TypeOK
  BY DEF Typed
<1>2. CASE UNCHANGED vars
  BY <1>1, <1>2 DEF vars, world, inbox, state, sync, env, TypeOK
<1>3. CASE Next
  BY <1>1, <1>3, EditTyped, SetupTyped, HandleTyped, LoopTyped, FlushTyped, RestTyped
     DEF Next, Common, WorkerStep
<1> QED BY <1>2, <1>3

\* The steps of SeenSpec are steps of the watcher.
LEMMA SeenIsNext == [SeenNext]_vars => [Next]_vars
BY DEF SeenNext, SeenEdit, Next, Edit

\* Every value stays in its range, whatever is edited, fails or comes late.
THEOREM TypesHold == Spec => []TypeOK
<1>1. Typed => TypeOK
  BY DEF Typed
<1> QED BY <1>1, TypedInit, TypedNext, PTL DEF Spec

-----------------------------------------------------------------------------
(* What the worker sees and where the threads are                            *)

Safe == Typed /\ WatchInv /\ ThreadInv

\* An edit adds messages about its own file or directory and takes none away.
LEMMA EditSends ==
  ASSUME TypeOK, NEW f \in File, Edit(f)
  PROVE  /\ \A m : Has(channel, m) => Has(channel', m)
         /\ ~Has(channel, About("stop", Root)) => ~Has(channel', About("stop", Root))
         /\ (Write(f) \/ Delete(f) \/ (RemoveDir(f) /\ disk[f] # 0)) /\ f \in watches
              => Has(channel', About("file", f))
         /\ MakeDir(f) /\ Root \in watches => Has(channel', About("dir", f))
<1> DEFINE fileMsg == Reported(f, About("file", f))
           dirMsg == Reported(Root, About("dir", f))
           some1 == IF disk[f] # 0 THEN fileMsg ELSE <<>>
<1>1. /\ fileMsg \in Seq(Message) /\ dirMsg \in Seq(Message) /\ some1 \in Seq(Message)
      /\ \A m : Has(fileMsg, m) <=> f \in watches /\ m = About("file", f)
      /\ \A m : Has(dirMsg, m) <=> Root \in watches /\ m = About("dir", f)
      /\ \A m : Has(some1, m) <=> disk[f] # 0 /\ f \in watches /\ m = About("file", f)
  BY AboutIsMessage, ReportedIs, NothingIs
<1>2. \/ (Write(f) \/ Delete(f)) /\ channel' = channel \o fileMsg
      \/ MakeDir(f) /\ channel' = channel \o dirMsg
      \/ RemoveDir(f) /\ channel' = (channel \o some1) \o dirMsg
  BY DEF Edit, Write, Delete, MakeDir, RemoveDir
<1>3. channel \in Seq(Message)
  BY DEF TypeOK
<1>4. About("stop", Root) \notin {About("file", f), About("dir", f)}
  BY DEF About
<1>5. /\ Write(f) \/ Delete(f) => channel' = channel \o fileMsg
      /\ MakeDir(f) => channel' = channel \o dirMsg
      /\ RemoveDir(f) => channel' = (channel \o some1) \o dirMsg
  BY DEF Write, Delete, MakeDir, RemoveDir
<1> HIDE DEF fileMsg, dirMsg, some1
<1>6. \A m : /\ Has(channel \o fileMsg, m) <=> Has(channel, m) \/ Has(fileMsg, m)
             /\ Has(channel \o dirMsg, m) <=> Has(channel, m) \/ Has(dirMsg, m)
             /\ Has((channel \o some1) \o dirMsg, m) <=> Has(channel, m) \/ Has(some1, m) \/ Has(dirMsg, m)
  BY <1>1, <1>3, Sent
<1>7. \A m : Has(channel, m) => Has(channel', m)
  BY <1>2, <1>6
<1>8. Has(channel', About("stop", Root)) => Has(channel, About("stop", Root))
  BY <1>1, <1>2, <1>4, <1>6
<1>9. /\ (Write(f) \/ Delete(f)) /\ f \in watches => Has(channel', About("file", f))
      /\ RemoveDir(f) /\ disk[f] # 0 /\ f \in watches => Has(channel', About("file", f))
      /\ MakeDir(f) /\ Root \in watches => Has(channel', About("dir", f))
  BY <1>1, <1>5, <1>6
<1> QED BY <1>7, <1>8, <1>9

\* A step that only moves the worker on inside its loop.
LEMMA WatchKept ==
  ASSUME WatchInv, UNCHANGED <<disk, dirs, watches, known, channel, hand>>,
         worker' \in Looping => worker \in Looping,
         worker' = "setup" => worker = "setup",
         worker' = "list" => worker = "list",
         worker' \in Looping /\ ~stopped' => ~stopped
  PROVE  WatchInv'
BY DEF WatchInv

\* A directory that is made is told of, if its parent is watched.
LEMMA WatchEdit ==
  ASSUME Safe, NEW f \in File, SeenEdit(f)
  PROVE  WatchInv'
<1>1. /\ UNCHANGED <<worker, known, hand, stopped>>
      /\ \A m : Has(channel, m) => Has(channel', m)
      /\ MakeDir(f) /\ Root \in watches => Has(channel', About("dir", f))
  BY EditSends DEF SeenEdit, Edit, Write, Delete, MakeDir, RemoveDir, Change, Safe, Typed, state
<1>2. f # Root /\ disk \in [File -> Content]
  BY WatcherAssumption DEF WatcherAssumption, Safe, Typed, TypeOK
<1>3. CASE Write(f) \/ Delete(f)
  <2>1. dirs' = dirs /\ watches' = watches
    BY <1>3 DEF Write, Delete
  <2>2. \A g \in File : disk'[g] # 0 => g \in dirs
    BY <1>2, <1>3 DEF Write, Delete, Change, Safe, WatchInv
  <2> QED BY <1>1, <2>1, <2>2 DEF Safe, WatchInv
<1>4. CASE MakeDir(f) /\ f \notin known
  <2>1. dirs' = dirs \cup {f} /\ watches' = watches
    BY <1>4 DEF MakeDir
  <2>2. \A g \in File : disk'[g] # 0 => g \in dirs'
    BY <1>2, <1>4, <2>1 DEF MakeDir, Change, Safe, WatchInv
  <2>3. worker \in Looping => Has(channel', About("dir", f))
    BY <1>1, <1>4 DEF Safe, WatchInv
  <2> QED BY <1>1, <1>4, <2>1, <2>2, <2>3 DEF Safe, WatchInv
<1>5. CASE RemoveDir(f)
  <2>1. dirs' = dirs \ {f} /\ watches' = watches \ {f}
    BY <1>5 DEF RemoveDir
  <2>2. \A g \in File : disk'[g] # 0 => g \in dirs'
    BY <1>2, <1>5, <2>1 DEF RemoveDir, Change, Safe, WatchInv
  <2> QED BY <1>1, <1>2, <2>1, <2>2 DEF Safe, WatchInv
<1> QED BY <1>3, <1>4, <1>5 DEF SeenEdit

\* The worker starts to loop with every directory watched.
LEMMA WatchSetup ==
  ASSUME Safe, SetupStep \/ Start
  PROVE  WatchInv'
<1> USE DEF world, inbox, state, Work, Looping
<1>1. ASSUME NEW d \in Dir, SetupWatch(d)
      PROVE  WatchInv'
  BY <1>1 DEF SetupWatch, Safe, WatchInv
<1>2. CASE SetupDone
  <2>1. ASSUME NEW f \in dirs \ known
        PROVE  Has(channel, About("dir", f))
    BY <1>2 DEF SetupDone, Has
  <2> QED BY <1>2, <2>1 DEF SetupDone, Safe, WatchInv
<1>3. CASE SetupFails
  BY <1>3 DEF SetupFails, Exit, Safe, WatchInv
<1>4. CASE Start
  BY <1>4 DEF Start, Safe, WatchInv, ThreadInv
<1> QED BY <1>1, <1>2, <1>3, <1>4 DEF SetupStep

\* A message that is received is gone; the others are still there.
LEMMA ReceiveTakes ==
  ASSUME TypeOK, NEW m, Receive(m)
  PROVE  /\ m \in Message /\ Has(channel, m) /\ worker = "wait"
         /\ \A x : Has(channel, x) <=> x = m \/ Has(channel', x)
BY Received DEF Receive, TypeOK

\* The loop watches a directory before it lists it.
LEMMA WatchLoop ==
  ASSUME Safe, LoopStep
  PROVE  WatchInv'
<1> USE DEF world, inbox, state, Work, Looping
<1>1. CASE Top
  BY <1>1, WatchKept DEF Top, Exit, Safe, WatchInv
<1>2. CASE ReceiveStop
  BY <1>2 DEF ReceiveStop, Exit, Safe, WatchInv
<1>3. CASE ReceiveIgnored
  BY <1>3 DEF ReceiveIgnored, Receive, Safe, WatchInv
<1>4. CASE ListDir
  <2>1. UNCHANGED stopped /\ UNCHANGED <<disk, dirs, watches, known, channel>> /\ worker = "list" /\ worker' = "top"
    BY <1>4 DEF ListDir, HandleChange
  <2> QED BY <2>1 DEF Safe, WatchInv
<1>5. CASE Fire
  BY <1>5, WatchKept DEF Fire, Safe
<1>6. ASSUME NEW f \in File, ReceiveFile(f)
      PROVE  WatchInv'
  <2>1. /\ UNCHANGED <<stopped, disk, dirs, watches, known>> /\ worker = "wait" /\ worker' = "top"
        /\ \A x : Has(channel, x) /\ x.kind = "dir" => Has(channel', x)
    BY <1>6, ReceiveTakes DEF ReceiveFile, Receive, HandleChange, About, Safe, Typed
  <2>2. \A d : About("dir", d).kind = "dir"
    BY DEF About
  <2> QED BY <2>1, <2>2 DEF Safe, WatchInv
<1>7. ASSUME NEW f \in File, ReceiveNewDir(f)
      PROVE  WatchInv'
  <2>1. /\ UNCHANGED <<stopped, disk, dirs>> /\ worker = "wait" /\ worker' = "list" /\ hand' = f
        /\ known' = known \cup {f} /\ watches' = watches \cup {f}
        /\ \A x : Has(channel, x) /\ x # About("dir", f) => Has(channel', x)
    BY <1>7, ReceiveTakes DEF ReceiveNewDir, Receive, Safe, Typed
  <2>2. \A d : d # f => About("dir", d) # About("dir", f)
    BY DEF About
  <2> QED BY <2>1, <2>2 DEF Safe, WatchInv
<1>8. ASSUME NEW f \in File, ReceiveOldDir(f)
      PROVE  WatchInv'
  <2>1. /\ UNCHANGED <<stopped, disk, dirs, known, watches>> /\ worker = "wait" /\ worker' = "top"
        /\ f \notin dirs \ known
        /\ \A x : Has(channel, x) /\ x # About("dir", f) => Has(channel', x)
    BY <1>8, ReceiveTakes DEF ReceiveOldDir, Receive, Safe, Typed
  <2>2. \A d : d # f => About("dir", d) # About("dir", f)
    BY DEF About
  <2> QED BY <2>1, <2>2 DEF Safe, WatchInv
<1> QED BY <1>1, <1>2, <1>3, <1>4, <1>5, <1>6, <1>7, <1>8 DEF LoopStep

\* The other steps leave the watches alone.
LEMMA WatchRest ==
  ASSUME Safe, \/ FlushStep \/ HandleStep \/ Stop \/ CatchUpStart \/ FaultStep
               \/ OtherUnlocks \/ Tick
  PROVE  WatchInv'
<1> USE DEF world, inbox, state, Work, Looping
<1>1. CASE FlushStep
  BY <1>1, WatchKept DEF FlushStep, FlushStart, SyncStart, LockBusy, SyncDone, Prune, FlushEnd, SyncFile, Safe
<1>2. CASE FaultStep \/ OtherUnlocks \/ Tick \/ CatchUpStart
  BY <1>2, WatchKept DEF FaultStep, SyncFails, OpenFails, OtherLocks, ClockJump, OtherUnlocks, Tick,
                         CatchUpStart, Safe
<1>3. CASE StartDone \/ StartFails \/ Stop \/ Join \/ CatchUpDone
  BY <1>3, WatchKept DEF StartDone, StartFails, Stop, StopState, Join, CatchUpDone, Safe
<1>4. CASE SendStop
  <2>1. /\ UNCHANGED <<disk, dirs, watches, known, hand, worker, stopped>>
        /\ channel' = channel \/ channel' = channel \o <<About("stop", Root)>>
    BY <1>4 DEF SendStop, Safe, Typed, TypeOK
  <2>2. \A m : Has(channel, m) => Has(channel', m)
    <3>1. channel \in Seq(Message) /\ <<About("stop", Root)>> \in Seq(Message)
      BY AboutIsMessage DEF Safe, Typed, TypeOK
    <3> QED BY <2>1, <3>1, Sent
  <2> QED BY <2>1, <2>2 DEF Safe, WatchInv
<1> QED BY <1>1, <1>2, <1>3, <1>4 DEF HandleStep

\* The threads' places follow from each other.
LEMMA ThreadNext ==
  ASSUME Safe, [SeenNext]_vars
  PROVE  ThreadInv'
<1> USE DEF world, inbox, state, sync, Work, Looping
<1>1. CASE UNCHANGED vars
  BY <1>1 DEF vars, Safe, ThreadInv
<1>2. ASSUME NEW f \in File, SeenEdit(f)
      PROVE  ThreadInv'
  <2>1. UNCHANGED <<phase, gate, worker, known, stopped, ready, lock>>
    BY <1>2 DEF SeenEdit, Write, Delete, MakeDir, RemoveDir, Change
  <2>2. ~Has(channel, About("stop", Root)) => ~Has(channel', About("stop", Root))
    BY <1>2, EditSends DEF SeenEdit, Edit, Safe, Typed
  <2> QED BY <2>1, <2>2 DEF Safe, ThreadInv
<1>3. CASE SetupStep
  BY <1>3, NothingIs DEF SetupStep, SetupWatch, SetupDone, SetupFails, Exit, Safe, ThreadInv
<1>4. CASE LoopStep
  <2>1. ASSUME NEW m, Receive(m), worker' \in {"top", "list"}, UNCHANGED <<stopped, ready>>
        PROVE  ThreadInv'
    <3>1. UNCHANGED <<phase, gate, lock>> /\ worker = "wait"
      BY <2>1 DEF Receive
    <3>2. ~Has(channel, About("stop", Root)) => ~Has(channel', About("stop", Root))
      BY <2>1, ReceiveTakes DEF Safe, Typed
    <3> QED BY <2>1, <3>1, <3>2 DEF Safe, ThreadInv
  <2>2. CASE Top
    BY <2>2, NothingIs DEF Top, Exit, Safe, ThreadInv
  <2>3. CASE ReceiveStop
    <3>1. Has(channel, About("stop", Root))
      <4>1. Head(channel) \in Message /\ Has(channel, Head(channel)) /\ Head(channel).kind = "stop"
        BY <2>3, Received DEF ReceiveStop, Safe, Typed, TypeOK
      <4>2. Head(channel) = About("stop", Root)
        BY <4>1 DEF Message, About
      <4> QED BY <4>1, <4>2
    <3> QED BY <2>3, <3>1, NothingIs DEF ReceiveStop, Exit, Safe, ThreadInv
  <2>4. CASE ListDir \/ Fire
    BY <2>4 DEF ListDir, Fire, HandleChange, Safe, ThreadInv
  <2>5. CASE ReceiveIgnored
    BY <2>1, <2>5 DEF ReceiveIgnored
  <2>6. ASSUME NEW f \in File, ReceiveFile(f) \/ ReceiveNewDir(f) \/ ReceiveOldDir(f)
        PROVE  ThreadInv'
    BY <2>1, <2>6 DEF ReceiveFile, ReceiveNewDir, ReceiveOldDir, HandleChange
  <2> QED BY <1>4, <2>2, <2>3, <2>4, <2>5, <2>6 DEF LoopStep
<1>5. CASE FlushStep
  <2>1. CASE SyncStart
    BY <2>1 DEF SyncStart, BeginSync, Safe, ThreadInv
  <2>2. CASE SyncDone
    BY <2>2 DEF SyncDone, EndSync, Safe, ThreadInv
  <2>3. CASE FlushStart \/ LockBusy \/ Prune \/ FlushEnd
    BY <2>3 DEF FlushStart, LockBusy, Prune, FlushEnd, Safe, ThreadInv
  <2>4. ASSUME NEW f \in File, SyncFile(f)
        PROVE  ThreadInv'
    BY <2>4 DEF SyncFile, Safe, ThreadInv
  <2> QED BY <1>5, <2>1, <2>2, <2>3, <2>4 DEF FlushStep
<1>6. CASE Start \/ StartDone \/ StartFails \/ Stop \/ Join
  <2>1. CASE Start
    BY <2>1 DEF Start, Safe, ThreadInv
  <2>2. CASE StartDone
    BY <2>2 DEF StartDone, Safe, Typed, TypeOK, WorkerSteps, ThreadInv
  <2>3. CASE StartFails \/ Stop \/ Join
    BY <2>3 DEF StartFails, Stop, StopState, Join, Safe, ThreadInv
  <2> QED BY <1>6, <2>1, <2>2, <2>3
<1>7. CASE SendStop
  BY <1>7 DEF SendStop, Safe, ThreadInv
<1>8. CASE CatchUpStart \/ CatchUpDone
  <2>1. CASE CatchUpStart
    BY <2>1 DEF CatchUpStart, BeginSync, Safe, ThreadInv
  <2>2. CASE CatchUpDone
    BY <2>2 DEF CatchUpDone, EndSync, Safe, ThreadInv
  <2> QED BY <1>8, <2>1, <2>2
<1>9. CASE FaultStep \/ OtherUnlocks \/ Tick
  <2>1. CASE SyncFails
    BY <2>1 DEF SyncFails, EndSync, Safe, ThreadInv
  <2>2. CASE OpenFails
    BY <2>2 DEF OpenFails, Safe, ThreadInv
  <2>3. CASE OtherLocks \/ OtherUnlocks
    BY <2>3 DEF OtherLocks, OtherUnlocks, Safe, ThreadInv
  <2>4. CASE ClockJump \/ Tick
    BY <2>4 DEF ClockJump, Tick, Safe, ThreadInv
  <2> QED BY <1>9, <2>1, <2>2, <2>3, <2>4 DEF FaultStep
<1> QED
  BY <1>1, <1>2, <1>3, <1>4, <1>5, <1>6, <1>7, <1>8, <1>9
     DEF SeenNext, Common, WorkerStep, HandleStep, CallerStep

\* Together: types, threads and watches.
LEMMA SafeNext == Safe /\ [SeenNext]_vars => Safe'
<1> SUFFICES ASSUME Safe, [SeenNext]_vars
             PROVE  WatchInv'
  BY TypedNext, SeenIsNext, ThreadNext DEF Safe
<1>1. CASE UNCHANGED vars
  BY <1>1 DEF vars, world, inbox, state, Safe, WatchInv
<1>2. CASE SeenNext
  BY <1>2, WatchEdit, WatchSetup, WatchLoop, WatchRest DEF SeenNext, Common, WorkerStep, CallerStep
<1> QED BY <1>1, <1>2

\* They hold at first.
LEMMA SafeInit == Init => Safe
BY TypedInit, NothingIs DEF Init, Safe, WatchInv, ThreadInv, Looping

-----------------------------------------------------------------------------
(* No edit is lost                                                           *)

Up == phase = "on" /\ gate \in {"running", "done"}

\* What a running catch-up sync and a running debounced sync exclude.
LEMMA UpMeans ==
  ASSUME Safe, Up
  PROVE  /\ ready /\ ~stopped /\ worker \in Looping
         /\ worker = "sync" => gate # "running"
         /\ \A f \in File : f \in dirs \/ disk[f] = 0
BY DEF Safe, Up, ThreadInv, WatchInv

\* A file that a step leaves alone, as long as no message about it goes.
LEMMA EditKept ==
  ASSUME NEW f \in File, EditInv(f), index'[f] = index[f], disk'[f] = disk[f],
         UNCHANGED <<worker, hand, outcome, gate, todo>>, pending'[f] = pending[f],
         f \in known' <=> f \in known, \A m : Has(channel, m) => Has(channel', m)
  PROVE  EditInv(f)'
BY DEF EditInv, Told, CatchingUp

\* An edit that the watcher can see sends a message.
LEMMA LostEdit ==
  ASSUME Safe, LostInv, NEW f \in File, SeenEdit(f)
  PROVE  LostInv'
<1> USE DEF world, inbox, state, sync, env
<1>1. /\ UNCHANGED <<known, hand, phase, worker, stopped, ready, pending, outcome, index, todo, gate>>
      /\ \A g \in File \ {f} : disk'[g] = disk[g]
  BY DEF SeenEdit, Write, Delete, MakeDir, RemoveDir, Change, Safe, Typed, TypeOK
<1>2. \A m : Has(channel, m) => Has(channel', m)
  BY EditSends DEF SeenEdit, Edit, Safe, Typed
<1>3. SUFFICES ASSUME Up, NEW g \in File, EditInv(g)
               PROVE  EditInv(g)'
  BY <1>1 DEF LostInv, Up
<1>4. ready /\ worker \in Looping /\ ~stopped /\ disk \in [File -> Content] /\ edits \in Nat
  BY <1>3, UpMeans DEF Safe, Typed, TypeOK
<1>5. CASE g # f
  BY <1>1, <1>2, <1>3, <1>5, EditKept
<1>6. CASE g = f /\ disk'[f] = disk[f]
  BY <1>1, <1>2, <1>3, <1>6, EditKept
<1>7. CASE g = f /\ Told(f)'
  BY <1>7 DEF EditInv
<1>8. CASE Write(f)
  <2>1. CASE f \in watches
    <3>1. Has(channel', About("file", f))
      BY <1>8, <2>1, EditSends DEF Edit, Safe, Typed
    <3> QED BY <1>5, <1>7, <3>1 DEF Told
  <2>2. CASE f \notin watches
    <3>1. f \in dirs /\ disk'[f] # 0
      BY <1>4, <1>8 DEF Write, Change
    <3>2. f \notin known /\ Has(channel, About("dir", f))
      BY <1>4, <2>2, <3>1 DEF Safe, WatchInv
    <3> QED BY <1>1, <1>2, <1>5, <1>7, <3>1, <3>2 DEF Told
  <2> QED BY <2>1, <2>2
<1>9. CASE Delete(f) /\ Noticed(f)
  <2>1. Has(channel', About("file", f))
    BY <1>4, <1>9, EditSends DEF Noticed, Edit, Safe, Typed
  <2> QED BY <1>5, <1>7, <2>1 DEF Told
<1>10. CASE MakeDir(f)
  <2>1. disk[f] = 0 /\ disk'[f] = 0
    BY <1>3, <1>4, <1>10, UpMeans DEF MakeDir, Change
  <2> QED BY <1>5, <1>6, <2>1
<1>11. CASE RemoveDir(f) /\ Noticed(f)
  <2>1. CASE disk[f] = 0
    <3>1. disk'[f] = 0
      BY <1>4, <1>11 DEF RemoveDir, Change
    <3> QED BY <1>5, <1>6, <2>1, <3>1
  <2>2. CASE disk[f] # 0
    <3>1. Has(channel', About("file", f))
      BY <1>4, <1>11, <2>2, EditSends DEF Noticed, Edit, Safe, Typed
    <3> QED BY <1>5, <1>7, <3>1 DEF Told
  <2> QED BY <2>1, <2>2
<1> QED BY <1>8, <1>9, <1>10, <1>11 DEF SeenEdit

\* A message that is taken off makes its file pending.
LEMMA LostLoop ==
  ASSUME Safe, LostInv, LoopStep
  PROVE  LostInv'
<1> USE DEF world, inbox, state, sync, env, Work
<1>1. UNCHANGED <<disk, dirs, phase, outcome, index, todo, gate, now>>
  BY DEF LoopStep, Top, ReceiveStop, ReceiveIgnored, ListDir, Fire, ReceiveFile, ReceiveNewDir,
         ReceiveOldDir, Receive
<1>2. SUFFICES ASSUME Up, NEW g \in File, EditInv(g)
               PROVE  EditInv(g)'
  BY <1>1 DEF LostInv, Up
<1>3. ready /\ worker \in Looping /\ ~stopped /\ pending \in [File -> 0..MaxNow] /\ now # 0
  BY <1>2, UpMeans DEF Safe, Typed, TypeOK
<1>4. ASSUME NEW f \in File, HandleChange(f)
      PROVE  /\ pending'[f] # 0
             /\ g # f => pending'[g] = pending[g]
  BY <1>3, <1>4 DEF HandleChange
<1>5. \A k \in {"file", "dir"}, l \in {"file", "dir"}, f, h \in File :
        About(k, f) = About(l, h) => k = l /\ f = h
  BY DEF About
<1>6. CASE Top \/ Fire
  BY <1>1, <1>2, <1>3, <1>6 DEF Top, Fire, EditInv, Told, CatchingUp
<1>7. CASE ReceiveStop
  <2>1. Head(channel) \in Message /\ Has(channel, Head(channel)) /\ Head(channel).kind = "stop"
    BY <1>7, Received DEF ReceiveStop, Safe, Typed, TypeOK
  <2>2. Head(channel) = About("stop", Root)
    BY <2>1 DEF Message, About
  <2> QED BY <1>2, <2>1, <2>2 DEF Up, Safe, ThreadInv
<1>8. CASE ReceiveIgnored
  BY <1>3, <1>8 DEF ReceiveIgnored
<1>9. CASE ListDir
  <2>1. /\ worker = "list" /\ worker' = "top" /\ UNCHANGED <<channel, known>>
        /\ IF disk[hand] # 0 THEN HandleChange(hand) ELSE pending' = pending
    BY <1>9 DEF ListDir
  <2>2. hand \in File
    BY <2>1 DEF Safe, Typed
  <2>3. CASE g = hand /\ disk[hand] # 0
    BY <1>4, <2>1, <2>2, <2>3 DEF EditInv
  <2>4. CASE g # hand \/ disk[hand] = 0
    <3>1. pending'[g] = pending[g]
      BY <1>4, <2>1, <2>2, <2>4
    <3> QED BY <1>1, <1>2, <2>1, <2>4, <3>1 DEF EditInv, Told, CatchingUp
  <2> QED BY <2>3, <2>4
<1>10. ASSUME NEW f \in File, ReceiveFile(f)
       PROVE  EditInv(g)'
  <2>1. /\ worker = "wait" /\ worker' = "top" /\ UNCHANGED known
        /\ \A x : Has(channel, x) /\ x # About("file", f) => Has(channel', x)
    BY <1>10, ReceiveTakes DEF ReceiveFile, Safe, Typed
  <2>2. HandleChange(f)
    BY <1>10 DEF ReceiveFile
  <2>3. CASE g = f
    BY <1>4, <2>1, <2>2, <2>3 DEF EditInv
  <2>4. CASE g # f
    BY <1>1, <1>2, <1>4, <1>5, <2>1, <2>2, <2>4 DEF EditInv, Told, CatchingUp
  <2> QED BY <2>3, <2>4
<1>11. ASSUME NEW f \in File, ReceiveNewDir(f)
       PROVE  EditInv(g)'
  <2>1. /\ worker = "wait" /\ worker' = "list" /\ hand' = f /\ known' = known \cup {f}
        /\ pending' = pending
        /\ \A x : Has(channel, x) /\ x # About("dir", f) => Has(channel', x)
    BY <1>11, ReceiveTakes DEF ReceiveNewDir, Safe, Typed
  <2> QED BY <1>1, <1>2, <1>5, <2>1 DEF EditInv, Told, CatchingUp
<1>12. ASSUME NEW f \in File, ReceiveOldDir(f)
       PROVE  EditInv(g)'
  <2>1. /\ worker = "wait" /\ worker' = "top" /\ known' = known /\ f \notin dirs \ known
        /\ pending' = pending
        /\ \A x : Has(channel, x) /\ x # About("dir", f) => Has(channel', x)
    BY <1>12, ReceiveTakes DEF ReceiveOldDir, Safe, Typed
  <2>2. disk[f] # 0 => f \in known
    BY <1>2, <2>1, UpMeans
  <2> QED BY <1>1, <1>2, <1>5, <2>1, <2>2 DEF EditInv, Told, CatchingUp
<1> QED BY <1>6, <1>7, <1>8, <1>9, <1>10, <1>11, <1>12 DEF LoopStep

\* A sync takes only files off that it has stored since they were pending.
LEMMA LostFlush ==
  ASSUME Safe, LostInv, FlushStep \/ SyncFails \/ OpenFails
  PROVE  LostInv'
<1> USE DEF world, inbox, state, sync, env, Work
<1>1. UNCHANGED <<disk, dirs, channel, known, phase, gate>>
  BY DEF FlushStep, FlushStart, SyncStart, LockBusy, SyncDone, Prune, FlushEnd, SyncFile, SyncFails, OpenFails
<1>2. SUFFICES ASSUME Up, NEW g \in File, EditInv(g)
               PROVE  EditInv(g)'
  BY <1>1 DEF LostInv, Up
<1>3. /\ disk \in [File -> Content] /\ index \in [File -> Content] /\ pending \in [File -> 0..MaxNow]
      /\ worker = "sync" => gate # "running"
  BY <1>2, UpMeans DEF Safe, Typed, TypeOK
<1>4. ASSUME worker' # "list" /\ worker # "list"
      PROVE  Told(g)' <=> Told(g)
  BY <1>1, <1>4 DEF Told
<1>5. CASE FlushStart \/ FlushEnd \/ LockBusy \/ OpenFails
  <2>1. /\ worker # "list" /\ worker' \in {"top", "lock", "finally", "prune"}
        /\ UNCHANGED <<pending, index, todo>>
        /\ worker' = "prune" => outcome' # "ok"
    BY <1>5 DEF FlushStart, FlushEnd, LockBusy, OpenFails
  <2> QED BY <1>1, <1>2, <1>4, <2>1 DEF EditInv, CatchingUp
<1>6. CASE SyncStart
  <2>1. worker = "lock" /\ worker' = "sync" /\ lock = "free" /\ UNCHANGED <<index, pending>> /\ todo' = Scan
    BY <1>6 DEF SyncStart, BeginSync
  <2>2. gate # "running"
    BY <2>1 DEF Safe, ThreadInv
  <2>3. index[g] # disk[g] => g \in Scan
    BY DEF Scan
  <2> QED BY <1>1, <1>2, <1>4, <2>1, <2>2, <2>3 DEF EditInv, CatchingUp
<1>7. CASE SyncDone
  <2>1. worker = "sync" /\ worker' = "prune" /\ todo = {} /\ UNCHANGED <<index, pending>>
    BY <1>7 DEF SyncDone, EndSync
  <2> QED BY <1>1, <1>2, <1>3, <1>4, <2>1 DEF EditInv, CatchingUp
<1>8. CASE SyncFails
  <2>1. /\ worker = "sync" /\ worker' = "prune" /\ outcome' = "error" /\ UNCHANGED <<index, pending>>
    BY <1>8 DEF SyncFails, EndSync
  <2> QED BY <1>1, <1>2, <1>3, <1>4, <2>1 DEF EditInv, CatchingUp
<1>9. CASE Prune
  <2>1. /\ worker = "prune" /\ worker' = "finally" /\ UNCHANGED <<index, todo, outcome>>
        /\ outcome # "ok" => pending'[g] = pending[g]
    BY <1>3, <1>9 DEF Prune
  <2> QED BY <1>1, <1>2, <1>4, <2>1 DEF EditInv, CatchingUp
<1>10. ASSUME NEW f \in File, SyncFile(f)
       PROVE  EditInv(g)'
  <2>1. /\ UNCHANGED <<worker, hand, outcome, pending>> /\ todo' = todo \ {f}
        /\ index' = [index EXCEPT ![f] = disk[f]]
    BY <1>10 DEF SyncFile
  <2>2. CASE g = f
    BY <1>1, <1>3, <2>1, <2>2 DEF EditInv
  <2>3. CASE g # f
    <3>1. index'[g] = index[g] /\ (g \in todo' <=> g \in todo)
      BY <1>3, <2>1, <2>3
    <3> QED BY <1>1, <1>2, <2>1, <3>1 DEF EditInv, Told, CatchingUp
  <2> QED BY <2>2, <2>3
<1> QED BY <1>5, <1>6, <1>7, <1>8, <1>9, <1>10 DEF FlushStep

\* The other steps.
LEMMA LostRest ==
  ASSUME Safe, LostInv, SetupStep \/ HandleStep \/ CallerStep \/ OtherLocks \/ ClockJump
                        \/ OtherUnlocks \/ Tick \/ UNCHANGED vars
  PROVE  LostInv'
<1> USE DEF world, inbox, state, sync, env, Work
<1>1. CASE Start \/ Stop \/ SendStop \/ Join \/ StartFails
  BY <1>1 DEF Start, Stop, SendStop, Join, StartFails, LostInv
<1>2. CASE StartDone
  BY <1>2 DEF StartDone, LostInv, Safe, ThreadInv
<1>3. CASE SetupStep
  <2>1. phase # "on" /\ phase' = phase
    <3>1. worker = "setup" /\ phase' = phase
      BY <1>3 DEF SetupStep, SetupWatch, SetupDone, SetupFails
    <3> QED BY <3>1 DEF Safe, ThreadInv, Looping
  <2> QED BY <2>1 DEF LostInv
<1>4. CASE OtherLocks \/ ClockJump \/ OtherUnlocks \/ Tick \/ UNCHANGED vars
  <2>1. UNCHANGED <<disk, channel, known, hand, phase, worker, pending, outcome, index, todo, gate>>
    BY <1>4 DEF OtherLocks, ClockJump, OtherUnlocks, Tick, vars
  <2> QED BY <2>1 DEF LostInv, EditInv, Told, CatchingUp
<1>5. CASE CatchUpStart
  <2>1. /\ phase = "on" /\ lock = "free" /\ gate' = "running" /\ todo' = Scan
        /\ UNCHANGED <<disk, channel, known, hand, phase, worker, pending, outcome, index>>
    BY <1>5 DEF CatchUpStart, BeginSync
  <2>2. SUFFICES ASSUME NEW g \in File
                 PROVE  EditInv(g)'
    BY DEF LostInv
  <2>3. index[g] # disk[g] => g \in Scan
    BY DEF Safe, Typed, TypeOK, Scan
  <2> QED BY <2>1, <2>3 DEF EditInv, CatchingUp
<1>6. CASE CatchUpDone
  <2>1. /\ gate = "running" /\ todo = {} /\ todo' = {}
        /\ UNCHANGED <<disk, channel, known, hand, phase, worker, pending, outcome, index>>
    BY <1>6 DEF CatchUpDone, EndSync
  <2> QED BY <2>1 DEF LostInv, EditInv, Told, CatchingUp
<1> QED BY <1>1, <1>2, <1>3, <1>4, <1>5, <1>6 DEF HandleStep, CallerStep

\* Together: no step loses an edit.
LEMMA WatcherNext == Safe /\ LostInv /\ [SeenNext]_vars => (Safe /\ LostInv)'
BY SafeNext, LostEdit, LostLoop, LostFlush, LostRest DEF SeenNext, Common, WorkerStep, FaultStep

\* The watcher forgets no change it could see: once the catch-up sync was made, a
\* file that differs from the index is pending or a message about it is on its way,
\* whatever fails, jumps or comes while the debounced sync runs (flush, prune).
THEOREM NoEditIsLost == SeenSpec => []NoLostEdit
<1>1. Init => Safe /\ LostInv
  BY SafeInit DEF Init, LostInv
<1>2. Safe /\ LostInv => NoLostEdit
  BY DEF Safe, ThreadInv, LostInv, NoLostEdit, Live, EditInv, Told, CatchingUp, Coming, Has
<1> QED BY <1>1, <1>2, WatcherNext, PTL DEF SeenSpec
=============================================================================
