----------------------------- MODULE DaemonProofs -----------------------------
(* The daemon: what holds however its processes interleave, and that there   *)
(* is one and it can be found while nobody takes a lock away under it.       *)
EXTENDS Daemon, FiniteSetTheorems, TLAPS

\* What the assumption on the constants says, without counting.
LEMMA Names ==
  /\ None # Corrupt /\ None # Ghost /\ Corrupt # Ghost
  /\ None \notin Process /\ Corrupt \notin Process /\ Ghost \notin Process
  /\ None \notin Client /\ TakeoverMaxRetries \in Nat \ {0} /\ MaxEvent \in Nat
<1>1. ASSUME NEW a, NEW b
      PROVE  Cardinality({a, b}) <= 2
  <2>1. IsFiniteSet({a}) /\ Cardinality({a}) = 1
    BY FS_Singleton
  <2>2. {a, b} = {a} \cup {b}
    OBVIOUS
  <2> QED BY <2>1, <2>2, FS_AddElement
<1>2. /\ None = Corrupt => {None, Corrupt, Ghost} = {None, Ghost}
      /\ None = Ghost => {None, Corrupt, Ghost} = {None, Corrupt}
      /\ Corrupt = Ghost => {None, Corrupt, Ghost} = {None, Ghost}
  OBVIOUS
<1>3. Cardinality({None, Corrupt}) <= 2 /\ Cardinality({None, Ghost}) <= 2
  BY <1>1
<1>4. None # Corrupt /\ None # Ghost /\ Corrupt # Ghost
  BY <1>2, <1>3, DaemonAssumption DEF DaemonAssumption
<1> QED BY <1>4, DaemonAssumption DEF DaemonAssumption

\* Whoever tries to get the lock has an attempt left, and a loop that is about
\* to greet a session has one.
Typed ==
  /\ TypeOK
  /\ \A p \in Process : pc[p] \in Candidate \cup {"none"} => tries[p] < TakeoverMaxRetries
  /\ \A p \in Process : loop[p] \in {"accepted", "attached"} => cur[p] \in Client

-----------------------------------------------------------------------------
(* The steps several actions share                                           *)

\* Disconnecting keeps the types.
LEMMA DisconnectTyped ==
  ASSUME Typed, NEW cs, Disconnect(cs)
  PROVE  /\ client' \in [Client -> {"off", "queued", "refused", "served", "cut"}]
         /\ host' \in [Client -> Process \cup {None}]
BY DEF Typed, TypeOK, Disconnect

\* So does the end of a process.
LEMMA DieTyped ==
  ASSUME Typed, NEW p \in Process, Die(p), UNCHANGED <<files, election>>, stop' \in [step : {"off", "wait", "lock", "socket", "record"}, target : Pid \cup {None}],
         events' \in 0..MaxEvent
  PROVE  Typed'
<1>1. /\ client' \in [Client -> {"off", "queued", "refused", "served", "cut"}]
      /\ host' \in [Client -> Process \cup {None}]
  BY DisconnectTyped DEF Die, HangUp
<1>2. /\ pc' \in [Process -> Steps]
      /\ \A q \in Process : pc'[q] \in Candidate \cup {"none"} => pc[q] = pc'[q]
  BY DEF Typed, TypeOK, Die, Goto, Steps, Gone, Candidate
<1>3. /\ armed' \in [Process -> BOOLEAN]
      /\ clients' \in [Process -> SUBSET Client] /\ queue' \in [Process -> SUBSET Client]
      /\ loop' \in [Process -> {"free", "accepted", "attached", "closed"}]
      /\ cur' \in [Process -> Client \cup {None}] /\ sig' \in [Process -> SUBSET {"int", "term"}]
      /\ \A q \in Process : loop'[q] \in {"accepted", "attached"} => cur'[q] \in Client
  BY DEF Typed, TypeOK, Die, HangUp
<1> QED BY <1>1, <1>2, <1>3 DEF Typed, TypeOK, files, election

\* And the start of a shutdown.
LEMMA MarkStoppingTyped ==
  ASSUME Typed, NEW p \in Process, NEW reason \in {"idle", "term", "int"}, MarkStopping(p, reason)
  PROVE  /\ pc' \in [Process -> Steps] /\ why' \in [Process -> {"none", "idle", "term", "int"}]
         /\ armed' \in [Process -> BOOLEAN] /\ clients' \in [Process -> SUBSET Client]
         /\ client' \in [Client -> {"off", "queued", "refused", "served", "cut"}]
         /\ host' \in [Client -> Process \cup {None}]
         /\ \A q \in Process : pc'[q] \in Candidate \cup {"none"} => pc[q] = pc'[q]
<1>1. /\ client' \in [Client -> {"off", "queued", "refused", "served", "cut"}]
      /\ host' \in [Client -> Process \cup {None}]
  BY DisconnectTyped DEF MarkStopping
<1> QED
  BY <1>1 DEF Typed, TypeOK, MarkStopping, Goto, Steps, Owner, Stopping, Candidate

\* A process that steps on by itself.
LEMMA GotoTyped ==
  ASSUME Typed, NEW p \in Process, NEW step \in Steps, Goto(p, step),
         step \notin Candidate \cup {"none"} \/ pc[p] \in Candidate \cup {"none"},
         tries' = tries
  PROVE  /\ pc' \in [Process -> Steps]
         /\ \A q \in Process : pc'[q] \in Candidate \cup {"none"} => tries'[q] < TakeoverMaxRetries
BY DEF Typed, TypeOK, Goto

\* The waits and retries of a candidate keep the types.
LEMMA RetryTyped ==
  ASSUME Typed, NEW p \in Process, pc[p] \in Candidate, Retry(p)
  PROVE  /\ pc' \in [Process -> Steps] /\ tries' \in [Process -> 0..TakeoverMaxRetries]
         /\ \A q \in Process : pc'[q] \in Candidate \cup {"none"} => tries'[q] < TakeoverMaxRetries
<1>1. tries[p] \in 0..TakeoverMaxRetries /\ tries[p] < TakeoverMaxRetries /\ TakeoverMaxRetries \in Nat
  BY Names DEF Typed, TypeOK
<1>2. tries' = [tries EXCEPT ![p] = tries[p] + 1] /\ tries[p] + 1 \in 0..TakeoverMaxRetries
  BY <1>1 DEF Retry
<1>3. tries' \in [Process -> 0..TakeoverMaxRetries]
  BY <1>2 DEF Typed, TypeOK
<1>4. pc' \in [Process -> Steps]
  BY DEF Typed, TypeOK, Retry, Goto, Steps, Candidate, Gone
<1>5. ASSUME NEW q \in Process, pc'[q] \in Candidate \cup {"none"}
      PROVE  tries'[q] < TakeoverMaxRetries
  <2>1. CASE q = p
    <3>1. tries[p] + 1 # TakeoverMaxRetries
      BY <1>5, <2>1 DEF Typed, TypeOK, Retry, Goto, Candidate
    <3> QED BY <1>1, <1>2, <2>1, <3>1 DEF Typed, TypeOK
  <2>2. CASE q # p
    BY <1>2, <1>5, <2>2 DEF Typed, TypeOK, Retry, Goto
  <2> QED BY <2>1, <2>2
<1> QED BY <1>3, <1>4, <1>5

-----------------------------------------------------------------------------
(* Types                                                                     *)

\* So do its attempts to take the lock and to bind the socket.
LEMMA ElectionTyped ==
  ASSUME Typed, NEW p \in Process, ElectionStep(p) \/ ReadStale(p) \/ BindFails(p)
  PROVE  Typed'
<1> USE DEF files, election, daemon, sessions
<1>1. CASE Link(p)
  <2>1. pc' \in [Process -> Steps]
    BY <1>1 DEF Typed, TypeOK, Link, Goto, Steps, Owner, Starting, Candidate
  <2>2. tries' \in [Process -> 0..TakeoverMaxRetries]
    BY <1>1, Names DEF Typed, TypeOK, Link
  <2>4. p \in Pid /\ lock' \in Pid \cup {None, Corrupt}
    BY <1>1 DEF Typed, TypeOK, Link, Pid
  <2>3. \A q \in Process : pc'[q] \in Candidate \cup {"none"} => tries'[q] < TakeoverMaxRetries
    BY <1>1, Names DEF Typed, TypeOK, Link, Goto, Candidate
  <2> QED BY <1>1, <2>1, <2>2, <2>3, <2>4 DEF Typed, TypeOK, Link
<1>2. CASE ReadTaken(p)
  BY <1>2 DEF Typed, TypeOK, ReadTaken, Goto, Pid, Steps, Candidate, Gone
<1>3. CASE ReadStale(p)
  <2>1. CASE Retry(p)
    BY <1>3, <2>1, RetryTyped DEF Typed, TypeOK, ReadStale, Candidate
  <2>2. CASE Goto(p, "unlink") /\ tries' = tries
    BY <1>3, <2>2 DEF Typed, TypeOK, ReadStale, Goto, Steps, Candidate
  <2> QED BY <1>3, <2>1, <2>2 DEF ReadStale
<1>4. CASE Unlink(p)
  BY <1>4, RetryTyped DEF Typed, TypeOK, Unlink, Candidate
<1>5. CASE ClaimSocket(p)
  BY <1>5, GotoTyped DEF Typed, TypeOK, ClaimSocket, Candidate, Steps, Owner, Starting
<1>6. CASE Bind(p)
  <2>1. CASE socket # None
    BY <1>6, <2>1, DieTyped DEF Bind, Typed, TypeOK
  <2>2. CASE socket = None
    <3>1. Goto(p, "register") /\ socket' \in Pid /\ tries' = tries /\ "register" \in Steps \ Candidate
      BY <1>6, <2>2 DEF Bind, Pid, Steps, Owner, Starting, Candidate
    <3>2. /\ pc' \in [Process -> Steps]
          /\ \A q \in Process : pc'[q] \in Candidate \cup {"none"} => tries'[q] < TakeoverMaxRetries
      BY <3>1, GotoTyped
    <3> QED BY <1>6, <2>2, <3>1, <3>2 DEF Typed, TypeOK, Bind
  <2> QED BY <1>6, <2>1, <2>2 DEF Bind
<1>7. CASE BindFails(p)
  <2>1. events' \in 0..MaxEvent
    BY <1>7, Names DEF Typed, TypeOK, BindFails
  <2> QED BY <1>7, <2>1, DieTyped DEF BindFails, Typed, TypeOK
<1>8. CASE Register(p)
  <2>1. Goto(p, "serving") /\ record' \in Pid \cup {None} /\ tries' = tries
        /\ "serving" \in Steps \ Candidate
    BY <1>8 DEF Register, Pid, Steps, Owner, Candidate, Typed, TypeOK
  <2>2. /\ pc' \in [Process -> Steps]
        /\ \A q \in Process : pc'[q] \in Candidate \cup {"none"} => tries'[q] < TakeoverMaxRetries
    BY <2>1, GotoTyped
  <2> QED BY <1>8, <2>1, <2>2 DEF Typed, TypeOK, Register
<1> QED BY <1>1, <1>2, <1>3, <1>4, <1>5, <1>6, <1>7, <1>8 DEF ElectionStep

\* So does what a serving daemon does between sessions.
LEMMA ServingTyped ==
  ASSUME Typed, NEW p \in Process,
         LoopStep(p) \/ IdleTimeout(p) \/ \E c \in Client : Drop(p, c)
  PROVE  Typed'
<1> USE DEF files, election, daemon, sessions
<1>1. ASSUME NEW c \in Client, Accept(p, c)
      PROVE  Typed'
  BY <1>1 DEF Typed, TypeOK, Accept
<1>2. CASE Attach(p)
  <2>1. CASE pc[p] = "serving"
    <3>1. cur[p] \in Client /\ clients[p] \cup {cur[p]} \in SUBSET Client
      BY <1>2 DEF Typed, TypeOK, Attach
    <3>4. clients' = [clients EXCEPT ![p] = clients[p] \cup {cur[p]}]
      BY <1>2, <2>1 DEF Attach
    <3>5. clients' \in [Process -> SUBSET Client]
      BY <3>1, <3>4 DEF Typed, TypeOK
    <3>2. armed' \in [Process -> BOOLEAN]
      BY <1>2, <2>1 DEF Typed, TypeOK, Attach
    <3>3. /\ loop' \in [Process -> {"free", "accepted", "attached", "closed"}]
          /\ \A q \in Process : loop'[q] \in {"accepted", "attached"} => cur'[q] \in Client
      BY <1>2, <2>1, <3>1 DEF Typed, TypeOK, Attach
    <3> QED BY <1>2, <2>1, <3>2, <3>3, <3>5 DEF Typed, TypeOK, Attach
  <2>2. CASE pc[p] # "serving"
    BY <1>2, <2>2, DisconnectTyped DEF Typed, TypeOK, Attach
  <2> QED BY <2>1, <2>2
<1>3. CASE Greet(p)
  <2>1. /\ clients' \in [Process -> SUBSET Client] /\ armed' \in [Process -> BOOLEAN]
        /\ client' \in [Client -> {"off", "queued", "refused", "served", "cut"}]
    <3>1. cur[p] \in Client
      BY <1>3 DEF Greet, Typed
    <3>2. CASE client[cur[p]] = "queued"
      <4>1. UNCHANGED <<clients, armed>> /\ client' = [client EXCEPT ![cur[p]] = "served"]
        BY <1>3, <3>2 DEF Greet
      <4>2. client' \in [Client -> {"off", "queued", "refused", "served", "cut"}]
        BY <3>1, <4>1 DEF Typed, TypeOK
      <4> QED BY <4>1, <4>2 DEF Typed, TypeOK
    <3>3. CASE client[cur[p]] # "queued"
      <4>1. Dropped(p, cur[p]) /\ UNCHANGED client
        BY <1>3, <3>3 DEF Greet
      <4>2. clients' \in [Process -> SUBSET Client] /\ armed' \in [Process -> BOOLEAN]
        BY <3>1, <4>1 DEF Typed, TypeOK, Dropped
      <4> QED BY <4>1, <4>2 DEF Typed, TypeOK
    <3> QED BY <3>2, <3>3
  <2>2. /\ loop' \in [Process -> {"free", "accepted", "attached", "closed"}]
        /\ cur' \in [Process -> Client \cup {None}]
        /\ \A q \in Process : loop'[q] \in {"accepted", "attached"} => cur'[q] \in Client
    BY <1>3 DEF Typed, TypeOK, Greet
  <2> QED BY <1>3, <2>1, <2>2 DEF Typed, TypeOK, Greet
<1>4. CASE PollInt(p)
  BY <1>4, MarkStoppingTyped DEF Typed, TypeOK, PollInt
<1>5. CASE PollTerm(p)
  BY <1>5, MarkStoppingTyped DEF Typed, TypeOK, PollTerm
<1>6. CASE CloseListener(p)
  BY <1>6, DisconnectTyped DEF Typed, TypeOK, CloseListener
<1>7. CASE IdleTimeout(p)
  BY <1>7, MarkStoppingTyped DEF Typed, TypeOK, IdleTimeout
<1>8. ASSUME NEW c \in Client, Drop(p, c)
      PROVE  Typed'
  BY <1>8 DEF Typed, TypeOK, Drop, Dropped
<1> QED BY <1>1, <1>2, <1>3, <1>4, <1>5, <1>6, <1>7, <1>8 DEF LoopStep

\* So do exits, deaths and signals.
LEMMA EndTyped ==
  ASSUME Typed, NEW p \in Process, \/ ShutdownStep(p) \/ Crash(p)
                                   \/ \E s \in {"int", "term"} : Signal(p, s)
  PROVE  Typed'
<1> USE DEF files, election, daemon, sessions
<1>1. CASE DropSocket(p)
  BY <1>1, GotoTyped DEF Typed, TypeOK, DropSocket, Candidate, Steps, Owner, Stopping
<1>2. CASE DropRecord(p)
  BY <1>2, GotoTyped DEF Typed, TypeOK, DropRecord, Candidate, Steps, Owner, Stopping
<1>3. CASE ReadOwnLock(p)
  BY <1>3, GotoTyped DEF Typed, TypeOK, ReadOwnLock, Candidate, Steps, Owner, Stopping
<1>4. CASE DropLock(p)
  BY <1>4, GotoTyped DEF Typed, TypeOK, DropLock, Candidate, Steps, Owner, Stopping
<1>5. CASE ExitProcess(p)
  <2>1. /\ client' \in [Client -> {"off", "queued", "refused", "served", "cut"}]
        /\ host' \in [Client -> Process \cup {None}]
    BY <1>5, DisconnectTyped DEF ExitProcess, HangUp
  <2>2. Goto(p, "exited") /\ tries' = tries /\ "exited" \in Steps \ (Candidate \cup {"none"})
    BY <1>5 DEF ExitProcess, Steps, Candidate, Gone
  <2>3. /\ pc' \in [Process -> Steps]
        /\ \A q \in Process : pc'[q] \in Candidate \cup {"none"} => tries'[q] < TakeoverMaxRetries
    BY <2>2, GotoTyped
  <2> QED BY <1>5, <2>1, <2>3 DEF Typed, TypeOK, ExitProcess, HangUp
<1>6. CASE Crash(p)
  <2>1. events' \in 0..MaxEvent
    BY <1>6, Names DEF Typed, TypeOK, Crash
  <2> QED BY <1>6, <2>1, DieTyped DEF Crash, Typed, TypeOK
<1>7. ASSUME NEW s \in {"int", "term"}, Signal(p, s)
      PROVE  Typed'
  <2>1. events' \in 0..MaxEvent
    BY <1>7, Names DEF Typed, TypeOK, Signal
  <2>2. CASE Die(p)
    BY <1>7, <2>1, <2>2, DieTyped DEF Signal, Typed, TypeOK
  <2>3. CASE pc[p] \notin Candidate \cup Starting
    BY <1>7, <2>1, <2>3 DEF Typed, TypeOK, Signal, Signalled
  <2> QED BY <1>7, <2>2, <2>3 DEF Signal, Signalled
<1> QED BY <1>1, <1>2, <1>3, <1>4, <1>5, <1>6, <1>7 DEF ShutdownStep

\* So do the steps of a session.
LEMMA SessionTyped ==
  ASSUME Typed, NEW c \in Client, Connect(c) \/ ProbeTimeout(c) \/ Leave(c) \/ SpawnDaemon(c)
  PROVE  Typed'
<1> USE DEF files, election, daemon, sessions
<1>1. CASE Connect(c)
  BY <1>1 DEF Typed, TypeOK, Connect, Listening
<1>2. CASE ProbeTimeout(c)
  BY <1>2 DEF Typed, TypeOK, ProbeTimeout
<1>3. CASE Leave(c)
  BY <1>3 DEF Typed, TypeOK, Leave
<1>4. CASE SpawnDaemon(c)
  <2>1. CASE UNCHANGED pc
    BY <1>4, <2>1 DEF Typed, TypeOK, SpawnDaemon
  <2>2. ASSUME NEW p \in Process, pc[p] = "none", Goto(p, "link")
        PROVE  Typed'
    <3>1. /\ pc' \in [Process -> Steps]
          /\ \A q \in Process : pc'[q] \in Candidate \cup {"none"} => tries'[q] < TakeoverMaxRetries
      BY <1>4, <2>2, GotoTyped DEF SpawnDaemon, Steps, Candidate
    <3> QED BY <1>4, <3>1 DEF Typed, TypeOK, SpawnDaemon
  <2> QED BY <1>4, <2>1, <2>2 DEF SpawnDaemon
<1> QED BY <1>1, <1>2, <1>3, <1>4

StopStep ==
  StopRead \/ StopSeesDeath \/ StopKills \/ StopDropsLock \/ StopDropsSocket \/ StopDropsRecord

\* So does the stop command.
LEMMA StopTyped ==
  ASSUME Typed, StopStep
  PROVE  Typed'
<1> USE DEF files, election, daemon, sessions
<1>1. CASE StopRead
  <2> DEFINE target == IF lock \in Pid THEN lock ELSE IF Alive(record) THEN record ELSE None
  <2>1. target \in Pid \cup {None} /\ (Alive(target) => target \in Process)
    BY DEF Alive, Typed, TypeOK
  <2>2. events' \in 0..MaxEvent
    BY <1>1, Names DEF Typed, TypeOK, StopRead
  <2>3. /\ stop' \in {[step |-> "wait", target |-> target], [step |-> "lock", target |-> target]}
        /\ (Alive(target) /\ Signalled(target, "term")) \/ UNCHANGED <<pc, daemon, sessions>>
        /\ UNCHANGED <<files, election>>
    BY <1>1 DEF StopRead
  <2> HIDE DEF target
  <2>4. stop' \in [step : {"off", "wait", "lock", "socket", "record"}, target : Pid \cup {None}]
    BY <2>1, <2>3
  <2>5. CASE UNCHANGED <<pc, daemon, sessions>>
    BY <2>2, <2>3, <2>4, <2>5 DEF Typed, TypeOK
  <2>6. CASE target \in Process /\ Die(target)
    BY <2>2, <2>3, <2>4, <2>6, DieTyped
  <2>7. CASE target \in Process /\ Signalled(target, "term") /\ pc[target] \notin Candidate \cup Starting
    BY <2>2, <2>3, <2>4, <2>7 DEF Typed, TypeOK, Signalled
  <2> QED BY <2>1, <2>3, <2>5, <2>6, <2>7 DEF Signalled
<1>2. CASE StopSeesDeath
  BY <1>2 DEF Typed, TypeOK, StopSeesDeath
<1>3. CASE StopKills
  <2>1. stop' \in [step : {"off", "wait", "lock", "socket", "record"}, target : Pid \cup {None}]
    BY <1>3 DEF Typed, TypeOK, StopKills
  <2> QED BY <1>3, <2>1, DieTyped DEF StopKills, Alive, Typed, TypeOK
<1>4. CASE StopDropsLock
  BY <1>4 DEF Typed, TypeOK, StopDropsLock
<1>5. CASE StopDropsSocket
  BY <1>5 DEF Typed, TypeOK, StopDropsSocket
<1>6. CASE StopDropsRecord
  BY <1>6 DEF Typed, TypeOK, StopDropsRecord
<1> QED BY <1>1, <1>2, <1>3, <1>4, <1>5, <1>6 DEF StopStep

\* Nothing runs at first.
LEMMA TypedInit == Init => Typed
BY Names DEF Init, Typed, TypeOK, Pid, Steps, Candidate

\* Together: every step keeps the types.
LEMMA TypedNext == Typed /\ [Next]_vars => Typed'
<1> SUFFICES ASSUME Typed, [Next]_vars
             PROVE  Typed'
  OBVIOUS
<1>1. CASE UNCHANGED vars
  BY <1>1 DEF vars, files, election, daemon, sessions, Typed, TypeOK
<1>2. CASE Next
  BY <1>2, ElectionTyped, ServingTyped, EndTyped, SessionTyped, StopTyped DEF Next, Common, StopStep
<1> QED BY <1>1, <1>2

\* What the processes, their threads, the sessions and the stop command do keeps
\* every value in its range: no attempt beyond the last, no connection handled
\* that is not there.
THEOREM TypesHold == Spec => []TypeOK
<1>1. Typed => TypeOK
  BY DEF Typed
<1> QED BY <1>1, TypedInit, TypedNext, PTL DEF Spec

-----------------------------------------------------------------------------
(* Sessions                                                                  *)

Serving(p) == pc[p] = "serving"
Ending == Stopping \cup {"stopped", "dead", "exited"}

\* The daemon that has a connection of the session.
Holds(p, c) == c \in queue[p] \/ cur[p] = c \/ c \in clients[p]

\* A daemon that no longer serves has disconnected its sessions, and the session
\* that waits for its hello is registered.
LoopInv(p) ==
  /\ ~Serving(p) => clients[p] = {}
  /\ loop[p] = "attached" => cur[p] \in clients[p]
  /\ loop[p] \in {"free", "closed"} => cur[p] = None
  /\ cur[p] \notin queue[p]

\* Who waits for the hello stands in one queue, who had it is registered there,
\* and who was cut off was cut off by a death or by an interrupt.
SessionInv(c) ==
  /\ \A p, q \in Process : Holds(p, c) /\ Holds(q, c) => p = q
  /\ client[c] = "queued" => /\ host[c] \in Process
                             /\ (c \in queue[host[c]] \/ cur[host[c]] = c)
  /\ client[c] = "served" => /\ host[c] \in Process /\ c \in clients[host[c]]
                             /\ \A p \in Process : c \notin queue[p] /\ cur[p] # c
  /\ client[c] = "cut" => /\ host[c] \in Process
                          /\ \/ pc[host[c]] = "dead"
                             \/ pc[host[c]] \in Ending /\ why[host[c]] = "int"

HelloInv == (\A p \in Process : LoopInv(p)) /\ (\A c \in Client : SessionInv(c))

-----------------------------------------------------------------------------
(* The files                                                                 *)

\* Whose name a file cannot bear: the socket is bound, the record written and the
\* lock taken once each, and removed in this order.
FilesInv(p) ==
  /\ lock = p => pc[p] \in Owner \cup {"dead"}
  /\ pc[p] \in {"record", "readLock", "dropLock", "stopped", "exited"} => socket # p
  /\ pc[p] \in {"readLock", "dropLock", "stopped", "exited"} => record # p

\* Where nobody takes the lock away under its owner, the owner has it, ...
OwnerInv(p) ==
  /\ pc[p] \in Owner => lock = p
  /\ pc[p] \in {"register", "serving"} => socket = p
  /\ pc[p] = "unlink" => lock # None /\ ~Alive(lock)
  /\ \A q \in Process : pc[p] = "unlink" /\ pc[q] = "unlink" => p = q

\* ... and the stop command has ended it before it removes the files.
StopInv ==
  /\ stop.step # "off" => \A p \in Process : pc[p] \notin Candidate \cup Starting
  /\ stop.step = "wait" => \A p \in Process : pc[p] \in Owner => p = stop.target
  /\ stop.step \in {"lock", "socket", "record"} => \A p \in Process : pc[p] \notin Owner
  /\ stop.step \in {"socket", "record"} => lock = None
  /\ stop.step = "record" => socket = None

LockInv == (\A p \in Process : OwnerInv(p)) /\ StopInv

-----------------------------------------------------------------------------
(* The sessions' invariant, step by step                                     *)

\* A step that only moves a process on, not out of serving or of its ending.
LEMMA HelloKept ==
  ASSUME Typed, HelloInv, UNCHANGED <<clients, queue, loop, cur, client, host, why>>,
         \A q \in Process : /\ Serving(q) => Serving(q)'
                            /\ pc[q] \in Ending => pc'[q] \in Ending
                            /\ pc[q] = "dead" => pc'[q] = "dead"
  PROVE  HelloInv'
<1>1. ASSUME NEW q \in Process
      PROVE  LoopInv(q)'
  BY DEF HelloInv, LoopInv, Serving
<1>2. ASSUME NEW c \in Client
      PROVE  SessionInv(c)'
  <2>1. SessionInv(c)
    BY DEF HelloInv
  <2>2. \A q, r \in Process : Holds(q, c)' /\ Holds(r, c)' => q = r
    BY <2>1 DEF SessionInv, Holds
  <2> QED BY <2>1, <2>2 DEF SessionInv, Ending
<1> QED BY <1>1, <1>2 DEF HelloInv

\* The end of a process cuts off whom it served, which after an orderly shutdown
\* is nobody.
LEMMA HelloHangUp ==
  ASSUME Typed, HelloInv, NEW p \in Process, NEW step \in {"dead", "exited"},
         Goto(p, step), HangUp(p), why' = why, step = "exited" => pc[p] = "stopped"
  PROVE  HelloInv'
<1>1. \A q \in Process : pc'[q] = IF q = p THEN step ELSE pc[q]
  BY DEF Typed, TypeOK, Goto
<1>2. \A q \in Process : /\ clients'[q] = (IF q = p THEN {} ELSE clients[q])
                         /\ queue'[q] = (IF q = p THEN {} ELSE queue[q])
                         /\ cur'[q] = (IF q = p THEN None ELSE cur[q])
                         /\ loop'[q] = (IF q = p THEN "closed" ELSE loop[q])
  BY DEF Typed, TypeOK, HangUp
<1>3. \A c \in Client :
        /\ client'[c] = IF host[c] # p THEN client[c]
                        ELSE CASE client[c] = "served" -> "cut"
                               [] client[c] = "queued" -> "refused"
                               [] OTHER -> client[c]
        /\ host'[c] = IF host[c] = p /\ client[c] = "queued" THEN None ELSE host[c]
  BY DEF HangUp, Disconnect
<1>4. ASSUME NEW q \in Process
      PROVE  LoopInv(q)'
  BY <1>1, <1>2 DEF HelloInv, LoopInv, Serving
<1>5. ASSUME NEW c \in Client
      PROVE  SessionInv(c)'
  <2>1. SessionInv(c) /\ None # c
    BY Names DEF HelloInv
  <2>2. \A q, r \in Process : Holds(q, c)' /\ Holds(r, c)' => q = r
    BY <1>2, <2>1 DEF SessionInv, Holds
  <2>3. client[c] = "served" /\ host[c] = p => step = "dead"
    BY <2>1 DEF HelloInv, SessionInv, LoopInv, Serving
  <2>4. client'[c] = "queued" => /\ host'[c] \in Process
                                 /\ (c \in queue'[host'[c]] \/ cur'[host'[c]] = c)
    BY <1>2, <1>3, <2>1 DEF SessionInv
  <2>5. client'[c] = "served" => /\ host'[c] \in Process /\ c \in clients'[host'[c]]
                                 /\ \A q \in Process : c \notin queue'[q] /\ cur'[q] # c
    BY <1>2, <1>3, <2>1 DEF SessionInv
  <2>6. client'[c] = "cut" => /\ host'[c] \in Process
                              /\ \/ pc'[host'[c]] = "dead"
                                 \/ (pc'[host'[c]] \in Ending /\ why'[host'[c]] = "int")
    BY <1>1, <1>3, <2>1, <2>3 DEF SessionInv, Ending
  <2> QED BY <2>2, <2>4, <2>5, <2>6 DEF SessionInv
<1> QED BY <1>4, <1>5 DEF HelloInv

\* A disconnected session is cut off if it was served and refused if it waits.
LEMMA Disconnected ==
  ASSUME Typed, NEW cs, Disconnect(cs), NEW c \in Client
  PROVE  /\ client'[c] = IF c \notin cs THEN client[c]
                         ELSE CASE client[c] = "served" -> "cut"
                                [] client[c] = "queued" -> "refused"
                                [] OTHER -> client[c]
         /\ host'[c] = IF c \in cs /\ client[c] = "queued" THEN None ELSE host[c]
BY DEF Disconnect

\* An interrupt cuts off the sessions, the other reasons find none.
LEMMA HelloStopping ==
  ASSUME Typed, HelloInv, NEW p \in Process, NEW reason \in {"idle", "term", "int"},
         MarkStopping(p, reason), reason = "int" \/ clients[p] = {}, loop[p] # "attached" \/ clients[p] = {},
         Serving(p), UNCHANGED <<queue, loop, cur>>
  PROVE  HelloInv'
<1>1. \A q \in Process : /\ pc'[q] = (IF q = p THEN "socket" ELSE pc[q])
                         /\ clients'[q] = (IF q = p THEN {} ELSE clients[q])
                         /\ why'[q] = (IF q = p THEN reason ELSE why[q])
  BY DEF Typed, TypeOK, MarkStopping, Goto
<1>2. ASSUME NEW q \in Process
      PROVE  LoopInv(q)'
  BY <1>1 DEF HelloInv, LoopInv, Serving
<1>3. ASSUME NEW c \in Client
      PROVE  SessionInv(c)'
  <2>1. SessionInv(c)
    BY DEF HelloInv
  <2>2. /\ client'[c] = IF c \notin clients[p] THEN client[c]
                        ELSE CASE client[c] = "served" -> "cut"
                               [] client[c] = "queued" -> "refused"
                               [] OTHER -> client[c]
        /\ host'[c] = IF c \in clients[p] /\ client[c] = "queued" THEN None ELSE host[c]
    BY Disconnected DEF MarkStopping
  <2>3. \A q, r \in Process : Holds(q, c)' /\ Holds(r, c)' => q = r
    BY <1>1, <2>1 DEF SessionInv, Holds
  <2>4. client'[c] = "queued" => /\ host'[c] \in Process
                                 /\ (c \in queue'[host'[c]] \/ cur'[host'[c]] = c)
    BY <2>1, <2>2 DEF SessionInv
  <2>5. client[c] = "served" => (c \in clients[p] <=> host[c] = p)
    BY <2>1 DEF SessionInv, Holds
  <2>6. client'[c] = "served" => /\ host'[c] \in Process /\ c \in clients'[host'[c]]
                                 /\ \A q \in Process : c \notin queue'[q] /\ cur'[q] # c
    BY <1>1, <2>1, <2>2, <2>5 DEF SessionInv
  <2>7. client'[c] = "cut" => /\ host'[c] \in Process
                              /\ \/ pc'[host'[c]] = "dead"
                                 \/ (pc'[host'[c]] \in Ending /\ why'[host'[c]] = "int")
    BY <1>1, <2>1, <2>2, <2>5 DEF SessionInv, Ending, Stopping, Serving
  <2> QED BY <2>3, <2>4, <2>6, <2>7 DEF SessionInv
<1> QED BY <1>2, <1>3 DEF HelloInv

\* A candidate has no session, and none of its steps touches one.
LEMMA HelloElection ==
  ASSUME Typed, HelloInv, NEW p \in Process, ElectionStep(p) \/ ReadStale(p) \/ BindFails(p)
  PROVE  HelloInv'
<1> USE DEF files, election, daemon, sessions, Ending, Stopping, Serving
<1>1. CASE Link(p)
  BY <1>1, HelloKept DEF Link, Goto, Typed, TypeOK
<1>2. CASE ReadTaken(p)
  BY <1>2, HelloKept DEF ReadTaken, Goto, Typed, TypeOK
<1>3. CASE ReadStale(p)
  BY <1>3, HelloKept DEF ReadStale, Retry, Goto, Typed, TypeOK
<1>4. CASE Unlink(p)
  BY <1>4, HelloKept DEF Unlink, Retry, Goto, Typed, TypeOK
<1>5. CASE ClaimSocket(p)
  BY <1>5, HelloKept DEF ClaimSocket, Goto, Typed, TypeOK
<1>6. CASE Bind(p)
  <2>1. CASE socket = None
    BY <1>6, <2>1, HelloKept DEF Bind, Goto, Typed, TypeOK
  <2>2. CASE socket # None
    BY <1>6, <2>2, HelloHangUp DEF Bind, Die
  <2> QED BY <2>1, <2>2
<1>7. CASE BindFails(p)
  BY <1>7, HelloHangUp DEF BindFails, Die
<1>8. CASE Register(p)
  BY <1>8, HelloKept DEF Register, Goto, Typed, TypeOK
<1> QED BY <1>1, <1>2, <1>3, <1>4, <1>5, <1>6, <1>7, <1>8 DEF ElectionStep

\* A process that shuts down, dies or is signalled cuts sessions only as HelloInv allows.
LEMMA HelloEnd ==
  ASSUME Typed, HelloInv, NEW p \in Process,
         ShutdownStep(p) \/ Crash(p) \/ \E s \in {"int", "term"} : Signal(p, s)
  PROVE  HelloInv'
<1> USE DEF files, election, daemon, sessions, Ending, Stopping, Serving
<1>1. CASE DropSocket(p)
  BY <1>1, HelloKept DEF DropSocket, Goto, Typed, TypeOK
<1>2. CASE DropRecord(p)
  BY <1>2, HelloKept DEF DropRecord, Goto, Typed, TypeOK
<1>3. CASE ReadOwnLock(p)
  BY <1>3, HelloKept DEF ReadOwnLock, Goto, Typed, TypeOK
<1>4. CASE DropLock(p)
  BY <1>4, HelloKept DEF DropLock, Goto, Typed, TypeOK
<1>5. CASE ExitProcess(p)
  BY <1>5, HelloHangUp DEF ExitProcess
<1>6. CASE Crash(p)
  BY <1>6, HelloHangUp DEF Crash, Die
<1>7. ASSUME NEW s \in {"int", "term"}, Signal(p, s)
      PROVE  HelloInv'
  <2>1. CASE pc[p] \in Candidate \cup Starting
    BY <1>7, <2>1, HelloHangUp DEF Signal, Signalled, Die
  <2>2. CASE pc[p] \notin Candidate \cup Starting
    BY <1>7, <2>2, HelloKept DEF Signal, Signalled
  <2> QED BY <2>1, <2>2
<1> QED BY <1>1, <1>2, <1>3, <1>4, <1>5, <1>6, <1>7 DEF ShutdownStep

\* So does the stop command, which signals its target or kills it.
LEMMA HelloStop ==
  ASSUME Typed, HelloInv, StopStep
  PROVE  HelloInv'
<1> USE DEF files, election, daemon, sessions
<1>1. CASE UNCHANGED <<pc, clients, queue, loop, cur, client, host, why>>
  BY <1>1, HelloKept DEF Serving
<1>2. ASSUME NEW p \in Process, Die(p), why' = why
      PROVE  HelloInv'
  BY <1>2, HelloHangUp DEF Die
<1>3. CASE StopRead
  BY <1>1, <1>2, <1>3 DEF StopRead, Signalled, Alive
<1>4. CASE StopKills
  BY <1>2, <1>4 DEF StopKills, Alive
<1>5. CASE StopSeesDeath \/ StopDropsLock \/ StopDropsSocket \/ StopDropsRecord
  BY <1>1, <1>5 DEF StopSeesDeath, StopDropsLock, StopDropsSocket, StopDropsRecord
<1> QED BY <1>3, <1>4, <1>5 DEF StopStep

\* What a connection's own steps do, and the session's.
LEMMA HelloAccept ==
  ASSUME Typed, HelloInv, NEW p \in Process, NEW d \in Client, Accept(p, d)
  PROVE  HelloInv'
<1> USE DEF files, election, daemon, sessions
<1>1. \A q \in Process : /\ queue'[q] = (IF q = p THEN queue[p] \ {d} ELSE queue[q])
                         /\ cur'[q] = (IF q = p THEN d ELSE cur[q])
                         /\ loop'[q] = (IF q = p THEN "accepted" ELSE loop[q])
  BY DEF Typed, TypeOK, Accept
<1>2. UNCHANGED <<pc, why, clients, client, host>> /\ d \in queue[p]
  BY DEF Accept
<1>3. ASSUME NEW q \in Process
      PROVE  LoopInv(q)'
  BY <1>1, <1>2 DEF HelloInv, LoopInv, Serving
<1>4. ASSUME NEW c \in Client
      PROVE  SessionInv(c)'
  <2>1. SessionInv(c)
    BY DEF HelloInv
  <2>2. \A q \in Process : Holds(q, c)' => Holds(q, c)
    BY <1>1, <1>2 DEF Holds
  <2>3. client[c] = "queued" => (c \in queue'[host[c]] \/ cur'[host[c]] = c)
    <3>1. SUFFICES ASSUME client[c] = "queued", host[c] = p
                   PROVE  c \in queue'[p] \/ cur'[p] = c
      BY <1>1, <2>1 DEF SessionInv
    <3>2. cur[p] = None /\ None # c
      BY Names DEF Accept, HelloInv, LoopInv
    <3> QED BY <1>1, <2>1, <3>1, <3>2 DEF SessionInv
  <2> QED BY <1>1, <1>2, <2>1, <2>2, <2>3 DEF SessionInv
<1> QED BY <1>3, <1>4 DEF HelloInv

\* A session is attached to a daemon that serves, or is turned away.
LEMMA HelloAttach ==
  ASSUME Typed, HelloInv, NEW p \in Process, Attach(p)
  PROVE  HelloInv'
<1> USE DEF files, election, daemon, sessions
<1>1. CASE Serving(p)
  <2>1. \A q \in Process : /\ clients'[q] = (IF q = p THEN clients[p] \cup {cur[p]} ELSE clients[q])
                           /\ loop'[q] = (IF q = p THEN "attached" ELSE loop[q])
    BY <1>1 DEF Typed, TypeOK, Attach, Serving
  <2>2. UNCHANGED <<pc, why, queue, cur, client, host>>
    BY <1>1 DEF Attach, Serving
  <2>3. ASSUME NEW q \in Process
        PROVE  LoopInv(q)'
    BY <1>1, <2>1, <2>2 DEF HelloInv, LoopInv, Serving
  <2>4. ASSUME NEW c \in Client
        PROVE  SessionInv(c)'
    <3>1. SessionInv(c) /\ \A q \in Process : Holds(q, c)' => Holds(q, c)
      BY <2>1, <2>2 DEF HelloInv, Holds
    <3> QED BY <2>1, <2>2, <3>1 DEF SessionInv
  <2> QED BY <2>3, <2>4 DEF HelloInv
<1>2. CASE ~Serving(p)
  <2>1. \A q \in Process : /\ queue'[q] = (IF q = p THEN {} ELSE queue[q])
                           /\ cur'[q] = (IF q = p THEN None ELSE cur[q])
                           /\ loop'[q] = (IF q = p THEN "closed" ELSE loop[q])
    BY <1>2 DEF Typed, TypeOK, Attach, Serving
  <2>2. UNCHANGED <<pc, why, clients>> /\ Disconnect(queue[p] \cup {cur[p]})
    BY <1>2 DEF Attach, Serving
  <2>3. ASSUME NEW q \in Process
        PROVE  LoopInv(q)'
    BY <2>1, <2>2 DEF HelloInv, LoopInv, Serving
  <2>4. ASSUME NEW c \in Client
        PROVE  SessionInv(c)'
    <3>1. SessionInv(c) /\ None # c
      BY Names DEF HelloInv
    <3>2. CASE c \in queue[p] \cup {cur[p]}
      <4>1. client[c] # "served"
        BY <3>1, <3>2 DEF SessionInv
      <4>2. \/ client'[c] = "refused"
            \/ client[c] # "queued" /\ client'[c] = client[c] /\ host'[c] = host[c]
        BY <2>2, <3>2, <4>1, Disconnected
      <4>3. \A q \in Process : Holds(q, c)' => Holds(q, c)
        BY <2>1, <2>2, <3>1 DEF Holds
      <4> QED BY <2>2, <3>1, <4>1, <4>2, <4>3 DEF SessionInv
    <3>3. CASE c \notin queue[p] \cup {cur[p]}
      <4>1. client'[c] = client[c] /\ host'[c] = host[c]
        BY <2>2, <3>3, Disconnected
      <4>2. \A q \in Process : Holds(q, c)' => Holds(q, c)
        BY <2>1, <2>2, <3>1 DEF Holds
      <4> QED BY <2>1, <2>2, <3>1, <3>3, <4>1, <4>2 DEF SessionInv
    <3> QED BY <3>2, <3>3
  <2> QED BY <2>3, <2>4 DEF HelloInv
<1> QED BY <1>1, <1>2

\* It is greeted once the daemon counts it.
LEMMA HelloGreet ==
  ASSUME Typed, HelloInv, NEW p \in Process, Greet(p)
  PROVE  HelloInv'
<1> USE DEF files, election, daemon, sessions
<1>1. \A q \in Process : /\ loop'[q] = (IF q = p THEN "free" ELSE loop[q])
                         /\ cur'[q] = (IF q = p THEN None ELSE cur[q])
  BY DEF Typed, TypeOK, Greet
<1>2. /\ UNCHANGED <<pc, why, queue, host>>
      /\ loop[p] = "attached" /\ cur[p] \in Client /\ cur[p] \in clients[p] /\ cur[p] \notin queue[p]
  BY DEF Greet, Typed, HelloInv, LoopInv
<1>3. CASE client[cur[p]] = "queued"
  <2>1. UNCHANGED clients /\ client' = [client EXCEPT ![cur[p]] = "served"]
    BY <1>3 DEF Greet
  <2>2. \A c \in Client : client'[c] = IF c = cur[p] THEN "served" ELSE client[c]
    BY <1>2, <2>1 DEF Typed, TypeOK
  <2>3. ASSUME NEW q \in Process
        PROVE  LoopInv(q)'
    BY <1>1, <1>2, <2>1, Names DEF HelloInv, LoopInv, Serving, Typed, TypeOK
  <2>4. ASSUME NEW c \in Client
        PROVE  SessionInv(c)'
    <3>1. SessionInv(c) /\ None # c
      BY Names DEF HelloInv
    <3>2. \A q \in Process : Holds(q, c)' => Holds(q, c)
      BY <1>1, <1>2, <2>1, <3>1 DEF Holds
    <3>3. CASE c = cur[p]
      <4>1. host[c] = p
        BY <1>2, <1>3, <3>1, <3>3 DEF SessionInv, Holds
      <4>2. \A q \in Process : c \notin queue'[q] /\ cur'[q] # c
        BY <1>1, <1>2, <3>1, <3>3 DEF SessionInv, Holds
      <4> QED BY <1>2, <2>1, <2>2, <3>1, <3>2, <3>3, <4>1, <4>2 DEF SessionInv
    <3>4. CASE c # cur[p]
      BY <1>1, <1>2, <2>1, <2>2, <3>1, <3>2, <3>4 DEF SessionInv
    <3> QED BY <3>3, <3>4
  <2> QED BY <2>3, <2>4 DEF HelloInv
<1>4. CASE client[cur[p]] # "queued"
  <2>1. UNCHANGED client /\ clients' = [clients EXCEPT ![p] = clients[p] \ {cur[p]}]
    BY <1>4 DEF Greet, Dropped
  <2>2. \A q \in Process : clients'[q] = IF q = p THEN clients[p] \ {cur[p]} ELSE clients[q]
    BY <2>1 DEF Typed, TypeOK
  <2>3. ASSUME NEW q \in Process
        PROVE  LoopInv(q)'
    BY <1>1, <1>2, <2>2, Names DEF HelloInv, LoopInv, Serving, Typed, TypeOK
  <2>4. ASSUME NEW c \in Client
        PROVE  SessionInv(c)'
    <3>1. SessionInv(c) /\ None # c
      BY Names DEF HelloInv
    <3>2. \A q \in Process : Holds(q, c)' => Holds(q, c)
      BY <1>1, <1>2, <2>2, <3>1 DEF Holds
    <3>3. c = cur[p] => client[c] \notin {"queued", "served"}
      BY <1>2, <1>4, <3>1 DEF SessionInv
    <3> QED BY <1>1, <1>2, <2>1, <2>2, <3>1, <3>2, <3>3 DEF SessionInv
  <2> QED BY <2>3, <2>4 DEF HelloInv
<1> QED BY <1>3, <1>4

\* The accept loop, the idle timer and the signals it polls.
LEMMA HelloServing ==
  ASSUME Typed, HelloInv, NEW p \in Process,
         LoopStep(p) \/ IdleTimeout(p) \/ \E c \in Client : Drop(p, c)
  PROVE  HelloInv'
<1> USE DEF files, election, daemon, sessions
<1>1. CASE PollInt(p)
  BY <1>1, HelloStopping DEF PollInt, Serving
<1>2. CASE PollTerm(p)
  <2>1. CASE clients[p] = {}
    BY <1>2, <2>1, HelloStopping DEF PollTerm, Serving
  <2>2. CASE clients[p] # {}
    BY <1>2, <2>2, HelloKept DEF PollTerm, Serving
  <2> QED BY <2>1, <2>2
<1>3. CASE IdleTimeout(p)
  BY <1>3, HelloStopping DEF IdleTimeout, Serving
<1>4. CASE CloseListener(p)
  <2>1. \A q \in Process : /\ queue'[q] = (IF q = p THEN {} ELSE queue[q])
                           /\ loop'[q] = (IF q = p THEN "closed" ELSE loop[q])
    BY <1>4 DEF Typed, TypeOK, CloseListener
  <2>2. UNCHANGED <<pc, why, clients, cur>> /\ Disconnect(queue[p]) /\ loop[p] = "free"
    BY <1>4 DEF CloseListener
  <2>3. ASSUME NEW q \in Process
        PROVE  LoopInv(q)'
    BY <2>1, <2>2 DEF HelloInv, LoopInv, Serving
  <2>4. ASSUME NEW c \in Client
        PROVE  SessionInv(c)'
    <3>1. SessionInv(c) /\ \A q \in Process : Holds(q, c)' => Holds(q, c)
      BY <2>1, <2>2 DEF HelloInv, Holds
    <3>2. CASE c \in queue[p]
      <4>1. client[c] # "served"
        BY <3>1, <3>2 DEF SessionInv
      <4>2. \/ client'[c] = "refused"
            \/ client[c] # "queued" /\ client'[c] = client[c] /\ host'[c] = host[c]
        BY <2>2, <3>2, <4>1, Disconnected
      <4> QED BY <2>2, <3>1, <4>1, <4>2 DEF SessionInv
    <3>3. CASE c \notin queue[p]
      <4>1. client'[c] = client[c] /\ host'[c] = host[c]
        BY <2>2, <3>3, Disconnected
      <4> QED BY <2>1, <2>2, <3>1, <3>3, <4>1 DEF SessionInv
    <3> QED BY <3>2, <3>3
  <2> QED BY <2>3, <2>4 DEF HelloInv
<1>5. ASSUME NEW d \in Client, Drop(p, d)
      PROVE  HelloInv'
  <2>1. \A q \in Process : clients'[q] = IF q = p THEN clients[p] \ {d} ELSE clients[q]
    BY <1>5 DEF Drop, Dropped, Typed, TypeOK
  <2>2. UNCHANGED <<pc, why, queue, loop, cur, client, host>> /\ cur[p] # d /\ client[d] # "served"
    BY <1>5 DEF Drop
  <2>3. ASSUME NEW q \in Process
        PROVE  LoopInv(q)'
    BY <2>1, <2>2 DEF HelloInv, LoopInv, Serving
  <2>4. ASSUME NEW c \in Client
        PROVE  SessionInv(c)'
    <3>1. SessionInv(c) /\ \A q \in Process : Holds(q, c)' => Holds(q, c)
      BY <2>1, <2>2 DEF HelloInv, Holds
    <3> QED BY <2>1, <2>2, <3>1 DEF SessionInv
  <2> QED BY <2>3, <2>4 DEF HelloInv
<1> QED BY <1>1, <1>2, <1>3, <1>4, <1>5, HelloAccept, HelloAttach, HelloGreet DEF LoopStep

\* The steps of a session itself.
LEMMA HelloSession ==
  ASSUME Typed, HelloInv, NEW d \in Client, Connect(d) \/ ProbeTimeout(d) \/ Leave(d) \/ SpawnDaemon(d)
  PROVE  HelloInv'
<1> USE DEF files, election, daemon, sessions
<1>1. CASE Connect(d) /\ Listening(socket)
  <2> DEFINE p == socket
  <2>1. p \in Process /\ UNCHANGED <<pc, why, clients, loop, cur>>
    BY <1>1 DEF Connect, Listening
  <2>2. /\ client' = [client EXCEPT ![d] = "queued"] /\ host' = [host EXCEPT ![d] = p]
        /\ queue' = [queue EXCEPT ![p] = queue[p] \cup {d}]
        /\ \A q \in Process : ~Holds(q, d)
    BY <1>1 DEF Connect, Holds
  <2> HIDE DEF p
  <2>3. /\ \A c \in Client : /\ client'[c] = (IF c = d THEN "queued" ELSE client[c])
                             /\ host'[c] = (IF c = d THEN p ELSE host[c])
        /\ \A q \in Process : queue'[q] = IF q = p THEN queue[p] \cup {d} ELSE queue[q]
    BY <2>1, <2>2 DEF Typed, TypeOK
  <2>4. ASSUME NEW q \in Process
        PROVE  LoopInv(q)'
    BY <2>1, <2>2, <2>3 DEF HelloInv, LoopInv, Serving, Holds
  <2>5. ASSUME NEW c \in Client
        PROVE  SessionInv(c)'
    <3>1. SessionInv(c)
      BY DEF HelloInv
    <3>2. CASE c = d
      BY <2>1, <2>2, <2>3, <3>1, <3>2 DEF SessionInv, Holds
    <3>3. CASE c # d
      <4>1. \A q \in Process : Holds(q, c)' => Holds(q, c)
        BY <2>1, <2>3, <3>3 DEF Holds
      <4> QED BY <2>1, <2>3, <3>1, <3>3, <4>1 DEF SessionInv
    <3> QED BY <3>2, <3>3
  <2> QED BY <2>4, <2>5 DEF HelloInv
<1>2. CASE \/ Connect(d) /\ ~Listening(socket)
           \/ ProbeTimeout(d) \/ Leave(d)
  <2>1. /\ UNCHANGED <<pc, why, clients, queue, loop, cur>>
        /\ client'[d] \in {"off", "refused"}
        /\ \A c \in Client \ {d} : client'[c] = client[c] /\ host'[c] = host[c]
    BY <1>2 DEF Connect, ProbeTimeout, Leave, Typed, TypeOK
  <2>2. ASSUME NEW q \in Process
        PROVE  LoopInv(q)'
    BY <2>1 DEF HelloInv, LoopInv, Serving
  <2>3. ASSUME NEW c \in Client
        PROVE  SessionInv(c)'
    <3>1. SessionInv(c) /\ \A q \in Process : Holds(q, c)' => Holds(q, c)
      BY <2>1 DEF HelloInv, Holds
    <3> QED BY <2>1, <3>1 DEF SessionInv
  <2> QED BY <2>2, <2>3 DEF HelloInv
<1>3. CASE SpawnDaemon(d)
  <2>1. /\ UNCHANGED <<why, clients, queue, loop, cur, host>>
        /\ client'[d] = "off" /\ \A c \in Client \ {d} : client'[c] = client[c]
        /\ \A q \in Process : pc[q] # "none" => pc'[q] = pc[q]
        /\ \A q \in Process : pc[q] = "none" => pc'[q] \in {"none", "link"}
    <3>1. pc' = pc \/ \E p \in Process : pc[p] = "none" /\ pc' = [pc EXCEPT ![p] = "link"]
      BY <1>3 DEF SpawnDaemon, Goto
    <3> QED BY <1>3, <3>1 DEF SpawnDaemon, Typed, TypeOK
  <2>2. ASSUME NEW q \in Process
        PROVE  LoopInv(q)'
    BY <2>1 DEF HelloInv, LoopInv, Serving
  <2>3. ASSUME NEW c \in Client
        PROVE  SessionInv(c)'
    <3>1. SessionInv(c) /\ \A q \in Process : Holds(q, c)' => Holds(q, c)
      BY <2>1 DEF HelloInv, Holds
    <3> QED BY <2>1, <3>1 DEF SessionInv, Ending, Stopping
  <2> QED BY <2>2, <2>3 DEF HelloInv
<1> QED BY <1>1, <1>2, <1>3

\* Nobody was greeted at first.
LEMMA HelloInit == Init => HelloInv
<1> SUFFICES ASSUME Init
             PROVE  HelloInv
  OBVIOUS
<1>1. ASSUME NEW q \in Process
      PROVE  LoopInv(q)
  BY DEF Init, LoopInv
<1>2. ASSUME NEW c \in Client
      PROVE  SessionInv(c)
  BY Names DEF Init, SessionInv, Holds
<1> QED BY <1>1, <1>2 DEF HelloInv

\* Together: every step keeps HelloInv.
LEMMA HelloNext == Typed /\ HelloInv /\ [Next]_vars => HelloInv'
<1> SUFFICES ASSUME Typed, HelloInv, [Next]_vars
             PROVE  HelloInv'
  OBVIOUS
<1>1. CASE UNCHANGED vars
  BY <1>1, HelloKept DEF vars, files, election, daemon, sessions, Serving
<1>2. CASE Next
  BY <1>2, HelloElection, HelloServing, HelloEnd, HelloSession, HelloStop DEF Next, Common, StopStep
<1> QED BY <1>1, <1>2

\* A session whose hello was answered is cut off only by the death of its daemon
\* or by an interrupt: the idle timer and SIGTERM find every greeted session
\* registered, whatever the accept loop, the timer and the stop command do in
\* between (handle_connection registers before it sends the hello).
THEOREM HelloIsHonoured == Spec => []HelloHonoured
<1>1. HelloInv => HelloHonoured
  BY DEF HelloInv, SessionInv, HelloHonoured
<1>2. Init => Typed /\ HelloInv
  BY TypedInit, HelloInit
<1>3. Typed /\ HelloInv /\ [Next]_vars => (Typed /\ HelloInv)'
  BY TypedNext, HelloNext
<1> QED BY <1>1, <1>2, <1>3, PTL DEF Spec

-----------------------------------------------------------------------------
(* What a shutdown leaves behind                                             *)

\* The accept loop, the threads of the connections and the sessions touch neither
\* the files nor the stop command; only the timer and the signals start a shutdown.
Quiet == UNCHANGED <<lock, socket, record, pc, stop>>
Ends(p) == Serving(p) /\ Goto(p, "socket") /\ UNCHANGED <<lock, socket, record, stop>>
Dies(p) == Goto(p, "dead") /\ UNCHANGED <<lock, socket, record>>

\* The steps of a serving daemon, seen from the files.
LEMMA ServingIsQuiet ==
  ASSUME NEW p \in Process, LoopStep(p) \/ IdleTimeout(p) \/ \E c \in Client : Drop(p, c)
  PROVE  Quiet \/ Ends(p)
<1> USE DEF files, election, daemon, sessions, Quiet, Ends, Serving
<1>1. CASE \E c \in Client : Accept(p, c) \/ Drop(p, c)
  BY <1>1 DEF Accept, Drop
<1>2. CASE Attach(p) \/ Greet(p) \/ CloseListener(p)
  BY <1>2 DEF Attach, Greet, CloseListener
<1>3. CASE PollInt(p) \/ PollTerm(p) \/ IdleTimeout(p)
  BY <1>3 DEF PollInt, PollTerm, IdleTimeout, MarkStopping
<1> QED BY <1>1, <1>2, <1>3 DEF LoopStep

\* Those of a session.
LEMMA SessionIsQuiet ==
  ASSUME NEW c \in Client, Connect(c) \/ ProbeTimeout(c) \/ Leave(c)
  PROVE  Quiet
BY DEF files, election, daemon, sessions, Quiet, Connect, ProbeTimeout, Leave

\* A spawned process is a candidate, and no file is touched.
LEMMA SpawnSpawns ==
  ASSUME NEW c \in Client, SpawnDaemon(c)
  PROVE  /\ UNCHANGED <<lock, socket, record, stop>>
         /\ pc' = pc \/ \E p \in Process : pc[p] = "none" /\ Goto(p, "link")
BY DEF files, election, daemon, sessions, SpawnDaemon

\* A signal lets a process be or ends it.
LEMMA SignalIsQuiet ==
  ASSUME NEW p \in Process, NEW s \in {"int", "term"}, Signalled(p, s)
  PROVE  pc' = pc \/ Goto(p, "dead")
BY DEF sessions, Signalled, Die

AllFiles == \A p \in Process : FilesInv(p)

\* Steps that touch no file and let no process go back.
LEMMA FilesKept ==
  ASSUME Typed, AllFiles, NEW p \in Process, NEW step \in Steps, Goto(p, step),
         UNCHANGED <<lock, socket, record>>,
         \/ pc[p] \in {"none"} \cup Candidate /\ step \notin {"record"} \cup Ending
         \/ step = "dead"
         \/ pc[p] \in Starting /\ step \in Owner /\ step \notin Stopping
         \/ Serving(p) /\ step = "socket"
         \/ pc[p] = "readLock" /\ step = "dropLock"
         \/ pc[p] \in {"readLock", "stopped"} /\ step \in {"stopped", "exited"} /\ lock # p
  PROVE  AllFiles'
<1>1. \A q \in Process : pc'[q] = IF q = p THEN step ELSE pc[q]
  BY DEF Typed, TypeOK, Goto
<1>2. ASSUME NEW q \in Process
      PROVE  FilesInv(q)'
  BY <1>1 DEF AllFiles, FilesInv, Owner, Starting, Stopping, Candidate, Ending, Serving
<1> QED BY <1>2 DEF AllFiles

\* The election puts the name of the candidate in, or takes another name out.
LEMMA FilesElection ==
  ASSUME Typed, AllFiles, NEW p \in Process, ElectionStep(p) \/ ReadStale(p) \/ BindFails(p)
  PROVE  AllFiles'
<1> USE DEF files, Steps, Owner, Starting, Stopping, Candidate, Gone, Ending
<1>1. CASE Link(p)
  <2>1. CASE lock = None
    <3>1. lock' = p /\ socket' = socket /\ record' = record
      BY <1>1, <2>1 DEF Link
    <3>2. \A q \in Process : pc'[q] = IF q = p THEN "claim" ELSE pc[q]
      BY <1>1, <2>1 DEF Link, Typed, TypeOK, Goto
    <3>3. ASSUME NEW q \in Process
          PROVE  FilesInv(q)'
      BY <1>1, <3>1, <3>2 DEF AllFiles, FilesInv
    <3> QED BY <3>3 DEF AllFiles
  <2>2. CASE lock # None
    BY <1>1, <2>2, FilesKept DEF Link
  <2> QED BY <2>1, <2>2
<1>2. CASE ReadTaken(p)
  BY <1>2, FilesKept DEF ReadTaken
<1>3. CASE ReadStale(p)
  BY <1>3, FilesKept DEF ReadStale, Retry
<1>4. CASE Unlink(p)
  <2>1. \A q \in Process : pc'[q] = pc[q] \/ (q = p /\ pc'[q] \in {"quit", "link"})
    BY <1>4 DEF Unlink, Retry, Goto, Typed, TypeOK
  <2>2. ASSUME NEW q \in Process
        PROVE  FilesInv(q)'
    BY <1>4, <2>1, Names DEF AllFiles, FilesInv, Unlink
  <2> QED BY <2>2 DEF AllFiles
<1>5. CASE ClaimSocket(p)
  <2>1. \A q \in Process : pc'[q] = IF q = p THEN "bind" ELSE pc[q]
    BY <1>5 DEF ClaimSocket, Goto, Typed, TypeOK
  <2>2. ASSUME NEW q \in Process
        PROVE  FilesInv(q)'
    BY <1>5, <2>1, Names DEF AllFiles, FilesInv, ClaimSocket
  <2> QED BY <2>2 DEF AllFiles
<1>6. CASE Bind(p)
  <2>1. CASE socket = None
    <3>1. \A q \in Process : pc'[q] = IF q = p THEN "register" ELSE pc[q]
      BY <1>6, <2>1 DEF Bind, Goto, Typed, TypeOK
    <3>2. ASSUME NEW q \in Process
          PROVE  FilesInv(q)'
      BY <1>6, <2>1, <3>1 DEF AllFiles, FilesInv, Bind
    <3> QED BY <3>2 DEF AllFiles
  <2>2. CASE socket # None
    BY <1>6, <2>2, FilesKept DEF Bind, Die
  <2> QED BY <2>1, <2>2
<1>7. CASE BindFails(p)
  BY <1>7, FilesKept DEF BindFails, Die
<1>8. CASE Register(p)
  <2>1. \A q \in Process : pc'[q] = IF q = p THEN "serving" ELSE pc[q]
    BY <1>8 DEF Register, Goto, Typed, TypeOK
  <2>2. ASSUME NEW q \in Process
        PROVE  FilesInv(q)'
    BY <1>8, <2>1 DEF AllFiles, FilesInv, Register
  <2> QED BY <2>2 DEF AllFiles
<1> QED BY <1>1, <1>2, <1>3, <1>4, <1>5, <1>6, <1>7, <1>8 DEF ElectionStep

\* A shutdown takes a file away before it passes the point where it must be gone.
LEMMA FilesShutdown ==
  ASSUME Typed, AllFiles, NEW p \in Process, ShutdownStep(p)
  PROVE  AllFiles'
<1> USE DEF files, Steps, Owner, Starting, Stopping, Candidate, Gone, Ending
<1>1. CASE DropSocket(p)
  <2>1. \A q \in Process : pc'[q] = IF q = p THEN "record" ELSE pc[q]
    BY <1>1 DEF DropSocket, Goto, Typed, TypeOK
  <2>2. ASSUME NEW q \in Process
        PROVE  FilesInv(q)'
    BY <1>1, <2>1, Names DEF AllFiles, FilesInv, DropSocket
  <2> QED BY <2>2 DEF AllFiles
<1>2. CASE DropRecord(p)
  <2>1. \A q \in Process : pc'[q] = IF q = p THEN "readLock" ELSE pc[q]
    BY <1>2 DEF DropRecord, Goto, Typed, TypeOK
  <2>2. ASSUME NEW q \in Process
        PROVE  FilesInv(q)'
    BY <1>2, <2>1, Names DEF AllFiles, FilesInv, DropRecord
  <2> QED BY <2>2 DEF AllFiles
<1>3. CASE ReadOwnLock(p)
  BY <1>3, FilesKept DEF ReadOwnLock
<1>4. CASE DropLock(p)
  <2>1. \A q \in Process : pc'[q] = IF q = p THEN "stopped" ELSE pc[q]
    BY <1>4 DEF DropLock, Goto, Typed, TypeOK
  <2>2. ASSUME NEW q \in Process
        PROVE  FilesInv(q)'
    BY <1>4, <2>1, Names DEF AllFiles, FilesInv, DropLock
  <2> QED BY <2>2 DEF AllFiles
<1>5. CASE ExitProcess(p)
  <2>1. lock # p
    BY <1>5 DEF AllFiles, FilesInv, ExitProcess
  <2> QED BY <1>5, <2>1, FilesKept DEF ExitProcess
<1> QED BY <1>1, <1>2, <1>3, <1>4, <1>5 DEF ShutdownStep

\* The stop command puts no name into a file.
LEMMA FilesStop ==
  ASSUME Typed, AllFiles, StopStep
  PROVE  AllFiles'
<1> USE DEF files, Steps, Gone
<1>1. CASE UNCHANGED <<lock, socket, record, pc>>
  BY <1>1 DEF AllFiles, FilesInv
<1>2. ASSUME NEW p \in Process, Dies(p)
      PROVE  AllFiles'
  BY <1>2, FilesKept DEF Dies
<1>3. CASE StopRead
  BY <1>1, <1>2, <1>3, SignalIsQuiet DEF StopRead, Alive, Dies
<1>4. CASE StopKills
  BY <1>2, <1>4 DEF StopKills, Alive, Die, Dies
<1>5. CASE StopSeesDeath
  BY <1>1, <1>5 DEF StopSeesDeath
<1>6. CASE StopDropsLock \/ StopDropsSocket \/ StopDropsRecord
  <2>1. /\ lock' \in {lock, None} /\ socket' \in {socket, None} /\ record' \in {record, None}
        /\ pc' = pc
    BY <1>6 DEF StopDropsLock, StopDropsSocket, StopDropsRecord
  <2>2. ASSUME NEW q \in Process
        PROVE  FilesInv(q)'
    BY <2>1, Names DEF AllFiles, FilesInv
  <2> QED BY <2>2 DEF AllFiles
<1> QED BY <1>3, <1>4, <1>5, <1>6 DEF StopStep

\* Together: no file bears the name of a process that is done with it.
LEMMA FilesNext == Typed /\ AllFiles /\ [Next]_vars => AllFiles'
<1> SUFFICES ASSUME Typed, AllFiles, [Next]_vars
             PROVE  AllFiles'
  OBVIOUS
<1> USE DEF files, Steps, Owner, Stopping, Candidate, Gone
<1>1. CASE UNCHANGED <<lock, socket, record, pc>>
  BY <1>1 DEF AllFiles, FilesInv
<1>2. ASSUME NEW p \in Process, LoopStep(p) \/ IdleTimeout(p) \/ \E c \in Client : Drop(p, c)
      PROVE  AllFiles'
  BY <1>1, <1>2, ServingIsQuiet, FilesKept DEF Quiet, Ends
<1>3. ASSUME NEW p \in Process, Crash(p) \/ \E s \in {"int", "term"} : Signal(p, s)
      PROVE  AllFiles'
  BY <1>1, <1>3, SignalIsQuiet, FilesKept DEF Crash, Die, Signal
<1>4. ASSUME NEW c \in Client, Connect(c) \/ ProbeTimeout(c) \/ Leave(c)
      PROVE  AllFiles'
  BY <1>1, <1>4, SessionIsQuiet DEF Quiet
<1>5. ASSUME NEW c \in Client, SpawnDaemon(c)
      PROVE  AllFiles'
  BY <1>1, <1>5, SpawnSpawns, FilesKept DEF Ending
<1>6. CASE UNCHANGED vars
  BY <1>1, <1>6 DEF vars
<1> QED
  BY <1>2, <1>3, <1>4, <1>5, <1>6, FilesElection, FilesShutdown, FilesStop DEF Next, Common, StopStep

\* A daemon that ended by itself is named by no file, whoever else came, went or
\* was stopped in the meantime: it removes the socket and the record, and the lock
\* unless the lock is another's (finish_stop, cleanup_lockfile).
THEOREM ExitIsClean == Spec => []CleanExit
<1>1. AllFiles => CleanExit
  BY DEF AllFiles, FilesInv, CleanExit, Owner, Starting, Stopping
<1>2. Init => Typed /\ AllFiles
  BY TypedInit, Names DEF Init, AllFiles, FilesInv
<1>3. Typed /\ AllFiles /\ [Next]_vars => (Typed /\ AllFiles)'
  BY TypedNext, FilesNext
<1> QED BY <1>1, <1>2, <1>3, PTL DEF Spec

-----------------------------------------------------------------------------
(* One daemon, and it can be found: CalmSpec                                 *)

CalmInv == Typed /\ AllFiles /\ LockInv

\* A process that goes on, or ends, with the lock and the socket as they are.
LEMMA LockKept ==
  ASSUME CalmInv, NEW p \in Process, NEW step \in Steps, Goto(p, step),
         UNCHANGED <<lock, socket, stop>>, pc[p] \notin Gone, step # "unlink",
         step \in Candidate => pc[p] \in Candidate \/ stop.step = "off",
         step \in Owner => pc[p] \in Owner,
         step \in Starting => pc[p] \in Starting,
         step \in {"register", "serving"} => socket = p
  PROVE  LockInv'
<1>1. \A q \in Process : pc'[q] = IF q = p THEN step ELSE pc[q]
  BY DEF CalmInv, Typed, TypeOK, Goto
<1>2. Alive(lock)' => Alive(lock)
  BY <1>1 DEF CalmInv, AllFiles, FilesInv, Alive, Owner, Starting, Stopping, Gone
<1>3. ASSUME NEW q \in Process
      PROVE  OwnerInv(q)'
  BY <1>1, <1>2 DEF CalmInv, LockInv, OwnerInv
<1>4. StopInv'
  BY <1>1 DEF CalmInv, LockInv, StopInv, Owner
<1> QED BY <1>3, <1>4 DEF LockInv

\* An owner is alone.
LEMMA OwnerAlone ==
  ASSUME CalmInv, NEW p \in Process, pc[p] \in Owner
  PROVE  /\ \A q \in Process : pc[q] \in Owner => q = p
         /\ \A q \in Process : pc[q] # "unlink"
<1>1. lock = p /\ Alive(lock)
  BY DEF CalmInv, LockInv, OwnerInv, Alive, Owner, Starting, Stopping, Gone
<1> QED BY <1>1 DEF CalmInv, LockInv, OwnerInv

\* Without an owner the lock may go and come.
LEMMA NobodyOwns ==
  ASSUME CalmInv, lock \notin {p \in Process : Alive(p)}
  PROVE  \A q \in Process : pc[q] \notin Owner
BY DEF CalmInv, LockInv, OwnerInv, Alive, Owner, Starting, Stopping, Gone

\* A candidate gets the lock only when no owner is left.
LEMMA LockElection ==
  ASSUME CalmInv, NEW p \in Process, ElectionStep(p) \/ BindFails(p)
  PROVE  LockInv'
<1> USE DEF files, Steps, Owner, Starting, Stopping, Candidate, Gone
<1>1. CASE Link(p)
  <2>1. CASE lock = None
    <3>1. lock' = p /\ socket' = socket /\ stop' = stop /\ pc[p] = "link"
      BY <1>1, <2>1 DEF Link
    <3>2. \A q \in Process : pc'[q] = IF q = p THEN "claim" ELSE pc[q]
      BY <1>1, <2>1 DEF Link, CalmInv, Typed, TypeOK, Goto
    <3>3. \A q \in Process : pc[q] \notin Owner \cup {"unlink"}
      BY <2>1, Names, NobodyOwns DEF CalmInv, LockInv, OwnerInv
    <3>4. ASSUME NEW q \in Process
          PROVE  OwnerInv(q)'
      BY <3>1, <3>2, <3>3 DEF OwnerInv
    <3>5. StopInv'
      BY <3>1, <3>2 DEF CalmInv, LockInv, StopInv
    <3> QED BY <3>4, <3>5 DEF LockInv
  <2>2. CASE lock # None
    BY <1>1, <2>2, LockKept DEF Link
  <2> QED BY <2>1, <2>2
<1>2. CASE ReadTaken(p)
  BY <1>2, LockKept DEF ReadTaken
<1>3. CASE Unlink(p)
  <2>1. lock' = None /\ socket' = socket /\ stop' = stop /\ pc[p] = "unlink"
    BY <1>3 DEF Unlink
  <2>2. \A q \in Process : pc'[q] = pc[q] \/ (q = p /\ pc'[q] \in {"quit", "link"})
    BY <1>3 DEF Unlink, Retry, Goto, CalmInv, Typed, TypeOK
  <2>3. \A q \in Process : pc'[q] \notin Owner \cup {"unlink"}
    <3>1. \A q \in Process : pc[q] \notin Owner
      BY <2>1, OwnerAlone
    <3>2. \A q \in Process \ {p} : pc[q] # "unlink"
      BY <2>1 DEF CalmInv, LockInv, OwnerInv
    <3>3. pc'[p] \in {"quit", "link"}
      BY <1>3 DEF Unlink, Retry, Goto, CalmInv, Typed, TypeOK
    <3> QED BY <2>2, <3>1, <3>2, <3>3
  <2>4. ASSUME NEW q \in Process
        PROVE  OwnerInv(q)'
    BY <2>3 DEF OwnerInv
  <2>5. StopInv'
    BY <2>1, <2>2 DEF CalmInv, LockInv, StopInv
  <2> QED BY <2>4, <2>5 DEF LockInv
<1>4. CASE ClaimSocket(p) \/ (Bind(p) /\ socket = None)
  <2>1. /\ lock' = lock /\ stop' = stop /\ pc[p] \in {"claim", "bind"}
        /\ pc' = [pc EXCEPT ![p] = IF pc[p] = "claim" THEN "bind" ELSE "register"]
        /\ pc[p] = "bind" => socket' = p
    BY <1>4 DEF ClaimSocket, Bind, Goto
  <2>2. \A q \in Process : pc'[q] = IF q = p THEN (IF pc[p] = "claim" THEN "bind" ELSE "register") ELSE pc[q]
    BY <2>1 DEF CalmInv, Typed, TypeOK
  <2>3. \A q \in Process \ {p} : pc[q] \notin Owner \cup {"unlink"}
    BY <2>1, OwnerAlone
  <2>4. ASSUME NEW q \in Process
        PROVE  OwnerInv(q)'
    BY <2>1, <2>2, <2>3 DEF CalmInv, LockInv, OwnerInv
  <2>5. StopInv'
    BY <2>1, <2>2 DEF CalmInv, LockInv, StopInv
  <2> QED BY <2>4, <2>5 DEF LockInv
<1>5. CASE Bind(p) /\ socket # None
  BY <1>5, LockKept DEF Bind, Die
<1>6. CASE BindFails(p)
  BY <1>6, LockKept DEF BindFails, Die
<1>7. CASE Register(p)
  <2>1. socket = p
    BY <1>7 DEF Register, CalmInv, LockInv, OwnerInv
  <2> QED BY <1>7, <2>1, LockKept DEF Register
<1> QED BY <1>1, <1>2, <1>3, <1>4, <1>5, <1>6, <1>7 DEF ElectionStep

\* A stale lock is removed by one process at a time.
LEMMA LockReadStale ==
  ASSUME CalmInv, NEW p \in Process, ReadStale(p), \A q \in Process : pc[q] # "unlink"
  PROVE  LockInv'
<1> USE DEF files, Steps, Owner, Starting, Stopping, Candidate, Gone
<1>1. CASE Retry(p)
  BY <1>1, LockKept DEF ReadStale, Retry
<1>2. CASE Goto(p, "unlink") /\ lock # None /\ ~Alive(lock)
  <2>1. \A q \in Process : pc'[q] = IF q = p THEN "unlink" ELSE pc[q]
    BY <1>2 DEF Goto, CalmInv, Typed, TypeOK
  <2>2. UNCHANGED <<lock, socket, stop>> /\ pc[p] = "clear"
    BY DEF ReadStale
  <2>3. ~Alive(lock)'
    BY <1>2, <2>1, <2>2 DEF Alive
  <2>4. ASSUME NEW q \in Process
        PROVE  OwnerInv(q)'
    BY <1>2, <2>1, <2>2, <2>3 DEF CalmInv, LockInv, OwnerInv
  <2>5. StopInv'
    BY <2>1, <2>2 DEF CalmInv, LockInv, StopInv
  <2> QED BY <2>4, <2>5 DEF LockInv
<1>3. Alive(Corrupt) = FALSE
  BY Names DEF Alive
<1> QED BY <1>1, <1>2, <1>3 DEF ReadStale

\* A daemon is no owner any more when its lock is gone.
LEMMA LockShutdown ==
  ASSUME CalmInv, NEW p \in Process, ShutdownStep(p)
  PROVE  LockInv'
<1> USE DEF files, Steps, Owner, Starting, Stopping, Candidate, Gone
<1>1. CASE DropSocket(p) \/ DropLock(p)
  <2>1. /\ stop' = stop /\ pc[p] \in {"socket", "dropLock"}
        /\ pc' = [pc EXCEPT ![p] = IF pc[p] = "socket" THEN "record" ELSE "stopped"]
        /\ lock' \in {lock, None} /\ socket' \in {socket, None}
        /\ pc[p] = "socket" => lock' = lock
    BY <1>1 DEF DropSocket, DropLock, Goto
  <2>2. \A q \in Process : pc'[q] = IF q = p THEN (IF pc[p] = "socket" THEN "record" ELSE "stopped") ELSE pc[q]
    BY <2>1 DEF CalmInv, Typed, TypeOK
  <2>3. \A q \in Process \ {p} : pc[q] \notin Owner \cup {"unlink"}
    BY <2>1, OwnerAlone
  <2>4. ASSUME NEW q \in Process
        PROVE  OwnerInv(q)'
    BY <2>1, <2>2, <2>3 DEF CalmInv, LockInv, OwnerInv
  <2>5. StopInv'
    BY <2>1, <2>2 DEF CalmInv, LockInv, StopInv
  <2> QED BY <2>4, <2>5 DEF LockInv
<1>2. CASE DropRecord(p)
  BY <1>2, LockKept DEF DropRecord
<1>3. CASE ReadOwnLock(p)
  BY <1>3, LockKept DEF ReadOwnLock
<1>4. CASE ExitProcess(p)
  BY <1>4, LockKept DEF ExitProcess
<1> QED BY <1>1, <1>2, <1>3, <1>4 DEF ShutdownStep

\* The stop command looks while nobody starts, and removes the files once its
\* daemon is gone.
LEMMA LockStop ==
  ASSUME CalmInv, StopStep, StopRead => \A p \in Process : pc[p] \notin Candidate \cup Starting
  PROVE  LockInv'
<1> USE DEF files, Owner, Starting, Stopping, Candidate
<1>1. ASSUME NEW p, p = p, UNCHANGED <<lock, socket>>, \A q \in Process : pc'[q] \in {pc[q], "dead"}
      PROVE  \A q \in Process : OwnerInv(q)'
  BY <1>1 DEF CalmInv, LockInv, OwnerInv, Alive, Gone
<1>2. ASSUME NEW p \in Process, Goto(p, "dead")
      PROVE  \A q \in Process : pc'[q] = IF q = p THEN "dead" ELSE pc[q]
  BY <1>2 DEF Goto, CalmInv, Typed, TypeOK
<1>3. CASE StopRead
  <2> DEFINE target == IF lock \in Pid THEN lock ELSE IF Alive(record) THEN record ELSE None
  <2>1. /\ IF Alive(target)
             THEN stop' = [step |-> "wait", target |-> target] /\ Signalled(target, "term")
             ELSE stop' = [step |-> "lock", target |-> target] /\ UNCHANGED pc
        /\ UNCHANGED <<lock, socket>>
    BY <1>3 DEF StopRead
  <2>2. \A q \in Process : pc[q] \in Owner => q = target /\ Alive(target)
    BY DEF CalmInv, LockInv, OwnerInv, Pid, Alive, Gone
  <2>3. Alive(target) => target \in Process
    BY DEF Alive
  <2> HIDE DEF target
  <2>4. \A q \in Process : pc'[q] \in {pc[q], "dead"}
    <3>1. CASE Alive(target)
      BY <1>2, <2>1, <2>3, <3>1, SignalIsQuiet
    <3>2. CASE ~Alive(target)
      BY <2>1, <3>2
    <3> QED BY <3>1, <3>2
  <2>5. \A q \in Process : pc'[q] \notin Candidate \cup Starting
    BY <1>3, <2>4
  <2>6. \A q \in Process : pc'[q] \in Owner => q = target /\ Alive(target)
    BY <2>2, <2>4
  <2>7. StopInv'
    BY <2>1, <2>5, <2>6 DEF StopInv
  <2> QED BY <1>1, <2>1, <2>4, <2>7 DEF LockInv
<1>4. CASE StopSeesDeath \/ StopKills
  <2>1. /\ stop.step = "wait" /\ stop' = [stop EXCEPT !.step = "lock"]
        /\ UNCHANGED <<lock, socket>>
        /\ \/ pc' = pc /\ ~Alive(stop.target)
           \/ Alive(stop.target) /\ Goto(stop.target, "dead")
    BY <1>4 DEF StopSeesDeath, StopKills, Die
  <2>2. stop'.step = "lock"
    BY <2>1 DEF CalmInv, Typed, TypeOK
  <2>3. \A q \in Process : pc'[q] \in {pc[q], "dead"} /\ (q = stop.target => pc'[q] \notin Owner)
    BY <1>2, <2>1 DEF Alive, Gone
  <2>4. \A q \in Process : pc'[q] \notin Owner \cup Candidate
    BY <2>1, <2>3 DEF CalmInv, LockInv, StopInv
  <2>5. StopInv'
    BY <2>2, <2>4 DEF StopInv
  <2> QED BY <1>1, <2>1, <2>3, <2>5 DEF LockInv
<1>5. CASE StopDropsLock \/ StopDropsSocket \/ StopDropsRecord
  <2>1. /\ stop.step \in {"lock", "socket", "record"} /\ pc' = pc
        /\ lock' \in {lock, None} /\ socket' \in {socket, None}
        /\ stop'.step \in {"socket", "record"} => lock' = None
        /\ stop'.step = "record" => socket' = None
    BY <1>5 DEF StopDropsLock, StopDropsSocket, StopDropsRecord, CalmInv, LockInv, StopInv, Typed, TypeOK
  <2>2. \A q \in Process : pc[q] \notin Owner \cup Candidate
    BY <2>1 DEF CalmInv, LockInv, StopInv
  <2>3. ASSUME NEW q \in Process
        PROVE  OwnerInv(q)'
    BY <2>1, <2>2 DEF OwnerInv
  <2>4. StopInv'
    BY <2>1, <2>2 DEF StopInv
  <2> QED BY <2>3, <2>4 DEF LockInv
<1> QED BY <1>3, <1>4, <1>5 DEF StopStep

\* Together: every step of CalmSpec keeps LockInv.
LEMMA CalmStepLock == CalmInv /\ [CalmNext]_vars => LockInv'
<1> SUFFICES ASSUME CalmInv, [CalmNext]_vars
             PROVE  LockInv'
  OBVIOUS
<1> USE DEF files, Steps, Owner, Starting, Stopping, Candidate, Gone
<1>1. CASE UNCHANGED <<lock, socket, pc, stop>>
  BY <1>1 DEF CalmInv, LockInv, OwnerInv, StopInv, Alive
<1>2. ASSUME NEW p \in Process, LoopStep(p) \/ IdleTimeout(p) \/ \E c \in Client : Drop(p, c)
      PROVE  LockInv'
  BY <1>1, <1>2, ServingIsQuiet, LockKept DEF Quiet, Ends, Serving
<1>3. ASSUME NEW p \in Process, Crash(p) \/ \E s \in {"int", "term"} : Signal(p, s)
      PROVE  LockInv'
  <2>1. pc[p] \notin Gone /\ UNCHANGED <<lock, socket, stop>> /\ (pc' = pc \/ Goto(p, "dead"))
    BY <1>3, SignalIsQuiet DEF Crash, Die, Signal, Alive
  <2> QED BY <1>1, <2>1, LockKept
<1>4. ASSUME NEW c \in Client, Connect(c) \/ ProbeTimeout(c) \/ Leave(c)
      PROVE  LockInv'
  BY <1>1, <1>4, SessionIsQuiet DEF Quiet
<1>5. ASSUME NEW c \in Client, SpawnDaemon(c), stop.step = "off"
      PROVE  LockInv'
  BY <1>1, <1>5, SpawnSpawns, LockKept
<1>6. CASE UNCHANGED vars
  BY <1>1, <1>6 DEF vars
<1>7. CASE Common
  <2>1. ASSUME StopSeesDeath \/ StopKills \/ StopDropsLock \/ StopDropsSocket \/ StopDropsRecord
        PROVE  LockInv'
    <3>1. ~StopRead
      BY <2>1 DEF StopRead, StopSeesDeath, StopKills, StopDropsLock, StopDropsSocket, StopDropsRecord
    <3> QED BY <2>1, <3>1, LockStop DEF StopStep
  <2> QED BY <1>2, <1>3, <1>4, <1>7, <2>1, LockElection, LockShutdown DEF Common
<1>8. CASE (\A p \in Process : pc[p] \notin Candidate \cup Starting) /\ StopRead
  BY <1>8, LockStop DEF StopStep
<1>9. CASE (\A p \in Process : pc[p] # "unlink") /\ \E p \in Process : ReadStale(p)
  BY <1>9, LockReadStale
<1> QED BY <1>5, <1>6, <1>7, <1>8, <1>9 DEF CalmNext

\* What is left out of CalmSpec is left out of nothing else.
LEMMA CalmIsNext == [CalmNext]_vars => [Next]_vars
BY DEF CalmNext, Next

\* The invariant of CalmSpec holds.
LEMMA CalmHolds == CalmSpec => []CalmInv
<1>1. Init => CalmInv
  <2>1. Init => AllFiles
    BY Names DEF Init, AllFiles, FilesInv
  <2>2. Init => LockInv
    BY DEF Init, LockInv, OwnerInv, StopInv, Owner, Starting, Stopping, Candidate
  <2> QED BY <2>1, <2>2, TypedInit DEF CalmInv
<1>2. CalmInv /\ [CalmNext]_vars => CalmInv'
  BY TypedNext, FilesNext, CalmStepLock, CalmIsNext DEF CalmInv
<1> QED BY <1>1, <1>2, PTL DEF CalmSpec

\* However many processes race for a lock that its daemon left behind, and however
\* one shuts down, is stopped or killed meanwhile, at most one at a time owns the
\* project, as long as a stale lock is read and removed by one of them at a time
\* (try_acquire_daemon_lock, clear_stale_daemon_lock).
THEOREM OneDaemonAtMost == CalmSpec => []OneDaemon
<1>1. CalmInv => OneDaemon
  <2> SUFFICES ASSUME CalmInv
               PROVE  OneDaemon
    OBVIOUS
  <2> DEFINE owners == {p \in Process : pc[p] \in Owner}
  <2>1. owners \subseteq {lock}
    BY DEF CalmInv, LockInv, OwnerInv
  <2>2. IsFiniteSet({lock}) /\ Cardinality({lock}) = 1
    BY FS_Singleton
  <2> HIDE DEF owners
  <2>3. Cardinality(owners) <= 1
    BY <2>1, <2>2, FS_Subset
  <2> QED BY <2>3 DEF owners, OneDaemon
<1> QED BY <1>1, CalmHolds, PTL

\* A daemon that serves is the one the lock names and the socket leads to, whatever
\* the shutdown of another and the stop command remove (Daemon::start, finish_stop).
THEOREM ServingIsReachable == CalmSpec => []Reachable
<1>1. CalmInv => Reachable
  BY DEF CalmInv, LockInv, OwnerInv, Reachable, Owner
<1> QED BY <1>1, CalmHolds, PTL

\* The stop command reports when no daemon is left and none of its files, though it
\* removes them one by one and whoever they belong to (stop_daemon_at,
\* cleanup_artifacts).
THEOREM StopIsComplete == CalmSpec => StopLeavesNothing
<1>1. CalmInv /\ [CalmNext]_vars /\ StopDone =>
        /\ lock' = None /\ socket' = None /\ record' = None
        /\ \A p \in Process : pc'[p] \notin Owner
  <2> SUFFICES ASSUME CalmInv, [CalmNext]_vars, StopDone
               PROVE  /\ lock' = None /\ socket' = None /\ record' = None
                      /\ \A p \in Process : pc'[p] \notin Owner
    OBVIOUS
  <2>1. stop' # stop /\ stop.step = "record" /\ stop'.step = "off"
    BY DEF StopDone
  <2>2. StopDropsRecord
    <3>1. ASSUME NEW p \in Process, LoopStep(p) \/ IdleTimeout(p) \/ \E c \in Client : Drop(p, c)
          PROVE  stop' = stop
      BY <3>1, ServingIsQuiet DEF Quiet, Ends
    <3>2. ASSUME NEW c \in Client, \/ Connect(c) \/ ProbeTimeout(c) \/ Leave(c)
                                   \/ SpawnDaemon(c)
          PROVE  stop' = stop
      BY <3>2, SessionIsQuiet, SpawnSpawns DEF Quiet
    <3>3. ASSUME NEW p \in Process, ElectionStep(p) \/ ReadStale(p) \/ BindFails(p)
          PROVE  stop' = stop
      BY <3>3 DEF ElectionStep, Link, ReadTaken, Unlink, ClaimSocket, Bind, Register, ReadStale, BindFails
    <3>4. ASSUME NEW p \in Process, \/ ShutdownStep(p) \/ Crash(p)
                                    \/ \E s \in {"int", "term"} : Signal(p, s)
          PROVE  stop' = stop
      BY <3>4 DEF ShutdownStep, DropSocket, DropRecord, ReadOwnLock, DropLock, ExitProcess, Crash, Signal
    <3>5. ~StopRead /\ ~StopSeesDeath /\ ~StopKills /\ ~StopDropsLock /\ ~StopDropsSocket
      BY <2>1 DEF StopRead, StopSeesDeath, StopKills, StopDropsLock, StopDropsSocket
    <3>6. ~UNCHANGED vars
      BY <2>1 DEF vars
    <3>7. CalmNext
      BY <3>6
    <3>8. Common
      BY <2>1, <3>2, <3>3, <3>5, <3>7 DEF CalmNext
    <3> QED BY <2>1, <3>1, <3>2, <3>3, <3>4, <3>5, <3>8 DEF Common
  <2>3. lock = None /\ socket = None /\ \A p \in Process : pc[p] \notin Owner
    BY <2>1 DEF CalmInv, LockInv, StopInv
  <2> QED BY <2>2, <2>3 DEF StopDropsRecord
<1>2. CalmInv /\ [CalmNext]_vars =>
        [StopDone => /\ lock' = None /\ socket' = None /\ record' = None
                     /\ \A p \in Process : pc'[p] \notin Owner]_vars
  BY <1>1
<1> QED BY <1>2, CalmHolds, PTL DEF CalmSpec, StopLeavesNothing
=============================================================================
