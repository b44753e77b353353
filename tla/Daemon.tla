-------------------------------- MODULE Daemon --------------------------------
(***************************************************************************)
(* The shared MCP daemon of one project: how a process becomes it (the     *)
(* lock file daemon.pid, with recovery from a dead holder), how sessions   *)
(* attach over its socket, how it shuts down (idle timeout, signals) and   *)
(* what `codegraph daemon stop` does from outside.                         *)
(*                                                                         *)
(* A process id is used once.  What a process does between two accesses to *)
(* the files it shares with the others, or between two uses of the         *)
(* daemon's own mutex, is one step.                                        *)
(***************************************************************************)
EXTENDS Naturals, FiniteSets

CONSTANTS Process,             \* pids the daemon may get
          Client,              \* sessions of an MCP host
          None, Corrupt,       \* no file; a lock file that does not decode
          Ghost,               \* a daemon that died before the model starts
          TakeoverMaxRetries,  \* attempts to get the lock: 5 in the code
          MaxEvent             \* crashes, failing binds, signals and stop commands explored

ASSUME DaemonAssumption ==
  /\ Cardinality({None, Corrupt, Ghost}) = 3
  /\ {None, Corrupt, Ghost} \cap Process = {}
  /\ None \notin Client
  /\ TakeoverMaxRetries \in Nat \ {0}
  /\ MaxEvent \in Nat

VARIABLES lock, socket, record,      \* whom daemon.pid, daemon.sock and the registry name
          pc, seen, tries, why,      \* per process: where it is, the pid it read in the lock,
                                     \* attempts made, the reason it shuts down
          armed, clients,            \* DaemonState.idle_deadline and .clients
          queue, loop, cur, sig,     \* connections not accepted, the accept loop and the
                                     \* connection it handles, signals it has not polled
          client, host,              \* per session: its state and the daemon it reached
          stop,                      \* the stop command: its step and its target
          events                     \* how many of MaxEvent there were

files == <<lock, socket, record>>
election == <<seen, tries, why>>
daemon == <<armed, clients, queue, loop, cur, sig>>
sessions == <<client, host>>
vars == <<files, pc, election, daemon, sessions, stop, events>>

Candidate == {"link", "taken", "clear", "unlink"}
Starting == {"claim", "bind", "register"}
Stopping == {"socket", "record", "readLock", "dropLock"}
Owner == Starting \cup {"serving"} \cup Stopping
Gone == {"quit", "dead", "exited"}
Steps == {"none"} \cup Candidate \cup Owner \cup {"stopped"} \cup Gone

Pid == Process \cup {Ghost}
TypeOK ==
  /\ lock \in Pid \cup {None, Corrupt} /\ socket \in Pid \cup {None}
  /\ record \in Pid \cup {None}
  /\ pc \in [Process -> Steps] /\ seen \in [Process -> Pid \cup {None}]
  /\ tries \in [Process -> 0..TakeoverMaxRetries]
  /\ why \in [Process -> {"none", "idle", "term", "int"}]
  /\ armed \in [Process -> BOOLEAN]
  /\ clients \in [Process -> SUBSET Client] /\ queue \in [Process -> SUBSET Client]
  /\ loop \in [Process -> {"free", "accepted", "attached", "closed"}]
  /\ cur \in [Process -> Client \cup {None}] /\ sig \in [Process -> SUBSET {"int", "term"}]
  /\ client \in [Client -> {"off", "queued", "refused", "served", "cut"}]
  /\ host \in [Client -> Process \cup {None}]
  /\ stop \in [step : {"off", "wait", "lock", "socket", "record"}, target : Pid \cup {None}]
  /\ events \in 0..MaxEvent

\* A project whose last daemon may have died without cleaning up.
Init ==
  /\ lock \in {None, Ghost, Corrupt}
  /\ \/ socket = None /\ record = None
     \/ socket = Ghost /\ record = Ghost
  /\ pc = [p \in Process |-> "none"] /\ seen = [p \in Process |-> None]
  /\ tries = [p \in Process |-> 0] /\ why = [p \in Process |-> "none"]
  /\ armed = [p \in Process |-> FALSE] /\ clients = [p \in Process |-> {}]
  /\ queue = [p \in Process |-> {}] /\ loop = [p \in Process |-> "free"]
  /\ cur = [p \in Process |-> None] /\ sig = [p \in Process |-> {}]
  /\ client = [c \in Client |-> "off"] /\ host = [c \in Client |-> None]
  /\ stop = [step |-> "off", target |-> None]
  /\ events = 0

\* is_process_alive, of what a lock file or a registry record names.
Alive(p) == p \in Process /\ pc[p] \notin Gone \cup {"none"}

Goto(p, step) == pc' = [pc EXCEPT ![p] = step]

-----------------------------------------------------------------------------
(* Becoming the daemon: server/daemon.rs start. *)

\* Mutant: the link replaces a file that is there.
BugLink(p) ==
  /\ pc[p] = "link"
  /\ lock' = p /\ Goto(p, "claim") /\ tries' = [tries EXCEPT ![p] = 0]
  /\ UNCHANGED <<socket, record, seen, why, daemon, sessions, stop, events>>

\* try_acquire_daemon_lock: one hard link, atomic and exclusive.
Link(p) ==
  /\ pc[p] = "link"
  /\ IF lock = None THEN lock' = p /\ Goto(p, "claim") /\ tries' = [tries EXCEPT ![p] = 0]
                    ELSE lock' = lock /\ Goto(p, "taken") /\ tries' = tries
  /\ UNCHANGED <<socket, record, seen, why, daemon, sessions, stop, events>>

\* Mutant: a lock that does not decode is taken as it is.
BugReadTaken(p) ==
  /\ pc[p] = "taken"
  /\ IF Alive(lock) THEN Goto(p, "quit") /\ seen' = seen
     ELSE Goto(p, "clear") /\ seen' = [seen EXCEPT ![p] = lock]
  /\ UNCHANGED <<files, tries, why, daemon, sessions, stop, events>>

\* The link failed: read who has the lock, and give way if he lives.
ReadTaken(p) ==
  /\ pc[p] = "taken"
  /\ IF Alive(lock) THEN Goto(p, "quit") /\ seen' = seen
     ELSE /\ Goto(p, "clear")
          /\ seen' = [seen EXCEPT ![p] = IF lock = Corrupt THEN None ELSE lock]
  /\ UNCHANGED <<files, tries, why, daemon, sessions, stop, events>>

Retry(p) ==
  /\ tries' = [tries EXCEPT ![p] = @ + 1]
  /\ Goto(p, IF tries[p] + 1 = TakeoverMaxRetries THEN "quit" ELSE "link")

\* Mutant: the lock is not compared before it is removed.
BugReadStale(p) ==
  /\ pc[p] = "clear"
  /\ IF lock = None THEN Retry(p) ELSE Goto(p, "unlink") /\ tries' = tries
  /\ seen' = [seen EXCEPT ![p] = None]
  /\ UNCHANGED <<files, why, daemon, sessions, stop, events>>

\* clear_stale_daemon_lock: read again who has it ...
ReadStale(p) ==
  /\ pc[p] = "clear"
  /\ LET other == lock # Corrupt /\ (seen[p] \notin {None, lock} \/ Alive(lock)) IN
     IF lock = None \/ other THEN Retry(p) ELSE Goto(p, "unlink") /\ tries' = tries
  /\ seen' = [seen EXCEPT ![p] = None]
  /\ UNCHANGED <<files, why, daemon, sessions, stop, events>>

\* ... and remove the file of that name, whatever it holds by now.
Unlink(p) ==
  /\ pc[p] = "unlink"
  /\ lock' = None
  /\ Retry(p)
  /\ UNCHANGED <<socket, record, seen, why, daemon, sessions, stop, events>>

\* Daemon::start: the socket of an earlier daemon goes ...
ClaimSocket(p) ==
  /\ pc[p] = "claim"
  /\ socket' = None
  /\ Goto(p, "bind")
  /\ UNCHANGED <<lock, record, election, daemon, sessions, stop, events>>

\* Connections are closed: who waits for the hello is refused, who had it is cut off.
Disconnect(cs) ==
  /\ client' = [c \in Client |-> IF c \notin cs THEN client[c]
                                ELSE CASE client[c] = "served" -> "cut"
                                       [] client[c] = "queued" -> "refused"
                                       [] OTHER -> client[c]]
  /\ host' = [c \in Client |-> IF c \in cs /\ client[c] = "queued" THEN None ELSE host[c]]

\* A process ends: the kernel closes its connections and its listener.
HangUp(p) ==
  /\ Disconnect({c \in Client : host[c] = p})
  /\ armed' = [armed EXCEPT ![p] = FALSE]
  /\ clients' = [clients EXCEPT ![p] = {}] /\ queue' = [queue EXCEPT ![p] = {}]
  /\ loop' = [loop EXCEPT ![p] = "closed"] /\ cur' = [cur EXCEPT ![p] = None]
  /\ sig' = [sig EXCEPT ![p] = {}]
Die(p) == Goto(p, "dead") /\ HangUp(p)

\* ... and its own is bound, which fails where a file is in the way.
Bind(p) ==
  /\ pc[p] = "bind"
  /\ IF socket = None
     THEN socket' = p /\ Goto(p, "register") /\ UNCHANGED <<daemon, sessions>>
     ELSE socket' = socket /\ Die(p)
  /\ UNCHANGED <<lock, record, election, stop, events>>
BindFails(p) ==
  /\ pc[p] = "bind" /\ events < MaxEvent
  /\ Die(p)
  /\ events' = events + 1
  /\ UNCHANGED <<files, election, stop>>

\* The record is best effort; then the idle timer, the signal handlers and the
\* threads start.
Register(p) ==
  /\ pc[p] = "register"
  /\ record' \in {p, record}
  /\ armed' = [armed EXCEPT ![p] = TRUE]
  /\ Goto(p, "serving")
  /\ UNCHANGED <<lock, socket, election, clients, queue, loop, cur, sig, sessions, stop, events>>

-----------------------------------------------------------------------------
(* Serving: the accept loop, a thread per connection, the idle timer. *)

\* mark_stopping: every attached session is disconnected.
MarkStopping(p, reason) ==
  /\ Goto(p, "socket")
  /\ why' = [why EXCEPT ![p] = reason]
  /\ armed' = [armed EXCEPT ![p] = FALSE]
  /\ clients' = [clients EXCEPT ![p] = {}]
  /\ Disconnect(clients[p])

\* Mutant: the idle timer stays disarmed.
BugDropped(p, c) ==
  /\ clients' = [clients EXCEPT ![p] = @ \ {c}]
  /\ armed' = armed

\* drop_client: the last one to go arms the idle timer.
Dropped(p, c) ==
  /\ clients' = [clients EXCEPT ![p] = @ \ {c}]
  /\ armed' = [armed EXCEPT ![p] = @ \/ (clients[p] = {c} /\ pc[p] = "serving")]

\* The loop looks at `stopping` before it accepts, so it can still take one
\* connection after the idle timer fired.  A signal's stop runs in the loop itself.
LoopRuns(p) ==
  \/ pc[p] = "serving"
  \/ pc[p] \in Stopping \cup {"stopped"} /\ why[p] = "idle"

Accept(p, c) ==
  /\ LoopRuns(p) /\ loop[p] = "free" /\ c \in queue[p]
  /\ queue' = [queue EXCEPT ![p] = @ \ {c}]
  /\ cur' = [cur EXCEPT ![p] = c]
  /\ loop' = [loop EXCEPT ![p] = "accepted"]
  /\ UNCHANGED <<files, pc, election, armed, clients, sig, sessions, stop, events>>

\* Mutant: the hello before the registration.
BugAttach(p) ==
  /\ loop[p] = "accepted"
  /\ client' = [client EXCEPT ![cur[p]] = IF @ = "queued" THEN "served" ELSE @]
  /\ loop' = [loop EXCEPT ![p] = "attached"]
  /\ UNCHANGED <<files, pc, election, armed, clients, queue, cur, sig, host, stop, events>>

\* handle_connection: count the session in, or turn it away, after which the
\* loop sees `stopping` too.
Attach(p) ==
  /\ loop[p] = "accepted"
  /\ IF pc[p] = "serving"
     THEN /\ clients' = [clients EXCEPT ![p] = @ \cup {cur[p]}]
          /\ armed' = [armed EXCEPT ![p] = FALSE]
          /\ loop' = [loop EXCEPT ![p] = "attached"]
          /\ UNCHANGED <<cur, queue, sessions>>
     ELSE /\ Disconnect(queue[p] \cup {cur[p]})
          /\ queue' = [queue EXCEPT ![p] = {}]
          /\ loop' = [loop EXCEPT ![p] = "closed"] /\ cur' = [cur EXCEPT ![p] = None]
          /\ UNCHANGED <<clients, armed>>
  /\ UNCHANGED <<files, pc, election, sig, stop, events>>

\* The hello, after the registration; a session that has given up closed its end,
\* and the write fails.
Greet(p) ==
  /\ loop[p] = "attached"
  /\ IF client[cur[p]] = "queued"
     THEN client' = [client EXCEPT ![cur[p]] = "served"] /\ UNCHANGED <<clients, armed>>
     ELSE Dropped(p, cur[p]) /\ UNCHANGED client
  /\ loop' = [loop EXCEPT ![p] = "free"] /\ cur' = [cur EXCEPT ![p] = None]
  /\ UNCHANGED <<files, pc, election, queue, sig, host, stop, events>>

\* serve_connection returns when the session is gone.
Drop(p, c) ==
  /\ c \in clients[p] /\ cur[p] # c /\ client[c] # "served"
  /\ Dropped(p, c)
  /\ UNCHANGED <<files, pc, election, queue, loop, cur, sig, sessions, stop, events>>

\* idle_loop at its deadline (with a session attached it only arms it again).
IdleTimeout(p) ==
  /\ pc[p] = "serving" /\ armed[p] /\ clients[p] = {}
  /\ MarkStopping(p, "idle")
  /\ UNCHANGED <<files, seen, tries, queue, loop, cur, sig, stop, events>>

\* The accept loop polls the signals; SIGTERM is ignored while sessions are attached.
PollInt(p) ==
  /\ pc[p] = "serving" /\ loop[p] = "free" /\ "int" \in sig[p]
  /\ sig' = [sig EXCEPT ![p] = @ \ {"int"}]
  /\ MarkStopping(p, "int")
  /\ UNCHANGED <<files, seen, tries, queue, loop, cur, stop, events>>
PollTerm(p) ==
  /\ pc[p] = "serving" /\ loop[p] = "free" /\ sig[p] = {"term"}
  /\ sig' = [sig EXCEPT ![p] = {}]
  /\ IF clients[p] = {} THEN MarkStopping(p, "term")
                        ELSE UNCHANGED <<pc, why, armed, clients, sessions>>
  /\ UNCHANGED <<files, seen, tries, queue, loop, cur, stop, events>>

\* The loop sees `stopping` and drops the listener with what waits there.
CloseListener(p) ==
  /\ LoopRuns(p) /\ pc[p] # "serving" /\ loop[p] = "free"
  /\ loop' = [loop EXCEPT ![p] = "closed"]
  /\ queue' = [queue EXCEPT ![p] = {}]
  /\ Disconnect(queue[p])
  /\ UNCHANGED <<files, pc, election, armed, clients, cur, sig, stop, events>>

\* Mutant: the socket is left.
BugDropSocket(p) ==
  /\ pc[p] = "socket"
  /\ Goto(p, "record")
  /\ UNCHANGED <<files, election, daemon, sessions, stop, events>>

\* finish_stop: the engine stops and the socket goes, then the record, then the
\* lock if it is still this daemon's own.
DropSocket(p) ==
  /\ pc[p] = "socket"
  /\ socket' = None
  /\ Goto(p, "record")
  /\ UNCHANGED <<lock, record, election, daemon, sessions, stop, events>>
DropRecord(p) ==
  /\ pc[p] = "record"
  /\ record' = None
  /\ Goto(p, "readLock")
  /\ UNCHANGED <<lock, socket, election, daemon, sessions, stop, events>>
ReadOwnLock(p) ==
  /\ pc[p] = "readLock"
  /\ Goto(p, IF lock = p THEN "dropLock" ELSE "stopped")
  /\ UNCHANGED <<files, election, daemon, sessions, stop, events>>
DropLock(p) ==
  /\ pc[p] = "dropLock"
  /\ lock' = None
  /\ Goto(p, "stopped")
  /\ UNCHANGED <<socket, record, election, daemon, sessions, stop, events>>
ExitProcess(p) ==
  /\ pc[p] = "stopped"
  /\ Goto(p, "exited") /\ HangUp(p)
  /\ UNCHANGED <<files, election, stop, events>>

Crash(p) ==
  /\ Alive(p) /\ events < MaxEvent
  /\ Die(p)
  /\ events' = events + 1
  /\ UNCHANGED <<files, election, stop>>

\* Before the handlers are installed a signal kills.
Signalled(p, s) ==
  IF pc[p] \in Candidate \cup Starting THEN Die(p)
  ELSE /\ sig' = [sig EXCEPT ![p] = @ \cup {s}]
       /\ UNCHANGED <<pc, armed, clients, queue, loop, cur, sessions>>
Signal(p, s) ==
  /\ Alive(p) /\ events < MaxEvent
  /\ Signalled(p, s)
  /\ events' = events + 1
  /\ UNCHANGED <<files, election, stop>>

-----------------------------------------------------------------------------
(* Sessions: server/proxy.rs connect_or_spawn. *)

Listening(p) ==
  /\ p \in Process
  /\ pc[p] \in {"register", "serving", "stopped"} \cup Stopping
  /\ loop[p] # "closed"

\* A session's name is used again when no daemon holds a connection of it.
Connect(c) ==
  /\ client[c] = "off"
  /\ \A p \in Process : c \notin clients[p] \cup queue[p] /\ cur[p] # c
  /\ IF Listening(socket)
     THEN /\ client' = [client EXCEPT ![c] = "queued"]
          /\ host' = [host EXCEPT ![c] = socket]
          /\ queue' = [queue EXCEPT ![socket] = @ \cup {c}]
     ELSE client' = [client EXCEPT ![c] = "refused"] /\ UNCHANGED <<host, queue>>
  /\ UNCHANGED <<files, pc, election, armed, clients, loop, cur, sig, stop, events>>

\* No hello within the probe's 100 ms: the session hangs up.
ProbeTimeout(c) ==
  /\ client[c] = "queued"
  /\ client' = [client EXCEPT ![c] = "refused"]
  /\ host' = [host EXCEPT ![c] = None]
  /\ UNCHANGED <<files, pc, election, daemon, stop, events>>

\* spawn_detached; the session goes on without a daemon.
SpawnDaemon(c) ==
  /\ client[c] = "refused"
  /\ client' = [client EXCEPT ![c] = "off"]
  /\ LET unborn == {p \in Process : pc[p] = "none"} IN
     IF unborn = {} THEN UNCHANGED pc ELSE Goto(CHOOSE p \in unborn : TRUE, "link")
  /\ UNCHANGED <<files, election, daemon, host, stop, events>>

\* The session ends, by itself or because its daemon cut it off.
Leave(c) ==
  /\ client[c] \in {"served", "cut"}
  /\ client' = [client EXCEPT ![c] = "off"]
  /\ host' = [host EXCEPT ![c] = None]
  /\ UNCHANGED <<files, pc, election, daemon, stop, events>>

-----------------------------------------------------------------------------
(* The stop command: daemon_registry.rs stop_daemon_at. *)

\* Mutant: only the registry is asked.
BugStopRead ==
  LET target == IF Alive(record) THEN record ELSE None IN
  /\ stop.step = "off" /\ events < MaxEvent
  /\ events' = events + 1
  /\ IF Alive(target)
     THEN stop' = [step |-> "wait", target |-> target] /\ Signalled(target, "term")
     ELSE stop' = [step |-> "lock", target |-> target] /\ UNCHANGED <<pc, daemon, sessions>>
  /\ UNCHANGED <<files, election>>

StopRead ==
  LET target == IF lock \in Pid THEN lock ELSE IF Alive(record) THEN record ELSE None IN
  /\ stop.step = "off" /\ events < MaxEvent
  /\ events' = events + 1
  /\ IF Alive(target)
     THEN stop' = [step |-> "wait", target |-> target] /\ Signalled(target, "term")
     ELSE stop' = [step |-> "lock", target |-> target] /\ UNCHANGED <<pc, daemon, sessions>>
  /\ UNCHANGED <<files, election>>

StopSeesDeath ==
  /\ stop.step = "wait" /\ ~Alive(stop.target)
  /\ stop' = [stop EXCEPT !.step = "lock"]
  /\ UNCHANGED <<files, pc, election, daemon, sessions, events>>
\* Three seconds are over: SIGKILL.
StopKills ==
  /\ stop.step = "wait" /\ Alive(stop.target)
  /\ Die(stop.target)
  /\ stop' = [stop EXCEPT !.step = "lock"]
  /\ UNCHANGED <<files, election, events>>

\* cleanup_artifacts: lock, socket and record, whoever they belong to.
StopDropsLock ==
  /\ stop.step = "lock" /\ lock' = None
  /\ stop' = [stop EXCEPT !.step = "socket"]
  /\ UNCHANGED <<socket, record, pc, election, daemon, sessions, events>>
StopDropsSocket ==
  /\ stop.step = "socket" /\ socket' = None
  /\ stop' = [stop EXCEPT !.step = "record"]
  /\ UNCHANGED <<lock, record, pc, election, daemon, sessions, events>>
StopDropsRecord ==
  /\ stop.step = "record" /\ record' = None
  /\ stop' = [step |-> "off", target |-> None]
  /\ UNCHANGED <<lock, socket, pc, election, daemon, sessions, events>>

-----------------------------------------------------------------------------
ElectionStep(p) ==
  Link(p) \/ ReadTaken(p) \/ Unlink(p) \/ ClaimSocket(p) \/ Bind(p) \/ Register(p)
LoopStep(p) ==
  \/ (\E c \in Client : Accept(p, c)) \/ Attach(p) \/ Greet(p)
  \/ PollInt(p) \/ PollTerm(p) \/ CloseListener(p)
ShutdownStep(p) ==
  DropSocket(p) \/ DropRecord(p) \/ ReadOwnLock(p) \/ DropLock(p) \/ ExitProcess(p)
Common ==
  \/ \E p \in Process : \/ ElectionStep(p) \/ LoopStep(p) \/ IdleTimeout(p) \/ ShutdownStep(p)
                        \/ (\E c \in Client : Drop(p, c)) \/ BindFails(p) \/ Crash(p)
                        \/ \E s \in {"int", "term"} : Signal(p, s)
  \/ \E c \in Client : Connect(c) \/ ProbeTimeout(c) \/ Leave(c)
  \/ StopSeesDeath \/ StopKills \/ StopDropsLock \/ StopDropsSocket \/ StopDropsRecord

\* Anything may happen at any time.
Next ==
  \/ Common \/ StopRead
  \/ \E p \in Process : ReadStale(p)
  \/ \E c \in Client : SpawnDaemon(c)

\* What the files alone do not protect is left out: a second candidate reads the
\* stale lock while a first is about to remove it, or a daemon is started while a
\* stop command runs.
CalmNext ==
  \/ Common
  \/ (\A p \in Process : pc[p] \notin Candidate \cup Starting) /\ StopRead
  \/ (\A p \in Process : pc[p] # "unlink") /\ \E p \in Process : ReadStale(p)
  \/ stop.step = "off" /\ \E c \in Client : SpawnDaemon(c)

Spec == Init /\ [][Next]_vars
\* Every thread of a live process keeps running; nothing is assumed of sessions.
Fairness == \A p \in Process :
  /\ WF_vars(LoopStep(p)) /\ WF_vars(IdleTimeout(p)) /\ WF_vars(ShutdownStep(p))
  /\ WF_vars(\E c \in Client : Drop(p, c))
CalmSpec == Init /\ [][CalmNext]_vars /\ Fairness

-----------------------------------------------------------------------------
(* Properties *)

\* Two processes never both own the project: two daemons are two watchers and
\* two servers that take each other's files away (try_acquire_daemon_lock,
\* clear_stale_daemon_lock).
OneDaemon == Cardinality({p \in Process : pc[p] \in Owner}) <= 1

\* A daemon that serves can be found: the lock and the socket path are its own
\* (Daemon::start against another daemon's finish_stop).
Reachable ==
  \A p \in Process : pc[p] = "serving" => lock = p /\ socket = p

\* handle_connection: "Hello only after registration, so idle/SIGTERM shutdown
\* cannot commit a proxy to a connection that teardown is about to drain."
HelloHonoured ==
  \A c \in Client : client[c] = "cut" =>
    pc[host[c]] = "dead" \/ why[host[c]] \notin {"idle", "term"}

\* A daemon that shut down by itself leaves nothing behind that names it
\* (finish_stop, cleanup_lockfile).
CleanExit ==
  \A p \in Process : pc[p] = "exited" => p \notin {lock, socket, record}

\* When the stop command reports, no daemon and none of its files is left
\* (stop_daemon_at, cleanup_artifacts).
StopDone == stop.step = "record" /\ stop'.step = "off"
StopLeavesNothing ==
  [][StopDone => /\ lock' = None /\ socket' = None /\ record' = None
                 /\ \A p \in Process : pc'[p] \notin Owner]_vars

\* A daemon is not left running without a session: it exits or somebody comes
\* (arm_idle_timer, drop_client, idle_loop).
Attended(p) == \E c \in Client : host[c] = p /\ client[c] \in {"queued", "served"}
AbandonedExits == \A p \in Process : pc[p] = "serving" ~> (pc[p] \in Gone \/ Attended(p))

=============================================================================
