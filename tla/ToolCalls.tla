------------------------------ MODULE ToolCalls ------------------------------
(* The tool calls of one MCP connection: the service that admits and answers *)
(* them, the engine thread that runs them one by one from its command queue, *)
(* the cancel flag each call carries into its walk, and the session ledger   *)
(* of the source already sent.                                               *)
EXTENDS Traversal

CONSTANTS
  Situations,    \* where a behaviour starts: the graph, what others commit, the calls
  MaxViewCalls   \* MAX_VIEW_CALLS: the recorded calls that a call is shown

VARIABLES
  asks,       \* what each call asks
  call,       \* each call: its stage, its view of the ledger, its reply
  commands,   \* the engine's command queue
  worker,     \* the engine thread
  context,    \* the call in its CallContext
  catchUp,    \* the one-shot reconcile gate is armed
  gate,       \* the explore call that holds the connection's explore gate
  ledger,     \* the calls recorded in this session, in order
  cancels,    \* calls the client has cancelled
  stopping    \* engine.stop was requested

serviceVars == <<asks, call, gate, ledger, cancels, stopping>>
engineVars == <<commands, worker, context, catchUp>>
sessionVars == <<serviceVars, engineVars>>
allVars == <<vars, sessionVars>>

Calls == DOMAIN asks

\* explore and node answer with source, walk with nodes and edges.
Ask == [tool : {"walk"}, query : Query] \cup [tool : {"explore", "node"}, wants : SUBSET Node]

ASSUME SituationsAssumption ==
  \A s \in Situations :
    /\ s.graph \in Graph /\ s.commits \in Seq(Graph)
    /\ DOMAIN s.asks \subseteq Call /\ s.asks \in [DOMAIN s.asks -> Ask]

ASSUME ViewAssumption == MaxViewCalls \in Nat

NoReply == [how |-> "pending", source |-> {}, already |-> {}]
Failed(how) == [how |-> how, source |-> {}, already |-> {}]

\* The stages of a call: waiting for the project's path, for its result, for the
\* list of tools, and in between.
Session ==
  [stage : {"new", "locating", "located", "queued", "replied", "refreshing", "sending", "sent"},
   view : SUBSET Call,
   reply : [how : {"pending", "found", "none", "cancelled", "stopped"},
            source : SUBSET Node, already : SUBSET Node]]

Command == [do : {"locate", "execute", "tools"}, for : Calls] \cup [do : {"stop"}, for : {None}]

Is(c, stage) == call[c].stage = stage
IsExplore(c) == asks[c].tool = "explore"

\* What view_for shows of the ledger; the calls it has forgotten are not among them.
Recent(s) == {s[i] : i \in {i \in DOMAIN s : Len(s) < i + MaxViewCalls}}

\* The source that was sent by the calls that a call is shown.
Shown(c) == UNION {call[d].reply.source : d \in call[c].view}

-----------------------------------------------------------------------------
(* The service: execute_tool                                                 *)

\* A command waits in the engine's queue; an engine that has stopped fails it,
\* which leaves the call where an answer without a result leaves it.
Failing(r) ==
  CASE r.stage = "locating" -> [r EXCEPT !.stage = "located"]
    [] r.stage = "queued" -> [r EXCEPT !.stage = "replied", !.reply = Failed("stopped")]
    [] r.stage = "refreshing" -> [r EXCEPT !.stage = "sending"]
    [] OTHER -> r

Enqueue(c, command, r) ==
  IF worker = "stopped"
    THEN call' = [call EXCEPT ![c] = Failing(r)] /\ UNCHANGED commands
    ELSE call' = [call EXCEPT ![c] = r] /\ commands' = Append(commands, [do |-> command, for |-> c])

BugNoGate(c) == TRUE
Admitted(c) == IsExplore(c) => gate = None

\* A call of no known tool is answered at once.
Reject(c) ==
  /\ Is(c, "new")
  /\ call' = [call EXCEPT ![c].stage = "sent", ![c].reply = Failed("none")]
  /\ UNCHANGED <<vars, asks, gate, ledger, cancels, stopping, engineVars>>

\* An explore waits for the connection's gate.  Tools that send source ask the
\* engine for the project first, unless the call names it.
Submit(c) ==
  /\ Is(c, "new")
  /\ Admitted(c)
  /\ gate' = IF IsExplore(c) THEN c ELSE gate
  /\ \/ /\ asks[c].tool = "walk"
        /\ Enqueue(c, "execute", [call[c] EXCEPT !.stage = "queued"])
     \/ /\ asks[c].tool # "walk"
        /\ \/ Enqueue(c, "locate", [call[c] EXCEPT !.stage = "locating"])
           \/ call' = [call EXCEPT ![c].stage = "located"] /\ UNCHANGED commands
  /\ UNCHANGED <<vars, asks, ledger, cancels, stopping, worker, context, catchUp>>

\* The ledger is read before the command is queued.
View(c) ==
  /\ Is(c, "located")
  /\ Enqueue(c, "execute", [call[c] EXCEPT !.stage = "queued", !.view = Recent(ledger)])
  /\ UNCHANGED <<vars, asks, gate, ledger, cancels, stopping, worker, context, catchUp>>

CancelCall(c) ==
  /\ c \notin cancels /\ ~Is(c, "sent")
  /\ cancels' = cancels \cup {c}
  /\ UNCHANGED <<vars, asks, call, gate, ledger, stopping, engineVars>>

\* The cancel task, until the service aborts it.
Flag(c) ==
  /\ c \in cancels \ flags /\ call[c].stage \in {"new", "locating", "located", "queued", "replied"}
  /\ Cancel(c)
  /\ UNCHANGED sessionVars

\* A result with source is recorded, and that of an explore without any, unless
\* the call's flag is set.
Sourced(c) == call[c].reply.how = "found" /\ asks[c].tool # "walk"
              /\ (IsExplore(c) \/ call[c].reply.source # {})
BugRecordAll(c) == Sourced(c)
Recorded(c) == Sourced(c) /\ c \notin flags

\* The cancel task is aborted and the result recorded; then the list of tools is
\* fetched.
Record(c) ==
  /\ Is(c, "replied")
  /\ ledger' = IF Recorded(c) THEN Append(ledger, c) ELSE ledger
  /\ Enqueue(c, "tools", [call[c] EXCEPT !.stage = "refreshing"])
  /\ UNCHANGED <<vars, asks, gate, cancels, stopping, worker, context, catchUp>>

Send(c) ==
  /\ Is(c, "sending")
  /\ call' = [call EXCEPT ![c].stage = "sent"]
  /\ gate' = IF gate = c THEN None ELSE gate
  /\ UNCHANGED <<vars, asks, ledger, cancels, stopping, engineVars>>

\* Stop is a command like any other: it waits for those before it.
RequestStop ==
  /\ ~stopping /\ stopping' = TRUE
  /\ commands' = Append(commands, [do |-> "stop", for |-> None])
  /\ UNCHANGED <<vars, asks, call, gate, ledger, cancels, worker, context, catchUp>>

-----------------------------------------------------------------------------
(* The engine thread                                                         *)

NextIs(command) == worker = "waiting" /\ commands # <<>> /\ Head(commands).do = command

\* get_project_path and get_tools answer at once.
TakeLookup ==
  /\ NextIs("locate") \/ NextIs("tools")
  /\ commands' = Tail(commands)
  /\ call' = [call EXCEPT ![Head(commands).for].stage =
                IF NextIs("locate") THEN "located" ELSE "sending"]
  /\ UNCHANGED <<vars, asks, gate, ledger, cancels, stopping, worker, context, catchUp>>

TakeCall ==
  /\ NextIs("execute")
  /\ context' = Head(commands).for
  /\ commands' = Tail(commands)
  /\ worker' = IF catchUp THEN "catchUp" ELSE "dispatch"
  /\ catchUp' = FALSE
  /\ UNCHANGED <<vars, serviceVars>>

\* The first call runs the catch-up sync, before anything is cached; a failed or
\* busy one is only logged.
CatchUp ==
  /\ worker = "catchUp"
  /\ worker' = "dispatch"
  /\ (Commit \/ UNCHANGED dbVars)
  /\ UNCHANGED <<cache, walkVars, token, flags, serviceVars, commands, context, catchUp>>

BugKeepContext == context
Cleared == None

\* The reply goes back once the token and the context are dropped.
Reply(c, r) ==
  /\ call' = [call EXCEPT ![c].stage = "replied", ![c].reply = r]
  /\ token' = None /\ context' = Cleared
  /\ worker' = "waiting"
  /\ UNCHANGED <<dbVars, flags, asks, gate, ledger, cancels, stopping, commands, catchUp>>

Refuse ==
  /\ worker = "dispatch" /\ context \in flags
  /\ Reply(context, Failed("cancelled"))
  /\ UNCHANGED <<cache, walkVars>>

Dispatch ==
  /\ worker = "dispatch" /\ context \notin flags
  /\ token' = context
  /\ worker' = "handler"
  /\ IF asks[context].tool = "walk"
       THEN Open(asks[context].query) /\ UNCHANGED <<db, commits, localVars>>
       ELSE UNCHANGED <<dbVars, walkVars>>
  /\ UNCHANGED <<cache, flags, serviceVars, commands, context, catchUp>>

Walking == worker = "handler" /\ Walk /\ UNCHANGED sessionVars

AnswerWalk ==
  /\ worker = "handler" /\ asks[context].tool = "walk" /\ at = "done"
  /\ Reply(context, Failed(outcome))
  /\ at' = "idle" /\ outcome' = "pending" /\ nodes' = {} /\ links' = {}
  /\ UNCHANGED <<cache, query, localVars>>

\* Source that the view names may be left out as already sent.  It need not be:
\* explore repeats short pieces, and the first file it would leave out when that
\* leaves nothing (ExploreLedger has the rules, and what is cut from a reply).
\* A handler that polls a set flag fails.  It looks nodes up on the way.
AnswerSource ==
  /\ worker = "handler" /\ asks[context].tool # "walk"
  /\ LET wants == asks[context].wants
     IN \/ \E already \in SUBSET (wants \cap Shown(context)) :
             Reply(context, [how |-> "found", source |-> wants \ already, already |-> already])
        \/ Cancelled /\ Reply(context, Failed("cancelled"))
  /\ \E got \in Rows(asks[context].wants) : Keep(asks[context].wants, got)
  /\ UNCHANGED walkVars

BugForget(c) == call[c]
Dropped(c) == Failing(call[c])

\* Dropping the receiver fails every command still queued.
TakeStop ==
  /\ NextIs("stop")
  /\ worker' = "stopped" /\ commands' = <<>>
  /\ call' = [c \in Calls |-> Dropped(c)]
  /\ UNCHANGED <<vars, asks, gate, ledger, cancels, stopping, context, catchUp>>

Worker == \/ TakeLookup \/ TakeCall \/ CatchUp \/ Refuse \/ Dispatch \/ Walking \/ AnswerWalk
          \/ AnswerSource \/ TakeStop

-----------------------------------------------------------------------------

NoQuery ==
  LET n == CHOOSE n \in Node : TRUE
  IN [op |-> "path", start |-> n, goal |-> n, depth |-> 0, direction |-> "outgoing",
      kinds |-> {}, limit |-> 0, keepStart |-> FALSE]

SessionInit ==
  \E s \in Situations :
    /\ db = s.graph /\ commits = s.commits /\ ever = db.edges /\ always = db.edges
    /\ asks = s.asks
    /\ cache = {} /\ query = NoQuery
    /\ at = "idle" /\ Blank /\ token = None /\ flags = {}
    /\ call = [c \in DOMAIN s.asks |-> [stage |-> "new", view |-> {}, reply |-> NoReply]]
    /\ commands = <<>> /\ worker = "waiting" /\ context = None /\ catchUp = TRUE
    /\ gate = None /\ ledger = <<>> /\ cancels = {} /\ stopping = FALSE

Service(c) == Reject(c) \/ Submit(c) \/ View(c) \/ Record(c) \/ Send(c)

OtherWriter == Sync /\ UNCHANGED sessionVars

SessionNext ==
  \/ Worker
  \/ \E c \in Calls : Service(c) \/ CancelCall(c) \/ Flag(c)
  \/ RequestStop
  \/ OtherWriter

\* The engine thread and the service's tasks keep running; the client need not
\* cancel, nobody need stop the engine, and nobody need write.
Fairness == WF_allVars(Worker) /\ \A c \in Call : WF_allVars(c \in Calls /\ Service(c))

SessionSpec == SessionInit /\ [][SessionNext]_allVars /\ Fairness

-----------------------------------------------------------------------------
(* Properties                                                                *)

\* Types of the session and of the walk.
SessionTypeOK ==
  /\ Calls \subseteq Call /\ asks \in [Calls -> Ask]
  /\ call \in [Calls -> Session]
  /\ commands \in Seq(Command)
  /\ worker \in {"waiting", "catchUp", "dispatch", "handler", "stopped"}
  /\ context \in Calls \cup {None} /\ gate \in Calls \cup {None}
  /\ (context = None) = (worker \in {"waiting", "stopped"})
  /\ catchUp \in BOOLEAN /\ stopping \in BOOLEAN
  /\ ledger \in Seq(Calls) /\ cancels \subseteq Calls /\ flags \subseteq cancels

TypeOK == WalkTypeOK /\ SessionTypeOK

\* graph/cancel.rs: "a flag can never leak into a later call".  A call ends as
\* cancelled only if its own client cancelled it, though the thread's token and
\* the CallContext are shared by the calls it runs one after another.
NoLeak == \A c \in Calls : call[c].reply.how = "cancelled" => c \in cancels

\* "can only cost a duplicate, never a false alreadySent": what a reply leaves
\* out as already sent was in the reply of an earlier call not known to be
\* cancelled when it was recorded.  (A client that cancels later than that has
\* not read it: the service cannot tell.)
AlreadySentWasSent ==
  \A c \in Calls : call[c].reply.already \subseteq
    UNION {call[d].reply.source : d \in {d \in Calls \ flags : call[d].stage \in {"refreshing", "sending", "sent"}}}

\* execution.rs: "Explores are serialized per connection".  An explore is shown
\* the one before it, if that is among the last calls recorded: parallel calls do
\* not make two explores blind to each other, whatever else is recorded meanwhile.
ExploresSeeEachOther ==
  \A i, j \in DOMAIN ledger :
    i < j /\ j <= i + MaxViewCalls /\ IsExplore(ledger[i]) /\ IsExplore(ledger[j]) =>
      ledger[i] \in call[ledger[j]].view

\* Every call is answered: no walk goes round a cycle for ever, a stop fails
\* those queued behind it, an explore's gate is handed on also when it fails.
AllAnswered == \A c \in Call : c \in Calls ~> (c \in Calls /\ Is(c, "sent"))

\* EngineHandle::stop returns: the calls queued before it come to an end.
StopHonoured == stopping ~> worker = "stopped"
=============================================================================
