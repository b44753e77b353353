--------------------------- MODULE ToolCallsProofs ---------------------------
(* Proofs about the tool calls of a connection and about one walk.           *)
EXTENDS ToolCalls, TLAPS

-----------------------------------------------------------------------------
(* Types of a walk                                                           *)

\* A walk that returns leaves its locals blank.
LEMMA ReturnTyping ==
  ASSUME NEW how \in {"found", "none", "cancelled"}, NEW N \in SUBSET Node, NEW L \in SUBSET Edge,
         Return(how, N, L)
  PROVE  /\ at' = "done" /\ outcome' = how
         /\ nodes' \subseteq Node /\ links' \subseteq Edge
         /\ LocalTypeOK'
<1>1. /\ at' = "done" /\ outcome' = how /\ nodes' = N /\ links' = L
      /\ pass' = "around" /\ queue' = <<>> /\ front' = {} /\ depth' = 0
      /\ best' = Unmarked /\ todo' = {} /\ found' = {}
  BY DEF Return
<1>2. Unmarked \in [{} -> Nat] /\ DOMAIN Unmarked = {}
  BY DEF Unmarked
<1>3. <<>> \in Seq([node : Node, link : SUBSET Edge, depth : Nat])
  OBVIOUS
<1>4. Marked' \subseteq Node /\ best' \in [Marked' -> Nat]
  BY <1>1, <1>2 DEF Marked
<1> QED
  BY <1>1, <1>3, <1>4 DEF LocalTypeOK

\* Marking a node keeps the marks well typed.
LEMMA MarkTyping ==
  ASSUME LocalTypeOK, NEW n \in Node, NEW d \in Nat, best' = Mark(n, d)
  PROVE  Marked' \subseteq Node /\ best' \in [Marked' -> Nat]
BY DEF LocalTypeOK, Mark, Marked

\* The node beyond an adjacent edge is an end of that edge.
LEMMA BeyondNode ==
  ASSUME NEW e \in Edge
  PROVE  Beyond(e) \in Node
BY DEF Beyond, Edge

\* The path rebuilt from a set of links is a part of it.
LEMMA ReconstructPart ==
  ASSUME NEW L
  PROVE  Reconstruct(L) \subseteq L
BY DEF Reconstruct

\* Taking an entry off a queue, or putting one on it, keeps it a queue.
LEMMA QueueTyping ==
  ASSUME NEW S, NEW q \in Seq(S), NEW x \in S
  PROVE  /\ q # <<>> => Head(q) \in S
         /\ q # <<>> => Tail(q) \in Seq(S)
         /\ Append(q, x) \in Seq(S) /\ <<x>> \o q \in Seq(S)
         /\ <<>> \in Seq(S) /\ <<x>> \in Seq(S)
OBVIOUS

\* A step of a walk reads the database and the flags, and changes neither.
LEMMA WalkKeeps ==
  ASSUME Walk
  PROVE  UNCHANGED <<dbVars, query, token, flags>>
BY DEF Walk, BeginLayers, Begin, FindGoal, Finish, Abandon, Take, TakeLayer, ReadEdges, ReadIncoming,
       ReadNodes, Add, EndPass

\* A lookup returns and keeps nodes.
LEMMA LookupTyping ==
  ASSUME cache \subseteq Node, db.nodes \subseteq Node, NEW wanted \in SUBSET Node,
         NEW got \in Rows(wanted), Keep(wanted, got)
  PROVE  got \subseteq wanted /\ cache' \subseteq Node
BY DEF Rows, Keep

\* A walk keeps nodes in its connection's cache.
LEMMA CacheTyping ==
  ASSUME WalkTypeOK, Walk
  PROVE  cache' \subseteq Node
<1>1. /\ cache \subseteq Node /\ db.nodes \subseteq Node
      /\ query.start \in Node /\ query.goal \in Node /\ todo \subseteq Edge
  BY DEF WalkTypeOK, DbTypeOK, LocalTypeOK, Graph, Query
<1>2. CASE Begin
  <2>1. PICK got \in Rows({query.start}) : Keep({query.start}, got)
    BY <1>2 DEF Begin
  <2> QED BY <1>1, <2>1, LookupTyping
<1>3. CASE FindGoal
  <2>1. PICK got \in Rows({query.goal}) : Keep({query.goal}, got)
    BY <1>3 DEF FindGoal
  <2> QED BY <1>1, <2>1, LookupTyping
<1>4. CASE ReadNodes
  <2>1. found' \in Rows(Wanted) /\ Keep(Wanted, found')
    BY <1>4 DEF ReadNodes
  <2>2. Wanted \in SUBSET Node
    BY <1>1, BeyondNode DEF Wanted
  <2> QED BY <1>1, <2>1, <2>2, LookupTyping
<1>5. CASE ~(Begin \/ FindGoal \/ ReadNodes)
  <2>1. cache' = cache
    BY <1>5 DEF Walk, BeginLayers, Finish, Abandon, Take, TakeLayer, ReadEdges, ReadIncoming, Add, EndPass
  <2> QED BY <1>1, <2>1
<1> QED
  BY <1>2, <1>3, <1>4, <1>5

\* A step of a walk keeps the types of what a walk works on.
LEMMA WalkTyping ==
  ASSUME WalkTypeOK, Walk
  PROVE  WalkTypeOK'
<1> DEFINE Item == [node : Node, link : SUBSET Edge, depth : Nat]
           Quiet == UNCHANGED <<dbVars, query, token, flags>>
           Rest4 == /\ at' \in {"idle", "start", "goal", "loop", "edges", "both", "nodes", "add", "done"}
                    /\ nodes' \subseteq Node /\ links' \subseteq Edge
                    /\ outcome' \in {"pending", "found", "none", "cancelled"}
<1>1. SUFFICES Quiet /\ LocalTypeOK' /\ Rest4
  BY CacheTyping DEF WalkTypeOK, DbTypeOK, dbVars
<1>2. query.start \in Node /\ query.goal \in Node /\ query.depth \in Nat
  BY DEF WalkTypeOK, Query
<1>3. db.edges \subseteq Edge /\ db.nodes \subseteq Node
  BY DEF WalkTypeOK, DbTypeOK, Graph
<1>4. LocalTypeOK /\ nodes \subseteq Node /\ links \subseteq Edge
      /\ outcome \in {"pending", "found", "none", "cancelled"}
  BY DEF WalkTypeOK
<1>5. ASSUME NEW how \in {"found", "none", "cancelled"}, NEW N \in SUBSET Node,
             NEW L \in SUBSET Edge, Return(how, N, L)
      PROVE  LocalTypeOK' /\ Rest4
  BY <1>5, ReturnTyping
<1>6. CASE Begin
  <2>1. Quiet
    BY <1>6 DEF Begin
  <2>2. PICK got \in Rows({query.start}) :
          \/ Return("none", {}, {})
          \/ /\ at' \in {"goal", "loop"}
             /\ queue' = <<[node |-> query.start, link |-> {}, depth |-> 0]>>
             /\ best' \in {Unmarked, [n \in {query.start} |-> 0]}
             /\ nodes' \in {{}, got}
             /\ UNCHANGED <<pass, front, depth, links, todo, found, outcome>>
    BY <1>6, Zenon DEF Begin
  <2>3. CASE Return("none", {}, {})
    BY <2>1, <2>3, <1>5
  <2>4. CASE ~Return("none", {}, {})
    <3>1. queue' \in Seq(Item)
      <4> DEFINE first == [node |-> query.start, link |-> {}, depth |-> 0]
      <4>1. first \in Item /\ queue' = <<first>>
        BY <2>2, <2>4, <1>2
      <4>2. queue \in Seq(Item)
        BY <1>4 DEF LocalTypeOK
      <4> HIDE DEF Item, first
      <4> QED BY <4>1, <4>2, QueueTyping
    <3>2. Marked' \subseteq Node /\ best' \in [Marked' -> Nat]
      <4>1. CASE best' = Unmarked
        BY <4>1 DEF Unmarked, Marked
      <4>2. CASE best' = [n \in {query.start} |-> 0]
        BY <4>2, <1>2 DEF Marked
      <4> QED BY <2>2, <2>4, <4>1, <4>2
    <3>3. got \subseteq Node
      BY <1>2 DEF Rows
    <3>4. LocalTypeOK'
      BY <2>2, <2>4, <3>1, <3>2, <1>4 DEF LocalTypeOK
    <3> QED BY <2>1, <2>2, <2>4, <3>3, <3>4, <1>4
  <2> QED BY <2>3, <2>4
<1>17. CASE BeginLayers
  <2>1. /\ Quiet /\ at' = "loop" /\ front' = {query.start}
        /\ best' = [n \in {query.start} |-> 0]
        /\ UNCHANGED <<pass, queue, depth, nodes, links, todo, found, outcome>>
    BY <1>17 DEF BeginLayers
  <2>2. Marked' \subseteq Node /\ best' \in [Marked' -> Nat]
    BY <2>1, <1>2 DEF Marked
  <2> QED BY <2>1, <2>2, <1>2, <1>4 DEF LocalTypeOK
<1>7. CASE FindGoal
  <2>1. Quiet
    BY <1>7 DEF FindGoal
  <2>2. \/ \E how \in {"found", "none"} : Return(how, nodes, links)
        \/ at' = "loop" /\ UNCHANGED <<localVars, nodes, links, outcome>>
    BY <1>7 DEF FindGoal
  <2>3. CASE at' = "loop" /\ UNCHANGED <<localVars, nodes, links, outcome>>
    BY <2>1, <2>3, <1>4 DEF LocalTypeOK, localVars, Marked
  <2> QED BY <2>1, <2>2, <2>3, <1>4, <1>5
<1>8. CASE Finish
  <2>1. Quiet /\ \E how \in {"found", "none"} : Return(how, nodes, links)
    BY <1>8 DEF Finish
  <2> QED BY <2>1, <1>4, <1>5
<1>9. CASE Abandon
  <2>1. Quiet /\ Return("cancelled", {}, {})
    BY <1>9 DEF Abandon
  <2> QED BY <2>1, <1>5
<1>10. CASE Take
  <2> DEFINE entry == Head(queue)
  <2>1. Quiet /\ UNCHANGED <<nodes, todo, found, outcome>>
    BY <1>10 DEF Take
  <2>2. queue \in Seq(Item) /\ queue # <<>>
    BY <1>10, <1>4 DEF Take, More, LocalTypeOK
  <2>3. entry \in Item /\ Tail(queue) \in Seq(Item)
    <3> HIDE DEF Item
    <3>1. \A x \in Item : Head(queue) \in Item /\ Tail(queue) \in Seq(Item)
      BY <2>2, QueueTyping
    <3>2. [node |-> query.start, link |-> {}, depth |-> 0] \in Item
      BY <1>2 DEF Item
    <3> QED BY <3>1, <3>2
  <2>4. queue' \in Seq(Item)
    BY <1>10, <2>3 DEF Take, Rest
  <2>5. \/ best' = Mark(entry.node, entry.depth) /\ links' = links \cup entry.link
        \/ UNCHANGED <<best, links>>
    BY <1>10 DEF Take
  <2>6. Marked' \subseteq Node /\ best' \in [Marked' -> Nat] /\ links' \subseteq Edge
    <3>1. CASE best' = Mark(entry.node, entry.depth) /\ links' = links \cup entry.link
      BY <3>1, <2>3, <1>4, MarkTyping
    <3>2. CASE UNCHANGED <<best, links>>
      BY <3>2, <1>4 DEF LocalTypeOK, Marked
    <3> QED BY <2>5, <3>1, <3>2
  <2>7. \/ UNCHANGED <<at, pass, front, depth>>
        \/ /\ at' = "edges" /\ front' = {entry.node} /\ depth' = entry.depth
           /\ pass' \in {"members", "around"}
    BY <1>10 DEF Take
  <2>8. LocalTypeOK'
    BY <2>1, <2>3, <2>4, <2>6, <2>7, <1>4 DEF LocalTypeOK
  <2> QED BY <2>1, <2>6, <2>7, <2>8, <1>4 DEF WalkTypeOK
<1>11. CASE TakeLayer
  BY <1>11, <1>4 DEF TakeLayer, localVars, LocalTypeOK, Marked
<1>12. CASE ReadEdges
  <2>1. Quiet /\ UNCHANGED <<pass, queue, front, depth, best, nodes, links, found, outcome>>
        /\ at' \in {"both", "nodes"}
    BY <1>12 DEF ReadEdges
  <2>2. todo' \subseteq Edge
    BY <1>12, <1>3 DEF ReadEdges, Outgoing, Incoming
  <2> QED BY <2>1, <2>2, <1>4 DEF LocalTypeOK, Marked
<1>13. CASE ReadIncoming
  <2>1. Quiet /\ UNCHANGED <<pass, queue, front, depth, best, nodes, links, found, outcome>>
        /\ at' = "nodes"
    BY <1>13 DEF ReadIncoming
  <2>2. todo' \subseteq Edge
    BY <1>13, <1>3, <1>4 DEF ReadIncoming, Incoming, LocalTypeOK
  <2> QED BY <2>1, <2>2, <1>4 DEF LocalTypeOK, Marked
<1>14. CASE ReadNodes
  <2>1. Quiet /\ UNCHANGED <<pass, queue, front, depth, best, nodes, links, todo, outcome>>
        /\ at' = "add"
    BY <1>14 DEF ReadNodes
  <2>2. found' \subseteq Node
    <3>1. Wanted \subseteq Node
      BY <1>4, BeyondNode DEF Wanted, LocalTypeOK
    <3> QED BY <1>14, <3>1 DEF ReadNodes, Rows
  <2> QED BY <2>1, <2>2, <1>4 DEF LocalTypeOK, Marked
<1>15. CASE Add
  <2>1. Quiet
    BY <1>15 DEF Add
  <2>2. PICK e \in todo :
          \/ /\ todo' = todo \ {e}
             /\ UNCHANGED <<at, pass, front, depth, found, outcome, nodes, links, queue, best>>
          \/ Return("found", nodes \cup {Beyond(e)}, Reconstruct(Linked(Beyond(e), e)))
          \/ /\ todo' = todo \ {e}
             /\ nodes' = nodes \cup {Beyond(e)}
             /\ links' = Linked(Beyond(e), e)
             /\ (best' = best \/ best' = Mark(Beyond(e), NewDepth))
             /\ queue' = Push(Beyond(e), e)
             /\ UNCHANGED <<at, pass, front, depth, found, outcome>>
    BY <1>15, Zenon DEF Add
  <2>3. e \in Edge /\ Beyond(e) \in Node
    BY <1>4, BeyondNode DEF LocalTypeOK
  <2>4. Linked(Beyond(e), e) \subseteq Edge
    BY <2>3, <1>4 DEF Linked
  <2>5. CASE /\ todo' = todo \ {e}
             /\ UNCHANGED <<at, pass, front, depth, found, outcome, nodes, links, queue, best>>
    BY <2>5, <2>1, <1>4 DEF LocalTypeOK, Marked, WalkTypeOK
  <2>6. CASE Return("found", nodes \cup {Beyond(e)}, Reconstruct(Linked(Beyond(e), e)))
    <3>1. Reconstruct(Linked(Beyond(e), e)) \subseteq Edge
      BY <2>4, ReconstructPart
    <3> QED BY <3>1, <2>6, <2>1, <2>3, <1>4, <1>5
  <2>7. CASE /\ todo' = todo \ {e}
             /\ nodes' = nodes \cup {Beyond(e)}
             /\ links' = Linked(Beyond(e), e)
             /\ (best' = best \/ best' = Mark(Beyond(e), NewDepth))
             /\ queue' = Push(Beyond(e), e)
             /\ UNCHANGED <<at, pass, front, depth, found, outcome>>
    <3>1. NewDepth \in Nat
      BY <1>4 DEF NewDepth, LocalTypeOK
    <3>2. Marked' \subseteq Node /\ best' \in [Marked' -> Nat]
      <4>1. CASE best' = best
        BY <4>1, <1>4 DEF LocalTypeOK, Marked
      <4>2. CASE best' = Mark(Beyond(e), NewDepth)
        BY <4>2, <3>1, <2>3, <1>4, MarkTyping
      <4> QED BY <2>7, <4>1, <4>2
    <3>3. queue' \in Seq(Item)
      <4>1. Entry(Beyond(e), e) \in Item
        BY <3>1, <2>3 DEF Entry
      <4>2. queue \in Seq(Item)
        BY <1>4 DEF LocalTypeOK
      <4>3. Push(Beyond(e), e) \in {queue, <<Entry(Beyond(e), e)>> \o queue, Append(queue, Entry(Beyond(e), e))}
        BY DEF Push
      <4> HIDE DEF Item
      <4>4. /\ <<Entry(Beyond(e), e)>> \o queue \in Seq(Item)
            /\ Append(queue, Entry(Beyond(e), e)) \in Seq(Item)
        BY <4>1, <4>2, QueueTyping
      <4> QED BY <4>2, <4>3, <4>4, <2>7
    <3>4. LocalTypeOK'
      BY <2>7, <3>2, <3>3, <1>4 DEF LocalTypeOK
    <3> QED BY <3>4, <2>1, <2>3, <2>4, <2>7, <1>4 DEF WalkTypeOK
  <2> QED BY <2>2, <2>5, <2>6, <2>7
<1>16. CASE EndPass
  <2>1. Quiet /\ at' \in {"edges", "loop"} /\ pass' = "around" /\ found' = {}
        /\ UNCHANGED <<queue, best, nodes, links, todo, outcome>>
    BY <1>16 DEF EndPass
  <2>2. front' \subseteq Node
    BY <1>16, <1>4 DEF EndPass, LocalTypeOK
  <2>3. depth' \in Nat
    BY <1>16, <1>4 DEF EndPass, LocalTypeOK
  <2> QED BY <2>1, <2>2, <2>3, <1>4 DEF LocalTypeOK, Marked
<1> QED
  BY <1>6, <1>7, <1>8, <1>9, <1>10, <1>11, <1>12, <1>13, <1>14, <1>15, <1>16, <1>17,
     Zenon DEF Walk

-----------------------------------------------------------------------------
(* Types of a session                                                        *)

\* A commit keeps the stored graph a graph, and the histories sets of edges.
LEMMA CommitTyping ==
  ASSUME DbTypeOK, Commit
  PROVE  DbTypeOK'
<1>1. commits \in Seq(Graph) /\ commits # <<>> /\ db' = Head(commits) /\ commits' = Tail(commits)
  BY DEF DbTypeOK, Commit
<1>2. db' \in Graph /\ commits' \in Seq(Graph)
  <2> HIDE DEF Graph
  <2>1. db \in Graph
    BY DEF DbTypeOK
  <2> QED BY <1>1, <2>1, QueueTyping
<1>3. db'.edges \subseteq Edge
  BY <1>2 DEF Graph
<1> QED
  BY <1>2, <1>3 DEF DbTypeOK, Commit

\* An engine that stops leaves a call in one of its stages.
LEMMA FailingTyping ==
  ASSUME NEW r \in Session
  PROVE  Failing(r) \in Session
<1>1. Failed("stopped") \in [how : {"pending", "found", "none", "cancelled", "stopped"},
                             source : SUBSET Node, already : SUBSET Node]
  BY DEF Failed
<1> QED
  BY <1>1 DEF Failing, Session

\* What a service task hands to the engine is a command, and its call a session.
LEMMA EnqueueTyping ==
  ASSUME TypeOK, NEW c \in Calls, NEW r \in Session, NEW do \in {"locate", "execute", "tools"},
         Enqueue(c, do, r), asks' = asks
  PROVE  call' \in [Calls -> Session] /\ commands' \in Seq(Command)
<1>1. call \in [Calls -> Session] /\ commands \in Seq(Command)
  BY DEF TypeOK, SessionTypeOK
<1>2. Failing(r) \in Session
  BY FailingTyping
<1> DEFINE command == [do |-> do, for |-> c]
<1>3. command \in Command
  BY DEF Command
<1>4. Append(commands, command) \in Seq(Command)
  <2> HIDE DEF command
  <2> QED BY <1>1, <1>3, QueueTyping
<1> QED
  BY <1>1, <1>2, <1>4 DEF Enqueue

\* The next command is a command, and so are those after it.
LEMMA HeadTyping ==
  ASSUME TypeOK, commands # <<>>
  PROVE  Head(commands) \in Command /\ Tail(commands) \in Seq(Command)
<1>1. commands \in Seq(Command)
  BY DEF TypeOK, SessionTypeOK
<1> DEFINE any == [do |-> "stop", for |-> None]
<1>2. any \in Command
  BY DEF Command
<1> HIDE DEF any
<1> QED BY <1>1, <1>2, QueueTyping

\* A reply leaves the engine waiting, with no call in its context.
LEMMA ReplyTyping ==
  ASSUME TypeOK, NEW c \in Calls,
         NEW r \in [how : {"pending", "found", "none", "cancelled", "stopped"},
                    source : SUBSET Node, already : SUBSET Node],
         Reply(c, r)
  PROVE  /\ call' = [call EXCEPT ![c] = [@ EXCEPT !.stage = "replied", !.reply = r]]
         /\ call' \in [Calls -> Session]
         /\ token' = None /\ context' = None /\ worker' = "waiting"
<1>1. call \in [Calls -> Session]
  BY DEF TypeOK, SessionTypeOK
<1>2. call' = [call EXCEPT ![c] = [@ EXCEPT !.stage = "replied", !.reply = r]]
  BY DEF Reply
<1>3. [call[c] EXCEPT !.stage = "replied", !.reply = r] \in Session
  BY <1>1 DEF Session
<1> QED
  BY <1>1, <1>2, <1>3 DEF Reply, Cleared

\* A view of the ledger is of the calls it has recorded.
LEMMA RecentPart ==
  ASSUME NEW S, NEW s \in Seq(S)
  PROVE  Recent(s) \subseteq S /\ \A c \in Recent(s) : \E i \in DOMAIN s : c = s[i]
BY DEF Recent

\* Every step keeps the types.
LEMMA TypeStep ==
  ASSUME TypeOK, [SessionNext]_allVars
  PROVE  TypeOK'
<1>1. /\ WalkTypeOK /\ SessionTypeOK
      /\ Calls \subseteq Call /\ asks \in [Calls -> Ask] /\ call \in [Calls -> Session]
      /\ commands \in Seq(Command)
      /\ None \notin Calls /\ None \notin Call
  BY TraversalAssumption DEF TypeOK, SessionTypeOK
<1>2. CASE UNCHANGED allVars
  BY <1>1, <1>2 DEF allVars, sessionVars, serviceVars, engineVars, vars, dbVars, walkVars, localVars,
     TypeOK, WalkTypeOK, DbTypeOK, LocalTypeOK, SessionTypeOK, Marked, Calls, Command, Session
<1>3. ASSUME UNCHANGED vars PROVE WalkTypeOK'
  BY <1>1, <1>3 DEF vars, dbVars, walkVars, localVars, WalkTypeOK, DbTypeOK, LocalTypeOK, Marked
<1>4. ASSUME NEW c \in Calls, Submit(c) PROVE TypeOK'
  <2>1. /\ [call[c] EXCEPT !.stage = "queued"] \in Session
        /\ [call[c] EXCEPT !.stage = "locating"] \in Session
        /\ [call[c] EXCEPT !.stage = "located"] \in Session
    BY <1>1 DEF Session
  <2>2. UNCHANGED <<vars, asks, ledger, cancels, stopping, worker, context, catchUp>>
        /\ gate' \in {c, gate}
    BY <1>4 DEF Submit
  <2>3. call' \in [Calls -> Session] /\ commands' \in Seq(Command)
    <3>1. CASE \E r \in Session, do \in {"locate", "execute", "tools"} : Enqueue(c, do, r)
      BY <2>2, <3>1, EnqueueTyping
    <3>2. CASE call' = [call EXCEPT ![c].stage = "located"] /\ UNCHANGED commands
      BY <1>1, <2>1, <3>2
    <3> QED BY <1>4, <2>1, <3>1, <3>2 DEF Submit
  <2>4. SessionTypeOK'
    BY <1>1, <2>2, <2>3 DEF SessionTypeOK, Calls, Session, Command, vars
  <2> QED BY <2>2, <2>4, <1>3 DEF TypeOK
<1>5. ASSUME NEW c \in Calls, View(c) PROVE TypeOK'
  <2>1. [call[c] EXCEPT !.stage = "queued", !.view = Recent(ledger)] \in Session
    <3>1. call[c] \in Session /\ Recent(ledger) \in SUBSET Call
      BY <1>1, RecentPart DEF SessionTypeOK
    <3> QED BY <3>1 DEF Session
  <2>2. UNCHANGED <<vars, asks, gate, ledger, cancels, stopping, worker, context, catchUp>>
        /\ Enqueue(c, "execute", [call[c] EXCEPT !.stage = "queued", !.view = Recent(ledger)])
    BY <1>5 DEF View
  <2>3. call' \in [Calls -> Session] /\ commands' \in Seq(Command)
    BY <2>1, <2>2, EnqueueTyping
  <2>4. SessionTypeOK'
    BY <1>1, <2>2, <2>3 DEF SessionTypeOK, Calls, Session, Command, vars
  <2> QED BY <2>2, <2>4, <1>3 DEF TypeOK
<1>6. ASSUME NEW c \in Calls, Record(c) PROVE TypeOK'
  <2>1. [call[c] EXCEPT !.stage = "refreshing"] \in Session
    BY <1>1 DEF Session
  <2>2. UNCHANGED <<vars, asks, gate, cancels, stopping, worker, context, catchUp>>
        /\ Enqueue(c, "tools", [call[c] EXCEPT !.stage = "refreshing"])
        /\ ledger' = IF Recorded(c) THEN Append(ledger, c) ELSE ledger
    BY <1>6 DEF Record
  <2>3. call' \in [Calls -> Session] /\ commands' \in Seq(Command)
    BY <2>1, <2>2, EnqueueTyping
  <2>4. ledger' \in Seq(Calls)
    <3>1. ledger \in Seq(Calls)
      BY <1>1 DEF SessionTypeOK
    <3>2. Append(ledger, c) \in Seq(Calls)
      BY <3>1, QueueTyping
    <3> QED BY <2>2, <3>1, <3>2
  <2>5. SessionTypeOK'
    BY <1>1, <2>2, <2>3, <2>4 DEF SessionTypeOK, Calls, Session, Command, vars
  <2> QED BY <2>2, <2>5, <1>3 DEF TypeOK
<1>7. ASSUME NEW c \in Calls, Send(c) PROVE TypeOK'
  <2>1. UNCHANGED <<vars, asks, ledger, cancels, stopping, engineVars>>
        /\ call' = [call EXCEPT ![c].stage = "sent"] /\ gate' \in {None, gate}
    BY <1>7 DEF Send
  <2>2. [call[c] EXCEPT !.stage = "sent"] \in Session
    BY <1>1 DEF Session
  <2>3. call' \in [Calls -> Session]
    BY <1>1, <2>1, <2>2
  <2>4. SessionTypeOK'
    BY <1>1, <2>1, <2>3 DEF SessionTypeOK, Calls, Session, Command, vars, engineVars
  <2> QED BY <2>1, <2>4, <1>3 DEF TypeOK
<1>26. ASSUME NEW c \in Calls, Reject(c) PROVE TypeOK'
  <2> DEFINE r == [call[c] EXCEPT !.stage = "sent", !.reply = Failed("none")]
  <2>1. UNCHANGED <<vars, asks, gate, ledger, cancels, stopping, engineVars>>
        /\ call' = [call EXCEPT ![c] = r]
    BY <1>26, <1>1 DEF Reject
  <2>2. r \in Session
    BY <1>1 DEF Session, Failed
  <2> HIDE DEF r
  <2>3. call' \in [Calls -> Session]
    BY <1>1, <2>1, <2>2
  <2>4. SessionTypeOK'
    BY <1>1, <2>1, <2>3 DEF SessionTypeOK, Calls, Session, Command, vars, engineVars
  <2> QED BY <2>1, <2>4, <1>3 DEF TypeOK
<1>8. ASSUME NEW c \in Calls, CancelCall(c) PROVE TypeOK'
  <2>1. UNCHANGED <<vars, asks, call, gate, ledger, stopping, engineVars>>
        /\ cancels' = cancels \cup {c}
    BY <1>8 DEF CancelCall
  <2>2. SessionTypeOK'
    BY <1>1, <2>1 DEF SessionTypeOK, Calls, Session, Command, vars, engineVars
  <2> QED BY <2>1, <2>2, <1>3 DEF TypeOK
<1>9. ASSUME NEW c \in Calls, Flag(c) PROVE TypeOK'
  <2>1. UNCHANGED sessionVars /\ UNCHANGED <<dbVars, cache, walkVars, token>> /\ flags' = flags \cup {c}
        /\ c \in cancels
    BY <1>9 DEF Flag, Cancel
  <2>2. SessionTypeOK'
    BY <1>1, <2>1 DEF SessionTypeOK, Calls, Session, Command, sessionVars, serviceVars, engineVars
  <2>3. WalkTypeOK'
    BY <1>1, <2>1 DEF dbVars, walkVars, localVars, WalkTypeOK, DbTypeOK, LocalTypeOK, Marked
  <2> QED BY <2>2, <2>3 DEF TypeOK
<1>10. CASE RequestStop
  <2> DEFINE stop == [do |-> "stop", for |-> None]
  <2>1. UNCHANGED <<vars, asks, call, gate, ledger, cancels, worker, context, catchUp>>
        /\ stopping' = TRUE /\ commands' = Append(commands, stop)
    BY <1>10 DEF RequestStop
  <2>2. commands' \in Seq(Command)
    <3>1. stop \in Command
      BY DEF Command
    <3> HIDE DEF stop
    <3> QED BY <1>1, <2>1, <3>1, QueueTyping
  <2>3. SessionTypeOK'
    BY <1>1, <2>1, <2>2 DEF SessionTypeOK, Calls, Session, Command, vars
  <2> QED BY <2>1, <2>3, <1>3 DEF TypeOK
<1>11. CASE OtherWriter
  <2>1. Commit /\ UNCHANGED <<cache, walkVars, token, flags>> /\ UNCHANGED sessionVars
    BY <1>11 DEF OtherWriter, Sync
  <2>2. DbTypeOK'
    BY <1>1, <2>1, CommitTyping DEF WalkTypeOK
  <2>3. WalkTypeOK'
    BY <1>1, <2>1, <2>2 DEF walkVars, localVars, WalkTypeOK, LocalTypeOK, Marked
  <2>4. SessionTypeOK'
    BY <1>1, <2>1 DEF SessionTypeOK, Calls, Session, Command, sessionVars, serviceVars, engineVars
  <2> QED BY <2>3, <2>4 DEF TypeOK
<1>12. ASSUME NextIs("locate") \/ NextIs("tools"), TakeLookup PROVE TypeOK'
  <2>1. /\ UNCHANGED <<vars, asks, gate, ledger, cancels, stopping, worker, context, catchUp>>
        /\ commands' = Tail(commands)
        /\ \E stage \in {"located", "sending"} : call' = [call EXCEPT ![Head(commands).for].stage = stage]
    BY <1>12 DEF TakeLookup
  <2>2. Head(commands) \in Command /\ Tail(commands) \in Seq(Command)
    BY <1>12, HeadTyping DEF NextIs
  <2>3. Head(commands).for \in Calls
    BY <1>12, <2>2 DEF NextIs, Command
  <2>4. call' \in [Calls -> Session]
    <3>1. PICK stage \in {"located", "sending"} : call' = [call EXCEPT ![Head(commands).for].stage = stage]
      BY <2>1
    <3>2. [call[Head(commands).for] EXCEPT !.stage = stage] \in Session
      BY <1>1, <2>3 DEF Session
    <3> QED BY <1>1, <2>3, <3>1, <3>2
  <2>5. SessionTypeOK'
    BY <1>1, <2>1, <2>2, <2>4 DEF SessionTypeOK, Calls, Session, Command, vars
  <2> QED BY <2>1, <2>5, <1>3 DEF TypeOK
<1>13. CASE TakeCall
  <2>1. /\ NextIs("execute") /\ context' = Head(commands).for /\ commands' = Tail(commands)
        /\ worker' \in {"catchUp", "dispatch"} /\ catchUp' = FALSE
        /\ UNCHANGED <<vars, serviceVars>>
    BY <1>13 DEF TakeCall
  <2>2. Head(commands) \in Command /\ Tail(commands) \in Seq(Command)
    BY <2>1, HeadTyping DEF NextIs
  <2>3. context' \in Calls
    BY <2>1, <2>2 DEF NextIs, Command
  <2>4. Calls' = Calls /\ Command' = Command /\ commands' \in Seq(Command)
    BY <2>1, <2>2 DEF serviceVars, Calls, Command
  <2>5. (context' = None) = (worker' \in {"waiting", "stopped"})
    BY <1>1, <2>1, <2>3
  <2>6. UNCHANGED <<asks, call, gate, ledger, cancels, stopping, flags>>
    BY <2>1 DEF serviceVars, vars
  <2>7. SessionTypeOK'
    BY <1>1, <2>1, <2>3, <2>4, <2>5, <2>6 DEF SessionTypeOK
  <2> QED BY <2>1, <2>7, <1>3 DEF TypeOK
<1>14. CASE CatchUp
  <2>1. /\ worker = "catchUp" /\ worker' = "dispatch" /\ (Commit \/ UNCHANGED dbVars)
        /\ UNCHANGED <<cache, walkVars, token, flags, serviceVars, commands, context, catchUp>>
    BY <1>14 DEF CatchUp
  <2>2. DbTypeOK'
    BY <1>1, <2>1, CommitTyping DEF WalkTypeOK, DbTypeOK, dbVars
  <2>3. WalkTypeOK'
    BY <1>1, <2>1, <2>2 DEF walkVars, localVars, WalkTypeOK, LocalTypeOK, Marked
  <2>4. SessionTypeOK'
    BY <1>1, <2>1 DEF SessionTypeOK, Calls, Session, Command, serviceVars
  <2> QED BY <2>3, <2>4 DEF TypeOK
<1>15. worker \in {"dispatch", "handler"} => context \in Calls
  BY <1>1 DEF SessionTypeOK
<1>16. ASSUME NEW c \in Calls,
              NEW r \in [how : {"pending", "found", "none", "cancelled", "stopped"},
                         source : SUBSET Node, already : SUBSET Node],
              Reply(c, r)
       PROVE  SessionTypeOK'
  <2>1. /\ call' \in [Calls -> Session] /\ context' = None /\ worker' = "waiting"
        /\ UNCHANGED <<flags, asks, gate, ledger, cancels, stopping, commands, catchUp>>
    BY <1>1, <1>16, ReplyTyping DEF Reply
  <2> QED BY <1>1, <2>1 DEF SessionTypeOK, Calls, Session, Command
<1>17. ASSUME NEW how \in {"pending", "found", "none", "cancelled", "stopped"}
       PROVE  Failed(how) \in [how : {"pending", "found", "none", "cancelled", "stopped"},
                               source : SUBSET Node, already : SUBSET Node]
  BY DEF Failed
<1>18. ASSUME NEW c \in Calls, NEW r, Reply(c, r), UNCHANGED walkVars, cache' \subseteq Node
       PROVE  WalkTypeOK'
  BY <1>1, <1>18 DEF Reply, dbVars, walkVars, localVars, WalkTypeOK, DbTypeOK, LocalTypeOK, Marked
<1>19. CASE Refuse
  <2>1. worker = "dispatch" /\ Reply(context, Failed("cancelled")) /\ UNCHANGED <<cache, walkVars>>
    BY <1>19 DEF Refuse
  <2>2. cache' \subseteq Node
    BY <1>1, <2>1 DEF WalkTypeOK
  <2> QED BY <1>15, <1>16, <1>17, <1>18, <2>1, <2>2 DEF TypeOK
<1>20. CASE Dispatch
  <2>1. /\ worker = "dispatch" /\ token' = context /\ worker' = "handler"
        /\ UNCHANGED <<cache, flags, serviceVars, commands, context, catchUp>>
        /\ \/ /\ asks[context].tool = "walk" /\ Open(asks[context].query)
              /\ UNCHANGED <<db, commits, localVars>>
           \/ UNCHANGED <<dbVars, walkVars>>
    BY <1>20 DEF Dispatch
  <2>2. SessionTypeOK'
    BY <1>1, <1>15, <2>1 DEF SessionTypeOK, Calls, Session, Command, serviceVars
  <2>3. context \in Call
    BY <1>1, <1>15, <2>1
  <2>4. CASE UNCHANGED <<dbVars, walkVars>>
    BY <1>1, <2>1, <2>2, <2>3, <2>4 DEF TypeOK, dbVars, walkVars, localVars, WalkTypeOK, DbTypeOK,
       LocalTypeOK, Marked
  <2>5. CASE /\ asks[context].tool = "walk" /\ Open(asks[context].query)
             /\ UNCHANGED <<db, commits, localVars>>
    <3>1. asks[context].query \in Query
      <4>1. asks[context] \in Ask
        BY <1>1, <1>15, <2>1
      <4> QED BY <4>1, <2>5 DEF Ask
    <3>2. DbTypeOK'
      BY <1>1, <2>5 DEF Open, WalkTypeOK, DbTypeOK, Graph
    <3>3. LocalTypeOK'
      BY <1>1, <2>5 DEF WalkTypeOK, LocalTypeOK, localVars, Marked
    <3>4. WalkTypeOK'
      BY <1>1, <2>1, <2>3, <2>5, <3>1, <3>2, <3>3 DEF Open, WalkTypeOK
    <3> QED BY <2>2, <3>4 DEF TypeOK
  <2> QED BY <2>1, <2>4, <2>5
<1>21. CASE Walking
  <2>1. Walk /\ UNCHANGED sessionVars
    BY <1>21 DEF Walking
  <2>2. WalkTypeOK'
    BY <1>1, <2>1, WalkTyping
  <2>3. UNCHANGED flags
    BY <2>1, WalkKeeps
  <2>4. SessionTypeOK'
    BY <1>1, <2>1, <2>3 DEF SessionTypeOK, Calls, Session, Command, sessionVars, serviceVars, engineVars
  <2> QED BY <2>2, <2>4 DEF TypeOK
<1>22. CASE AnswerWalk
  <2>1. /\ worker = "handler" /\ Reply(context, Failed(outcome))
        /\ at' = "idle" /\ outcome' = "pending" /\ nodes' = {} /\ links' = {}
        /\ UNCHANGED <<cache, query, localVars>>
    BY <1>22 DEF AnswerWalk
  <2>2. SessionTypeOK'
    BY <1>1, <1>15, <1>16, <1>17, <2>1 DEF WalkTypeOK
  <2>3. WalkTypeOK'
    BY <1>1, <2>1 DEF Reply, dbVars, localVars, WalkTypeOK, DbTypeOK, LocalTypeOK, Marked
  <2> QED BY <2>2, <2>3 DEF TypeOK
<1>23. CASE AnswerSource
  <2> DEFINE wants == asks[context].wants
             Reply1 == [how : {"pending", "found", "none", "cancelled", "stopped"},
                        source : SUBSET Node, already : SUBSET Node]
  <2>1. worker = "handler" /\ asks[context].tool # "walk" /\ UNCHANGED walkVars
    BY <1>23 DEF AnswerSource
  <2>2. wants \subseteq Node
    <3>1. asks[context] \in Ask
      BY <1>1, <1>15, <2>1
    <3> QED BY <3>1, <2>1 DEF Ask
  <2>3. PICK r \in Reply1 : Reply(context, r)
    <3>1. CASE Reply(context, Failed("cancelled"))
      BY <3>1 DEF Failed
    <3>2. ASSUME NEW already \in SUBSET wants,
                 Reply(context, [how |-> "found", source |-> wants \ already, already |-> already])
          PROVE  \E r \in Reply1 : Reply(context, r)
      <4>1. [how |-> "found", source |-> wants \ already, already |-> already] \in Reply1
        BY <2>2
      <4> HIDE DEF Reply1
      <4> QED BY <3>2, <4>1
    <3> QED BY <1>23, <3>1, <3>2 DEF AnswerSource
  <2>4. SessionTypeOK'
    BY <1>15, <1>16, <1>17, <2>1, <2>3
  <2>5. cache' \subseteq Node
    <3>1. PICK got \in Rows(wants) : Keep(wants, got)
      BY <1>23 DEF AnswerSource
    <3>2. cache \subseteq Node /\ db.nodes \subseteq Node
      BY <1>1 DEF WalkTypeOK, DbTypeOK, Graph
    <3> QED BY <2>2, <3>1, <3>2, LookupTyping
  <2>6. WalkTypeOK'
    BY <1>15, <1>18, <2>1, <2>3, <2>5
  <2> QED BY <2>4, <2>6 DEF TypeOK
<1>24. CASE TakeStop
  <2>1. /\ NextIs("stop") /\ worker' = "stopped" /\ commands' = <<>>
        /\ call' = [c \in Calls |-> Failing(call[c])]
        /\ UNCHANGED <<vars, asks, gate, ledger, cancels, stopping, context, catchUp>>
    BY <1>24 DEF TakeStop, Dropped
  <2>2. call' \in [Calls -> Session]
    BY <1>1, <2>1, FailingTyping
  <2>3. commands' \in Seq(Command)
    <3> DEFINE any == [do |-> "stop", for |-> None]
    <3>1. any \in Command
      BY DEF Command
    <3> HIDE DEF any
    <3> QED BY <1>1, <2>1, <3>1, QueueTyping
  <2>4. SessionTypeOK'
    BY <1>1, <2>1, <2>2, <2>3 DEF SessionTypeOK, Calls, Session, Command, vars, NextIs
  <2> QED BY <2>1, <2>4, <1>3 DEF TypeOK
<1>25. TakeLookup => NextIs("locate") \/ NextIs("tools")
  BY DEF TakeLookup
<1> QED
  BY <1>2, <1>4, <1>5, <1>6, <1>7, <1>8, <1>9, <1>10, <1>11, <1>12, <1>13, <1>14, <1>19, <1>20,
     <1>21, <1>22, <1>23, <1>24, <1>25, <1>26 DEF SessionNext, Worker, Service

\* A session starts well typed.
LEMMA TypeInit == SessionInit => TypeOK
<1> SUFFICES ASSUME SessionInit PROVE TypeOK
  OBVIOUS
<1>1. PICK s \in Situations :
        /\ db = s.graph /\ commits = s.commits /\ ever = db.edges /\ always = db.edges
        /\ asks = s.asks /\ cache = {} /\ query = NoQuery
        /\ at = "idle" /\ Blank /\ token = None /\ flags = {}
        /\ call = [c \in DOMAIN s.asks |-> [stage |-> "new", view |-> {}, reply |-> NoReply]]
        /\ commands = <<>> /\ worker = "waiting" /\ context = None /\ catchUp = TRUE
        /\ gate = None /\ ledger = <<>> /\ cancels = {} /\ stopping = FALSE
  BY Zenon DEF SessionInit
<1>2. /\ s.graph \in Graph /\ s.commits \in Seq(Graph)
      /\ DOMAIN s.asks \subseteq Call /\ s.asks \in [DOMAIN s.asks -> Ask]
  BY SituationsAssumption
<1>3. DbTypeOK
  BY <1>1, <1>2 DEF DbTypeOK, Graph
<1>4. LocalTypeOK
  <2>1. Unmarked \in [{} -> Nat] /\ DOMAIN Unmarked = {}
    BY DEF Unmarked
  <2>2. Marked \subseteq Node /\ best \in [Marked -> Nat]
    BY <1>1, <2>1 DEF Blank, Marked
  <2> QED BY <1>1, <2>2 DEF Blank, LocalTypeOK
<1>5. query \in Query
  BY <1>1, TraversalAssumption DEF NoQuery, Query
<1>6. WalkTypeOK
  BY <1>1, <1>3, <1>4, <1>5 DEF WalkTypeOK, Blank
<1>7. call \in [Calls -> Session]
  BY <1>1 DEF Calls, Session, NoReply
<1>8. commands \in Seq(Command) /\ ledger \in Seq(Calls)
  BY <1>1
<1>9. asks \in [Calls -> Ask]
  BY <1>1, <1>2 DEF Calls
<1> QED
  BY <1>1, <1>2, <1>6, <1>7, <1>8, <1>9 DEF TypeOK, SessionTypeOK, Calls

\* The types hold throughout: of what the service, the engine and the walk keep.
THEOREM TypesHold == SessionSpec => []TypeOK
<1> QED BY TypeInit, TypeStep, PTL DEF SessionSpec

-----------------------------------------------------------------------------
(* Invariants behind the properties of calls and ledger                      *)

\* The walk under way is the one of the call whose token the thread holds, and
\* ends as cancelled only on that call's flag.
LeakInv ==
  /\ worker = "handler" => token = context
  /\ at # "idle" => worker = "handler" /\ asks[context].tool = "walk"
  /\ outcome = "cancelled" => at # "idle" /\ token \in flags
  /\ NoLeak

Waits(do) == CASE do = "locate" -> "locating" [] do = "execute" -> "queued"
               [] do = "tools" -> "refreshing"

\* A call has at most one command with the engine, the one its stage waits for.
CommandInv ==
  /\ \A i \in DOMAIN commands : commands[i].do # "stop" =>
       /\ call[commands[i].for].stage = Waits(commands[i].do)
       /\ commands[i].for # context
  /\ \A i, j \in DOMAIN commands :
       i # j /\ commands[i].do # "stop" => commands[i].for # commands[j].for
  /\ context # None => call[context].stage = "queued"

Delivered(c) == call[c].stage \in {"refreshing", "sending", "sent"}

\* The calls that were not cancelled before they were recorded, and their source.
Held == {d \in Calls \ flags : Delivered(d)}
InHand == UNION {call[d].reply.source : d \in Held}

\* The ledger and the views of it name no other calls.
LedgerInv ==
  /\ \A i \in DOMAIN ledger : ledger[i] \in Held
  /\ \A c \in Calls : call[c].view \subseteq Held /\ call[c].reply.already \subseteq InHand

Explores == {c \in Calls : asks[c].tool = "explore"}

\* Its view has the explores among the last calls recorded.
Sees(c) ==
  \A i \in DOMAIN ledger :
    Len(ledger) < i + MaxViewCalls /\ IsExplore(ledger[i]) => ledger[i] \in call[c].view

\* The explore under way holds the gate, and has seen what the ones before it sent.
GateInv ==
  /\ \A c \in Explores : call[c].stage \notin {"new", "sent"} => gate = c
  /\ \A c \in Explores : call[c].stage \in {"queued", "replied"} => Sees(c)
  /\ ExploresSeeEachOther

SourceInv == CommandInv /\ LedgerInv /\ GateInv

-----------------------------------------------------------------------------
(* What a step does to the calls                                             *)

\* A stopped engine fails the calls that wait for it, and leaves the others.
LEMMA FailingEffect ==
  ASSUME NEW r \in Session
  PROVE  /\ r.stage = "locating" => Failing(r).stage = "located" /\ Failing(r).reply = r.reply
         /\ r.stage = "queued" => Failing(r).stage = "replied" /\ Failing(r).reply = Failed("stopped")
         /\ r.stage = "refreshing" => Failing(r).stage = "sending" /\ Failing(r).reply = r.reply
         /\ r.stage \notin {"locating", "queued", "refreshing"} => Failing(r) = r
         /\ Failing(r).view = r.view
BY DEF Failing, Session

\* Enqueueing concerns one call.
LEMMA EnqueueEffect ==
  ASSUME TypeOK, NEW c \in Calls, NEW r \in Session, NEW do, Enqueue(c, do, r)
  PROVE  /\ \A d \in Calls \ {c} : call'[d] = call[d]
         /\ \/ call'[c] = r /\ commands' = Append(commands, [do |-> do, for |-> c])
            \/ call'[c] = Failing(r) /\ commands' = commands
<1>1. call \in [Calls -> Session]
  BY DEF TypeOK, SessionTypeOK
<1> QED
  BY <1>1 DEF Enqueue

\* How far a step of the service takes its call, and what it writes down.
Moves(c) ==
  \/ /\ call[c].stage = "new" /\ call'[c].stage \in {"queued", "replied", "locating", "located"}
     /\ asks[c].tool = "explore" => call'[c].stage \in {"locating", "located"} /\ gate = None
     /\ gate' = IF asks[c].tool = "explore" THEN c ELSE gate
     /\ ledger' = ledger /\ call'[c].view = call[c].view
  \/ /\ call[c].stage = "located" /\ call'[c].stage \in {"queued", "replied"}
     /\ gate' = gate /\ ledger' = ledger /\ call'[c].view = Recent(ledger)
  \/ /\ call[c].stage = "replied" /\ call'[c].stage \in {"refreshing", "sending"}
     /\ gate' = gate /\ ledger' = (IF Recorded(c) THEN Append(ledger, c) ELSE ledger)
     /\ call'[c].view = call[c].view
  \/ /\ call[c].stage = "sending" /\ call'[c].stage = "sent"
     /\ gate' = (IF gate = c THEN None ELSE gate)
     /\ ledger' = ledger /\ call'[c].view = call[c].view
  \/ /\ call[c].stage = "new" /\ call'[c].stage = "sent"
     /\ gate' = gate /\ ledger' = ledger /\ call'[c].view = call[c].view

Asked(c) ==
  \/ commands' = commands
  \/ \E do \in {"locate", "execute", "tools"} :
       call'[c].stage = Waits(do) /\ commands' = Append(commands, [do |-> do, for |-> c])

Spoils(c) ==
  \/ call'[c].reply = call[c].reply
  \/ /\ call[c].stage \in {"new", "located"} /\ call'[c].stage = "replied"
     /\ call'[c].reply = Failed("stopped")
  \/ /\ call[c].stage = "new" /\ call'[c].stage = "sent"
     /\ call'[c].reply = Failed("none")

\* A step of the service concerns one call.
LEMMA ServiceEffect ==
  ASSUME TypeOK, NEW c \in Calls, Service(c)
  PROVE  /\ UNCHANGED <<vars, asks, worker, context, cancels>>
         /\ \A d \in Calls \ {c} : call'[d] = call[d]
         /\ Moves(c) /\ Asked(c) /\ Spoils(c)
<1>1. call \in [Calls -> Session] /\ call[c] \in Session /\ Recent(ledger) \in SUBSET Call
  BY RecentPart DEF TypeOK, SessionTypeOK
<1>2. CASE Submit(c)
  <2> DEFINE r1 == [call[c] EXCEPT !.stage = "queued"]
             r2 == [call[c] EXCEPT !.stage = "locating"]
             r3 == [call[c] EXCEPT !.stage = "located"]
  <2>1. /\ UNCHANGED <<vars, asks, ledger, cancels, worker, context>>
        /\ call[c].stage = "new"
        /\ asks[c].tool = "explore" => gate = None
        /\ gate' = IF asks[c].tool = "explore" THEN c ELSE gate
        /\ \/ asks[c].tool = "walk" /\ Enqueue(c, "execute", r1)
           \/ asks[c].tool # "walk" /\ Enqueue(c, "locate", r2)
           \/ asks[c].tool # "walk" /\ call' = [call EXCEPT ![c] = r3] /\ UNCHANGED commands
    BY <1>2 DEF Submit, Is, Admitted, IsExplore
  <2>2. /\ r1 \in Session /\ r1.stage = "queued" /\ r1.view = call[c].view /\ r1.reply = call[c].reply
        /\ r2 \in Session /\ r2.stage = "locating" /\ r2.view = call[c].view /\ r2.reply = call[c].reply
        /\ r3 \in Session /\ r3.stage = "located" /\ r3.view = call[c].view /\ r3.reply = call[c].reply
    BY <1>1 DEF Session
  <2> HIDE DEF r1, r2, r3
  <2>3. CASE asks[c].tool = "walk" /\ Enqueue(c, "execute", r1)
    BY <2>1, <2>2, <2>3, EnqueueEffect, FailingEffect DEF Moves, Asked, Spoils, Waits
  <2>4. CASE asks[c].tool # "walk" /\ Enqueue(c, "locate", r2)
    BY <2>1, <2>2, <2>4, EnqueueEffect, FailingEffect DEF Moves, Asked, Spoils, Waits
  <2>5. CASE asks[c].tool # "walk" /\ call' = [call EXCEPT ![c] = r3] /\ UNCHANGED commands
    <3>1. (\A d \in Calls \ {c} : call'[d] = call[d]) /\ call'[c] = r3
      BY <1>1, <2>5
    <3> QED BY <2>1, <2>2, <2>5, <3>1 DEF Moves, Asked, Spoils
  <2> QED BY <2>1, <2>3, <2>4, <2>5
<1>3. CASE View(c)
  <2> DEFINE r == [[call[c] EXCEPT !.stage = "queued"] EXCEPT !.view = Recent(ledger)]
  <2>1. /\ UNCHANGED <<vars, asks, gate, ledger, cancels, worker, context>>
        /\ call[c].stage = "located" /\ Enqueue(c, "execute", r)
    BY <1>3 DEF View, Is
  <2>2. r \in Session /\ r.stage = "queued" /\ r.view = Recent(ledger) /\ r.reply = call[c].reply
    BY <1>1 DEF Session
  <2> HIDE DEF r
  <2> QED BY <2>1, <2>2, EnqueueEffect, FailingEffect DEF Moves, Asked, Spoils, Waits
<1>4. CASE Record(c)
  <2> DEFINE r == [call[c] EXCEPT !.stage = "refreshing"]
  <2>1. /\ UNCHANGED <<vars, asks, gate, cancels, worker, context>>
        /\ call[c].stage = "replied" /\ Enqueue(c, "tools", r)
        /\ ledger' = IF Recorded(c) THEN Append(ledger, c) ELSE ledger
    BY <1>4 DEF Record, Is
  <2>2. r \in Session /\ r.stage = "refreshing" /\ r.view = call[c].view /\ r.reply = call[c].reply
    BY <1>1 DEF Session
  <2> HIDE DEF r
  <2> QED BY <2>1, <2>2, EnqueueEffect, FailingEffect DEF Moves, Asked, Spoils, Waits
<1>5. CASE Send(c)
  <2>1. /\ UNCHANGED <<vars, asks, ledger, cancels, worker, context, commands>>
        /\ call[c].stage = "sending" /\ call' = [call EXCEPT ![c].stage = "sent"]
        /\ gate' = (IF gate = c THEN None ELSE gate)
    BY <1>5 DEF Send, Is, engineVars
  <2>2. /\ \A d \in Calls \ {c} : call'[d] = call[d]
        /\ call'[c] = [call[c] EXCEPT !.stage = "sent"]
    BY <1>1, <2>1
  <2>3. call'[c].stage = "sent" /\ call'[c].view = call[c].view /\ call'[c].reply = call[c].reply
    BY <1>1, <2>2 DEF Session
  <2> QED BY <2>1, <2>2, <2>3 DEF Moves, Asked, Spoils
<1>6. CASE Reject(c)
  <2> DEFINE r == [call[c] EXCEPT !.stage = "sent", !.reply = Failed("none")]
  <2>1. /\ UNCHANGED <<vars, asks, worker, context, cancels, gate, ledger, commands>>
        /\ call[c].stage = "new" /\ call' = [call EXCEPT ![c] = r]
    BY <1>1, <1>6 DEF Reject, Is, engineVars
  <2>2. r.stage = "sent" /\ r.view = call[c].view /\ r.reply = Failed("none")
    BY <1>1 DEF Session
  <2> HIDE DEF r
  <2>3. (\A d \in Calls \ {c} : call'[d] = call[d]) /\ call'[c] = r
    BY <1>1, <2>1
  <2> QED BY <2>1, <2>2, <2>3 DEF Moves, Asked, Spoils
<1> QED
  BY <1>2, <1>3, <1>4, <1>5, <1>6 DEF Service

\* The commands after the first, by their places.
LEMMA TailPlaces ==
  ASSUME NEW S, NEW q \in Seq(S), q # <<>>
  PROVE  /\ 1 \in DOMAIN q /\ Head(q) = q[1]
         /\ \A i \in DOMAIN Tail(q) : /\ i + 1 \in DOMAIN q /\ i + 1 # 1
                                      /\ Tail(q)[i] = q[i + 1]
         /\ \A i, j \in DOMAIN Tail(q) : i # j => i + 1 # j + 1
OBVIOUS

\* An added command is the last, the others keep their places.
LEMMA AppendPlaces ==
  ASSUME NEW S, NEW q \in Seq(S), NEW x
  PROVE  \A i \in DOMAIN Append(q, x) :
           \/ i \in DOMAIN q /\ Append(q, x)[i] = q[i]
           \/ i = Len(q) + 1 /\ Append(q, x)[i] = x
OBVIOUS

\* A lookup answers the call it was asked for.
LEMMA LookupEffect ==
  ASSUME TypeOK, CommandInv, TakeLookup
  PROVE  \E c \in Calls :
           /\ UNCHANGED <<vars, asks, gate, ledger, cancels, worker, context>>
           /\ commands # <<>> /\ commands' = Tail(commands) /\ c = Head(commands).for
           /\ \A d \in Calls \ {c} : call'[d] = call[d]
           /\ call'[c].reply = call[c].reply /\ call'[c].view = call[c].view
           /\ \/ call[c].stage = "locating" /\ call'[c].stage = "located"
              \/ call[c].stage = "refreshing" /\ call'[c].stage = "sending"
<1> DEFINE c == Head(commands).for
           stage == IF NextIs("locate") THEN "located" ELSE "sending"
<1>1. /\ UNCHANGED <<vars, asks, gate, ledger, cancels, worker, context>>
      /\ commands # <<>> /\ commands' = Tail(commands)
      /\ call' = [call EXCEPT ![c].stage = stage]
      /\ NextIs("locate") \/ NextIs("tools")
  BY DEF TakeLookup, NextIs
<1>2. Head(commands) \in Command
  BY <1>1, HeadTyping
<1>3. c \in Calls
  BY <1>1, <1>2 DEF NextIs, Command
<1>4. call \in [Calls -> Session] /\ call[c] \in Session /\ commands \in Seq(Command)
  BY <1>3 DEF TypeOK, SessionTypeOK
<1>5. 1 \in DOMAIN commands /\ Head(commands) = commands[1]
  <2> HIDE DEF c
  <2> QED BY <1>1, <1>4, TailPlaces
<1>6. call[c].stage = Waits(Head(commands).do)
  BY <1>1, <1>5 DEF CommandInv, NextIs
<1>7. \/ call[c].stage = "locating" /\ stage = "located"
      \/ call[c].stage = "refreshing" /\ stage = "sending"
  BY <1>1, <1>6 DEF NextIs, Waits
<1> HIDE DEF stage, c
<1>8. /\ \A d \in Calls \ {c} : call'[d] = call[d]
      /\ call'[c] = [call[c] EXCEPT !.stage = stage]
  BY <1>1, <1>3, <1>4
<1>9. call'[c].stage = stage /\ call'[c].view = call[c].view /\ call'[c].reply = call[c].reply
  BY <1>4, <1>8 DEF Session
<1> QED
  BY <1>1, <1>3, <1>7, <1>8, <1>9 DEF c

\* The engine answers the call in its context.
LEMMA ReplyEffect ==
  ASSUME TypeOK, NEW c \in Calls,
         NEW r \in [how : {"pending", "found", "none", "cancelled", "stopped"},
                    source : SUBSET Node, already : SUBSET Node],
         Reply(c, r)
  PROVE  /\ UNCHANGED <<dbVars, flags, asks, gate, ledger, cancels, commands>>
         /\ token' = None /\ context' = None /\ worker' = "waiting"
         /\ \A d \in Calls \ {c} : call'[d] = call[d]
         /\ call'[c].stage = "replied" /\ call'[c].view = call[c].view /\ call'[c].reply = r
<1>1. call \in [Calls -> Session] /\ call[c] \in Session
  BY DEF TypeOK, SessionTypeOK
<1>2. call' = [call EXCEPT ![c] = [call[c] EXCEPT !.stage = "replied", !.reply = r]]
  BY ReplyTyping
<1>3. /\ \A d \in Calls \ {c} : call'[d] = call[d]
      /\ call'[c] = [[call[c] EXCEPT !.stage = "replied"] EXCEPT !.reply = r]
  BY <1>1, <1>2
<1>4. call'[c].stage = "replied" /\ call'[c].view = call[c].view /\ call'[c].reply = r
  BY <1>1, <1>3 DEF Session
<1> QED
  BY <1>3, <1>4, ReplyTyping DEF Reply

\* What an answer of the engine can be: the walk's outcome, a refusal, or source.
Answers(c, r) ==
  \/ c \in flags /\ r = Failed("cancelled")
  \/ asks[c].tool = "walk" /\ outcome # "cancelled" /\ r = Failed(outcome)
  \/ asks[c].tool # "walk" /\ r.how = "found" /\ r.already \subseteq Shown(c)

\* A cancelled answer is the one of a call whose own flag is set.
LEMMA AnswerEffect ==
  ASSUME TypeOK, LeakInv, Refuse \/ AnswerWalk \/ AnswerSource
  PROVE  /\ context \in Calls
         /\ \E r \in [how : {"pending", "found", "none", "cancelled", "stopped"},
                       source : SUBSET Node, already : SUBSET Node] :
              Reply(context, r) /\ Answers(context, r)
         /\ at' = "idle" /\ outcome' # "cancelled"
<1> DEFINE Reply1 == [how : {"pending", "found", "none", "cancelled", "stopped"},
                      source : SUBSET Node, already : SUBSET Node]
<1>1. worker \in {"dispatch", "handler"}
  BY DEF Refuse, AnswerWalk, AnswerSource
<1>2. context \in Calls /\ asks[context] \in Ask /\ call[context] \in Session
  BY <1>1 DEF TypeOK, SessionTypeOK
<1>3. \A how \in {"pending", "found", "none", "cancelled", "stopped"} : Failed(how) \in Reply1
  BY DEF Failed
<1>4. outcome \in {"pending", "found", "none", "cancelled"}
  BY DEF TypeOK, WalkTypeOK
<1>5. CASE Refuse
  <2>1. /\ worker = "dispatch" /\ context \in flags /\ Reply(context, Failed("cancelled"))
        /\ at' = at /\ outcome' = outcome
    BY <1>5 DEF Refuse, walkVars
  <2>2. at = "idle" /\ outcome # "cancelled"
    BY <2>1 DEF LeakInv
  <2> QED BY <1>2, <1>3, <2>1, <2>2 DEF Answers
<1>6. CASE AnswerWalk
  <2>1. /\ worker = "handler" /\ asks[context].tool = "walk" /\ Reply(context, Failed(outcome))
        /\ at' = "idle" /\ outcome' = "pending"
    BY <1>6 DEF AnswerWalk
  <2>2. outcome = "cancelled" => context \in flags
    BY <2>1 DEF LeakInv
  <2> QED BY <1>2, <1>3, <1>4, <2>1, <2>2 DEF Answers
<1>7. CASE AnswerSource
  <2>1. worker = "handler" /\ asks[context].tool # "walk" /\ at' = at /\ outcome' = outcome
    BY <1>7 DEF AnswerSource, walkVars
  <2>2. at = "idle" /\ outcome # "cancelled" /\ token = context
    BY <2>1 DEF LeakInv
  <2>3. ASSUME NEW already \in SUBSET (asks[context].wants \cap Shown(context)),
               Reply(context, [how |-> "found", source |-> asks[context].wants \ already,
                               already |-> already])
        PROVE  \E r \in Reply1 : Reply(context, r) /\ Answers(context, r)
    <3> DEFINE r == [how |-> "found", source |-> asks[context].wants \ already, already |-> already]
    <3>1. asks[context].wants \subseteq Node
      BY <1>2, <2>1 DEF Ask
    <3>2. r \in Reply1 /\ Answers(context, r)
      BY <2>1, <3>1 DEF Answers
    <3> HIDE DEF r, Reply1
    <3>3. Reply(context, r)
      BY <2>3 DEF r
    <3> QED BY <3>2, <3>3
  <2>4. CASE token \in flags /\ Reply(context, Failed("cancelled"))
    BY <1>2, <1>3, <2>1, <2>2, <2>4 DEF Answers
  <2>5. \/ \E already \in SUBSET (asks[context].wants \cap Shown(context)) :
             Reply(context, [how |-> "found", source |-> asks[context].wants \ already,
                             already |-> already])
        \/ token \in flags /\ Reply(context, Failed("cancelled"))
    BY <1>7 DEF AnswerSource, Cancelled
  <2> HIDE DEF Reply1
  <2>6. \E r \in Reply1 : Reply(context, r) /\ Answers(context, r)
    BY <2>3, <2>4, <2>5 DEF Reply1
  <2> QED BY <1>2, <2>1, <2>2, <2>6 DEF Reply1
<1> QED
  BY <1>5, <1>6, <1>7

-----------------------------------------------------------------------------
(* A flag never leaks into another call                                      *)

\* A walk ends as cancelled only on the flag of the token.
LEMMA WalkOutcome ==
  ASSUME Walk
  PROVE  /\ at # "idle" /\ at' # "idle"
         /\ outcome' = "cancelled" => outcome = "cancelled" \/ token \in flags
<1>1. CASE BeginLayers \/ Begin
  BY <1>1 DEF BeginLayers, Begin, Return
<1>2. CASE FindGoal
  BY <1>2 DEF FindGoal, Return, localVars
<1>3. CASE Finish
  BY <1>3 DEF Finish, Return
<1>4. CASE Abandon
  BY <1>4 DEF Abandon, Return, Cancelled
<1>5. CASE Take
  BY <1>5 DEF Take
<1>6. CASE TakeLayer \/ ReadEdges \/ ReadIncoming \/ ReadNodes
  BY <1>6 DEF TakeLayer, ReadEdges, ReadIncoming, ReadNodes
<1>7. CASE Add
  <2>1. /\ at = "add"
        /\ (at' = at /\ outcome' = outcome) \/ (at' = "done" /\ outcome' = "found")
    BY <1>7 DEF Add, Return
  <2> QED BY <2>1
<1>8. CASE EndPass
  BY <1>8 DEF EndPass
<1> QED
  BY <1>1, <1>2, <1>3, <1>4, <1>5, <1>6, <1>7, <1>8 DEF Walk

\* The types make the flags those of calls that were cancelled.
LEMMA LeakStep ==
  ASSUME TypeOK, LeakInv, CommandInv, [SessionNext]_allVars
  PROVE  LeakInv'
<1>1. /\ flags \subseteq cancels /\ call \in [Calls -> Session]
      /\ worker \in {"dispatch", "handler"} => context \in Calls
      /\ \A c \in Calls : call[c] \in Session
  BY DEF TypeOK, SessionTypeOK
<1>2. CASE UNCHANGED allVars
  BY <1>2 DEF allVars, sessionVars, serviceVars, engineVars, vars, dbVars, walkVars, LeakInv, NoLeak, Calls
<1>3. ASSUME UNCHANGED <<token, at, outcome, worker, context, asks>>, flags \subseteq flags',
             NoLeak'
      PROVE  LeakInv'
  BY <1>3 DEF LeakInv
<1>4. ASSUME NEW c \in Calls, Service(c) PROVE LeakInv'
  <2>1. /\ UNCHANGED <<vars, asks, worker, context, cancels>>
        /\ \A d \in Calls \ {c} : call'[d] = call[d]
        /\ call'[c].reply \in {call[c].reply, Failed("stopped"), Failed("none")}
    BY <1>4, ServiceEffect DEF Spoils
  <2>2. NoLeak'
    BY <2>1 DEF LeakInv, NoLeak, Failed, Calls
  <2> QED BY <1>3, <2>1, <2>2 DEF vars, walkVars
<1>5. ASSUME NEW c \in Calls, CancelCall(c) PROVE LeakInv'
  BY <1>3, <1>5 DEF CancelCall, vars, walkVars, engineVars, LeakInv, NoLeak, Calls
<1>6. ASSUME NEW c \in Calls, Flag(c) PROVE LeakInv'
  BY <1>3, <1>6 DEF Flag, Cancel, walkVars, sessionVars, serviceVars, engineVars, LeakInv, NoLeak, Calls
<1>7. CASE RequestStop
  BY <1>3, <1>7 DEF RequestStop, vars, walkVars, LeakInv, NoLeak, Calls
<1>8. CASE OtherWriter
  BY <1>3, <1>8 DEF OtherWriter, Sync, walkVars, sessionVars, serviceVars, engineVars, LeakInv, NoLeak, Calls
<1>9. CASE TakeLookup
  <2>1. PICK c \in Calls :
          /\ UNCHANGED <<vars, asks, cancels, worker, context>>
          /\ \A d \in Calls \ {c} : call'[d] = call[d]
          /\ call'[c].reply = call[c].reply
    BY <1>9, LookupEffect
  <2>2. NoLeak'
    BY <2>1 DEF LeakInv, NoLeak, Calls
  <2> QED BY <1>3, <2>1, <2>2 DEF vars, walkVars
<1>10. CASE TakeCall
  BY <1>10 DEF TakeCall, NextIs, vars, walkVars, serviceVars, LeakInv, NoLeak, Calls
<1>11. CASE CatchUp
  BY <1>11 DEF CatchUp, walkVars, serviceVars, LeakInv, NoLeak, Calls
<1>12. CASE Refuse \/ AnswerWalk \/ AnswerSource
  <2>1. context \in Calls /\ at' = "idle" /\ outcome' # "cancelled"
    BY <1>12, AnswerEffect
  <2>2. PICK r \in [how : {"pending", "found", "none", "cancelled", "stopped"},
                     source : SUBSET Node, already : SUBSET Node] :
               Reply(context, r) /\ Answers(context, r)
    BY <1>12, AnswerEffect
  <2>3. /\ UNCHANGED <<flags, asks, cancels>> /\ worker' = "waiting"
        /\ \A d \in Calls \ {context} : call'[d] = call[d]
        /\ call'[context].reply = r
    BY <2>1, <2>2, ReplyEffect
  <2>4. r.how = "cancelled" => context \in flags
    BY <2>2 DEF Answers, Failed
  <2>5. NoLeak'
    BY <1>1, <2>1, <2>3, <2>4 DEF LeakInv, NoLeak, Calls
  <2> QED BY <2>1, <2>3, <2>5 DEF LeakInv
<1>13. CASE Dispatch
  <2>1. /\ worker = "dispatch" /\ worker' = "handler" /\ token' = context
        /\ UNCHANGED <<flags, serviceVars, context>>
        /\ \/ asks[context].tool = "walk" /\ outcome' = "pending"
           \/ at' = at /\ outcome' = outcome
    BY <1>13 DEF Dispatch, Open, walkVars
  <2> QED BY <2>1 DEF serviceVars, LeakInv, NoLeak, Calls
<1>14. CASE Walking
  <2>1. Walk /\ worker = "handler" /\ UNCHANGED sessionVars
    BY <1>14 DEF Walking
  <2>2. UNCHANGED <<token, flags>> /\ at # "idle"
        /\ (outcome' = "cancelled" => outcome = "cancelled" \/ token \in flags) /\ at' # "idle"
    BY <2>1, WalkKeeps, WalkOutcome
  <2> QED BY <2>1, <2>2 DEF sessionVars, serviceVars, engineVars, LeakInv, NoLeak, Calls
<1>15. CASE TakeStop
  <2>1. /\ NextIs("stop") /\ worker' = "stopped" /\ UNCHANGED <<vars, asks, cancels>>
        /\ \A c \in Calls : call'[c] = Failing(call[c])
    BY <1>15 DEF TakeStop, Dropped
  <2>2. \A c \in Calls : call'[c].reply = call[c].reply \/ call'[c].reply = Failed("stopped")
    BY <1>1, <2>1, FailingEffect DEF Session
  <2>3. NoLeak'
    BY <2>1, <2>2 DEF LeakInv, NoLeak, Failed, Calls
  <2> QED BY <2>1, <2>3 DEF NextIs, vars, walkVars, LeakInv
<1> QED
  BY <1>2, <1>4, <1>5, <1>6, <1>7, <1>8, <1>9, <1>10, <1>11, <1>12, <1>13, <1>14, <1>15
  DEF SessionNext, Worker

\* A session starts with nothing cancelled, nothing asked and nothing sent.
LEMMA SourceInit ==
  SessionInit => LeakInv /\ SourceInv
<1> SUFFICES ASSUME SessionInit PROVE LeakInv /\ SourceInv
  OBVIOUS
<1>1. /\ at = "idle" /\ outcome = "pending" /\ flags = {} /\ commands = <<>> /\ worker = "waiting"
      /\ context = None /\ ledger = <<>>
      /\ \A c \in Calls : call[c] = [stage |-> "new", view |-> {}, reply |-> NoReply]
  BY DEF SessionInit, Blank, Calls
<1>2. \A c \in Calls : /\ call[c].stage = "new" /\ call[c].view = {} /\ call[c].reply.how = "pending"
                       /\ call[c].reply.source = {} /\ call[c].reply.already = {}
  BY <1>1 DEF NoReply
<1>3. DOMAIN ledger = {} /\ DOMAIN commands = {}
  BY <1>1
<1> QED
  BY <1>1, <1>2, <1>3 DEF LeakInv, NoLeak, SourceInv, CommandInv, LedgerInv, GateInv, Explores,
     ExploresSeeEachOther

-----------------------------------------------------------------------------
(* A call has one command with the engine, the one it waits for              *)

\* Only a stop is for no call.
LEMMA CommandFor ==
  ASSUME TypeOK, NEW i \in DOMAIN commands
  PROVE  /\ commands[i].do # "stop" =>
              commands[i].for \in Calls /\ commands[i].do \in {"locate", "execute", "tools"}
         /\ commands[i].do = "stop" => commands[i].for = None
<1>1. commands[i] \in Command
  <2> HIDE DEF Command
  <2> QED BY DEF TypeOK, SessionTypeOK
<1> QED
  BY <1>1 DEF Command

\* Every step keeps CommandInv.
LEMMA CommandStep ==
  ASSUME TypeOK, LeakInv, CommandInv, [SessionNext]_allVars
  PROVE  CommandInv'
<1>1. /\ commands \in Seq(Command) /\ None \notin Calls
      /\ context \in Calls \cup {None}
      /\ (context = None) = (worker \in {"waiting", "stopped"})
  BY TraversalAssumption DEF TypeOK, SessionTypeOK
<1> HIDE DEF Command
<1>2. ASSUME UNCHANGED <<commands, call, context>> PROVE CommandInv'
  BY <1>2 DEF CommandInv
<1>3. ASSUME NEW c \in Calls, Service(c) PROVE CommandInv'
  <2>1. /\ context' = context /\ \A d \in Calls \ {c} : call'[d] = call[d]
        /\ Moves(c) /\ Asked(c)
    BY <1>3, ServiceEffect
  <2>2. call[c].stage \in {"new", "located", "replied", "sending"}
    BY <2>1 DEF Moves
  <2>3. /\ context # c
        /\ \A i \in DOMAIN commands : commands[i].for # c
    <3>1. ASSUME NEW i \in DOMAIN commands, commands[i].do # "stop" PROVE commands[i].for # c
      BY <2>2, <3>1, CommandFor DEF CommandInv, Waits
    <3>2. context # c
      BY <2>2, <1>1 DEF CommandInv
    <3> QED BY <1>1, <3>1, <3>2, CommandFor
  <2>4. \A i \in DOMAIN commands : commands[i].do # "stop" =>
           /\ call'[commands[i].for].stage = Waits(commands[i].do)
           /\ commands[i].for # context'
    BY <2>1, <2>3, CommandFor DEF CommandInv
  <2>5. context' # None => call'[context'].stage = "queued"
    BY <2>1, <2>3, <1>1 DEF CommandInv
  <2>6. CASE commands' = commands
    BY <2>4, <2>5, <2>6 DEF CommandInv
  <2>7. CASE commands' # commands
    <3>1. PICK do \in {"locate", "execute", "tools"} :
            call'[c].stage = Waits(do) /\ commands' = Append(commands, [do |-> do, for |-> c])
      BY <2>1, <2>7 DEF Asked
    <3> DEFINE last == [do |-> do, for |-> c]
    <3>2. last.do = do /\ last.for = c /\ commands' = Append(commands, last)
      BY <3>1
    <3> HIDE DEF last
    <3>3. \A i \in DOMAIN commands' : \/ i \in DOMAIN commands /\ commands'[i] = commands[i]
                                      \/ i = Len(commands) + 1 /\ commands'[i] = last
      BY <1>1, <3>2, AppendPlaces
    <3>4. ASSUME NEW i \in DOMAIN commands', commands'[i].do # "stop"
          PROVE  /\ call'[commands'[i].for].stage = Waits(commands'[i].do)
                 /\ commands'[i].for # context'
      BY <3>1, <3>2, <3>3, <3>4, <2>1, <2>3, <2>4
    <3>5. ASSUME NEW i \in DOMAIN commands', NEW j \in DOMAIN commands', i # j, commands'[i].do # "stop"
          PROVE  commands'[i].for # commands'[j].for
      BY <3>2, <3>3, <3>5, <2>3 DEF CommandInv
    <3> QED BY <3>4, <3>5, <2>5 DEF CommandInv
  <2> QED BY <2>6, <2>7
<1>4. CASE RequestStop
  <2> DEFINE last == [do |-> "stop", for |-> None]
  <2>1. /\ UNCHANGED <<call, context>> /\ last.do = "stop" /\ last.for = None
        /\ commands' = Append(commands, last)
    BY <1>4 DEF RequestStop
  <2> HIDE DEF last
  <2>2. \A i \in DOMAIN commands' : \/ i \in DOMAIN commands /\ commands'[i] = commands[i]
                                    \/ i = Len(commands) + 1 /\ commands'[i] = last
    BY <1>1, <2>1, AppendPlaces
  <2>3. ASSUME NEW i \in DOMAIN commands', NEW j \in DOMAIN commands', i # j, commands'[i].do # "stop"
        PROVE  commands'[i].for # commands'[j].for
    BY <1>1, <2>1, <2>2, <2>3, CommandFor DEF CommandInv
  <2>4. \A i \in DOMAIN commands' : commands'[i].do # "stop" =>
           /\ call'[commands'[i].for].stage = Waits(commands'[i].do)
           /\ commands'[i].for # context'
    BY <2>1, <2>2 DEF CommandInv
  <2> QED BY <2>1, <2>3, <2>4 DEF CommandInv
<1>5. ASSUME commands # <<>>, commands' = Tail(commands)
      PROVE  /\ 1 \in DOMAIN commands /\ Head(commands) = commands[1]
             /\ \A i \in DOMAIN commands' : /\ i + 1 \in DOMAIN commands /\ i + 1 # 1
                                            /\ commands'[i] = commands[i + 1]
             /\ \A i, j \in DOMAIN commands' : i # j => i + 1 # j + 1
  BY <1>1, <1>5, TailPlaces
<1>6. CASE TakeLookup
  <2>1. PICK c \in Calls :
          /\ context' = context /\ commands # <<>> /\ commands' = Tail(commands)
          /\ c = Head(commands).for /\ \A d \in Calls \ {c} : call'[d] = call[d]
    BY <1>6, LookupEffect
  <2>2. context = None
    BY <1>1, <1>6 DEF TakeLookup, NextIs
  <2>3. commands[1].do # "stop" /\ commands[1].for = c
    BY <1>5, <1>6, <2>1 DEF TakeLookup, NextIs
  <2>4. ASSUME NEW i \in DOMAIN commands', commands'[i].do # "stop"
        PROVE  /\ call'[commands'[i].for].stage = Waits(commands'[i].do)
               /\ commands'[i].for # context'
    BY <1>5, <2>1, <2>3, <2>4, CommandFor DEF CommandInv
  <2>5. ASSUME NEW i \in DOMAIN commands', NEW j \in DOMAIN commands', i # j, commands'[i].do # "stop"
        PROVE  commands'[i].for # commands'[j].for
    BY <1>5, <2>1, <2>5 DEF CommandInv
  <2> QED BY <2>1, <2>2, <2>4, <2>5 DEF CommandInv
<1>7. CASE TakeCall
  <2>1. /\ NextIs("execute") /\ context' = Head(commands).for /\ commands' = Tail(commands)
        /\ call' = call /\ commands # <<>>
    BY <1>7 DEF TakeCall, NextIs, serviceVars
  <2>2. commands[1].do = "execute" /\ commands[1].for = context'
    BY <1>5, <2>1 DEF NextIs
  <2>3. call'[context'].stage = "queued"
    BY <1>5, <2>1, <2>2 DEF CommandInv, Waits
  <2>4. ASSUME NEW i \in DOMAIN commands', commands'[i].do # "stop"
        PROVE  /\ call'[commands'[i].for].stage = Waits(commands'[i].do)
               /\ commands'[i].for # context'
    BY <1>5, <2>1, <2>2, <2>4 DEF CommandInv
  <2>5. ASSUME NEW i \in DOMAIN commands', NEW j \in DOMAIN commands', i # j, commands'[i].do # "stop"
        PROVE  commands'[i].for # commands'[j].for
    BY <1>5, <2>1, <2>5 DEF CommandInv
  <2> QED BY <2>3, <2>4, <2>5 DEF CommandInv
<1>8. CASE Refuse \/ AnswerWalk \/ AnswerSource
  <2>1. PICK r \in [how : {"pending", "found", "none", "cancelled", "stopped"},
                     source : SUBSET Node, already : SUBSET Node] : Reply(context, r)
    BY <1>8, AnswerEffect
  <2>2. /\ context \in Calls /\ context' = None /\ commands' = commands
        /\ \A d \in Calls \ {context} : call'[d] = call[d]
    BY <1>8, <2>1, AnswerEffect, ReplyEffect
  <2>3. \A i \in DOMAIN commands : commands[i].do # "stop" =>
           /\ call'[commands[i].for].stage = Waits(commands[i].do)
           /\ commands[i].for # context'
    BY <1>1, <2>2, CommandFor DEF CommandInv
  <2> QED BY <2>2, <2>3 DEF CommandInv
<1>9. CASE TakeStop
  BY <1>1, <1>9 DEF TakeStop, NextIs, CommandInv
<1>10. CASE Dispatch
  BY <1>2, <1>10 DEF Dispatch, serviceVars
<1>11. CASE CatchUp \/ Walking \/ OtherWriter \/ UNCHANGED allVars \/ \E c \in Calls : Flag(c) \/ CancelCall(c)
  BY <1>2, <1>11 DEF CatchUp, Walking, OtherWriter, Flag, CancelCall, allVars, sessionVars, serviceVars,
     engineVars
<1> QED
  BY <1>3, <1>4, <1>6, <1>7, <1>8, <1>9, <1>10, <1>11 DEF SessionNext, Worker

-----------------------------------------------------------------------------
(* The ledger holds what was delivered                                       *)

\* What is in hand stays so, with what it says.
LEMMA HeldGrows ==
  ASSUME Calls' = Calls,
         \A d \in Held : d \in Held' /\ call'[d].reply = call[d].reply
  PROVE  Held \subseteq Held' /\ InHand \subseteq InHand'
BY DEF InHand

\* Every step keeps LedgerInv.
LEMMA LedgerStep ==
  ASSUME TypeOK, LeakInv, CommandInv, LedgerInv, [SessionNext]_allVars
  PROVE  LedgerInv'
<1>1. ASSUME UNCHANGED <<ledger, call, asks, flags>> PROVE LedgerInv'
  BY <1>1 DEF LedgerInv, InHand, Held, Delivered, Calls
<1>2. ASSUME ledger' = ledger, Calls' = Calls,
             \A d \in Held : d \in Held' /\ call'[d].reply = call[d].reply,
             \A c \in Calls : call'[c].view \subseteq Held /\ call'[c].reply.already \subseteq InHand
      PROVE  LedgerInv'
  BY <1>2, HeldGrows DEF LedgerInv
<1>3. ASSUME NEW c \in Calls, Service(c) PROVE LedgerInv'
  <2>1. /\ UNCHANGED <<vars, asks>> /\ \A d \in Calls \ {c} : call'[d] = call[d]
        /\ Moves(c) /\ Spoils(c)
    BY <1>3, ServiceEffect
  <2>2. flags' = flags /\ Calls' = Calls /\ ledger \in Seq(Calls)
    BY <2>1 DEF vars, Calls, TypeOK, SessionTypeOK
  <2>3. Recent(ledger) \subseteq Held
    BY <2>2, RecentPart DEF LedgerInv
  <2>4. \A d \in Calls : call'[d].view \subseteq Held /\ call'[d].reply.already \subseteq InHand
    <3>1. call'[c].view \subseteq Held
      BY <2>1, <2>3 DEF Moves, LedgerInv
    <3>2. call'[c].reply.already \subseteq InHand
      BY <2>1 DEF Spoils, Failed, LedgerInv
    <3> QED BY <2>1, <3>1, <3>2 DEF LedgerInv
  <2>5. \A d \in Held : d \in Held' /\ call'[d].reply = call[d].reply
    <3>1. ASSUME NEW d \in Held, d # c
          PROVE  d \in Held' /\ call'[d].reply = call[d].reply
      BY <2>1, <2>2, <3>1 DEF Held, Delivered
    <3>2. ASSUME c \in Held
          PROVE  c \in Held' /\ call'[c].reply = call[c].reply
      BY <2>1, <2>2, <3>2 DEF Held, Delivered, Moves, Spoils
    <3> QED BY <3>1, <3>2
  <2>6. CASE ledger' = ledger
    BY <1>2, <2>2, <2>4, <2>5, <2>6
  <2>7. CASE ledger' # ledger
    <3>1. /\ call[c].stage = "replied" /\ call'[c].stage \in {"refreshing", "sending"}
          /\ Recorded(c) /\ ledger' = Append(ledger, c)
      BY <2>1, <2>7 DEF Moves
    <3>2. c \in Held'
      BY <2>2, <3>1 DEF Held, Delivered, Recorded
    <3>3. Held \subseteq Held' /\ InHand \subseteq InHand'
      BY <2>2, <2>5, HeldGrows
    <3>4. \A i \in DOMAIN ledger' : ledger'[i] \in Held'
      BY <2>2, <3>1, <3>2, <3>3, AppendPlaces DEF LedgerInv
    <3> QED BY <2>2, <2>4, <3>3, <3>4 DEF LedgerInv
  <2> QED BY <2>6, <2>7
<1>4. CASE TakeLookup
  <2>1. PICK c \in Calls :
          /\ UNCHANGED <<vars, asks, ledger>>
          /\ \A d \in Calls \ {c} : call'[d] = call[d]
          /\ call'[c].reply = call[c].reply /\ call'[c].view = call[c].view
          /\ \/ call[c].stage = "locating" /\ call'[c].stage = "located"
             \/ call[c].stage = "refreshing" /\ call'[c].stage = "sending"
    BY <1>4, LookupEffect
  <2>2. Calls' = Calls /\ flags' = flags
    BY <2>1 DEF vars, Calls
  <2>3. \A d \in Held : d \in Held' /\ call'[d].reply = call[d].reply
    BY <2>1, <2>2 DEF Held, Delivered
  <2>4. \A d \in Calls : call'[d].view \subseteq Held /\ call'[d].reply.already \subseteq InHand
    BY <2>1 DEF LedgerInv
  <2> QED BY <1>2, <2>1, <2>2, <2>3, <2>4
<1>5. CASE Refuse \/ AnswerWalk \/ AnswerSource
  <2>1. PICK r \in [how : {"pending", "found", "none", "cancelled", "stopped"},
                     source : SUBSET Node, already : SUBSET Node] :
                Reply(context, r) /\ Answers(context, r)
    BY <1>5, AnswerEffect
  <2>2. /\ context \in Calls /\ UNCHANGED <<flags, asks, ledger>>
        /\ \A d \in Calls \ {context} : call'[d] = call[d]
        /\ call'[context].view = call[context].view
        /\ call'[context].reply = r
    BY <1>5, <2>1, AnswerEffect, ReplyEffect
  <2>3. call[context].stage = "queued"
    BY <2>2, TraversalAssumption DEF CommandInv, TypeOK, SessionTypeOK
  <2>4. Calls' = Calls
    BY <2>2 DEF Calls
  <2>5. \A d \in Held : d \in Held' /\ call'[d].reply = call[d].reply
    BY <2>2, <2>3, <2>4 DEF Held, Delivered
  <2>6. Shown(context) \subseteq InHand
    BY <2>2 DEF LedgerInv, Shown, InHand
  <2>7. r.already \subseteq InHand
    BY <2>1, <2>6 DEF Answers, Failed
  <2>8. \A d \in Calls : call'[d].view \subseteq Held /\ call'[d].reply.already \subseteq InHand
    BY <2>2, <2>7 DEF LedgerInv
  <2> QED BY <1>2, <2>2, <2>4, <2>5, <2>8
<1>6. CASE TakeStop
  <2>1. /\ UNCHANGED <<vars, asks, ledger>> /\ \A c \in Calls : call'[c] = Failing(call[c])
    BY <1>6 DEF TakeStop, Dropped
  <2>2. \A c \in Calls : call[c] \in Session
    BY DEF TypeOK, SessionTypeOK
  <2>3. Calls' = Calls /\ flags' = flags
    BY <2>1 DEF vars, Calls
  <2>4. \A d \in Held : d \in Held' /\ call'[d].reply = call[d].reply
    BY <2>1, <2>2, <2>3, FailingEffect DEF Held, Delivered
  <2>5. \A d \in Calls : call'[d].view \subseteq Held /\ call'[d].reply.already \subseteq InHand
    BY <2>1, <2>2, FailingEffect DEF LedgerInv, Failed
  <2> QED BY <1>2, <2>1, <2>3, <2>4, <2>5
<1>7. ASSUME NEW c \in Calls, Flag(c) PROVE LedgerInv'
  <2>1. UNCHANGED <<asks, call, ledger>> /\ flags' = flags \cup {c} /\ ~Delivered(c)
    BY <1>7 DEF Flag, Cancel, sessionVars, serviceVars, Delivered
  <2>2. Calls' = Calls /\ \A d \in Held : d \in Held' /\ call'[d].reply = call[d].reply
    BY <2>1 DEF Calls, Held, Delivered
  <2> QED BY <1>2, <2>1, <2>2 DEF LedgerInv
<1>8. CASE Walking
  BY <1>1, <1>8, WalkKeeps DEF Walking, sessionVars, serviceVars
<1>9. CASE TakeCall \/ CatchUp \/ Dispatch \/ RequestStop \/ OtherWriter \/ UNCHANGED allVars
           \/ \E c \in Calls : CancelCall(c)
  BY <1>1, <1>9 DEF TakeCall, CatchUp, Dispatch, RequestStop, OtherWriter, Sync, CancelCall, allVars,
     vars, sessionVars, serviceVars
<1> QED
  BY <1>3, <1>4, <1>5, <1>6, <1>7, <1>8, <1>9 DEF SessionNext, Worker

-----------------------------------------------------------------------------
(* One explore at a time                                                     *)

\* Between its admission and its end an explore sees those before it.
LEMMA GateStep ==
  ASSUME TypeOK, LeakInv, CommandInv, LedgerInv, GateInv, [SessionNext]_allVars
  PROVE  GateInv'
<1>1. /\ call \in [Calls -> Session] /\ Explores \subseteq Calls
      /\ None \notin Calls /\ ledger \in Seq(Calls)
      /\ \A c \in Calls : call[c] \in Session
  BY TraversalAssumption DEF TypeOK, SessionTypeOK, Explores
<1>2. ASSUME UNCHANGED <<ledger, asks, gate>>,
             \A d \in Calls :
               /\ call'[d].view = call[d].view
               /\ call'[d].stage \in {"queued", "replied"} => call[d].stage \in {"queued", "replied"}
               /\ call'[d].stage \notin {"new", "sent"} => call[d].stage \notin {"new", "sent"}
      PROVE  GateInv'
  <2>1. Explores' = Explores /\ \A i \in DOMAIN ledger : ledger[i] \in Calls
    BY <1>1, <1>2 DEF Explores, Calls
  <2>2. \A c \in Explores : Sees(c) => Sees(c)'
    BY <1>1, <1>2, <2>1 DEF Sees, IsExplore
  <2>3. ExploresSeeEachOther'
    BY <1>1, <1>2, <2>1 DEF GateInv, ExploresSeeEachOther, IsExplore
  <2> QED BY <1>1, <1>2, <2>1, <2>2, <2>3 DEF GateInv
<1>3. ASSUME NEW c \in Calls, Service(c) PROVE GateInv'
  <2>1. /\ UNCHANGED <<vars, asks>> /\ \A d \in Calls \ {c} : call'[d] = call[d]
        /\ Moves(c)
    BY <1>3, ServiceEffect
  <2>2. Calls' = Calls /\ Explores' = Explores
    BY <2>1 DEF Calls, Explores
  <2>3. \/ ledger' = ledger
        \/ ledger' = Append(ledger, c) /\ call[c].stage = "replied" /\ call'[c].view = call[c].view
    BY <2>1 DEF Moves
  <2>4. \A i \in DOMAIN ledger : i \in DOMAIN ledger' /\ ledger'[i] = ledger[i] /\ Len(ledger) <= Len(ledger')
    BY <1>1, <2>3
  <2>5. /\ Len(ledger) \in Nat /\ DOMAIN ledger = 1 .. Len(ledger)
        /\ \A i \in DOMAIN ledger' : i \in DOMAIN ledger
              \/ /\ i = Len(ledger) + 1 /\ ledger'[i] = c /\ Len(ledger') = Len(ledger) + 1
                 /\ call[c].stage = "replied" /\ call'[c].view = call[c].view
    BY <1>1, <2>3
  <2>6. ASSUME NEW d \in Explores, call'[d].stage \notin {"new", "sent"} PROVE gate' = d
    <3>1. CASE d = c
      BY <2>1, <2>6, <3>1 DEF Moves, GateInv, Explores
    <3>2. CASE d # c
      <4>1. gate = d
        BY <2>1, <2>6, <3>2, <1>1 DEF GateInv
      <4> QED BY <2>1, <3>2, <4>1, <1>1 DEF Moves
    <3> QED BY <3>1, <3>2
  <2>7. ASSUME NEW d \in Explores, call'[d].stage \in {"queued", "replied"} PROVE Sees(d)'
    <3>1. CASE d = c
      <4>1. ledger' = ledger /\ call'[c].view = Recent(ledger)
        BY <2>1, <2>7, <3>1 DEF Moves, Explores
      <4>2. \A i \in DOMAIN ledger : Len(ledger) < i + MaxViewCalls => ledger[i] \in Recent(ledger)
        BY DEF Recent
      <4> QED BY <3>1, <4>1, <4>2 DEF Sees
    <3>2. CASE d # c
      <4>1. Sees(d) /\ call'[d] = call[d] /\ gate = d
        BY <1>1, <2>1, <2>7, <3>2 DEF GateInv
      <4>2. ASSUME NEW i \in DOMAIN ledger', Len(ledger') < i + MaxViewCalls, IsExplore(ledger'[i])
            PROVE  ledger'[i] \in call'[d].view
        <5>1. CASE i \in DOMAIN ledger
          <6>1. ledger'[i] = ledger[i] /\ Len(ledger) <= Len(ledger')
            BY <2>4, <5>1
          <6>2. Len(ledger') \in Nat /\ i \in Nat
            BY <2>5, <1>1, <2>3, <5>1
          <6>3. Len(ledger) < i + MaxViewCalls
            BY <2>5, <4>2, <6>1, <6>2, ViewAssumption
          <6>4. IsExplore(ledger[i])
            BY <4>2, <6>1
          <6> QED BY <4>1, <5>1, <6>1, <6>3, <6>4 DEF Sees
        <5>2. CASE i \notin DOMAIN ledger
          <6>1. ledger'[i] = c /\ call[c].stage = "replied"
            BY <2>5, <5>2
          <6>2. c \in Explores
            BY <4>2, <6>1 DEF Explores, IsExplore
          <6>3. gate = c
            BY <6>1, <6>2 DEF GateInv
          <6> QED BY <3>2, <4>1, <6>3
        <5> QED BY <5>1, <5>2
      <4>3. asks' = asks
        BY <2>1
      <4> QED BY <4>2, <4>3 DEF Sees, IsExplore
    <3> QED BY <3>1, <3>2
  <2>8. ASSUME NEW i \in DOMAIN ledger', NEW j \in DOMAIN ledger', i < j, j <= i + MaxViewCalls,
               IsExplore(ledger'[i]), IsExplore(ledger'[j])
        PROVE  ledger'[i] \in call'[ledger'[j]].view
    <3>1. CASE j \in DOMAIN ledger
      <4>1. i \in DOMAIN ledger
        BY <1>1, <2>5, <2>8, <3>1
      <4>2. IsExplore(ledger[i]) /\ IsExplore(ledger[j]) /\ ledger[j] \in Held
        <5>1. ledger'[i] = ledger[i] /\ ledger'[j] = ledger[j]
          BY <2>4, <3>1, <4>1
        <5> QED BY <2>8, <3>1, <5>1 DEF LedgerInv
      <4>3. ledger[i] \in call[ledger[j]].view
        BY <2>8, <3>1, <4>1, <4>2 DEF GateInv, ExploresSeeEachOther
      <4>4. call'[ledger[j]].view = call[ledger[j]].view
        BY <2>1, <4>2 DEF Moves, Held, Delivered
      <4> QED BY <2>4, <3>1, <4>1, <4>3, <4>4
    <3>2. CASE j \notin DOMAIN ledger
      <4>1. /\ j = Len(ledger) + 1 /\ ledger'[j] = c /\ call[c].stage = "replied"
            /\ call'[c].view = call[c].view
        BY <2>5, <3>2
      <4>2. i \in DOMAIN ledger /\ Len(ledger) < i + MaxViewCalls
        BY <2>5, <2>8, <4>1, ViewAssumption
      <4>3. IsExplore(ledger[i]) /\ c \in Explores
        <5>1. ledger'[i] = ledger[i] /\ IsExplore(c)
          BY <2>4, <2>8, <4>1, <4>2
        <5> QED BY <2>8, <5>1 DEF IsExplore, Explores
      <4>4. Sees(c)
        BY <4>1, <4>3 DEF GateInv
      <4>5. ledger[i] \in call[c].view
        BY <4>2, <4>3, <4>4 DEF Sees
      <4> QED BY <2>4, <4>1, <4>2, <4>5
    <3> QED BY <3>1, <3>2
  <2>9. ExploresSeeEachOther'
    BY <2>1, <2>8 DEF ExploresSeeEachOther, IsExplore
  <2> QED BY <2>2, <2>6, <2>7, <2>9 DEF GateInv
<1>4. CASE TakeLookup
  <2>1. PICK c \in Calls :
          /\ UNCHANGED <<vars, asks, gate, ledger>>
          /\ \A d \in Calls \ {c} : call'[d] = call[d]
          /\ call'[c].reply = call[c].reply /\ call'[c].view = call[c].view
          /\ \/ call[c].stage = "locating" /\ call'[c].stage = "located"
             \/ call[c].stage = "refreshing" /\ call'[c].stage = "sending"
    BY <1>4, LookupEffect
  <2> QED BY <1>2, <2>1
<1>5. CASE Refuse \/ AnswerWalk \/ AnswerSource
  <2>1. PICK r \in [how : {"pending", "found", "none", "cancelled", "stopped"},
                     source : SUBSET Node, already : SUBSET Node] : Reply(context, r)
    BY <1>5, AnswerEffect
  <2>2. /\ context \in Calls /\ UNCHANGED <<flags, asks, gate, ledger>>
        /\ \A d \in Calls \ {context} : call'[d] = call[d]
        /\ call'[context].stage = "replied" /\ call'[context].view = call[context].view
    BY <1>5, <2>1, AnswerEffect, ReplyEffect
  <2>3. call[context].stage = "queued"
    BY <2>2, TraversalAssumption DEF CommandInv, TypeOK, SessionTypeOK
  <2> QED BY <1>2, <2>2, <2>3
<1>6. CASE TakeStop
  <2>1. /\ UNCHANGED <<vars, asks, gate, ledger>> /\ \A c \in Calls : call'[c] = Failing(call[c])
    BY <1>6 DEF TakeStop, Dropped
  <2>2. ASSUME NEW c \in Calls
        PROVE  /\ call'[c].view = call[c].view
               /\ call'[c].stage \in {"queued", "replied"} => call[c].stage \in {"queued", "replied"}
               /\ call'[c].stage \notin {"new", "sent"} => call[c].stage \notin {"new", "sent"}
    <3>1. call[c] \in Session /\ call'[c] = Failing(call[c])
      BY <1>1, <2>1
    <3> QED BY <3>1, FailingEffect
  <2> QED BY <1>2, <2>1, <2>2
<1>7. ASSUME NEW c \in Calls, Flag(c) PROVE GateInv'
  BY <1>2, <1>7 DEF Flag, Cancel, sessionVars, serviceVars
<1>8. CASE Walking
  BY <1>2, <1>8, WalkKeeps DEF Walking, sessionVars, serviceVars
<1>9. CASE TakeCall \/ CatchUp \/ Dispatch \/ RequestStop \/ OtherWriter \/ UNCHANGED allVars
           \/ \E c \in Calls : CancelCall(c)
  BY <1>2, <1>9 DEF TakeCall, CatchUp, Dispatch, RequestStop, OtherWriter, Sync, CancelCall, allVars,
     vars, sessionVars, serviceVars
<1> QED
  BY <1>3, <1>4, <1>5, <1>6, <1>7, <1>8, <1>9 DEF SessionNext, Worker

-----------------------------------------------------------------------------
(* The properties                                                            *)

\* All the invariants together, each step's proof using the ones before it.
LEMMA SessionInvariant == SessionSpec => [](TypeOK /\ LeakInv /\ SourceInv)
<1>1. SessionInit => TypeOK /\ LeakInv /\ SourceInv
  BY TypeInit, SourceInit
<1>2. TypeOK /\ LeakInv /\ SourceInv /\ [SessionNext]_allVars => (TypeOK /\ LeakInv /\ SourceInv)'
  BY TypeStep, LeakStep, CommandStep, LedgerStep, GateStep DEF SourceInv
<1> QED BY <1>1, <1>2, PTL DEF SessionSpec

\* A call ends as cancelled only if its own client cancelled it: the flag of one
\* call never reaches another through the thread's token or the CallContext.
THEOREM FlagsStayHome == SessionSpec => []NoLeak
<1>1. LeakInv => NoLeak
  BY DEF LeakInv
<1> QED BY <1>1, SessionInvariant, PTL

\* What a reply leaves out as already sent was delivered by a call that was not
\* cancelled when it was recorded.
THEOREM LedgerIsHonest == SessionSpec => []AlreadySentWasSent
<1>1. SourceInv => AlreadySentWasSent
  BY DEF SourceInv, LedgerInv, AlreadySentWasSent, InHand, Held, Delivered
<1> QED BY <1>1, SessionInvariant, PTL

\* An explore is shown the explore before it, if that is among the last calls
\* recorded: execution.rs, "Explores are serialized per connection".
THEOREM ExploresAreSerialized == SessionSpec => []ExploresSeeEachOther
<1>1. SourceInv => ExploresSeeEachOther
  BY DEF SourceInv, GateInv
<1> QED BY <1>1, SessionInvariant, PTL
=============================================================================
