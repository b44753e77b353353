------------------------------ MODULE Traversal ------------------------------
(* One walk over the stored graph (graph/traversal.rs): breadth-first,       *)
(* callers and callees layer by layer, impact radius, shortest path.  Every  *)
(* statement reads the database on its own, so another writer may commit     *)
(* between a walk's statements; the cancel flag is polled once per round.    *)
EXTENDS Integers, Sequences, FiniteSets

CONSTANTS
  Node,        \* node ids
  Container,   \* those of a class, struct, trait, module, ...
  Call,        \* tool calls, each with a cancel flag
  None         \* no cancel flag installed

ASSUME TraversalAssumption ==
  /\ IsFiniteSet(Node) /\ Node # {}
  /\ Container \subseteq Node
  /\ None \notin Call

\* "calls" stands for calls, references and imports alike.
Kind == {"contains", "calls", "extends"}
Edge == [src : Node, dst : Node, kind : Kind]

\* Foreign keys: the ends of an edge are rows of the same commit.
Graph == {g \in [nodes : SUBSET Node, edges : SUBSET Edge] :
            \A e \in g.edges : e.src \in g.nodes /\ e.dst \in g.nodes}

\* The fields an operation does not take are left at any value.  No depth limit
\* is a depth no walk reaches, no kind filter is every kind.
Query ==
  [op : {"bfs", "callers", "callees", "impact", "path"}, start : Node, goal : Node, depth : Nat,
   direction : {"outgoing", "incoming", "both"}, kinds : SUBSET Kind, limit : Nat,
   keepStart : BOOLEAN]

VARIABLES
  db,        \* the committed graph
  cache,     \* nodes this connection has read and keeps, evicting the oldest
  commits,   \* what other writers will commit, in order
  ever,      \* history: edges stored at some moment of this walk
  always,    \* history: edges stored at every moment of this walk
  query,     \* what the walk was asked
  at,        \* its next step
  pass,      \* of impact: a container's members, or the edges around a node
  queue,     \* entries to expand: a node, the edge it was found by, its depth
  front,     \* nodes being expanded: one, or a layer
  depth,     \* their depth
  best,      \* depth of each node marked so far
  nodes,     \* nodes of the answer (path: the node cache)
  links,     \* edges of the answer (path: the edge each node was found by)
  todo,      \* adjacent edges not yet looked at
  found,     \* the neighbours the nodes statement returned
  outcome,   \* how the walk ended
  token,     \* the thread's cancel token: the flag of a call
  flags      \* calls whose cancel flag is set

dbVars == <<db, commits, ever, always>>
localVars == <<pass, queue, front, depth, best, todo, found>>
walkVars == <<query, at, localVars, nodes, links, outcome>>
vars == <<dbVars, cache, walkVars, token, flags>>

Layered == query.op \in {"callers", "callees"}

Kinds == IF Layered THEN {"calls"}
         ELSE IF query.op = "impact" THEN Kind \ {"contains"}
         ELSE query.kinds

Direction == IF query.op \in {"callers", "impact"} THEN "incoming"
             ELSE IF query.op \in {"callees", "path"} THEN "outgoing"
             ELSE query.direction

BugSharedFlag == flags # {}
Cancelled == token \in flags

-----------------------------------------------------------------------------
(* Starting and ending a walk                                                *)

Marked == DOMAIN best
Unmarked == [n \in {} |-> 0]
Mark(n, d) == [m \in Marked \cup {n} |-> IF m = n THEN d ELSE best[m]]

Open(q) ==
  /\ query' = q
  /\ at' = "start" /\ outcome' = "pending"
  /\ nodes' = {} /\ links' = {}
  /\ ever' = db.edges /\ always' = db.edges

Return(how, N, L) ==
  /\ at' = "done" /\ outcome' = how
  /\ nodes' = N /\ links' = L
  /\ pass' = "around" /\ queue' = <<>> /\ front' = {} /\ depth' = 0
  /\ best' = Unmarked /\ todo' = {} /\ found' = {}

\* A node is looked up in the cache first: one that another connection has
\* deleted is found until it is evicted.
Rows(wanted) == {wanted \cap (db.nodes \cup kept) : kept \in SUBSET (cache \cap wanted)}
Keep(wanted, got) == cache' = (cache \ wanted) \cup got

\* callers and callees do not look their start up.
BeginLayers ==
  /\ at = "start" /\ Layered
  /\ at' = "loop"
  /\ front' = {query.start} /\ best' = [n \in {query.start} |-> 0]
  /\ UNCHANGED <<dbVars, cache, query, pass, queue, depth, nodes, links, todo, found, outcome,
                 token, flags>>

Begin ==
  /\ at = "start" /\ ~Layered
  /\ \E got \in Rows({query.start}) :
       /\ Keep({query.start}, got)
       /\ IF got = {} /\ query.op # "path"
            THEN Return("none", {}, {})
            ELSE /\ at' = IF query.op = "path" THEN "goal" ELSE "loop"
                 /\ queue' = <<[node |-> query.start, link |-> {}, depth |-> 0]>>
                 /\ best' = IF query.op = "bfs" THEN Unmarked ELSE [n \in {query.start} |-> 0]
                 /\ nodes' = IF query.op = "bfs" /\ ~query.keepStart THEN {} ELSE got
                 /\ UNCHANGED <<pass, front, depth, links, todo, found, outcome>>
  /\ UNCHANGED <<dbVars, query, token, flags>>

FindGoal ==
  /\ at = "goal"
  /\ \E got \in Rows({query.goal}) :
       /\ Keep({query.goal}, got)
       /\ IF nodes = {} \/ got = {} THEN Return("none", nodes, links)
          ELSE IF query.goal = query.start THEN Return("found", nodes, links)
          ELSE at' = "loop" /\ UNCHANGED <<localVars, nodes, links, outcome>>
  /\ UNCHANGED <<dbVars, query, token, flags>>

More ==
  IF Layered THEN depth < query.depth /\ front # {}
  ELSE queue # <<>> /\ (query.op = "bfs" => Cardinality(nodes) < query.limit)

Finish ==
  /\ at = "loop" /\ ~More
  /\ Return(IF query.op = "path" THEN "none" ELSE "found", nodes, links)
  /\ UNCHANGED <<dbVars, cache, query, token, flags>>

\* cancel::check: the walk fails, what it collected is dropped.
Abandon ==
  /\ at = "loop" /\ More /\ Cancelled
  /\ Return("cancelled", {}, {})
  /\ UNCHANGED <<dbVars, cache, query, token, flags>>

-----------------------------------------------------------------------------
(* One round: take a node or a layer, read its edges, then the neighbours.   *)

\* bfs marks a node when it takes it; impact leaves an entry that a shorter
\* route has overtaken; path marked the node when it queued it.
Stale(entry) ==
  CASE query.op = "bfs" -> entry.node \in Marked
    [] query.op = "impact" -> best[entry.node] < entry.depth
    [] OTHER -> FALSE

BugTooDeep(entry) == query.op # "path" /\ entry.depth > query.depth
TooDeep(entry) == query.op # "path" /\ entry.depth >= query.depth

BugPeek(entry) == IF Stale(entry) THEN queue ELSE Tail(queue)
Rest(entry) == Tail(queue)

Take ==
  /\ at = "loop" /\ ~Layered /\ More /\ ~Cancelled
  /\ LET entry == Head(queue) IN
       /\ queue' = Rest(entry)
       /\ IF query.op = "bfs" /\ ~Stale(entry)
            THEN best' = Mark(entry.node, entry.depth) /\ links' = links \cup entry.link
            ELSE UNCHANGED <<best, links>>
       /\ IF Stale(entry) \/ TooDeep(entry)
            THEN UNCHANGED <<at, pass, front, depth>>
            ELSE /\ at' = "edges"
                 /\ front' = {entry.node} /\ depth' = entry.depth
                 /\ pass' = IF query.op = "impact" /\ entry.node \in Container
                              THEN "members" ELSE "around"
  /\ UNCHANGED <<dbVars, cache, query, nodes, todo, found, outcome, token, flags>>

TakeLayer ==
  /\ at = "loop" /\ Layered /\ More /\ ~Cancelled
  /\ at' = "edges"
  /\ UNCHANGED <<dbVars, cache, query, localVars, nodes, links, outcome, token, flags>>

Outgoing(S, K) == {e \in db.edges : e.src \in S /\ e.kind \in K}
Incoming(S, K) == {e \in db.edges : e.dst \in S /\ e.kind \in K}

ReadEdges ==
  /\ at = "edges"
  /\ todo' = IF pass = "members" THEN Outgoing(front, {"contains"})
             ELSE IF Direction = "incoming" THEN Incoming(front, Kinds)
             ELSE Outgoing(front, Kinds)
  /\ at' = IF Direction = "both" THEN "both" ELSE "nodes"
  /\ UNCHANGED <<dbVars, cache, query, pass, queue, front, depth, best, nodes, links, found,
                 outcome, token, flags>>

\* Both directions are two statements.
ReadIncoming ==
  /\ at = "both"
  /\ todo' = todo \cup Incoming(front, Kinds)
  /\ at' = "nodes"
  /\ UNCHANGED <<dbVars, cache, query, pass, queue, front, depth, best, nodes, links, found,
                 outcome, token, flags>>

Beyond(e) ==
  IF pass = "members" \/ Direction = "outgoing" \/ (Direction = "both" /\ e.src \in front)
    THEN e.dst ELSE e.src

\* impact asks for all of them, the others for those they have not marked.
Wanted == {Beyond(e) : e \in todo} \ (IF query.op = "impact" THEN {} ELSE Marked)

ReadNodes ==
  /\ at = "nodes"
  /\ found' \in Rows(Wanted) /\ Keep(Wanted, found')
  /\ at' = "add"
  /\ UNCHANGED <<dbVars, query, pass, queue, front, depth, best, nodes, links, todo, outcome,
                 token, flags>>

-----------------------------------------------------------------------------
(* Looking at one adjacent edge; the rows come in any order.                 *)

\* bfs sorts its edges: contains, then calls, then the rest.
Rank(e) == CASE e.kind = "contains" -> 0 [] e.kind = "calls" -> 1 [] OTHER -> 2
InTurn(e) == query.op = "bfs" => \A f \in todo : Rank(e) <= Rank(f)

NewDepth == IF pass = "members" THEN depth ELSE depth + 1

\* reach: of impact, a shorter route counts again.
BugFirstOnly(n) == n \notin Marked
Shorter(n) == n \notin Marked \/ NewDepth < best[n]

Fresh(n) == n \in found /\ (IF query.op = "impact" THEN Shorter(n) ELSE n \notin Marked)

\* The edges of the path found: from the goal back, link by link.
Reconstruct(L) ==
  LET Into(n) == CHOOSE e \in L : e.dst = n
      back[k \in 0..Cardinality(L)] ==
        IF k = 0 THEN query.goal
        ELSE IF back[k-1] = query.start THEN query.start
        ELSE Into(back[k-1]).src
  IN {e \in L : \E k \in DOMAIN back : back[k] = e.dst}

Entry(n, e) == [node |-> n, link |-> IF query.op = "bfs" THEN {e} ELSE {}, depth |-> NewDepth]

BugPushFront(n, e) == IF Layered THEN queue ELSE <<Entry(n, e)>> \o queue
Push(n, e) ==
  IF Layered THEN queue
  ELSE IF pass = "members" THEN <<Entry(n, e)>> \o queue
  ELSE Append(queue, Entry(n, e))

\* impact keeps the first edge a node was found by; bfs records it in Take.
BugEveryLink(n, e) == IF query.op = "bfs" THEN links ELSE links \cup {e}
Linked(n, e) ==
  IF query.op = "bfs" \/ (query.op = "impact" /\ n \in nodes) THEN links ELSE links \cup {e}

Add ==
  /\ at = "add"
  /\ \E e \in todo :
       LET n == Beyond(e) IN
       /\ InTurn(e)
       /\ IF ~Fresh(n)
            THEN todo' = todo \ {e}
                 /\ UNCHANGED <<at, pass, front, depth, found, outcome, nodes, links, queue, best>>
          ELSE IF query.op = "path" /\ n = query.goal
            THEN Return("found", nodes \cup {n}, Reconstruct(Linked(n, e)))
          ELSE /\ todo' = todo \ {e}
               /\ nodes' = nodes \cup {n}
               /\ links' = Linked(n, e)
               /\ best' = IF query.op = "bfs" THEN best ELSE Mark(n, NewDepth)
               /\ queue' = Push(n, e)
               /\ UNCHANGED <<at, pass, front, depth, found, outcome>>
  /\ UNCHANGED <<dbVars, cache, query, token, flags>>

\* A container's members are followed by the edges around it; a layer by the
\* next one.  (The code stops early on an empty layer, as the loop would.)
EndPass ==
  /\ at = "add" /\ todo = {}
  /\ at' = IF pass = "members" THEN "edges" ELSE "loop"
  /\ pass' = "around"
  /\ front' = IF Layered THEN {n \in Marked : best[n] = depth + 1} ELSE front
  /\ depth' = IF Layered THEN depth + 1 ELSE depth
  /\ found' = {}
  /\ UNCHANGED <<dbVars, cache, query, queue, best, nodes, links, todo, outcome, token, flags>>

Walk == \/ BeginLayers \/ Begin \/ FindGoal \/ Finish \/ Abandon \/ Take \/ TakeLayer
        \/ ReadEdges \/ ReadIncoming \/ ReadNodes \/ Add \/ EndPass

-----------------------------------------------------------------------------
(* The surroundings: other writers, and the client that cancels.             *)

\* Another connection commits: what a walk may find after its next statement.
Commit ==
  /\ commits # <<>>
  /\ db' = Head(commits) /\ commits' = Tail(commits)
  /\ ever' = ever \cup db'.edges
  /\ always' = always \cap db'.edges

Sync == Commit /\ UNCHANGED <<cache, walkVars, token, flags>>

Cancel(c) == flags' = flags \cup {c} /\ UNCHANGED <<dbVars, cache, walkVars, token>>

Blank ==
  /\ pass = "around" /\ queue = <<>> /\ front = {} /\ depth = 0
  /\ best = Unmarked /\ todo = {} /\ found = {}
  /\ nodes = {} /\ links = {} /\ outcome = "pending"

Init ==
  /\ db \in Graph /\ commits \in Seq(Graph)
  /\ ever = db.edges /\ always = db.edges
  /\ cache \in SUBSET Node
  /\ query \in Query
  /\ at = "start" /\ Blank
  /\ token \in Call \cup {None} /\ flags = {}

Next == Walk \/ Sync \/ \E c \in Call : Cancel(c)

Spec == Init /\ [][Next]_vars

-----------------------------------------------------------------------------
(* What a walk should return, over a set of edges that does not change.      *)

\* Relations are sets of pairs of nodes.
Image(R, S) == {p[2] : p \in {q \in R : q[1] \in S}}
Spread(R, S) == S \cup Image(R, S)

Pairs(L) == {<<e.src, e.dst>> : e \in L}

\* What exactly 0, 1, ... n steps lead to.
Onward(R, S, n) ==
  LET onward[k \in 0..n] == IF k = 0 THEN S ELSE Image(R, onward[k-1])
  IN onward

Spreads(R, S, n) ==
  LET spread[k \in 0..n] == IF k = 0 THEN S ELSE Spread(R, spread[k-1])
  IN spread

\* S with the members of its containers, and the members of those of them that
\* are containers.
Whole(M, S) == Spreads(M, S, Cardinality(Node))[Cardinality(Node)]

\* What d hops reach from s, containers with their members.
Levels(H, M, s, d) ==
  LET level[k \in 0..d] == Whole(M, IF k = 0 THEN {s} ELSE Spread(H, level[k-1]))
  IN level

\* The nodes exactly d hops away are not expanded: a container among them comes
\* without its members.
Reach(H, M, s, d) == IF d = 0 THEN {s} ELSE Spread(H, Levels(H, M, s, d-1)[d-1])

\* The hops of a walk over a set of edges, and the memberships it follows.
Hops(E) ==
  LET along == {e \in E : e.kind \in Kinds}
  IN (IF Direction = "incoming" THEN {} ELSE {<<e.src, e.dst>> : e \in along})
       \cup (IF Direction = "outgoing" THEN {} ELSE {<<e.dst, e.src>> : e \in along})

Members(E) ==
  IF query.op = "impact"
    THEN {<<e.src, e.dst>> : e \in {f \in E : f.kind = "contains" /\ f.src \in Container}}
    ELSE {}

\* The nodes at most d hops from the start.
Within(E, d) == Reach(Hops(E), Members(E), query.start, d)

CutShort == query.op = "bfs" /\ Cardinality(nodes) >= query.limit

Answered == at = "done" /\ outcome = "found"

-----------------------------------------------------------------------------
(* Properties                                                                *)

\* Types.
DbTypeOK ==
  /\ db \in Graph /\ commits \in Seq(Graph)
  /\ ever \subseteq Edge /\ always \subseteq Edge

LocalTypeOK ==
  /\ pass \in {"members", "around"}
  /\ queue \in Seq([node : Node, link : SUBSET Edge, depth : Nat])
  /\ front \subseteq Node /\ depth \in Nat
  /\ Marked \subseteq Node /\ best \in [Marked -> Nat]
  /\ todo \subseteq Edge /\ found \subseteq Node

WalkTypeOK ==
  /\ DbTypeOK /\ cache \subseteq Node
  /\ query \in Query
  /\ at \in {"idle", "start", "goal", "loop", "edges", "both", "nodes", "add", "done"}
  /\ LocalTypeOK
  /\ nodes \subseteq Node /\ links \subseteq Edge
  /\ outcome \in {"pending", "found", "none", "cancelled"}
  /\ token \in Call \cup {None} /\ flags \subseteq Call

\* The doc of get_impact_radius ("each node is expanded at its shortest
\* distance") and of the walks: an answer holds every node within the asked
\* number of hops over edges that were there throughout, whatever order the rows
\* came in and whatever was committed meanwhile, and none further away than the
\* edges that were there at some moment allow.
Bounded ==
  Answered /\ query.op # "path" =>
    /\ nodes \subseteq Within(ever, query.depth)
    /\ CutShort \/ Within(always, query.depth) \subseteq nodes \cup {query.start}

\* A subgraph is one piece: each node but the root hangs on exactly one returned
\* edge, and following these from the root reaches all of them, also when the
\* rows of a node and of its edges come from different commits.
OnePiece ==
  Answered /\ query.op # "path" /\ ~CutShort =>
    LET ends == {<<e.src, e.dst>> : e \in links} \cup {<<e.dst, e.src>> : e \in links}
        most == Cardinality(nodes)
    IN /\ nodes \cup {query.start} = Spreads(ends, {query.start}, most)[most]
       /\ Cardinality(links) = Cardinality(nodes \ {query.start})
       /\ links \subseteq ever

\* find_path: a path that is found leads from the start to the goal without
\* going through a node twice, over stored edges, and is no longer than any path
\* over edges that were there throughout; "no path" is said only if there was
\* no such path.
PathIsShortest ==
  at = "done" /\ query.op = "path" =>
    LET length == Cardinality(links)
        hop == Onward(Pairs(links), {query.start}, length)
    IN /\ outcome = "found" =>
            /\ hop[length] = {query.goal}
            /\ \A k \in 0..length : Cardinality(hop[k]) = 1
            /\ Cardinality({hop[k] : k \in 0..length}) = length + 1
            /\ links \subseteq ever
            /\ \A k \in 0..length - 1 : query.goal \notin Within(always, k)
       /\ outcome = "none" /\ query.start \in nodes /\ query.goal # query.start =>
            query.goal \notin Within(always, Cardinality(Node))
=============================================================================
