----------------------------- MODULE MCToolCalls -----------------------------
(* One walk over every small graph; one walk while another writer commits;   *)
(* and two or three calls at a time on one graph.                            *)
EXTENDS ToolCalls
CONSTANTS a, b, c, d, e, one, two, three

MCNode == {a, b, c, d, e}
MCContainer == {a, c}
MCCall == {one, two, three}

E(x, k, y) == [src |-> x, dst |-> y, kind |-> k]
Db(edges) == [nodes |-> MCNode, edges |-> edges]
Without(n, edges) == [nodes |-> MCNode \ {n}, edges |-> {x \in edges : n \notin {x.src, x.dst}}]

Any == [op |-> "path", start |-> a, goal |-> d, depth |-> 2, direction |-> "outgoing",
        kinds |-> Kind, limit |-> 9, keepStart |-> TRUE]
Impact(k) == [Any EXCEPT !.op = "impact", !.depth = k]
Bfs(way, k, most) ==
  [Any EXCEPT !.op = "bfs", !.direction = way, !.depth = k, !.limit = most]
CallersOf(n) == [Any EXCEPT !.op = "callers", !.start = n]
CalleesOf(n) == [Any EXCEPT !.op = "callees", !.start = n]

Walks(q) == [tool |-> "walk", query |-> q]
Wants(tool, S) == [tool |-> tool, wants |-> S]

Only(q) == [k \in {one} |-> Walks(q)]
Both(x, y) == [k \in {one, two} |-> IF k = one THEN x ELSE y]
Three(x, y, z) == [k \in MCCall |-> IF k = one THEN x ELSE IF k = two THEN y ELSE z]

\* A short and a long route, and a cycle; and a member of a nested container
\* that also depends on the outer one.
Calling == {E(a, "calls", b), E(b, "calls", d), E(a, "calls", c), E(c, "extends", e),
            E(e, "calls", d), E(b, "calls", a)}
Nesting == {E(a, "contains", c), E(c, "contains", b), E(c, "contains", d), E(b, "calls", a),
            E(d, "calls", b), E(b, "calls", d), E(e, "extends", d)}

Alone ==
  {[graph |-> Db(edges), commits |-> <<>>, asks |-> Only(q)] :
     edges \in SUBSET Nesting, q \in {Impact(k) : k \in {0, 1, 2, 3}}}
  \cup
  {[graph |-> Db(edges), commits |-> <<>>, asks |-> Only(q)] :
     edges \in SUBSET Calling,
     q \in {Any, CallersOf(d), CalleesOf(a), Bfs("outgoing", 2, 9), Bfs("both", 2, 3),
            [Bfs("incoming", 1, 9) EXCEPT !.start = d, !.keepStart = FALSE]}}

\* The start or the goal is not stored, or they are the same node.
Missing ==
  {[graph |-> Without(n, Calling), commits |-> <<>>, asks |-> Only(q)] :
     n \in {a, d}, q \in {Any, CallersOf(d), Bfs("outgoing", 2, 9), Impact(1), [Any EXCEPT !.goal = a]}}

\* The writer drops one file's rows, or an edge, and may store them again.

Rewrites(edges) ==
  {<<Without(n, edges), Db(edges)>> : n \in {b, d}} \cup {<<Db(edges \ {x})>> : x \in edges}

Disturbed ==
  UNION {{[graph |-> Db(edges), commits |-> w, asks |-> Only(q)] :
            w \in Rewrites(edges), q \in {Any, CallersOf(d), Bfs("outgoing", 3, 9), Impact(2)}} :
         edges \in {Calling, Nesting}}

Crowded ==
  {[graph |-> Db({E(a, "calls", d), E(d, "calls", a)}), commits |-> <<>>, asks |-> some] :
     some \in {Both(Walks(Any), Walks(CallersOf(d))), Both(Walks(Impact(1)), Wants("explore", {a, b})),
               Both(Wants("explore", {a, b}), Wants("explore", {b, c})),
               Both(Wants("node", {a}), Wants("explore", {a, b})),
               Three(Wants("explore", {a}), Wants("node", {a}), Wants("explore", {a}))}}

\* A file is taken out between or during two walks.
Outlived ==
  {[graph |-> Db({E(a, "calls", d), E(d, "calls", a)}), commits |-> w,
    asks |-> Both(Walks(Any), Walks(Impact(1)))] :
     w \in {<<Without(n, {E(a, "calls", d), E(d, "calls", a)})>> : n \in {a, d}}}

MCSituations == Alone \cup Missing \cup Disturbed \cup Crowded \cup Outlived
=============================================================================
