---------------------------- MODULE AnalysisCache ----------------------------
(* The snapshot cache of the analysis graph (analysis_bridge): callers that  *)
(* load or build the graph of an index that syncs change, the files each     *)
(* store rotates and replaces one by one, and the base of `analyze diff`.    *)
EXTENDS Integers

CONSTANTS
  Caller,      \* processes that use the cache
  Asks,        \* what each may ask: with fields or not, diff or not, cached or not
  Version,     \* states of the index, as told apart by its fingerprint
  MaxFault,    \* bound: kills and failed calls in a behaviour
  Absent,      \* no such file, nothing read yet
  Torn         \* a file opened and not yet written

Graph == [nodes : Version, edges : Version, fields : BOOLEAN]
Meta == [fingerprint : Version, fields : BOOLEAN, ids : Version]
Complexity == [fingerprint : Version, of : Version]

ASSUME CacheAssumption ==
  /\ Asks \in [Caller -> SUBSET [fields : BOOLEAN, diff : BOOLEAN, useCache : BOOLEAN]]
  /\ MaxFault \in Nat
  /\ Absent # Torn
  /\ {Absent, Torn} \cap (Version \cup Graph \cup Meta \cup Complexity) = {}
  /\ Absent \notin [version : Version, fields : BOOLEAN]

VARIABLES
  index,    \* the present state of the index
  dir,      \* the cache directory: file, generation -> content
  caller,   \* each caller: where it is, its call, and what it has read so far
  faults    \* kills and failed calls so far

vars == <<index, dir, caller, faults>>

File == {"graph", "meta", "complexity"}
Generation == {"now", "prev", "tmp"}

Phase == {"idle", "fingerprint", "loadMeta", "loadGraph", "readNodes", "readEdges", "check",
          "evict", "move", "truncate", "fill", "publish", "answer", "baseMeta",
          "baseGraph", "baseComplexity", "compared"}

Base == [fingerprint : Version \cup {Absent}, graph : Graph \cup {Absent},
         complexity : Version \cup {Absent}]
NoBase == [fingerprint |-> Absent, graph |-> Absent, complexity |-> Absent]

\* What a caller asked for; the fingerprint `analyze diff` computes on its own
\* and the one its graph is looked up and stored under; its id map and graph and
\* whether they come from the cache; the file it is storing; the generation it
\* tries as base of a diff, and that base.
Idle ==
  [at |-> "idle", fields |-> FALSE, diff |-> FALSE, useCache |-> FALSE,
   own |-> Absent, fingerprint |-> Absent, ids |-> Absent, graph |-> Absent, cached |-> FALSE, file |-> "graph",
   gen |-> "now", base |-> NoBase]

Readable(x) == x \notin {Absent, Torn}

Become(c, r) == caller' = [caller EXCEPT ![c] = r]
Goto(c, phase) == caller' = [caller EXCEPT ![c].at = phase]
Put(f, g, x) == dir' = [dir EXCEPT ![f][g] = x]
Fault == faults < MaxFault /\ faults' = faults + 1

-----------------------------------------------------------------------------
(* build_analysis_graph_cached                                               *)

Ask(c) ==
  /\ caller[c].at = "idle"
  /\ \E q \in Asks[c] :
       Become(c, [Idle EXCEPT !.at = "fingerprint", !.fields = q.fields, !.diff = q.diff,
                              !.useCache = q.useCache, !.own = IF q.diff THEN index ELSE Absent])
  /\ UNCHANGED <<index, dir, faults>>

Fingerprint(c) ==
  /\ caller[c].at = "fingerprint"
  /\ Become(c, [caller[c] EXCEPT !.at = IF caller[c].useCache THEN "loadMeta" ELSE "readNodes",
                                 !.fingerprint = index, !.useCache = FALSE])
  /\ UNCHANGED <<index, dir, faults>>

Hit(m, r) == Readable(m) /\ m.fingerprint = r.fingerprint /\ m.fields = r.fields

LoadMeta(c) ==
  /\ caller[c].at = "loadMeta"
  /\ IF Hit(dir.meta.now, caller[c])
       THEN caller' = [caller EXCEPT ![c].at = "loadGraph", ![c].ids = dir.meta.now.ids]
       ELSE Goto(c, "readNodes")
  /\ UNCHANGED <<index, dir, faults>>

LoadGraph(c) ==
  /\ caller[c].at = "loadGraph"
  /\ IF Readable(dir.graph.now)
       THEN caller' = [caller EXCEPT ![c].at = "answer", ![c].graph = dir.graph.now, ![c].cached = TRUE]
       ELSE Goto(c, "readNodes")
  /\ UNCHANGED <<index, dir, faults>>

ReadNodes(c) ==
  /\ caller[c].at = "readNodes"
  /\ caller' = [caller EXCEPT ![c].at = "readEdges", ![c].ids = index]
  /\ UNCHANGED <<index, dir, faults>>

ReadEdges(c) ==
  /\ caller[c].at = "readEdges"
  /\ caller' = [caller EXCEPT ![c].at = "check",
                  ![c].graph = [nodes |-> caller[c].ids, edges |-> index, fields |-> caller[c].fields]]
  /\ UNCHANGED <<index, dir, faults>>

-----------------------------------------------------------------------------
(* store_cache: rotate the old generation away, then one file after another. *)

BugSameOnly(m, r) == Readable(m) /\ m.fingerprint = r.fingerprint
MustRotate(m, r) == Readable(m) /\ m.fingerprint # r.fingerprint

\* A meta.json that cannot be read rotates nothing.
Check(c) ==
  /\ caller[c].at = "check"
  /\ \/ /\ Goto(c, IF MustRotate(dir.meta.now, caller[c]) THEN "evict" ELSE "truncate")
        /\ UNCHANGED faults
     \/ Goto(c, "truncate") /\ Fault
  /\ UNCHANGED <<index, dir>>

\* Failures to remove or to rename are logged, and the rotation goes on.
Evict(c) ==
  /\ caller[c].at = "evict"
  /\ \/ Put(caller[c].file, "prev", Absent) /\ UNCHANGED faults
     \/ UNCHANGED dir /\ Fault
  /\ Goto(c, "move")
  /\ UNCHANGED index

Rotated(f) ==
  IF dir[f].now = Absent THEN dir ELSE [dir EXCEPT ![f].prev = dir[f].now, ![f].now = Absent]

AfterMove(r) ==
  CASE r.file = "graph" -> [r EXCEPT !.at = "evict", !.file = "meta"]
    [] r.file = "meta" -> [r EXCEPT !.at = "evict", !.file = "complexity"]
    [] OTHER -> [r EXCEPT !.at = "truncate", !.file = "graph"]

Move(c) ==
  /\ caller[c].at = "move"
  /\ \/ dir' = Rotated(caller[c].file) /\ UNCHANGED faults
     \/ UNCHANGED dir /\ Fault
  /\ Become(c, AfterMove(caller[c]))
  /\ UNCHANGED index

Truncate(c) ==
  /\ caller[c].at = "truncate"
  /\ Put(caller[c].file, "tmp", Torn)
  /\ Goto(c, "fill")
  /\ UNCHANGED <<index, faults>>

Written(r) ==
  CASE r.file = "graph" -> r.graph
    [] r.file = "meta" -> [fingerprint |-> r.fingerprint, fields |-> r.fields, ids |-> r.ids]
    [] OTHER -> [fingerprint |-> r.own, of |-> r.graph.nodes]

Fill(c) ==
  /\ caller[c].at = "fill"
  /\ Put(caller[c].file, "tmp", Written(caller[c]))
  /\ Goto(c, "publish")
  /\ UNCHANGED <<index, faults>>

\* The graph is put in place first, then the meta; the complexity ends a diff.
AfterFile(r) ==
  CASE r.file = "graph" -> [r EXCEPT !.at = "truncate", !.file = "meta"]
    [] r.file = "meta" -> [r EXCEPT !.at = "answer", !.file = "graph"]
    [] OTHER -> Idle

Publish(c) ==
  /\ caller[c].at = "publish"
  /\ LET f == caller[c].file IN
       /\ dir[f].tmp # Absent
       /\ dir' = [dir EXCEPT ![f].now = dir[f].tmp, ![f].tmp = Absent]
  /\ Become(c, AfterFile(caller[c]))
  /\ UNCHANGED <<index, faults>>

\* A store that fails is logged, and the caller has its graph all the same.
GiveUp(c) ==
  Become(c, IF caller[c].file = "complexity" THEN Idle
                                             ELSE [caller[c] EXCEPT !.at = "answer", !.file = "graph"])

StoreFails(c) ==
  /\ \/ caller[c].at \in {"check", "truncate", "fill"} /\ UNCHANGED dir /\ Fault
     \/ caller[c].at = "publish" /\ Put(caller[c].file, "tmp", Absent) /\ Fault
     \/ caller[c].at = "publish" /\ dir[caller[c].file].tmp = Absent /\ UNCHANGED <<dir, faults>>
  /\ GiveUp(c)
  /\ UNCHANGED index

-----------------------------------------------------------------------------
(* What a caller does with its graph: answer, or compare it with a base.     *)

Answer(c) ==
  /\ caller[c].at = "answer"
  /\ IF caller[c].diff THEN Goto(c, "baseMeta") ELSE Become(c, Idle)
  /\ UNCHANGED <<index, dir, faults>>

BugNextGeneration(r) ==
  [r EXCEPT !.at = "baseMeta", !.gen = IF @ = "now" THEN "prev" ELSE "tmp", !.base = NoBase]

\* A generation that does not serve: the previous one is tried, then none.
Pass(r) ==
  IF r.gen = "now" THEN [r EXCEPT !.at = "baseMeta", !.gen = "prev", !.base = NoBase] ELSE Idle

BaseMeta(c) ==
  /\ caller[c].at = "baseMeta"
  /\ LET r == caller[c]
         m == dir.meta[r.gen] IN
       Become(c, IF Readable(m) /\ m.fingerprint # r.own
                   THEN [r EXCEPT !.at = "baseGraph", !.base.fingerprint = m.fingerprint]
                   ELSE Pass(r))
  /\ UNCHANGED <<index, dir, faults>>

BaseGraph(c) ==
  /\ caller[c].at = "baseGraph"
  /\ LET r == caller[c]
         g == dir.graph[r.gen] IN
       Become(c, IF Readable(g) THEN [r EXCEPT !.at = "baseComplexity", !.base.graph = g] ELSE Pass(r))
  /\ UNCHANGED <<index, dir, faults>>

Measured(x, fingerprint) == Readable(x) /\ x.fingerprint = fingerprint

BaseComplexity(c) ==
  /\ caller[c].at = "baseComplexity"
  /\ LET r == caller[c]
         x == dir.complexity[r.gen] IN
       Become(c, [r EXCEPT !.at = "compared",
                    !.base.complexity = IF Measured(x, r.base.fingerprint) THEN x.of ELSE Absent])
  /\ UNCHANGED <<index, dir, faults>>

\* The report is there; the complexity of this graph is left for the next diff.
Compared(c) ==
  /\ caller[c].at = "compared"
  /\ caller' = [caller EXCEPT ![c].at = "truncate", ![c].file = "complexity",
                              ![c].gen = "now", ![c].base = NoBase]
  /\ UNCHANGED <<index, dir, faults>>

-----------------------------------------------------------------------------
(* The surroundings.                                                         *)

Sync ==
  /\ index' \in Version \ {index}
  /\ UNCHANGED <<dir, caller, faults>>

Kill(c) ==
  /\ caller[c].at # "idle"
  /\ Become(c, Idle)
  /\ Fault
  /\ UNCHANGED <<index, dir>>

Init ==
  /\ index \in Version
  /\ dir = [f \in File |-> [g \in Generation |-> Absent]]
  /\ caller = [c \in Caller |-> Idle]
  /\ faults = 0

CallStep(c) ==
  \/ Ask(c) \/ Fingerprint(c) \/ LoadMeta(c) \/ LoadGraph(c) \/ ReadNodes(c) \/ ReadEdges(c)
  \/ Check(c) \/ Evict(c) \/ Move(c) \/ Truncate(c) \/ Fill(c) \/ Publish(c)
  \/ Answer(c) \/ BaseMeta(c) \/ BaseGraph(c) \/ BaseComplexity(c) \/ Compared(c)

\* A call stops short of what it was going to store.
CutOff(c) == Kill(c) \/ StoreFails(c)

Next == Sync \/ \E c \in Caller : CallStep(c) \/ CutOff(c)

Spec == Init /\ [][Next]_vars

-----------------------------------------------------------------------------
(* Milder surroundings.  Nothing in the code sees to them.                   *)

\* The index changes only while nobody uses the cache.
Resting == \A c \in Caller : caller[c].at = "idle"
CalmNext == (Sync /\ Resting) \/ \E c \in Caller : CallStep(c) \/ CutOff(c)

Storing(c) == caller[c].at \in {"check", "evict", "move", "truncate", "fill", "publish"}
InFiles(c) == Storing(c) \/ caller[c].at \in {"loadGraph", "baseGraph", "baseComplexity"}

\* Nobody is between two files while another one stores.
Apart == \A c, d \in Caller : c # d /\ Storing(c) => ~InFiles(d)

\* The index does not change between a fingerprint and the last look at it.
Settled ==
  \A c \in Caller :
    /\ caller[c].at \in {"loadMeta", "readNodes"} => caller[c].own \in {Absent, caller[c].fingerprint}
    /\ caller[c].at = "readEdges" => caller[c].ids = caller[c].fingerprint
    /\ caller[c].at = "check" => caller[c].graph.edges = caller[c].fingerprint

\* A graph next to a meta that was written for another one.
Mixed(g) ==
  LET m == dir.meta[g]
      x == dir.graph[g] IN
  Readable(m) /\ Readable(x) /\ (m.fingerprint # x.nodes \/ m.fields # x.fields)

\* A graph or meta of the previous generation that is neither removed nor replaced.
StaysBehind(c) ==
  LET f == caller[c].file IN
  /\ Move(c) /\ f # "complexity"
  /\ dir[f].prev # Absent
  /\ dir[f].now = Absent \/ faults' # faults

\* Of the calls that are cut off this leaves those outside a rotation and outside
\* the time between a graph and its meta.
OrderlyNext ==
  /\ Next
  /\ Apart'
  /\ Settled'
  /\ \A c \in Caller : CutOff(c) => ~Mixed("now") /\ ~Mixed("prev")
  /\ \A c \in Caller : ~StaysBehind(c)

-----------------------------------------------------------------------------
TypeOK ==
  /\ index \in Version
  /\ dir.graph \in [Generation -> Graph \cup {Absent, Torn}]
  /\ dir.meta \in [Generation -> Meta \cup {Absent, Torn}]
  /\ dir.complexity \in [Generation -> Complexity \cup {Absent, Torn}]
  /\ caller \in [Caller -> [at : Phase, fields : BOOLEAN, diff : BOOLEAN, useCache : BOOLEAN,
                            own : Version \cup {Absent}, fingerprint : Version \cup {Absent},
                            ids : Version \cup {Absent}, graph : Graph \cup {Absent},
                            cached : BOOLEAN, file : File, gen : {"now", "prev"}, base : Base]]
  /\ faults \in 0..MaxFault

\* A graph from the cache is the one of the index and the options asked for, with
\* its own id map.  README.md: "any re-index that changes the store invalidates it
\* automatically"; analysis_bridge/mod.rs: a graph without fields "is never served
\* to a with-fields request (or vice versa)".
ServedAsAsked ==
  \A c \in Caller : caller[c].cached =>
    /\ caller[c].graph = [nodes |-> caller[c].fingerprint, edges |-> caller[c].fingerprint,
                          fields |-> caller[c].fields]
    /\ caller[c].ids = caller[c].fingerprint

\* What is left of it: where the index rests during calls, whoever stores at the
\* same time, and wherever one call is killed or one operation fails, a graph from
\* the cache is of the index asked for, nodes, edges and id map, though it may be
\* one with fields for one without.
CachedIsCurrent ==
  faults <= 1 =>
    \A c \in Caller : caller[c].cached =>
      /\ caller[c].graph.nodes = caller[c].fingerprint
      /\ caller[c].graph.edges = caller[c].fingerprint
      /\ caller[c].ids = caller[c].fingerprint


-----------------------------------------------------------------------------
(* The snapshots the files stand for.                                        *)

Whole(m, g) ==
  IF Readable(m) /\ Readable(g) /\ m.fingerprint = g.nodes
    THEN [version |-> g.nodes, fields |-> g.fields] ELSE Absent

Plain(g) == IF g = Absent THEN Absent ELSE [version |-> g.nodes, fields |-> g.fields]

\* Between the two moves of a rotation the old graph has its new name already.
Turning == \E c \in Caller : caller[c].at \in {"evict", "move"} /\ caller[c].file = "meta"

Kept == IF Turning /\ dir.graph.now = Absent THEN Whole(dir.meta.now, dir.graph.prev)
                                             ELSE Whole(dir.meta.now, dir.graph.now)
KeptBefore == IF Turning THEN Absent ELSE Whole(dir.meta.prev, dir.graph.prev)

Served ==
  [u \in Caller \X {"graph", "base"} |->
     IF u[2] = "base" THEN Plain(caller[u[1]].base.graph)
     ELSE IF caller[u[1]].cached THEN Plain(caller[u[1]].graph) ELSE Absent]

Cache == INSTANCE Snapshots WITH None <- Absent, kept <- Kept, older <- KeptBefore, served <- Served
=============================================================================
