-------------------------- MODULE AnalysisCacheProofs --------------------------
(***************************************************************************)
(* Proofs about the analysis cache, for any callers, versions and faults:  *)
(* its types in every interleaving; that a cached graph is of the index    *)
(* asked for; and that where nobody stores between another's files, these  *)
(* implement Snapshots.                                                    *)
(***************************************************************************)
EXTENDS CacheUse, TLAPS

Call == [at : Phase, fields : BOOLEAN, diff : BOOLEAN, useCache : BOOLEAN,
         own : Version \cup {Absent}, fingerprint : Version \cup {Absent},
         ids : Version \cup {Absent}, graph : Graph \cup {Absent},
         cached : BOOLEAN, file : File, gen : {"now", "prev"}, base : Base]

\* What a file of the cache can hold.
Content(f) ==
  (CASE f = "graph" -> Graph [] f = "meta" -> Meta [] OTHER -> Complexity) \cup {Absent, Torn}

Early == {"idle", "fingerprint", "loadMeta", "loadGraph", "readNodes", "readEdges"}
Bases == {"baseMeta", "baseGraph", "baseComplexity", "compared"}
Writing == {"truncate", "fill", "publish"}
Rotating == {"evict", "move"}

\* What a caller has by the time it needs it.
Shape(r) ==
  /\ r.diff => r.own \in Version
  /\ r.at \notin {"idle", "fingerprint"} => r.fingerprint \in Version
  /\ r.at \notin Early \ {"loadGraph", "readEdges"} => r.ids \in Version
  /\ r.at \notin Early => r.graph \in Graph
  /\ r.at \in Bases => r.diff
  /\ r.at \in Writing /\ r.file = "complexity" => r.diff
  /\ r.at \notin Rotating \cup Writing => r.file = "graph"

Typed ==
  /\ index \in Version /\ faults \in 0..MaxFault
  /\ dir \in [File -> [Generation -> Graph \cup Meta \cup Complexity \cup {Absent, Torn}]]
  /\ \A f \in File, g \in Generation : dir[f][g] \in Content(f)
  /\ caller \in [Caller -> Call]
  /\ \A c \in Caller : Shape(caller[c])

-----------------------------------------------------------------------------
(* Types                                                                     *)

\* A step of one caller, from one record to another.
LEMMA Becomes ==
  ASSUME Typed, NEW c \in Caller, NEW r \in Call, Shape(r), caller' = [caller EXCEPT ![c] = r]
  PROVE  /\ caller' \in [Caller -> Call] /\ \A d \in Caller : Shape(caller'[d])
         /\ caller'[c] = r /\ \A d \in Caller \ {c} : caller'[d] = caller[d]
BY DEF Typed

\* A step that changes one file.
LEMMA Puts ==
  ASSUME Typed, NEW f \in File, NEW g \in Generation, NEW x \in Content(f), Put(f, g, x)
  PROVE  /\ dir' \in [File -> [Generation -> Graph \cup Meta \cup Complexity \cup {Absent, Torn}]]
         /\ \A h \in File, k \in Generation : dir'[h][k] \in Content(h)
         /\ \A h \in File, k \in Generation :
              dir'[h][k] = IF h = f /\ k = g THEN x ELSE dir[h][k]
<1>1. x \in Graph \cup Meta \cup Complexity \cup {Absent, Torn}
  BY DEF Content
<1>2. /\ dir' = [dir EXCEPT ![f][g] = x]
      /\ dir \in [File -> [Generation -> Graph \cup Meta \cup Complexity \cup {Absent, Torn}]]
  BY DEF Put, Typed
<1>3. /\ dir' \in [File -> [Generation -> Graph \cup Meta \cup Complexity \cup {Absent, Torn}]]
      /\ \A h \in File, k \in Generation :
              dir'[h][k] = IF h = f /\ k = g THEN x ELSE dir[h][k]
  BY <1>1, <1>2
<1> QED BY <1>3 DEF Typed

\* Each file holds what belongs in it.
LEMMA Contents ==
  ASSUME Typed
  PROVE  \A g \in Generation : /\ dir.graph[g] \in Graph \cup {Absent, Torn}
                               /\ dir.meta[g] \in Meta \cup {Absent, Torn}
                               /\ dir.complexity[g] \in Complexity \cup {Absent, Torn}
BY DEF Typed, Content, File

\* The steps that change neither the index nor the files.
Quiet(c) ==
  \/ Ask(c) \/ Fingerprint(c) \/ LoadMeta(c) \/ LoadGraph(c) \/ ReadNodes(c) \/ ReadEdges(c)
  \/ Check(c) \/ Answer(c) \/ BaseMeta(c) \/ BaseGraph(c) \/ BaseComplexity(c) \/ Compared(c)
  \/ Kill(c)

\* What a caller is after such a step.
Turn(c, r) == r \in Call /\ Shape(r) /\ caller' = [caller EXCEPT ![c] = r]

\* The idle caller.
LEMMA IdleTyped == Idle \in Call /\ Shape(Idle)
BY DEF Idle, Call, Shape, Phase, File, Base, NoBase, Early, Bases, Writing, Rotating

\* Up to its graph, a caller reads.
LEMMA Reads ==
  ASSUME Typed, NEW c \in Caller,
         Ask(c) \/ Fingerprint(c) \/ LoadMeta(c) \/ LoadGraph(c) \/ ReadNodes(c) \/ ReadEdges(c)
  PROVE  \E r \in Call : Turn(c, r)
<1>0. /\ caller \in [Caller -> Call] /\ caller[c] \in Call /\ Shape(caller[c])
      /\ index \in Version
  BY DEF Typed
<1>1. ASSUME Ask(c) PROVE \E r \in Call : Turn(c, r)
  <2>1. PICK q \in Asks[c] :
          Become(c, [Idle EXCEPT !.at = "fingerprint", !.fields = q.fields, !.diff = q.diff,
                              !.useCache = q.useCache, !.own = IF q.diff THEN index ELSE Absent])
    BY <1>1 DEF Ask
  <2>2. q \in [fields : BOOLEAN, diff : BOOLEAN, useCache : BOOLEAN]
    BY CacheAssumption
  <2> DEFINE r == [Idle EXCEPT !.at = "fingerprint", !.fields = q.fields, !.diff = q.diff,
                              !.useCache = q.useCache, !.own = IF q.diff THEN index ELSE Absent]
  <2>3. q.fields \in BOOLEAN /\ q.diff \in BOOLEAN /\ q.useCache \in BOOLEAN
    BY <2>2
  <2>6. (IF q.diff THEN index ELSE Absent) \in Version \cup {Absent}
    BY <1>0
  <2>7. NoBase \in Base
    BY DEF Base, NoBase
  <2>4. r \in Call
    BY <2>3, <2>6, <2>7 DEF Idle, Call, Phase, File
  <2>5. Shape(r)
    BY <1>0, <2>3 DEF Idle, Shape, Early, Bases, Writing, Rotating
  <2> QED BY <2>1, <2>4, <2>5 DEF Turn, Become
<1>2. ASSUME Fingerprint(c) PROVE \E r \in Call : Turn(c, r)
  <2> DEFINE r == [caller[c] EXCEPT !.at = IF caller[c].useCache THEN "loadMeta" ELSE "readNodes",
                                 !.fingerprint = index, !.useCache = FALSE]
  <2>1. r \in Call /\ Shape(r)
    BY <1>0, <1>2 DEF Fingerprint, Call, Shape, Phase, Early, Bases, Writing, Rotating
  <2> QED BY <1>2, <2>1 DEF Turn, Fingerprint, Become
<1>3. ASSUME LoadMeta(c) PROVE \E r \in Call : Turn(c, r)
  <2>1. CASE Hit(dir.meta.now, caller[c])
    <3> DEFINE r == [caller[c] EXCEPT !.at = "loadGraph", !.ids = dir.meta.now.ids]
    <3>1. dir.meta.now \in Meta
      BY <2>1, Contents DEF Hit, Readable, Generation
    <3>2. r \in Call /\ Shape(r)
      BY <1>0, <1>3, <3>1 DEF LoadMeta, Call, Shape, Phase, Early, Bases, Writing, Rotating, Meta
    <3>3. caller' = [caller EXCEPT ![c] = r]
      BY <1>3, <2>1, <1>0 DEF LoadMeta
    <3> QED BY <3>2, <3>3 DEF Turn
  <2>2. CASE ~Hit(dir.meta.now, caller[c])
    <3> DEFINE r == [caller[c] EXCEPT !.at = "readNodes"]
    <3>2. r \in Call /\ Shape(r)
      BY <1>0, <1>3 DEF LoadMeta, Call, Shape, Phase, Early, Bases, Writing, Rotating
    <3>3. caller' = [caller EXCEPT ![c] = r]
      BY <1>3, <2>2, <1>0 DEF LoadMeta, Goto
    <3> QED BY <3>2, <3>3 DEF Turn
  <2> QED BY <2>1, <2>2
<1>4. ASSUME LoadGraph(c) PROVE \E r \in Call : Turn(c, r)
  <2>1. CASE Readable(dir.graph.now)
    <3> DEFINE r == [caller[c] EXCEPT !.at = "answer", !.graph = dir.graph.now, !.cached = TRUE]
    <3>1. dir.graph.now \in Graph
      BY <2>1, Contents DEF Readable, Generation
    <3>2. r \in Call /\ Shape(r)
      BY <1>0, <1>4, <3>1 DEF LoadGraph, Call, Shape, Phase, Early, Bases, Writing, Rotating
    <3>3. caller' = [caller EXCEPT ![c] = r]
      BY <1>4, <2>1, <1>0 DEF LoadGraph
    <3> QED BY <3>2, <3>3 DEF Turn
  <2>2. CASE ~Readable(dir.graph.now)
    <3> DEFINE r == [caller[c] EXCEPT !.at = "readNodes"]
    <3>2. r \in Call /\ Shape(r)
      BY <1>0, <1>4 DEF LoadGraph, Call, Shape, Phase, Early, Bases, Writing, Rotating
    <3>3. caller' = [caller EXCEPT ![c] = r]
      BY <1>4, <2>2, <1>0 DEF LoadGraph, Goto
    <3> QED BY <3>2, <3>3 DEF Turn
  <2> QED BY <2>1, <2>2
<1>5. ASSUME ReadNodes(c) PROVE \E r \in Call : Turn(c, r)
  <2> DEFINE r == [caller[c] EXCEPT !.at = "readEdges", !.ids = index]
  <2>1. r \in Call /\ Shape(r)
    BY <1>0, <1>5 DEF ReadNodes, Call, Shape, Phase, Early, Bases, Writing, Rotating
  <2>2. caller' = [caller EXCEPT ![c] = r]
    BY <1>5, <1>0 DEF ReadNodes
  <2> QED BY <2>1, <2>2 DEF Turn
<1>6. ASSUME ReadEdges(c) PROVE \E r \in Call : Turn(c, r)
  <2> DEFINE r == [caller[c] EXCEPT !.at = "check",
                  !.graph = [nodes |-> caller[c].ids, edges |-> index, fields |-> caller[c].fields]]
  <2>1. r \in Call /\ Shape(r)
    BY <1>0, <1>6 DEF ReadEdges, Call, Shape, Phase, Early, Bases, Writing, Rotating, Graph
  <2>2. caller' = [caller EXCEPT ![c] = r]
    BY <1>6, <1>0 DEF ReadEdges
  <2> QED BY <2>1, <2>2 DEF Turn
<1> QED BY <1>1, <1>2, <1>3, <1>4, <1>5, <1>6

\* With its graph, a caller decides what to do, or looks for a base.
LEMMA Looks ==
  ASSUME Typed, NEW c \in Caller,
         Check(c) \/ Answer(c) \/ BaseMeta(c) \/ BaseGraph(c) \/ BaseComplexity(c) \/ Compared(c)
         \/ Kill(c)
  PROVE  \E r \in Call : Turn(c, r)
<1>0. /\ caller \in [Caller -> Call] /\ caller[c] \in Call /\ Shape(caller[c])
      /\ NoBase \in Base
  BY DEF Typed, NoBase, Base
<1>1. ASSUME Check(c) PROVE \E r \in Call : Turn(c, r)
  <2>1. PICK p \in {"evict", "truncate"} : Goto(c, p)
    BY <1>1 DEF Check
  <2> DEFINE r == [caller[c] EXCEPT !.at = p]
  <2>2. r \in Call /\ Shape(r)
    BY <1>0, <1>1 DEF Check, Call, Shape, Phase, Early, Bases, Writing, Rotating
  <2>3. caller' = [caller EXCEPT ![c] = r]
    BY <2>1, <1>0 DEF Goto
  <2> QED BY <2>2, <2>3 DEF Turn
<1>2. ASSUME Answer(c) PROVE \E r \in Call : Turn(c, r)
  <2>1. CASE caller[c].diff
    <3> DEFINE r == [caller[c] EXCEPT !.at = "baseMeta"]
    <3>1. r \in Call /\ Shape(r)
      BY <1>0, <1>2, <2>1 DEF Answer, Call, Shape, Phase, Early, Bases, Writing, Rotating
    <3>2. caller' = [caller EXCEPT ![c] = r]
      BY <1>2, <2>1, <1>0 DEF Answer, Goto
    <3> QED BY <3>1, <3>2 DEF Turn
  <2>2. CASE ~caller[c].diff
    BY <1>2, <2>2, IdleTyped DEF Answer, Turn, Become
  <2> QED BY <2>1, <2>2
<1>3. caller[c].at \in Bases => Pass(caller[c]) \in Call /\ Shape(Pass(caller[c]))
  <2> DEFINE r == [caller[c] EXCEPT !.at = "baseMeta", !.gen = "prev", !.base = NoBase]
  <2>1. ASSUME caller[c].at \in Bases PROVE r \in Call /\ Shape(r)
    BY <1>0, <2>1 DEF Call, Shape, Phase, Early, Bases, Writing, Rotating
  <2> QED BY <2>1, IdleTyped DEF Pass
<1>4. ASSUME BaseMeta(c) PROVE \E r \in Call : Turn(c, r)
  <2> DEFINE m == dir.meta[caller[c].gen]
             r == [caller[c] EXCEPT !.at = "baseGraph", !.base.fingerprint = m.fingerprint]
  <2>1. ASSUME Readable(m) PROVE r \in Call /\ Shape(r)
    <3>1. caller[c].gen \in Generation
      BY <1>0 DEF Call, Generation
    <3>2. m \in Meta
      BY <2>1, <3>1, Contents DEF Readable
    <3>3. caller[c].base \in Base /\ [caller[c].base EXCEPT !.fingerprint = m.fingerprint] \in Base
      BY <1>0, <3>2 DEF Base, Call, Meta
    <3> QED BY <1>0, <1>4, <3>3 DEF BaseMeta, Call, Shape, Phase, Early, Bases, Writing, Rotating
  <2>2. caller' = [caller EXCEPT ![c] = IF Readable(m) /\ m.fingerprint # caller[c].own
                                          THEN r ELSE Pass(caller[c])]
    BY <1>4 DEF BaseMeta, Become
  <2>3. caller[c].at \in Bases
    BY <1>4 DEF BaseMeta, Bases
  <2> QED BY <2>1, <2>2, <2>3, <1>3 DEF Turn
<1>5. ASSUME BaseGraph(c) PROVE \E r \in Call : Turn(c, r)
  <2> DEFINE g == dir.graph[caller[c].gen]
             r == [caller[c] EXCEPT !.at = "baseComplexity", !.base.graph = g]
  <2>1. ASSUME Readable(g) PROVE r \in Call /\ Shape(r)
    <3>1. caller[c].gen \in Generation
      BY <1>0 DEF Call, Generation
    <3>2. g \in Graph
      BY <2>1, <3>1, Contents DEF Readable
    <3>3. caller[c].base \in Base /\ [caller[c].base EXCEPT !.graph = g] \in Base
      BY <1>0, <3>2 DEF Base, Call
    <3> QED BY <1>0, <1>5, <3>3 DEF BaseGraph, Call, Shape, Phase, Early, Bases, Writing, Rotating
  <2>2. caller' = [caller EXCEPT ![c] = IF Readable(g) THEN r ELSE Pass(caller[c])]
    BY <1>5 DEF BaseGraph, Become
  <2>3. caller[c].at \in Bases
    BY <1>5 DEF BaseGraph, Bases
  <2> QED BY <2>1, <2>2, <2>3, <1>3 DEF Turn
<1>6. ASSUME BaseComplexity(c) PROVE \E r \in Call : Turn(c, r)
  <2> DEFINE x == dir.complexity[caller[c].gen]
             y == IF Measured(x, caller[c].base.fingerprint) THEN x.of ELSE Absent
             r == [caller[c] EXCEPT !.at = "compared", !.base.complexity = y]
  <2>1. caller[c].gen \in Generation
    BY <1>0 DEF Call, Generation
  <2>2. y \in Version \cup {Absent}
    <3>1. Measured(x, caller[c].base.fingerprint) => x \in Complexity
      BY <2>1, Contents DEF Readable, Measured
    <3> QED BY <3>1 DEF Complexity
  <2>3. caller[c].base \in Base /\ [caller[c].base EXCEPT !.complexity = y] \in Base
    BY <1>0, <2>2 DEF Base, Call
  <2>4. r \in Call /\ Shape(r)
    BY <1>0, <1>6, <2>3 DEF BaseComplexity, Call, Shape, Phase, Early, Bases, Writing, Rotating
  <2>5. caller' = [caller EXCEPT ![c] = r]
    BY <1>6, <1>0 DEF BaseComplexity, Become
  <2> QED BY <2>4, <2>5 DEF Turn
<1>7. ASSUME Compared(c) PROVE \E r \in Call : Turn(c, r)
  <2> DEFINE r == [caller[c] EXCEPT !.at = "truncate", !.file = "complexity", !.gen = "now",
                                    !.base = NoBase]
  <2>1. r \in Call /\ Shape(r)
    BY <1>0, <1>7 DEF Compared, Call, Shape, Phase, File, Early, Bases, Writing, Rotating
  <2>2. caller' = [caller EXCEPT ![c] = r]
    BY <1>7, <1>0 DEF Compared
  <2> QED BY <2>1, <2>2 DEF Turn
<1>8. ASSUME Kill(c) PROVE \E r \in Call : Turn(c, r)
  BY <1>8, IdleTyped DEF Kill, Turn, Become
<1> QED BY <1>1, <1>2, <1>4, <1>5, <1>6, <1>7, <1>8

\* Every quiet step leaves a caller that has what it needs.
LEMMA QuietTurns ==
  ASSUME Typed, NEW c \in Caller, Quiet(c)
  PROVE  /\ \E r \in Call : Turn(c, r)
         /\ UNCHANGED <<index, dir>> /\ faults' \in {faults, faults + 1} /\ faults' \in 0..MaxFault
<1>1. \E r \in Call : Turn(c, r)
  BY Reads, Looks DEF Quiet
<1>2. UNCHANGED <<index, dir>> /\ (UNCHANGED faults \/ Fault)
  BY DEF Quiet, Ask, Fingerprint, LoadMeta, LoadGraph, ReadNodes, ReadEdges, Check, Answer,
         BaseMeta, BaseGraph, BaseComplexity, Compared, Kill
<1>3. faults' \in {faults, faults + 1} /\ faults' \in 0..MaxFault
  BY <1>2, CacheAssumption DEF Typed, Fault
<1> QED BY <1>1, <1>2, <1>3

\* The steps that change files.
Stores(c) ==
  Evict(c) \/ Move(c) \/ Truncate(c) \/ Fill(c) \/ Publish(c) \/ StoreFails(c)

\* What a rotation leaves of a file.
LEMMA Rotates ==
  ASSUME Typed, NEW f \in File, dir' = Rotated(f)
  PROVE  /\ dir' \in [File -> [Generation -> Graph \cup Meta \cup Complexity \cup {Absent, Torn}]]
         /\ \A h \in File, k \in Generation : dir'[h][k] \in Content(h)
         /\ \A h \in File, k \in Generation :
              dir'[h][k] = IF h # f \/ k = "tmp" \/ dir[f].now = Absent THEN dir[h][k]
                           ELSE IF k = "prev" THEN dir[f].now ELSE Absent
<1> DEFINE C == Graph \cup Meta \cup Complexity \cup {Absent, Torn}
<1>1. dir \in [File -> [Generation -> C]] /\ dir[f].now \in C
  BY DEF Typed, Generation
<1>2. dir' = IF dir[f].now = Absent THEN dir
                                    ELSE [dir EXCEPT ![f] = [dir[f] EXCEPT !.prev = dir[f].now, !.now = Absent]]
  BY <1>1 DEF Rotated
<1>3. /\ dir' \in [File -> [Generation -> C]]
      /\ \A h \in File, k \in Generation :
              dir'[h][k] = IF h # f \/ k = "tmp" \/ dir[f].now = Absent THEN dir[h][k]
                           ELSE IF k = "prev" THEN dir[f].now ELSE Absent
  <2> HIDE DEF C
  <2>1. CASE dir[f].now = Absent
    BY <1>1, <1>2, <2>1
  <2>2. CASE dir[f].now # Absent
    <3> DEFINE n == [dir[f] EXCEPT !.prev = dir[f].now, !.now = Absent]
    <3>1. dir[f] \in [Generation -> C] /\ Absent \in C
      BY <1>1 DEF C
    <3>2. /\ n \in [Generation -> C]
          /\ \A k \in Generation :
               n[k] = IF k = "tmp" THEN dir[f][k] ELSE IF k = "prev" THEN dir[f].now ELSE Absent
      BY <1>1, <3>1 DEF Generation
    <3> HIDE DEF n
    <3>3. dir' = [dir EXCEPT ![f] = n]
      BY <1>2, <2>2 DEF n
    <3> QED BY <1>1, <2>2, <3>2, <3>3
  <2> QED BY <2>1, <2>2
<1>4. \A h \in File, k \in Generation : dir'[h][k] \in Content(h)
  <2> SUFFICES ASSUME NEW h \in File, NEW k \in Generation PROVE dir'[h][k] \in Content(h)
    OBVIOUS
  <2>1. dir[h][k] \in Content(h) /\ dir[f].now \in Content(f) /\ Absent \in Content(h)
    BY DEF Typed, Content, Generation
  <2> QED BY <1>3, <2>1
<1> QED BY <1>3, <1>4

\* What a replacement leaves of a file.
LEMMA Replaces ==
  ASSUME Typed, NEW f \in File, dir' = [dir EXCEPT ![f].now = dir[f].tmp, ![f].tmp = Absent]
  PROVE  /\ dir' \in [File -> [Generation -> Graph \cup Meta \cup Complexity \cup {Absent, Torn}]]
         /\ \A h \in File, k \in Generation : dir'[h][k] \in Content(h)
         /\ \A h \in File, k \in Generation :
              dir'[h][k] = IF h # f \/ k = "prev" THEN dir[h][k]
                           ELSE IF k = "now" THEN dir[f].tmp ELSE Absent
<1> DEFINE C == Graph \cup Meta \cup Complexity \cup {Absent, Torn}
<1>1. dir \in [File -> [Generation -> C]] /\ dir[f].tmp \in C
  BY DEF Typed, Generation
<1>2. dir' = [dir EXCEPT ![f] = [dir[f] EXCEPT !.now = dir[f].tmp, !.tmp = Absent]]
  BY <1>1
<1>3. /\ dir' \in [File -> [Generation -> C]]
      /\ \A h \in File, k \in Generation :
              dir'[h][k] = IF h # f \/ k = "prev" THEN dir[h][k]
                           ELSE IF k = "now" THEN dir[f].tmp ELSE Absent
  <2> DEFINE n == [dir[f] EXCEPT !.now = dir[f].tmp, !.tmp = Absent]
  <2>1. dir[f] \in [Generation -> C] /\ Absent \in C
    BY <1>1
  <2> HIDE DEF C
  <2>2. /\ n \in [Generation -> C]
        /\ \A k \in Generation :
             n[k] = IF k = "prev" THEN dir[f][k] ELSE IF k = "now" THEN dir[f].tmp ELSE Absent
    BY <1>1, <2>1 DEF Generation
  <2>3. dir' = [dir EXCEPT ![f] = n]
    BY <1>2
  <2> HIDE DEF n
  <2> QED BY <1>1, <2>2, <2>3
<1>4. \A h \in File, k \in Generation : dir'[h][k] \in Content(h)
  <2> SUFFICES ASSUME NEW h \in File, NEW k \in Generation PROVE dir'[h][k] \in Content(h)
    OBVIOUS
  <2>1. dir[h][k] \in Content(h) /\ dir[f].tmp \in Content(f) /\ Absent \in Content(h)
    BY DEF Typed, Content, Generation
  <2> QED BY <1>3, <2>1
<1> QED BY <1>3, <1>4

\* What a caller writes is what the file holds.
LEMMA Writes ==
  ASSUME Typed, NEW c \in Caller, caller[c].at \in Writing
  PROVE  caller[c].file \in File /\ Written(caller[c]) \in Content(caller[c].file)
<1>1. caller[c] \in Call /\ Shape(caller[c])
  BY DEF Typed
<1>2. /\ caller[c].graph \in Graph /\ caller[c].ids \in Version /\ caller[c].fingerprint \in Version
      /\ caller[c].fields \in BOOLEAN /\ caller[c].file \in File
      /\ caller[c].file = "complexity" => caller[c].own \in Version
  BY <1>1 DEF Call, Shape, Early, Writing
<1>3. caller[c].graph.nodes \in Version
  BY <1>2 DEF Graph
<1> QED BY <1>2, <1>3 DEF Written, Content, File, Meta, Complexity

\* The caller goes on with its next file, or has its graph.
LEMMA Goes ==
  ASSUME Typed, NEW c \in Caller, Stores(c)
  PROVE  \E r \in Call : Turn(c, r)
<1>0. caller \in [Caller -> Call] /\ caller[c] \in Call /\ Shape(caller[c])
  BY DEF Typed
<1>1. ASSUME NEW p \in {"move", "fill", "publish"}, Goto(c, p), caller[c].at \in Rotating \cup Writing,
             p = "move" => caller[c].at \in Rotating, p # "move" => caller[c].at \in Writing
      PROVE  \E r \in Call : Turn(c, r)
  <2> DEFINE r == [caller[c] EXCEPT !.at = p]
  <2>1. r \in Call /\ Shape(r)
    BY <1>0, <1>1 DEF Call, Shape, Phase, Early, Bases, Writing, Rotating
  <2>2. caller' = [caller EXCEPT ![c] = r]
    BY <1>0, <1>1 DEF Goto
  <2> QED BY <2>1, <2>2 DEF Turn
<1>6. ASSUME NEW r, caller[c].at \in {"check"} \cup Writing,
             \/ r = Idle
             \/ r = [caller[c] EXCEPT !.at = "truncate", !.file = "meta"]
             \/ r = [caller[c] EXCEPT !.at = "answer", !.file = "graph"]
      PROVE  r \in Call /\ Shape(r)
  <2>1. CASE r = Idle
    BY <2>1, IdleTyped
  <2>2. CASE r = [caller[c] EXCEPT !.at = "truncate", !.file = "meta"]
    BY <1>0, <1>6, <2>2 DEF Call, Shape, Phase, File, Early, Bases, Writing, Rotating
  <2>3. CASE r = [caller[c] EXCEPT !.at = "answer", !.file = "graph"]
    BY <1>0, <1>6, <2>3 DEF Call, Shape, Phase, File, Early, Bases, Writing, Rotating
  <2> QED BY <1>6, <2>1, <2>2, <2>3
<1>2. CASE Evict(c) \/ Truncate(c) \/ Fill(c)
  BY <1>1, <1>2 DEF Evict, Truncate, Fill, Rotating, Writing
<1>3. CASE Move(c)
  <2> DEFINE r == AfterMove(caller[c])
  <2>2. PICK p \in {"evict", "truncate"}, f \in File :
          r = [caller[c] EXCEPT !.at = p, !.file = f] /\ (p = "truncate" => f = "graph")
    BY DEF AfterMove, File
  <2> HIDE DEF r
  <2>1. r \in Call /\ Shape(r)
    BY <1>0, <1>3, <2>2 DEF Move, Call, Shape, Phase, Early, Bases, Writing, Rotating
  <2> QED BY <1>3, <2>1 DEF Turn, Move, Become, r
<1>4. CASE Publish(c)
  <2> DEFINE r == AfterFile(caller[c])
  <2>2. \/ r = Idle
        \/ r = [caller[c] EXCEPT !.at = "truncate", !.file = "meta"]
        \/ r = [caller[c] EXCEPT !.at = "answer", !.file = "graph"]
    BY DEF AfterFile
  <2> HIDE DEF r
  <2>1. r \in Call /\ Shape(r)
    BY <1>4, <1>6, <2>2 DEF Publish, Writing
  <2> QED BY <1>4, <2>1 DEF Turn, Publish, Become, r
<1>5. CASE StoreFails(c)
  <2> DEFINE r == IF caller[c].file = "complexity" THEN Idle
                                             ELSE [caller[c] EXCEPT !.at = "answer", !.file = "graph"]
  <2>1. r \in Call /\ Shape(r)
    BY <1>5, <1>6 DEF StoreFails, Writing
  <2> QED BY <1>5, <2>1 DEF Turn, StoreFails, GiveUp, Become
<1> QED BY <1>2, <1>3, <1>4, <1>5 DEF Stores

\* Every step keeps the types.
LEMMA NextTyped ==
  ASSUME Typed, [Next]_vars
  PROVE  Typed'
<1>0. /\ caller \in [Caller -> Call] /\ index \in Version /\ faults \in 0..MaxFault
      /\ dir \in [File -> [Generation -> Graph \cup Meta \cup Complexity \cup {Absent, Torn}]]
      /\ \A f \in File, g \in Generation : dir[f][g] \in Content(f)
  BY DEF Typed
<1> DEFINE Dir == /\ dir' \in [File -> [Generation -> Graph \cup Meta \cup Complexity \cup {Absent, Torn}]]
                  /\ \A f \in File, g \in Generation : dir'[f][g] \in Content(f)
<1>1. CASE Sync
  BY <1>0, <1>1 DEF Sync, Typed
<1>2. ASSUME NEW c \in Caller, NEW r \in Call, Turn(c, r), index' = index, faults' \in 0..MaxFault, Dir
      PROVE  Typed'
  BY <1>0, <1>2, Becomes DEF Typed, Turn
<1>3. ASSUME NEW c \in Caller, Quiet(c) PROVE Typed'
  BY <1>0, <1>2, <1>3, QuietTurns
<1>4. ASSUME NEW c \in Caller, Stores(c) PROVE Typed'
  <2>1. PICK r \in Call : Turn(c, r)
    BY <1>4, Goes
  <2>2. index' = index /\ (UNCHANGED faults \/ Fault)
    BY <1>4 DEF Stores, Evict, Move, Truncate, Fill, Publish, StoreFails
  <2>3. faults' \in 0..MaxFault
    BY <1>0, <2>2, CacheAssumption DEF Fault
  <2>4. caller[c].file \in File
    BY <1>0 DEF Call
  <2>5. Dir
    <3>0. Absent \in Content(caller[c].file) /\ Torn \in Content(caller[c].file)
      BY DEF Content
    <3>1. CASE Evict(c)
      BY <1>0, <2>4, <3>0, <3>1, Puts DEF Evict, Generation
    <3>2. CASE Move(c)
      BY <1>0, <2>4, <3>2, Rotates DEF Move
    <3>3. CASE Truncate(c)
      BY <2>4, <3>0, <3>3, Puts DEF Truncate, Generation
    <3>4. CASE Fill(c)
      BY <2>4, <3>4, Writes, Puts DEF Fill, Generation, Writing
    <3>5. CASE Publish(c)
      BY <2>4, <3>5, Replaces DEF Publish
    <3>6. CASE StoreFails(c)
      BY <1>0, <2>4, <3>0, <3>6, Puts DEF StoreFails, Generation
    <3> QED BY <1>4, <3>1, <3>2, <3>3, <3>4, <3>5, <3>6 DEF Stores
  <2> QED BY <1>2, <2>1, <2>2, <2>3, <2>5
<1>5. CASE UNCHANGED vars
  BY <1>5 DEF vars, Typed
<1> QED BY <1>1, <1>3, <1>4, <1>5 DEF Next, CallStep, CutOff, Quiet, Stores

\* Files, index and callers keep their types through every interleaving of
\* stores and reads, and every file holds what belongs in it, or is torn
\* (store_cache writes a temporary file and renames it).
THEOREM TypesHold == Spec => []TypeOK
<1>1. Init => Typed
  <2> SUFFICES ASSUME Init PROVE Typed
    OBVIOUS
  <2>1. \A f \in File, g \in Generation : dir[f][g] \in Content(f)
    BY DEF Init, Content
  <2> QED BY <2>1, IdleTyped, CacheAssumption DEF Init, Typed
<1>2. Typed /\ [Next]_vars => Typed'
  BY NextTyped
<1>3. Typed => TypeOK
  <2> SUFFICES ASSUME Typed PROVE TypeOK
    OBVIOUS
  <2>1. /\ dir.graph \in [Generation -> Graph \cup {Absent, Torn}]
        /\ dir.meta \in [Generation -> Meta \cup {Absent, Torn}]
        /\ dir.complexity \in [Generation -> Complexity \cup {Absent, Torn}]
    BY Contents DEF Typed, File
  <2> QED BY <2>1 DEF Typed, TypeOK, Call
<1> QED BY <1>1, <1>2, <1>3, PTL DEF Spec

-----------------------------------------------------------------------------
(* The invariant of the surroundings the cache is good for                   *)

\* The files of a generation that is in place were written as a whole, each from
\* one state of the index.
Sound ==
  \A g \in {"now", "prev"} :
    /\ dir.graph[g] # Torn /\ dir.meta[g] # Torn /\ dir.complexity[g] # Torn
    /\ dir.graph[g] # Absent => dir.graph[g].nodes = dir.graph[g].edges
    /\ dir.meta[g] # Absent => dir.meta[g].ids = dir.meta[g].fingerprint
    /\ dir.complexity[g] # Absent => dir.complexity[g].of = dir.complexity[g].fingerprint

\* A caller has the graph of its fingerprint once it has one, and the base it
\* looks at is one generation.
CallInv(c) ==
  LET r == caller[c] IN
  /\ r.at = "idle" => r = Idle
  /\ r.at \in Early => ~r.cached
  /\ r.at \notin {"idle", "fingerprint"} /\ r.diff => r.own = r.fingerprint
  /\ r.at = "readEdges" => r.ids = r.fingerprint
  /\ r.at \notin Early => /\ r.graph.nodes = r.fingerprint /\ r.graph.edges = r.fingerprint
                          /\ r.graph.fields = r.fields /\ r.ids = r.fingerprint
  /\ r.at \notin Bases => r.gen = "now" /\ r.base = NoBase
  /\ r.at \in {"baseMeta", "baseGraph"} => r.base.graph = Absent
  /\ r.at \in {"baseGraph", "baseComplexity", "compared"} =>
       r.base.fingerprint \in Version /\ r.base.fingerprint # r.own
  /\ r.at \in {"baseComplexity", "compared"} =>
       /\ r.base.graph \in Graph
       /\ r.base.graph.nodes = r.base.fingerprint /\ r.base.graph.edges = r.base.fingerprint
  /\ r.at = "compared" => r.base.complexity \in {Absent, r.base.fingerprint}

\* What a caller saw in a meta is still there when it comes to the graph.
SeenInv(c) ==
  LET r == caller[c] IN
  /\ r.at = "loadGraph" =>
       /\ dir.meta.now # Absent /\ dir.meta.now.fingerprint = r.fingerprint
       /\ dir.meta.now.fields = r.fields /\ r.ids = r.fingerprint
  /\ r.at = "baseGraph" => dir.meta[r.gen] # Absent /\ dir.meta[r.gen].fingerprint = r.base.fingerprint

\* Graph x is the one meta m was written for.
Of(x, m) == x.nodes = m.fingerprint /\ x.fields = m.fields

\* The files while a caller stores: what it rotates is of another index, and
\* halfway through a rotation the graph that goes with meta.json is the only one.
StoreInv(c) ==
  LET r == caller[c] IN
  /\ r.at = "fill" => dir[r.file].tmp = Torn
  /\ r.at = "publish" => dir[r.file].tmp = Written(r)
  /\ r.at \in Rotating /\ r.file \in {"graph", "meta"} =>
       dir.meta.now # Absent /\ dir.meta.now.fingerprint # r.fingerprint
  /\ r.at \in Rotating /\ r.file = "meta" =>
       /\ dir.graph.now # Absent => Of(dir.graph.now, dir.meta.now) /\ dir.graph.prev = Absent
       /\ dir.graph.prev # Absent => Of(dir.graph.prev, dir.meta.now)
  /\ r.at \in Writing /\ r.file = "meta" => dir.graph.now = r.graph /\ ~Mixed("prev")
  /\ faults = 0 /\ r.at \in Rotating /\ r.file = "complexity" => dir.meta.now = Absent
  /\ faults = 0 /\ r.at \in Writing /\ r.file = "graph" =>
       dir.meta.now = Absent \/ dir.meta.now.fingerprint = r.fingerprint

\* The generations while nobody is at a meta, and a meta that has lost its graph
\* to a fault.
GenInv ==
  /\ (\A c \in Caller : Storing(c) => caller[c].file # "meta") => ~Mixed("now") /\ ~Mixed("prev")
  /\ dir.meta.now # Absent /\ dir.graph.now = Absent /\ dir.graph.prev # Absent =>
       Of(dir.graph.prev, dir.meta.now)
  /\ faults = 0 /\ dir.meta.now # Absent =>
       IF Turning THEN dir.graph.now = Absent /\ dir.graph.prev # Absent ELSE dir.graph.now # Absent

CacheInv ==
  /\ Typed /\ Apart /\ Sound
  /\ \A c \in Caller : CallInv(c) /\ SeenInv(c) /\ StoreInv(c)
  /\ GenInv

\* The other callers keep what they know: nobody stores between their files.
LEMMA OthersKeep ==
  ASSUME CacheInv, NEW c \in Caller, \A d \in Caller \ {c} : caller'[d] = caller[d],
         Storing(c) \/ dir' = dir, faults' \in {faults, faults + 1}
  PROVE  \A d \in Caller \ {c} : CallInv(d)' /\ SeenInv(d)' /\ StoreInv(d)'
<1> SUFFICES ASSUME NEW d \in Caller \ {c} PROVE CallInv(d)' /\ SeenInv(d)' /\ StoreInv(d)'
  OBVIOUS
<1>0. /\ CallInv(d) /\ SeenInv(d) /\ StoreInv(d) /\ caller'[d] = caller[d]
      /\ faults' = 0 => faults = 0
  BY DEF CacheInv, Typed
<1>1. CallInv(d)'
  BY <1>0 DEF CallInv
<1>2. CASE dir' = dir
  <2>1. SeenInv(d)'
    BY <1>0, <1>2 DEF SeenInv
  <2>2. StoreInv(d)'
    BY <1>0, <1>2 DEF StoreInv, Mixed
  <2> QED BY <1>1, <2>1, <2>2
<1>3. CASE Storing(c)
  <2>1. ~InFiles(d)
    BY <1>3 DEF CacheInv, Apart
  <2>2. SeenInv(d)'
    BY <1>0, <2>1 DEF SeenInv, InFiles
  <2>3. StoreInv(d)'
    BY <1>0, <2>1 DEF StoreInv, InFiles, Storing, Rotating, Writing
  <2> QED BY <1>1, <2>2, <2>3
<1> QED BY <1>2, <1>3

\* Nobody else stores while a caller is between its files.
LEMMA Alone ==
  ASSUME CacheInv, NEW c \in Caller, InFiles(c)
  PROVE  /\ \A d \in Caller \ {c} : ~Storing(d)
         /\ Turning <=> caller[c].at \in Rotating /\ caller[c].file = "meta"
         /\ ~Storing(c) \/ caller[c].file # "meta" => ~Mixed("now") /\ ~Mixed("prev")
<1>1. \A d \in Caller \ {c} : ~Storing(d)
  BY DEF CacheInv, Apart
<1>2. Turning <=> caller[c].at \in Rotating /\ caller[c].file = "meta"
  BY <1>1 DEF Turning, Storing, Rotating
<1> QED BY <1>1, <1>2 DEF CacheInv, GenInv

\* The generations stay as they are while a caller looks or thinks.
LEMMA StillGen ==
  ASSUME CacheInv, NEW c \in Caller, \A d \in Caller \ {c} : caller'[d] = caller[d],
         dir' = dir, faults' \in {faults, faults + 1},
         caller[c].at \notin Rotating \cup Writing, 
         caller[c].file # "meta", caller'[c].file # "meta"
  PROVE  GenInv'
<1>0. GenInv /\ (faults' = 0 => faults = 0)
  BY DEF CacheInv, Typed
<1>1. Turning' <=> Turning
  BY DEF Turning
<1>2. (\A d \in Caller : Storing(d) => caller[d].file # "meta")'
      => (\A d \in Caller : Storing(d) => caller[d].file # "meta")
  BY DEF Storing
<1> QED BY <1>0, <1>1, <1>2 DEF GenInv, Mixed

\* The step of one caller that leaves the files alone: what is left to show is
\* what that caller knows.
LEMMA QuietFrame ==
  ASSUME CacheInv, OrderlyNext, NEW c \in Caller, Quiet(c),
         caller[c].at \notin Rotating \cup Writing, caller'[c].file # "meta",
         CallInv(c)' /\ SeenInv(c)' /\ StoreInv(c)'
  PROVE  CacheInv'
<1>1. Typed /\ Typed' /\ Apart' /\ index' = index /\ dir' = dir /\ faults' \in {faults, faults + 1}
  BY QuietTurns, NextTyped DEF CacheInv, OrderlyNext
<1>2. \A d \in Caller \ {c} : caller'[d] = caller[d]
  BY <1>1, QuietTurns, Becomes DEF Turn
<1>3. Sound'
  BY <1>1 DEF CacheInv, Sound
<1>4. caller[c].file # "meta"
  BY <1>1 DEF Typed, Shape
<1>5. GenInv'
  BY <1>1, <1>2, <1>4, StillGen
<1> QED BY <1>1, <1>2, <1>3, <1>5, OthersKeep DEF CacheInv

\* A caller that asks, and one that fingerprints, knows no more than the index.
LEMMA AskKeeps ==
  ASSUME CacheInv, OrderlyNext, NEW c \in Caller, Ask(c)
  PROVE  CacheInv'
<1>1. PICK q \in Asks[c] :
          caller' = [caller EXCEPT ![c] = [Idle EXCEPT !.at = "fingerprint", !.fields = q.fields,
                        !.diff = q.diff, !.useCache = q.useCache,
                        !.own = IF q.diff THEN index ELSE Absent]]
  BY DEF Ask, Become
<1>2. caller \in [Caller -> Call]
  BY DEF CacheInv, Typed
<1>3. /\ caller'[c].at = "fingerprint" /\ caller'[c].file = "graph" /\ caller'[c].cached = FALSE
      /\ caller'[c].gen = "now" /\ caller'[c].base = NoBase
  BY <1>1, <1>2 DEF Idle
<1>4. CallInv(c)' /\ SeenInv(c)' /\ StoreInv(c)'
  BY <1>3 DEF CallInv, SeenInv, StoreInv, Early, Bases, Rotating, Writing
<1> QED BY <1>3, <1>4, QuietFrame DEF Quiet, Ask, Rotating, Writing

\* The fingerprint is the one a diff computed on its own: nobody synced between.
LEMMA FingerprintKeeps ==
  ASSUME CacheInv, OrderlyNext, NEW c \in Caller, Fingerprint(c)
  PROVE  CacheInv'
<1>1. /\ caller \in [Caller -> Call] /\ caller[c] \in Call /\ CallInv(c) /\ Shape(caller[c])
  BY DEF CacheInv, Typed
<1>2. /\ caller'[c].at \in {"loadMeta", "readNodes"} /\ caller'[c].file = caller[c].file
      /\ caller'[c].cached = caller[c].cached /\ caller'[c].gen = caller[c].gen
      /\ caller'[c].base = caller[c].base
      /\ caller'[c].diff = caller[c].diff /\ caller'[c].own = caller[c].own
  BY <1>1 DEF Fingerprint, Become
<1>3. caller'[c].diff => caller'[c].own = caller'[c].fingerprint
  <2>1. caller'[c].own \in {Absent, caller'[c].fingerprint}
    BY <1>2 DEF OrderlyNext, Settled
  <2> QED BY <1>1, <1>2, <2>1, CacheAssumption DEF Shape
<1>4. CallInv(c)' /\ SeenInv(c)' /\ StoreInv(c)'
  BY <1>1, <1>2, <1>3 DEF Fingerprint, CallInv, SeenInv, StoreInv, Early, Bases, Rotating, Writing
<1> QED BY <1>1, <1>2, <1>4, QuietFrame DEF Quiet, Fingerprint, Rotating, Writing, Shape

\* A meta.json that fits was written with the id map of its fingerprint.
LEMMA LoadMetaKeeps ==
  ASSUME CacheInv, OrderlyNext, NEW c \in Caller, LoadMeta(c)
  PROVE  CacheInv'
<1>1. /\ caller \in [Caller -> Call] /\ caller[c] \in Call /\ CallInv(c) /\ Shape(caller[c])
      /\ dir' = dir
  BY DEF CacheInv, Typed, LoadMeta
<1>2. CASE Hit(dir.meta.now, caller[c])
  <2>1. caller' = [caller EXCEPT ![c].at = "loadGraph", ![c].ids = dir.meta.now.ids]
    BY <1>2 DEF LoadMeta
  <2>2. caller'[c] = [caller[c] EXCEPT !.at = "loadGraph", !.ids = dir.meta.now.ids]
    BY <1>1, <2>1
  <2>3. /\ dir.meta.now # Absent /\ dir.meta.now.fingerprint = caller[c].fingerprint
        /\ dir.meta.now.fields = caller[c].fields /\ dir.meta.now.ids = dir.meta.now.fingerprint
    BY <1>2 DEF Hit, Readable, CacheInv, Sound
  <2>4. CallInv(c)' /\ SeenInv(c)' /\ StoreInv(c)'
    BY <1>1, <2>2, <2>3 DEF LoadMeta, CallInv, SeenInv, StoreInv, Call, Early, Bases, Rotating, Writing
  <2> QED BY <1>1, <2>2, <2>4, QuietFrame DEF Quiet, LoadMeta, Rotating, Writing, Shape, Call
<1>3. CASE ~Hit(dir.meta.now, caller[c])
  <2>2. caller'[c] = [caller[c] EXCEPT !.at = "readNodes"]
    BY <1>1, <1>3 DEF LoadMeta, Goto
  <2>4. CallInv(c)' /\ SeenInv(c)' /\ StoreInv(c)'
    BY <1>1, <2>2 DEF LoadMeta, CallInv, SeenInv, StoreInv, Call, Early, Bases, Rotating, Writing
  <2> QED BY <1>1, <2>2, <2>4, QuietFrame DEF Quiet, LoadMeta, Rotating, Writing, Shape, Call
<1> QED BY <1>2, <1>3

\* The graph next to it is that of the meta: nobody rotates between the two.
LEMMA LoadGraphKeeps ==
  ASSUME CacheInv, OrderlyNext, NEW c \in Caller, LoadGraph(c)
  PROVE  CacheInv'
<1>1. /\ caller \in [Caller -> Call] /\ caller[c] \in Call /\ CallInv(c) /\ SeenInv(c) /\ Shape(caller[c])
      /\ dir' = dir
  BY DEF CacheInv, Typed, LoadGraph
<1>2. CASE Readable(dir.graph.now)
  <2>1. caller'[c] = [caller[c] EXCEPT !.at = "answer", !.graph = dir.graph.now, !.cached = TRUE]
    BY <1>1, <1>2 DEF LoadGraph
  <2>2. ~Mixed("now") /\ Readable(dir.meta.now)
    BY <1>1, Alone DEF LoadGraph, InFiles, Storing, SeenInv, Readable, CacheInv, Sound
  <2>3. /\ dir.graph.now.nodes = caller[c].fingerprint /\ dir.graph.now.edges = caller[c].fingerprint
        /\ dir.graph.now.fields = caller[c].fields /\ caller[c].ids = caller[c].fingerprint
    BY <1>1, <1>2, <2>2 DEF LoadGraph, SeenInv, Mixed, Readable, CacheInv, Sound
  <2>4. CallInv(c)' /\ SeenInv(c)' /\ StoreInv(c)'
    BY <1>1, <2>1, <2>3 DEF LoadGraph, CallInv, SeenInv, StoreInv, Call, Early, Bases, Rotating, Writing
  <2> QED BY <1>1, <2>1, <2>4, QuietFrame DEF Quiet, LoadGraph, Rotating, Writing, Shape, Call
<1>3. CASE ~Readable(dir.graph.now)
  <2>2. caller'[c] = [caller[c] EXCEPT !.at = "readNodes"]
    BY <1>1, <1>3 DEF LoadGraph, Goto
  <2>4. CallInv(c)' /\ SeenInv(c)' /\ StoreInv(c)'
    BY <1>1, <2>2 DEF LoadGraph, CallInv, SeenInv, StoreInv, Call, Early, Bases, Rotating, Writing
  <2> QED BY <1>1, <2>2, <2>4, QuietFrame DEF Quiet, LoadGraph, Rotating, Writing, Shape, Call
<1> QED BY <1>2, <1>3

\* Id map and edges are read while the index stays as fingerprinted.
LEMMA ReadNodesKeeps ==
  ASSUME CacheInv, OrderlyNext, NEW c \in Caller, ReadNodes(c)
  PROVE  CacheInv'
<1>1. /\ caller \in [Caller -> Call] /\ caller[c] \in Call /\ CallInv(c) /\ Shape(caller[c])
  BY DEF CacheInv, Typed
<1>2. caller'[c] = [caller[c] EXCEPT !.at = "readEdges", !.ids = index]
  BY <1>1 DEF ReadNodes
<1>3. caller'[c].ids = caller'[c].fingerprint
  BY <1>1, <1>2 DEF OrderlyNext, Settled, Call
<1>4. CallInv(c)' /\ SeenInv(c)' /\ StoreInv(c)'
  BY <1>1, <1>2, <1>3 DEF ReadNodes, CallInv, SeenInv, StoreInv, Call, Early, Bases, Rotating, Writing
<1> QED BY <1>1, <1>2, <1>4, QuietFrame DEF Quiet, ReadNodes, Rotating, Writing, Shape, Call

\* The same for the edges: the graph is of one state of the index.
LEMMA ReadEdgesKeeps ==
  ASSUME CacheInv, OrderlyNext, NEW c \in Caller, ReadEdges(c)
  PROVE  CacheInv'
<1>1. /\ caller \in [Caller -> Call] /\ caller[c] \in Call /\ CallInv(c) /\ Shape(caller[c])
  BY DEF CacheInv, Typed
<1>2. caller'[c] = [caller[c] EXCEPT !.at = "check",
                  !.graph = [nodes |-> caller[c].ids, edges |-> index, fields |-> caller[c].fields]]
  BY <1>1 DEF ReadEdges
<1>3. caller'[c].graph.edges = caller'[c].fingerprint
  BY <1>1, <1>2 DEF OrderlyNext, Settled, Call
<1>4. CallInv(c)' /\ SeenInv(c)' /\ StoreInv(c)'
  BY <1>1, <1>2, <1>3 DEF ReadEdges, CallInv, SeenInv, StoreInv, Call, Early, Bases, Rotating, Writing
<1> QED BY <1>1, <1>2, <1>4, QuietFrame DEF Quiet, ReadEdges, Rotating, Writing, Shape, Call

\* A rotation begins with a meta of another index in place.
LEMMA CheckKeeps ==
  ASSUME CacheInv, OrderlyNext, NEW c \in Caller, Check(c)
  PROVE  CacheInv'
<1>1. /\ caller \in [Caller -> Call] /\ caller[c] \in Call /\ CallInv(c) /\ Shape(caller[c])
      /\ dir' = dir /\ faults \in Nat /\ faults' \in Nat
  BY CacheAssumption DEF CacheInv, Typed, Check, Fault
<1>2. \/ /\ MustRotate(dir.meta.now, caller[c]) /\ caller'[c] = [caller[c] EXCEPT !.at = "evict"]
      \/ /\ caller'[c] = [caller[c] EXCEPT !.at = "truncate"]
         /\ ~MustRotate(dir.meta.now, caller[c]) \/ faults' # 0
  BY <1>1 DEF Check, Goto, Fault
<1>3. dir.meta.now # Torn
  BY DEF CacheInv, Sound
<1>4. caller'[c].file = "graph"
  BY <1>1, <1>2 DEF Check, Shape, Rotating, Writing, Call
<1>5. CallInv(c)' /\ SeenInv(c)'
  BY <1>1, <1>2 DEF Check, CallInv, SeenInv, Call, Early, Bases
<1>6. StoreInv(c)'
  BY <1>1, <1>2, <1>3, <1>4 DEF StoreInv, MustRotate, Readable, Call, Rotating, Writing
<1> QED BY <1>1, <1>4, <1>5, <1>6, QuietFrame DEF Quiet, Check, Rotating, Writing

\* An answer ends a call, or begins the search for a base.
LEMMA AnswerKeeps ==
  ASSUME CacheInv, OrderlyNext, NEW c \in Caller, Answer(c)
  PROVE  CacheInv'
<1>1. /\ caller \in [Caller -> Call] /\ caller[c] \in Call /\ CallInv(c) /\ Shape(caller[c])
  BY DEF CacheInv, Typed
<1>2. \/ caller'[c] = [caller[c] EXCEPT !.at = "baseMeta"]
      \/ caller'[c] = Idle
  BY <1>1 DEF Answer, Goto, Become
<1>3. CallInv(c)' /\ SeenInv(c)' /\ StoreInv(c)'
  <2>1. CASE caller'[c] = [caller[c] EXCEPT !.at = "baseMeta"]
    BY <1>1, <2>1 DEF Answer, CallInv, SeenInv, StoreInv, Call, Early, Bases, Rotating, Writing, NoBase
  <2>2. CASE caller'[c] = Idle
    BY <2>2 DEF CallInv, SeenInv, StoreInv, Early, Bases, Rotating, Writing, Idle
  <2> QED BY <1>2, <2>1, <2>2
<1>4. caller[c].file = "graph" /\ Idle.file = "graph"
  BY <1>1 DEF Answer, Shape, Rotating, Writing, Idle
<1>5. caller'[c].file = "graph"
  BY <1>1, <1>2, <1>4 DEF Call
<1> QED BY <1>3, <1>5, QuietFrame DEF Quiet, Answer, Rotating, Writing

\* A generation that does not serve leaves nothing of itself in the base.
LEMMA Passes ==
  ASSUME CacheInv, NEW c \in Caller, caller[c].at \in {"baseMeta", "baseGraph"},
         caller' = [caller EXCEPT ![c] = Pass(caller[c])]
  PROVE  CallInv(c)' /\ SeenInv(c)' /\ StoreInv(c)' /\ caller'[c].file # "meta"
<1>1. /\ caller \in [Caller -> Call] /\ caller[c] \in Call /\ CallInv(c) /\ Shape(caller[c])
  BY DEF CacheInv, Typed
<1>2. \/ caller'[c] = [caller[c] EXCEPT !.at = "baseMeta", !.gen = "prev", !.base = NoBase]
      \/ caller'[c] = Idle
  BY <1>1 DEF Pass
<1>3. CASE caller'[c] = Idle
  BY <1>3 DEF CallInv, SeenInv, StoreInv, Early, Bases, Rotating, Writing, Idle
<1>4. CASE caller'[c] = [caller[c] EXCEPT !.at = "baseMeta", !.gen = "prev", !.base = NoBase]
  <2>1. /\ caller'[c].at = "baseMeta" /\ caller'[c].base = NoBase /\ NoBase.graph = Absent
        /\ caller'[c].file = caller[c].file /\ caller'[c].diff = caller[c].diff
        /\ caller'[c].own = caller[c].own /\ caller'[c].fingerprint = caller[c].fingerprint
        /\ caller'[c].ids = caller[c].ids /\ caller'[c].graph = caller[c].graph
        /\ caller'[c].fields = caller[c].fields
    BY <1>1, <1>4 DEF Call, NoBase
  <2>2. CallInv(c)'
    BY <1>1, <2>1 DEF CallInv, Early, Bases
  <2>3. SeenInv(c)' /\ StoreInv(c)' /\ caller'[c].file # "meta"
    BY <1>1, <2>1 DEF SeenInv, StoreInv, Shape, Rotating, Writing
  <2> QED BY <2>2, <2>3
<1> QED BY <1>2, <1>3, <1>4

\* The base is labelled with the fingerprint of a meta of another index.
LEMMA BaseMetaKeeps ==
  ASSUME CacheInv, OrderlyNext, NEW c \in Caller, BaseMeta(c)
  PROVE  CacheInv'
<1>1. /\ caller \in [Caller -> Call] /\ caller[c] \in Call /\ CallInv(c) /\ Shape(caller[c])
      /\ dir' = dir
  BY DEF CacheInv, Typed, BaseMeta
<1> DEFINE m == dir.meta[caller[c].gen]
<1>2. CASE Readable(m) /\ m.fingerprint # caller[c].own
  <2>1. caller'[c] = [caller[c] EXCEPT !.at = "baseGraph", !.base.fingerprint = m.fingerprint]
    BY <1>1, <1>2 DEF BaseMeta, Become
  <2>2. m.fingerprint \in Version /\ m # Absent
    <3>1. m \in Meta
      BY <1>1, <1>2, Contents DEF Readable, Call, Generation, CacheInv
    <3> QED BY <1>2, <3>1 DEF Meta, Readable
  <2>3. caller[c].base \in Base
    BY <1>1 DEF Call
  <2>4. caller'[c].base = [caller[c].base EXCEPT !.fingerprint = m.fingerprint]
    BY <1>1, <2>1 DEF Call
  <2>5. caller'[c].base.fingerprint = m.fingerprint /\ caller'[c].base.graph = caller[c].base.graph
    BY <2>3, <2>4 DEF Base
  <2>6. CallInv(c)' /\ SeenInv(c)' /\ StoreInv(c)' /\ caller'[c].file # "meta"
    BY <1>1, <1>2, <2>1, <2>2, <2>5 DEF BaseMeta, CallInv, SeenInv, StoreInv, Call, Shape, Early, Bases, Rotating, Writing
  <2> QED BY <2>6, QuietFrame DEF Quiet, BaseMeta, Rotating, Writing
<1>3. CASE ~(Readable(m) /\ m.fingerprint # caller[c].own)
  <2>1. caller' = [caller EXCEPT ![c] = Pass(caller[c])]
    BY <1>3 DEF BaseMeta, Become
  <2>2. CallInv(c)' /\ SeenInv(c)' /\ StoreInv(c)' /\ caller'[c].file # "meta"
    BY <2>1, Passes DEF BaseMeta
  <2> QED BY <2>2, QuietFrame DEF Quiet, BaseMeta, Rotating, Writing
<1> QED BY <1>2, <1>3

\* The graph of the base is the one of its label: nobody rotates between the two.
LEMMA BaseGraphKeeps ==
  ASSUME CacheInv, OrderlyNext, NEW c \in Caller, BaseGraph(c)
  PROVE  CacheInv'
<1>1. /\ caller \in [Caller -> Call] /\ caller[c] \in Call /\ CallInv(c) /\ SeenInv(c)
      /\ Shape(caller[c]) /\ dir' = dir /\ caller[c].gen \in {"now", "prev"}
  BY DEF CacheInv, Typed, BaseGraph, Call
<1> DEFINE g == dir.graph[caller[c].gen]
<1>2. CASE Readable(g)
  <2>1. caller'[c] = [caller[c] EXCEPT !.at = "baseComplexity", !.base.graph = g]
    BY <1>1, <1>2 DEF BaseGraph, Become
  <2>2. g \in Graph
    BY <1>1, <1>2, Contents DEF Readable, Generation, CacheInv
  <2>3. ~Mixed(caller[c].gen) /\ Readable(dir.meta[caller[c].gen])
    BY <1>1, Alone DEF BaseGraph, InFiles, Storing, SeenInv, Readable, CacheInv, Sound
  <2>4. g.nodes = caller[c].base.fingerprint /\ g.edges = g.nodes
    BY <1>1, <1>2, <2>3 DEF BaseGraph, SeenInv, Mixed, Readable, CacheInv, Sound
  <2>5. caller[c].base \in Base
    BY <1>1 DEF Call
  <2>6. caller'[c].base = [caller[c].base EXCEPT !.graph = g]
    BY <1>1, <2>1 DEF Call
  <2>7. caller'[c].base.fingerprint = caller[c].base.fingerprint /\ caller'[c].base.graph = g
    BY <2>5, <2>6 DEF Base
  <2>8. /\ caller'[c].at = "baseComplexity"
        /\ caller'[c].file = caller[c].file /\ caller'[c].diff = caller[c].diff
        /\ caller'[c].own = caller[c].own /\ caller'[c].fingerprint = caller[c].fingerprint
        /\ caller'[c].ids = caller[c].ids /\ caller'[c].graph = caller[c].graph
        /\ caller'[c].fields = caller[c].fields
    BY <1>1, <2>1 DEF Call
  <2>9. CallInv(c)'
    BY <1>1, <2>2, <2>4, <2>7, <2>8 DEF BaseGraph, CallInv, Early, Bases
  <2>10. SeenInv(c)' /\ StoreInv(c)' /\ caller'[c].file # "meta"
    BY <1>1, <2>8 DEF BaseGraph, SeenInv, StoreInv, Shape, Rotating, Writing
  <2> QED BY <2>9, <2>10, QuietFrame DEF Quiet, BaseGraph, Rotating, Writing
<1>3. CASE ~Readable(g)
  <2>1. caller' = [caller EXCEPT ![c] = Pass(caller[c])]
    BY <1>3 DEF BaseGraph, Become
  <2>2. CallInv(c)' /\ SeenInv(c)' /\ StoreInv(c)' /\ caller'[c].file # "meta"
    BY <2>1, Passes DEF BaseGraph
  <2> QED BY <2>2, QuietFrame DEF Quiet, BaseGraph, Rotating, Writing
<1> QED BY <1>2, <1>3

\* A complexity is taken by its own label.
LEMMA BaseComplexityKeeps ==
  ASSUME CacheInv, OrderlyNext, NEW c \in Caller, BaseComplexity(c)
  PROVE  CacheInv'
<1>1. /\ caller \in [Caller -> Call] /\ caller[c] \in Call /\ CallInv(c)
      /\ Shape(caller[c]) /\ dir' = dir /\ caller[c].gen \in {"now", "prev"} /\ caller[c].base \in Base
  BY DEF CacheInv, Typed, BaseComplexity, Call
<1> DEFINE x == dir.complexity[caller[c].gen]
           y == IF Measured(x, caller[c].base.fingerprint) THEN x.of ELSE Absent
<1>2. caller'[c] = [caller[c] EXCEPT !.at = "compared", !.base.complexity = y]
  BY <1>1 DEF BaseComplexity, Become
<1>3. y \in {Absent, caller[c].base.fingerprint}
  BY <1>1 DEF Measured, Readable, CacheInv, Sound
<1>4. caller'[c].base = [caller[c].base EXCEPT !.complexity = y]
  BY <1>1, <1>2 DEF Call
<1>5. /\ caller'[c].base.fingerprint = caller[c].base.fingerprint
      /\ caller'[c].base.graph = caller[c].base.graph
      /\ caller'[c].base.complexity = y
  BY <1>1, <1>4 DEF Base
<1>6. /\ caller'[c].at = "compared"
      /\ caller'[c].file = caller[c].file /\ caller'[c].diff = caller[c].diff
      /\ caller'[c].own = caller[c].own /\ caller'[c].fingerprint = caller[c].fingerprint
      /\ caller'[c].ids = caller[c].ids /\ caller'[c].graph = caller[c].graph
      /\ caller'[c].fields = caller[c].fields
  BY <1>1, <1>2 DEF Call
<1>7. CallInv(c)'
  <2> HIDE DEF y
  <2> QED BY <1>1, <1>3, <1>5, <1>6 DEF BaseComplexity, CallInv, Early, Bases
<1>8. SeenInv(c)' /\ StoreInv(c)' /\ caller'[c].file # "meta"
  BY <1>1, <1>6 DEF BaseComplexity, SeenInv, StoreInv, Shape, Rotating, Writing
<1> QED BY <1>7, <1>8, QuietFrame DEF Quiet, BaseComplexity, Rotating, Writing

\* After the comparison the base is forgotten, and the complexity is stored.
LEMMA ComparedKeeps ==
  ASSUME CacheInv, OrderlyNext, NEW c \in Caller, Compared(c)
  PROVE  CacheInv'
<1>1. /\ caller \in [Caller -> Call] /\ caller[c] \in Call /\ CallInv(c) /\ Shape(caller[c])
  BY DEF CacheInv, Typed
<1>2. caller'[c] = [caller[c] EXCEPT !.at = "truncate", !.file = "complexity", !.gen = "now",
                                     !.base = NoBase]
  BY <1>1 DEF Compared
<1>3. CallInv(c)' /\ SeenInv(c)' /\ StoreInv(c)' /\ caller'[c].file # "meta"
  BY <1>1, <1>2 DEF Compared, CallInv, SeenInv, StoreInv, Call, Early, Bases, Rotating, Writing
<1> QED BY <1>3, QuietFrame DEF Quiet, Compared, Rotating, Writing

\* A caller that is cut off leaves the generations whole, or they are of one
\* piece by assumption.
LEMMA CutFrame ==
  ASSUME CacheInv, OrderlyNext, NEW c \in Caller, CutOff(c),
         CallInv(c)' /\ SeenInv(c)' /\ StoreInv(c)',
         \A d \in Caller \ {c} : caller'[d] = caller[d],
         \A f \in File, g \in {"now", "prev"} : dir'[f][g] = dir[f][g],
         Storing(c) \/ dir' = dir,
         \/ faults' = faults + 1
         \/ faults' = faults /\ caller[c].at \notin Rotating /\ caller'[c].at \notin Rotating
  PROVE  CacheInv'
<1>1. Typed /\ Typed' /\ Apart' /\ faults \in Nat
  BY NextTyped DEF CacheInv, OrderlyNext, Typed
<1>2. /\ dir'.graph.now = dir.graph.now /\ dir'.graph.prev = dir.graph.prev
      /\ dir'.meta.now = dir.meta.now /\ dir'.meta.prev = dir.meta.prev
      /\ dir'.complexity.now = dir.complexity.now /\ dir'.complexity.prev = dir.complexity.prev
  BY DEF File
<1>3. Sound'
  BY <1>2 DEF CacheInv, Sound
<1>4. ~Mixed("now") /\ ~Mixed("prev")
  BY DEF OrderlyNext
<1>5. faults' = 0 => (Turning' <=> Turning) /\ faults = 0
  BY <1>1 DEF Turning, Rotating
<1>6. GenInv'
  <2>1. ~Mixed("now")' /\ ~Mixed("prev")'
    BY <1>2, <1>4 DEF Mixed
  <2> QED BY <1>2, <1>5, <2>1 DEF CacheInv, GenInv
<1> QED BY <1>1, <1>3, <1>6, OthersKeep DEF CacheInv

\* A caller that is killed has nothing left; the files stay as they are.
LEMMA KillKeeps ==
  ASSUME CacheInv, OrderlyNext, NEW c \in Caller, Kill(c)
  PROVE  CacheInv'
<1>1. caller \in [Caller -> Call]
  BY DEF CacheInv, Typed
<1>2. caller'[c] = Idle /\ \A d \in Caller \ {c} : caller'[d] = caller[d]
  BY <1>1 DEF Kill, Become
<1>3. CallInv(c)' /\ SeenInv(c)' /\ StoreInv(c)'
  BY <1>2 DEF CallInv, SeenInv, StoreInv, Early, Bases, Rotating, Writing, Idle
<1> QED BY <1>2, <1>3, CutFrame DEF CutOff, Kill, Fault

\* A store that fails leaves no more than a temporary file behind.
LEMMA StoreFailsKeeps ==
  ASSUME CacheInv, OrderlyNext, NEW c \in Caller, StoreFails(c)
  PROVE  CacheInv'
<1>1. /\ caller \in [Caller -> Call] /\ caller[c] \in Call /\ CallInv(c) /\ Shape(caller[c])
      /\ Typed
  BY DEF CacheInv, Typed
<1>2. /\ \A d \in Caller \ {c} : caller'[d] = caller[d]
      /\ \/ caller'[c] = Idle
         \/ caller'[c] = [caller[c] EXCEPT !.at = "answer", !.file = "graph"]
  BY <1>1 DEF StoreFails, GiveUp, Become
<1>3. CallInv(c)' /\ SeenInv(c)' /\ StoreInv(c)' /\ caller'[c].at \notin Rotating
  <2>1. CASE caller'[c] = Idle
    BY <2>1 DEF CallInv, SeenInv, StoreInv, Early, Bases, Rotating, Writing, Idle
  <2>2. CASE caller'[c] = [caller[c] EXCEPT !.at = "answer", !.file = "graph"]
    BY <1>1, <2>2 DEF StoreFails, CallInv, SeenInv, StoreInv, Call, Early, Bases, Rotating, Writing
  <2> QED BY <1>2, <2>1, <2>2
<1>4. Storing(c) /\ caller[c].at \notin Rotating
  BY DEF StoreFails, Storing, Rotating
<1>5. \A f \in File, g \in {"now", "prev"} : dir'[f][g] = dir[f][g]
  <2>1. CASE dir' = dir
    BY <2>1
  <2>2. CASE Put(caller[c].file, "tmp", Absent)
    BY <1>1, <2>2, Puts DEF Content, Call, Generation
  <2> QED BY <2>1, <2>2 DEF StoreFails
<1>6. faults' = faults \/ faults' = faults + 1
  BY DEF StoreFails, Fault
<1> QED BY <1>2, <1>3, <1>4, <1>5, <1>6, CutFrame DEF CutOff

\* A step of a caller that stores: the others are not between their files.
LEMMA StoreFrame ==
  ASSUME CacheInv, OrderlyNext, NEW c \in Caller, Stores(c),
         CallInv(c)' /\ SeenInv(c)' /\ StoreInv(c)', Sound', GenInv'
  PROVE  CacheInv'
<1>1. Typed /\ Typed' /\ Apart' /\ faults' \in {faults, faults + 1}
  BY NextTyped DEF CacheInv, OrderlyNext, Stores, Evict, Move, Truncate, Fill, Publish, StoreFails, Fault
<1>2. \A d \in Caller \ {c} : caller'[d] = caller[d]
  BY <1>1, Goes, Becomes DEF Turn
<1>3. Storing(c)
  BY DEF Stores, Evict, Move, Truncate, Fill, Publish, StoreFails, Storing
<1> QED BY <1>1, <1>2, <1>3, OthersKeep DEF CacheInv

\* Two records of a caller that differ in nothing but where it is.
Same(r, s) ==
  /\ r.fields = s.fields /\ r.diff = s.diff /\ r.own = s.own /\ r.fingerprint = s.fingerprint
  /\ r.ids = s.ids /\ r.graph = s.graph /\ r.cached = s.cached /\ r.gen = s.gen /\ r.base = s.base

\* What a caller knows does not depend on the file it is at.
LEMMA StepsOn ==
  ASSUME NEW c \in Caller, CallInv(c), caller[c].at \in Rotating \cup Writing,
         caller'[c].at \in Rotating \cup Writing, Same(caller'[c], caller[c])
  PROVE  CallInv(c)' /\ SeenInv(c)'
BY DEF CallInv, SeenInv, Same, Early, Bases, Rotating, Writing

\* The temporary file holds what is written, and nothing else changes.
LEMMA TmpKeeps ==
  ASSUME CacheInv, OrderlyNext, NEW c \in Caller, Truncate(c) \/ Fill(c)
  PROVE  CacheInv'
<1>1. /\ Typed /\ CallInv(c) /\ SeenInv(c) /\ StoreInv(c) /\ Sound /\ GenInv
      /\ caller \in [Caller -> Call] /\ caller[c] \in Call /\ Shape(caller[c]) /\ faults' = faults
  BY DEF CacheInv, Typed, Truncate, Fill
<1> DEFINE f == caller[c].file
<1>2. f \in File /\ caller[c].at \in Writing /\ Storing(c)
  BY <1>1 DEF Call, Truncate, Fill, Writing, Storing
<1>3. PICK p \in {"fill", "publish"}, x \in Content(f) :
        /\ caller' = [caller EXCEPT ![c].at = p] /\ Put(f, "tmp", x)
        /\ p = "fill" => x = Torn
        /\ p = "publish" => x = Written(caller[c])
  <2>1. Torn \in Content(f)
    BY DEF Content
  <2> QED BY <1>1, <1>2, <2>1, Writes DEF Truncate, Fill, Goto
<1>4. caller'[c].at = p /\ caller'[c].file = f /\ Same(caller'[c], caller[c])
  BY <1>1, <1>3 DEF Call, Same
<1>5. CallInv(c)' /\ SeenInv(c)'
  BY <1>1, <1>2, <1>4, StepsOn DEF Writing
<1>6. Written(caller'[c]) = Written(caller[c])
  BY <1>4 DEF Written, Same
<1>7. /\ \A h \in File, k \in Generation :
           dir'[h][k] = IF h = f /\ k = "tmp" THEN x ELSE dir[h][k]
      /\ "tmp" \in Generation /\ "now" \in Generation /\ "prev" \in Generation
  BY <1>1, <1>2, <1>3, Puts DEF Generation
<1>8. /\ dir'.graph.now = dir.graph.now /\ dir'.graph.prev = dir.graph.prev
      /\ dir'.meta.now = dir.meta.now /\ dir'.meta.prev = dir.meta.prev
      /\ dir'.complexity.now = dir.complexity.now /\ dir'.complexity.prev = dir.complexity.prev
      /\ dir'[f].tmp = x
  BY <1>2, <1>7 DEF File
<1>9. Sound'
  BY <1>1, <1>8 DEF Sound
<1>10. StoreInv(c)'
  BY <1>1, <1>2, <1>3, <1>4, <1>6, <1>8 DEF StoreInv, Rotating, Writing, Mixed, Same
<1>11. GenInv'
  <2>1. \A d \in Caller \ {c} : caller'[d] = caller[d]
    BY <1>1, <1>3
  <2>2. Turning' = Turning
    <3>1. \A d \in Caller : (caller[d].at \in {"evict", "move"} /\ caller[d].file = "meta")
                              <=> (caller'[d].at \in {"evict", "move"} /\ caller'[d].file = "meta")
      BY <1>2, <1>4, <2>1 DEF Writing
    <3> QED BY <3>1 DEF Turning
  <2>3. (\A d \in Caller : Storing(d) => caller[d].file # "meta")'
          => (\A d \in Caller : Storing(d) => caller[d].file # "meta")
    BY <1>2, <1>4, <2>1 DEF Storing
  <2> QED BY <1>1, <1>8, <2>2, <2>3 DEF GenInv, Mixed
<1> QED BY <1>5, <1>9, <1>10, <1>11, StoreFrame DEF Stores

\* Only the caller that stores can be between the two moves of a rotation.
LEMMA Turns ==
  ASSUME CacheInv, NEW c \in Caller, Storing(c), \A d \in Caller \ {c} : caller'[d] = caller[d]
  PROVE  /\ Turning <=> caller[c].at \in Rotating /\ caller[c].file = "meta"
         /\ Turning' <=> caller'[c].at \in Rotating /\ caller'[c].file = "meta"
         /\ (\A d \in Caller : Storing(d) => caller[d].file # "meta") <=> caller[c].file # "meta"
         /\ (\A d \in Caller : Storing(d) => caller[d].file # "meta")'
              <=> (Storing(c)' => caller'[c].file # "meta")
<1>1. \A d \in Caller \ {c} : ~Storing(d) /\ ~Storing(d)'
  BY DEF CacheInv, Apart, InFiles, Storing
<1>2. \A d \in Caller \ {c} : caller[d].at \notin Rotating /\ caller'[d].at \notin Rotating
  BY <1>1 DEF Storing, Rotating
<1> QED BY <1>1, <1>2 DEF Turning, Rotating

\* The oldest generation makes room.
LEMMA EvictKeeps ==
  ASSUME CacheInv, OrderlyNext, NEW c \in Caller, Evict(c)
  PROVE  CacheInv'
<1>1. /\ Typed /\ CallInv(c) /\ StoreInv(c) /\ Sound /\ GenInv
      /\ caller \in [Caller -> Call] /\ caller[c] \in Call /\ Shape(caller[c])
      /\ faults' = 0 => faults = 0
  BY DEF CacheInv, Typed, Evict, Fault
<1> DEFINE f == caller[c].file
<1>2. f \in File /\ caller[c].at \in Rotating /\ Storing(c)
  BY <1>1 DEF Call, Evict, Rotating, Storing
<1>3. /\ caller'[c].at = "move" /\ caller'[c].file = f /\ Same(caller'[c], caller[c])
      /\ \A d \in Caller \ {c} : caller'[d] = caller[d]
  BY <1>1 DEF Call, Same, Evict, Goto
<1>4. CallInv(c)' /\ SeenInv(c)'
  BY <1>1, <1>2, <1>3, StepsOn DEF Rotating
<1>5. \A h \in File, k \in Generation :
        dir'[h][k] = dir[h][k] \/ (h = f /\ k = "prev" /\ dir'[h][k] = Absent)
  <2>1. CASE Put(f, "prev", Absent)
    <3>1. Absent \in Content(f) /\ "prev" \in Generation
      BY DEF Content, Generation
    <3> QED BY <1>1, <1>2, <2>1, <3>1, Puts
  <2> QED BY <2>1 DEF Evict
<1>6. /\ dir'.graph.now = dir.graph.now /\ dir'.meta.now = dir.meta.now
      /\ dir'.complexity.now = dir.complexity.now
      /\ dir'.graph.prev = dir.graph.prev \/ (f = "graph" /\ dir'.graph.prev = Absent)
      /\ dir'.meta.prev = dir.meta.prev \/ (f = "meta" /\ dir'.meta.prev = Absent)
      /\ dir'.complexity.prev \in {dir.complexity.prev, Absent}
  BY <1>5 DEF File, Generation
<1>7. Sound'
  BY <1>1, <1>6, CacheAssumption DEF Sound
<1>8. StoreInv(c)'
  BY <1>1, <1>2, <1>3, <1>6 DEF StoreInv, Rotating, Writing, Same
<1>9. GenInv'
  BY <1>1, <1>2, <1>3, <1>6, Turns DEF GenInv, Mixed, Readable, Storing, Rotating
<1> QED BY <1>4, <1>7, <1>8, <1>9, StoreFrame DEF Stores

\* A file that is moved takes the place of the previous one.
LEMMA Moves ==
  ASSUME CacheInv, NEW c \in Caller, Move(c)
  PROVE  /\ Typed /\ CallInv(c) /\ StoreInv(c) /\ Sound /\ GenInv
         /\ caller[c].file \in File /\ caller[c].at = "move" /\ Storing(c)
         /\ caller'[c].at \in {"evict", "truncate"} /\ Same(caller'[c], caller[c])
         /\ caller'[c].at = "evict" <=> caller[c].file # "complexity"
         /\ caller[c].file = "graph" <=> caller'[c].file = "meta"
         /\ caller[c].file = "meta" <=> caller'[c].file = "complexity"
         /\ \A d \in Caller \ {c} : caller'[d] = caller[d]
         /\ CallInv(c)' /\ SeenInv(c)' /\ Sound'
         /\ \/ \A h \in File, k \in Generation :
                 dir'[h][k] = IF h # caller[c].file \/ k = "tmp" \/ dir[caller[c].file].now = Absent
                              THEN dir[h][k]
                              ELSE IF k = "prev" THEN dir[caller[c].file].now ELSE Absent
            \/ dir' = dir /\ faults' # 0 /\ faults' # faults
         /\ faults' = 0 => faults = 0
<1>1. /\ Typed /\ CallInv(c) /\ StoreInv(c) /\ Sound /\ GenInv
      /\ caller \in [Caller -> Call] /\ caller[c] \in Call /\ faults \in Nat
      /\ \A d \in Caller \ {c} : caller'[d] = caller[d]
  BY DEF CacheInv, Typed, Move, Become
<1>2. caller[c].file \in File /\ caller[c].at = "move" /\ Storing(c)
  BY <1>1 DEF Call, Move, Storing
<1>3. /\ caller'[c].at \in {"evict", "truncate"} /\ Same(caller'[c], caller[c])
      /\ caller'[c].at = "evict" <=> caller[c].file # "complexity"
      /\ caller[c].file = "graph" <=> caller'[c].file = "meta"
      /\ caller[c].file = "meta" <=> caller'[c].file = "complexity"
  <2>1. caller'[c] = AfterMove(caller[c])
    BY <1>1 DEF Move, Become
  <2>2. CASE caller[c].file = "graph"
    BY <1>1, <2>1, <2>2 DEF AfterMove, Call, Same
  <2>3. CASE caller[c].file = "meta"
    BY <1>1, <2>1, <2>3 DEF AfterMove, Call, Same
  <2>4. CASE caller[c].file = "complexity"
    BY <1>1, <2>1, <2>4 DEF AfterMove, Call, Same
  <2> QED BY <1>2, <2>2, <2>3, <2>4 DEF File
<1>4. CallInv(c)' /\ SeenInv(c)'
  BY <1>1, <1>2, <1>3, StepsOn DEF Rotating, Writing
<1>5. \/ \A h \in File, k \in Generation :
                 dir'[h][k] = IF h # caller[c].file \/ k = "tmp" \/ dir[caller[c].file].now = Absent
                              THEN dir[h][k]
                              ELSE IF k = "prev" THEN dir[caller[c].file].now ELSE Absent
      \/ dir' = dir /\ faults' # 0 /\ faults' # faults
  <2>1. CASE dir' = Rotated(caller[c].file)
    BY <1>1, <1>2, <2>1, Rotates
  <2>2. CASE dir' = dir /\ Fault
    BY <1>1, <2>2 DEF Fault
  <2> QED BY <2>1, <2>2 DEF Move
<1>6. Sound'
  <2>1. CASE dir' = dir
    BY <1>1, <2>1 DEF Sound
  <2>2. ASSUME NEW h \in File, NEW k \in {"now", "prev"}, dir' # dir
        PROVE  dir'[h][k] \in {dir[h].now, dir[h].prev, Absent}
    BY <1>2, <1>5, <2>2 DEF Generation
  <2>3. /\ \A k \in {"now", "prev"} : dir'.graph[k] \in {dir.graph.now, dir.graph.prev, Absent} \/ dir' = dir
        /\ \A k \in {"now", "prev"} : dir'.meta[k] \in {dir.meta.now, dir.meta.prev, Absent} \/ dir' = dir
        /\ \A k \in {"now", "prev"} :
             dir'.complexity[k] \in {dir.complexity.now, dir.complexity.prev, Absent} \/ dir' = dir
    BY <2>2 DEF File
  <2> QED BY <1>1, <2>1, <2>3, CacheAssumption DEF Sound
<1>7. faults' = 0 => faults = 0
  BY <1>1 DEF Move, Fault
<1> QED BY <1>1, <1>2, <1>3, <1>4, <1>5, <1>6, <1>7

\* A rotation moves a graph, then its meta: in between the graph that goes with
\* meta.json is in place or under its new name, and never in both.
LEMMA MoveKeeps ==
  ASSUME CacheInv, OrderlyNext, NEW c \in Caller, Move(c)
  PROVE  CacheInv'
<1> DEFINE f == caller[c].file
<1>1. /\ Typed /\ CallInv(c) /\ StoreInv(c) /\ Sound /\ GenInv
      /\ f \in File /\ caller[c].at = "move" /\ Storing(c)
      /\ caller'[c].at \in {"evict", "truncate"} /\ Same(caller'[c], caller[c])
      /\ caller'[c].at = "evict" <=> f # "complexity"
      /\ f = "graph" <=> caller'[c].file = "meta"
      /\ f = "meta" <=> caller'[c].file = "complexity"
      /\ \A d \in Caller \ {c} : caller'[d] = caller[d]
      /\ CallInv(c)' /\ SeenInv(c)' /\ Sound'
      /\ \/ \A h \in File, k \in Generation :
              dir'[h][k] = IF h # f \/ k = "tmp" \/ dir[f].now = Absent
                           THEN dir[h][k] ELSE IF k = "prev" THEN dir[f].now ELSE Absent
         \/ dir' = dir /\ faults' # 0 /\ faults' # faults
      /\ faults' = 0 => faults = 0
  BY Moves
<1>2. f # "complexity" /\ dir[f].prev # Absent => dir[f].now # Absent /\ dir' # dir
  <2> SUFFICES ASSUME f # "complexity", dir[f].prev # Absent
               PROVE  dir[f].now # Absent /\ dir' # dir
    OBVIOUS
  <2>1. dir[f].now # Absent /\ faults' = faults
    BY DEF OrderlyNext, StaysBehind
  <2>2. dir'[f].now = Absent
    BY <1>1, <2>1 DEF Generation
  <2> QED BY <2>1, <2>2
<1>3. /\ Turning <=> f = "meta"
      /\ Turning' <=> f = "graph"
      /\ (\A d \in Caller : Storing(d) => caller[d].file # "meta") <=> f # "meta"
      /\ (\A d \in Caller : Storing(d) => caller[d].file # "meta")' <=> f # "graph"
  BY <1>1, Turns DEF Storing, Rotating, File
<1>4. ASSUME f = "graph" PROVE StoreInv(c)' /\ GenInv'
  <2>1. /\ dir'.meta.now = dir.meta.now /\ dir'.meta.prev = dir.meta.prev
        /\ \/ /\ dir.graph.now # Absent /\ dir'.graph.now = Absent /\ dir'.graph.prev = dir.graph.now
           \/ /\ dir.graph.now = Absent /\ dir.graph.prev = Absent
              /\ dir'.graph.now = Absent /\ dir'.graph.prev = Absent
           \/ /\ dir'.graph.now = dir.graph.now /\ dir.graph.prev = Absent /\ dir'.graph.prev = Absent
              /\ faults' # 0
    BY <1>1, <1>2, <1>4 DEF File, Generation
  <2>2. dir.graph.now # Absent => Of(dir.graph.now, dir.meta.now)
    BY <1>1, <1>3, <1>4 DEF GenInv, Mixed, Of, Sound, Readable, StoreInv, Rotating
  <2>3. dir.meta.now # Absent /\ dir.meta.now.fingerprint # caller[c].fingerprint
    BY <1>1, <1>4 DEF StoreInv, Rotating
  <2>4. StoreInv(c)'
    BY <1>1, <1>4, <2>1, <2>2, <2>3 DEF StoreInv, Rotating, Writing, Same
  <2>5. GenInv'
    BY <1>1, <1>3, <1>4, <2>1, <2>2 DEF GenInv
  <2> QED BY <2>4, <2>5
<1>5. ASSUME f = "meta" PROVE StoreInv(c)' /\ GenInv'
  <2>0. dir.meta.now # Absent
    BY <1>1, <1>5 DEF StoreInv, Rotating
  <2>1. /\ dir'.graph.now = dir.graph.now /\ dir'.graph.prev = dir.graph.prev
        /\ \/ dir'.meta.now = Absent /\ dir'.meta.prev = dir.meta.now
           \/ /\ dir'.meta.now = dir.meta.now /\ dir'.meta.prev = dir.meta.prev
              /\ dir.meta.prev = Absent /\ faults' # 0
    BY <1>1, <1>2, <1>5, <2>0 DEF File, Generation
  <2>2. /\ dir.graph.now # Absent => Of(dir.graph.now, dir.meta.now)
        /\ dir.graph.prev # Absent => Of(dir.graph.prev, dir.meta.now)
    BY <1>1, <1>5 DEF StoreInv, Rotating
  <2>4. StoreInv(c)'
    BY <1>1, <1>5, <2>1 DEF StoreInv, Rotating, Writing
  <2>5. ~Mixed("now")' /\ ~Mixed("prev")'
    BY <2>0, <2>1, <2>2 DEF Mixed, Of, Readable
  <2>6. GenInv'
    BY <1>1, <1>3, <1>5, <2>1, <2>2, <2>5 DEF GenInv
  <2> QED BY <2>4, <2>6
<1>6. ASSUME f = "complexity" PROVE StoreInv(c)' /\ GenInv'
  <2>1. /\ dir'.graph.now = dir.graph.now /\ dir'.graph.prev = dir.graph.prev
        /\ dir'.meta.now = dir.meta.now /\ dir'.meta.prev = dir.meta.prev
    BY <1>1, <1>6 DEF File, Generation
  <2>2. caller'[c].at = "truncate" /\ caller'[c].file \notin {"meta"}
    BY <1>1, <1>6
  <2>3. faults' = 0 => dir'.meta.now = Absent
    BY <1>1, <1>6, <2>1 DEF StoreInv, Rotating
  <2>4. StoreInv(c)'
    BY <2>2, <2>3 DEF StoreInv, Rotating, Writing
  <2>5. GenInv'
    BY <1>1, <1>3, <1>6, <2>1 DEF GenInv, Mixed
  <2> QED BY <2>4, <2>5
<1> QED BY <1>1, <1>4, <1>5, <1>6, StoreFrame DEF Stores, File

\* The graph is in place before its meta, and both were written by one caller.
LEMMA PublishKeeps ==
  ASSUME CacheInv, OrderlyNext, NEW c \in Caller, Publish(c)
  PROVE  CacheInv'
<1> DEFINE f == caller[c].file
<1>1. /\ Typed /\ CallInv(c) /\ StoreInv(c) /\ Sound /\ GenInv
      /\ caller \in [Caller -> Call] /\ caller[c] \in Call /\ Shape(caller[c])
      /\ \A d \in Caller \ {c} : caller'[d] = caller[d]
      /\ faults' = faults
  BY DEF CacheInv, Typed, Publish, Become
<1>2. /\ f \in File /\ caller[c].at = "publish" /\ Storing(c)
      /\ caller'[c] = AfterFile(caller[c])
      /\ dir[f].tmp = Written(caller[c])
  BY <1>1 DEF Call, Publish, Storing, Become, StoreInv
<1>3. \A h \in File, k \in Generation :
        dir'[h][k] = IF h # f \/ k = "prev" THEN dir[h][k]
                     ELSE IF k = "now" THEN Written(caller[c]) ELSE Absent
  BY <1>1, <1>2, Replaces DEF Publish
<1>4. /\ caller[c].graph.nodes = caller[c].fingerprint /\ caller[c].graph.edges = caller[c].fingerprint
      /\ caller[c].graph.fields = caller[c].fields /\ caller[c].ids = caller[c].fingerprint
      /\ caller[c].graph \in Graph /\ caller[c].fingerprint \in Version
      /\ caller[c].diff => caller[c].own = caller[c].fingerprint
  BY <1>1, <1>2 DEF CallInv, Shape, Early
<1>5. /\ Turning <=> FALSE
      /\ Turning' <=> caller'[c].at \in Rotating /\ caller'[c].file = "meta"
      /\ (\A d \in Caller : Storing(d) => caller[d].file # "meta") <=> f # "meta"
      /\ (\A d \in Caller : Storing(d) => caller[d].file # "meta")'
              <=> (Storing(c)' => caller'[c].file # "meta")
  BY <1>1, <1>2, Turns DEF Rotating
<1>6. Written(caller[c]) \in Content(f)
  BY <1>1, <1>2, Writes DEF Writing
<1>7. ASSUME f = "graph" PROVE CacheInv'
  <2>1. caller'[c].at = "truncate" /\ caller'[c].file = "meta" /\ Same(caller'[c], caller[c])
    BY <1>1, <1>2, <1>7 DEF AfterFile, Call, Same
  <2>2. CallInv(c)' /\ SeenInv(c)'
    BY <1>1, <1>2, <2>1, StepsOn DEF Rotating, Writing
  <2>3. /\ dir'.graph.now = caller[c].graph /\ dir'.graph.prev = dir.graph.prev
        /\ dir'.meta.now = dir.meta.now /\ dir'.meta.prev = dir.meta.prev
        /\ dir'.complexity.now = dir.complexity.now /\ dir'.complexity.prev = dir.complexity.prev
    BY <1>2, <1>3, <1>7 DEF File, Generation, Written
  <2>4. caller[c].graph # Absent /\ caller[c].graph # Torn
    BY <1>4, CacheAssumption
  <2>5. Sound'
    BY <1>1, <1>4, <2>3, <2>4 DEF Sound
  <2>6. StoreInv(c)'
    <3>1. ~Mixed("prev") /\ (~Mixed("prev"))'
      BY <1>1, <1>5, <1>7, <2>3 DEF GenInv, Mixed
    <3> QED BY <2>1, <2>3, <3>1 DEF StoreInv, Rotating, Writing, Same
  <2>7. GenInv'
    BY <1>1, <1>5, <2>1, <2>3, <2>4 DEF GenInv, Storing, Rotating
  <2> QED BY <2>2, <2>5, <2>6, <2>7, StoreFrame DEF Stores
<1>8. ASSUME f = "meta" PROVE CacheInv'
  <2> DEFINE m == [fingerprint |-> caller[c].fingerprint, fields |-> caller[c].fields,
                   ids |-> caller[c].ids]
  <2>1. caller'[c] = [caller[c] EXCEPT !.at = "answer", !.file = "graph"]
    BY <1>1, <1>2, <1>8 DEF AfterFile
  <2>2. CallInv(c)' /\ SeenInv(c)' /\ StoreInv(c)' /\ caller'[c].at = "answer"
    BY <1>1, <1>2, <2>1 DEF CallInv, SeenInv, StoreInv, Call, Early, Bases, Rotating, Writing
  <2>3. /\ dir'.graph.now = dir.graph.now /\ dir'.graph.prev = dir.graph.prev
        /\ dir'.meta.now = m /\ dir'.meta.prev = dir.meta.prev
        /\ dir'.complexity.now = dir.complexity.now /\ dir'.complexity.prev = dir.complexity.prev
    BY <1>2, <1>3, <1>8 DEF File, Generation, Written
  <2>4. m # Absent /\ m # Torn
    <3>1. m \in Meta
      BY <1>1, <1>4 DEF Call, Meta
    <3> QED BY <3>1, CacheAssumption
  <2>5. m.ids = m.fingerprint
    BY <1>4
  <2>6. Sound'
    <3> HIDE DEF m
    <3> QED BY <1>1, <2>3, <2>4, <2>5 DEF Sound
  <2>7. dir.graph.now = caller[c].graph /\ ~Mixed("prev")
    BY <1>1, <1>2, <1>8 DEF StoreInv, Writing
  <2>8. (~Mixed("prev"))' /\ (~Mixed("now"))' /\ dir.graph.now # Absent
    BY <1>4, <2>3, <2>7, CacheAssumption DEF Mixed
  <2>9. GenInv'
    BY <1>5, <2>2, <2>3, <2>8 DEF GenInv, Rotating
  <2> QED BY <2>2, <2>6, <2>9, StoreFrame DEF Stores
<1>9. ASSUME f = "complexity" PROVE CacheInv'
  <2>1. caller'[c] = Idle
    BY <1>1, <1>2, <1>9 DEF AfterFile
  <2>2. CallInv(c)' /\ SeenInv(c)' /\ StoreInv(c)'
    BY <2>1 DEF CallInv, SeenInv, StoreInv, Early, Bases, Rotating, Writing, Idle
  <2>3. /\ dir'.graph.now = dir.graph.now /\ dir'.graph.prev = dir.graph.prev
        /\ dir'.meta.now = dir.meta.now /\ dir'.meta.prev = dir.meta.prev
        /\ dir'.complexity.prev = dir.complexity.prev
        /\ dir'.complexity.now = [fingerprint |-> caller[c].own, of |-> caller[c].graph.nodes]
    BY <1>2, <1>3, <1>9 DEF File, Generation, Written
  <2>4. /\ dir'.complexity.now \in Complexity
        /\ dir'.complexity.now.of = dir'.complexity.now.fingerprint
    BY <1>1, <1>2, <1>4, <1>9, <2>3 DEF Complexity, Shape, Writing
  <2>5. dir'.complexity.now # Torn /\ dir'.complexity.now # Absent
    BY <2>4, CacheAssumption
  <2>6. Sound'
    BY <1>1, <2>3, <2>4, <2>5 DEF Sound
  <2>7. caller'[c].at \notin Rotating
    BY <2>1 DEF Idle, Rotating
  <2>8. GenInv'
    BY <1>1, <1>5, <1>9, <2>3, <2>7 DEF GenInv, Mixed
  <2> QED BY <2>2, <2>6, <2>8, StoreFrame DEF Stores
<1> QED BY <1>2, <1>7, <1>8, <1>9 DEF File

\* The empty cache.
LEMMA CacheStarts == Init => CacheInv
<1> SUFFICES ASSUME Init PROVE CacheInv
  OBVIOUS
<1>1. \A f \in File, g \in Generation : dir[f][g] = Absent /\ dir[f][g] \in Content(f)
  BY DEF Init, Content
<1>2. Typed
  BY <1>1, IdleTyped, CacheAssumption DEF Init, Typed
<1>3. \A c \in Caller : caller[c] = Idle
  BY DEF Init
<1>4. Apart
  BY <1>3 DEF Apart, Storing, Idle
<1>5. /\ dir.graph.now = Absent /\ dir.graph.prev = Absent /\ dir.meta.now = Absent
      /\ dir.meta.prev = Absent /\ dir.complexity.now = Absent /\ dir.complexity.prev = Absent
  BY <1>1 DEF File, Generation
<1>6. Sound
  BY <1>5, CacheAssumption DEF Sound
<1>7. \A c \in Caller : CallInv(c) /\ SeenInv(c) /\ StoreInv(c)
  <2> SUFFICES ASSUME NEW c \in Caller PROVE CallInv(c) /\ SeenInv(c) /\ StoreInv(c)
    OBVIOUS
  <2>3. Idle.at = "idle" /\ Idle.cached = FALSE /\ Idle.gen = "now" /\ Idle.base = NoBase
    BY DEF Idle
  <2>1. CallInv(c)
    BY <1>3, <2>3 DEF CallInv, Early, Bases
  <2>2. SeenInv(c) /\ StoreInv(c)
    BY <1>3 DEF SeenInv, StoreInv, Rotating, Writing, Idle
  <2> QED BY <2>1, <2>2
<1>8. GenInv
  BY <1>5 DEF GenInv, Mixed, Readable
<1> QED BY <1>2, <1>4, <1>6, <1>7, <1>8 DEF CacheInv

\* The invariant holds as long as the surroundings are orderly.
LEMMA CacheSteps == CacheInv /\ [OrderlyNext]_vars => CacheInv'
<1> SUFFICES ASSUME CacheInv, [OrderlyNext]_vars PROVE CacheInv'
  OBVIOUS
<1>1. ASSUME dir' = dir, caller' = caller, faults' = faults, Typed' PROVE CacheInv'
  <2>1. \A c \in Caller : CallInv(c)' /\ SeenInv(c)' /\ StoreInv(c)'
    <3> SUFFICES ASSUME NEW c \in Caller PROVE CallInv(c)' /\ SeenInv(c)' /\ StoreInv(c)'
      OBVIOUS
    <3>1. CallInv(c) /\ SeenInv(c) /\ StoreInv(c)
      BY DEF CacheInv
    <3>2. CallInv(c)'
      BY <1>1, <3>1 DEF CallInv
    <3>3. SeenInv(c)' /\ StoreInv(c)'
      BY <1>1, <3>1 DEF SeenInv, StoreInv, Mixed
    <3> QED BY <3>2, <3>3
  <2>2. Apart' /\ Sound'
    BY <1>1 DEF CacheInv, Apart, Sound, InFiles, Storing
  <2>3. GenInv'
    BY <1>1 DEF CacheInv, GenInv, Mixed, Turning, Storing
  <2> QED BY <1>1, <2>1, <2>2, <2>3 DEF CacheInv
<1>2. Typed'
  BY NextTyped DEF CacheInv, OrderlyNext, vars
<1>3. CASE UNCHANGED vars
  BY <1>1, <1>2, <1>3 DEF vars
<1>4. CASE OrderlyNext
  <2>1. CASE Sync
    BY <1>1, <1>2, <2>1 DEF Sync
  <2>2. ASSUME NEW c \in Caller, CallStep(c) \/ CutOff(c) PROVE CacheInv'
    <3>1. CASE Ask(c) \/ Fingerprint(c) \/ LoadMeta(c) \/ LoadGraph(c) \/ ReadNodes(c) \/ ReadEdges(c)
      BY <1>4, <3>1, AskKeeps, FingerprintKeeps, LoadMetaKeeps, LoadGraphKeeps, ReadNodesKeeps, ReadEdgesKeeps
    <3>2. CASE Check(c) \/ Evict(c) \/ Move(c) \/ Truncate(c) \/ Fill(c) \/ Publish(c)
      BY <1>4, <3>2, CheckKeeps, EvictKeeps, MoveKeeps, TmpKeeps, PublishKeeps
    <3>3. CASE Answer(c) \/ BaseMeta(c) \/ BaseGraph(c) \/ BaseComplexity(c) \/ Compared(c)
      BY <1>4, <3>3, AnswerKeeps, BaseMetaKeeps, BaseGraphKeeps, BaseComplexityKeeps, ComparedKeeps
    <3>4. CASE Kill(c) \/ StoreFails(c)
      BY <1>4, <3>4, KillKeeps, StoreFailsKeeps
    <3> QED BY <2>2, <3>1, <3>2, <3>3, <3>4 DEF CallStep, CutOff
  <2> QED BY <1>4, <2>1, <2>2 DEF OrderlyNext, Next
<1> QED BY <1>3, <1>4

-----------------------------------------------------------------------------
(* The cache while the index rests during calls                              *)

\* What is readable there is of the present index.
FreshGraph(x) == Readable(x) => x.nodes = index /\ x.edges = index
FreshMeta(m) == Readable(m) => m.fingerprint = index /\ m.ids = index

\* A caller is writing, or rotating, a file; it has a graph of its own to store.
WritesFile(c, f) == caller[c].at \in Writing /\ caller[c].file = f
Filling(c, f) == caller[c].at \in {"fill", "publish"} /\ caller[c].file = f
Built(c) ==
  caller[c].at \in {"check"} \cup Rotating \/ WritesFile(c, "graph") \/ WritesFile(c, "meta")

\* The old meta has been rotated away, unless that failed.
Past(c) == WritesFile(c, "graph") \/ (caller[c].at \in Rotating /\ caller[c].file = "complexity")

\* What a caller has read, and may rely on in the files.
CalmCall(c) ==
  /\ caller[c].at \notin {"idle", "fingerprint"} => caller[c].fingerprint = index
  /\ caller[c].at = "readEdges" \/ Built(c) => caller[c].ids = index /\ ~caller[c].cached
  /\ Built(c) => caller[c].graph.nodes = index /\ caller[c].graph.edges = index
  /\ Filling(c, "graph") => FreshGraph(dir.graph.tmp)
  /\ Filling(c, "meta") => FreshMeta(dir.meta.tmp)
  /\ WritesFile(c, "meta") => FreshGraph(dir.graph.now)
  /\ Past(c) /\ faults = 0 => (Readable(dir.meta.now) => dir.meta.now.fingerprint = index)
  /\ caller[c].at = "loadGraph" => /\ caller[c].ids = index
                                   /\ faults <= 1 => FreshGraph(dir.graph.now)
  /\ caller[c].cached =>
       /\ caller[c].at \in {"answer"} \cup Bases \/ WritesFile(c, "complexity")
       /\ caller[c].ids = index
       /\ faults <= 1 => caller[c].graph.nodes = index /\ caller[c].graph.edges = index

\* A caller that will put a meta in place next to the graph it has put there.
Owes(c) ==
  \/ caller[c].at = "truncate" /\ caller[c].file = "meta"
  \/ Filling(c, "meta") /\ dir.meta.tmp # Absent

\* Graph and meta are of one index, or the one fault there was made a rotation
\* leave an old meta, which its caller is about to replace.
Matched ==
  faults <= 1 /\ Readable(dir.graph.now) /\ Readable(dir.meta.now) =>
    \/ dir.meta.now.fingerprint = dir.graph.now.nodes
    \/ faults = 1 /\ dir.graph.now.nodes = index /\ \E c \in Caller : Owes(c)

CalmInv ==
  /\ Typed
  /\ \A c \in Caller : CalmCall(c)
  /\ Readable(dir.graph.now) => dir.graph.now.edges = dir.graph.now.nodes
  /\ Readable(dir.meta.now) => dir.meta.now.ids = dir.meta.now.fingerprint
  /\ Matched

\* A step of another caller leaves a caller what it relies on, if the files stay
\* as fresh as they were.
LEMMA CalmOthers ==
  ASSUME index' = index, faults \in Nat, faults' \in Nat, faults <= faults',
         FreshGraph(dir.graph.tmp) => FreshGraph(dir.graph.tmp)',
         FreshMeta(dir.meta.tmp) => FreshMeta(dir.meta.tmp)',
         FreshGraph(dir.graph.now) => FreshGraph(dir.graph.now)',
         (Readable(dir.meta.now) => dir.meta.now.fingerprint = index)
           => (Readable(dir.meta.now) => dir.meta.now.fingerprint = index)',
         NEW d \in Caller, CalmCall(d), caller'[d] = caller[d]
  PROVE  CalmCall(d)'
<1>1. /\ faults' <= 1 => faults <= 1
      /\ faults' = 0 => faults = 0
  OBVIOUS
<1>2. /\ Built(d)' = Built(d) /\ Past(d)' = Past(d)
      /\ \A f \in File : WritesFile(d, f)' = WritesFile(d, f) /\ Filling(d, f)' = Filling(d, f)
  BY DEF Built, Past, WritesFile, Filling
<1> QED BY <1>1, <1>2 DEF CalmCall, File, Built, Past, WritesFile, Filling

\* A step that leaves the files alone.
LEMMA CalmQuiet ==
  ASSUME CalmInv, NEW c \in Caller, Quiet(c), CalmCall(c)', faults' = faults => ~Owes(c)
  PROVE  CalmInv'
<1>1. /\ Typed /\ Typed' /\ index' = index /\ dir' = dir
      /\ faults \in Nat /\ faults' \in {faults, faults + 1}
  BY QuietTurns, NextTyped, CacheAssumption
     DEF CalmInv, Typed, Next, CallStep, CutOff, Quiet
<1>2. \A d \in Caller \ {c} : caller'[d] = caller[d]
  BY <1>1, QuietTurns, Becomes DEF Turn
<1>3. \A d \in Caller : CalmCall(d)'
  BY <1>1, <1>2, CalmOthers DEF CalmInv, FreshGraph, FreshMeta
<1>4. Matched'
  <2> SUFFICES ASSUME faults' <= 1, Readable(dir.graph.now), Readable(dir.meta.now),
                      dir.meta.now.fingerprint # dir.graph.now.nodes
               PROVE  faults' = 1 /\ dir.graph.now.nodes = index /\ \E d \in Caller : Owes(d)'
    BY <1>1 DEF Matched
  <2>1. faults = 1 /\ dir.graph.now.nodes = index /\ faults' = faults
    BY <1>1 DEF CalmInv, Matched
  <2>2. PICK d \in Caller : Owes(d)
    BY <2>1, <1>1 DEF CalmInv, Matched
  <2>3. Owes(d)'
    BY <1>1, <1>2, <2>1, <2>2 DEF Owes, Filling
  <2> QED BY <2>1, <2>3
<1>5. /\ (Readable(dir.graph.now) => dir.graph.now.edges = dir.graph.now.nodes)'
      /\ (Readable(dir.meta.now) => dir.meta.now.ids = dir.meta.now.fingerprint)'
  BY <1>1 DEF CalmInv
<1> QED BY <1>1, <1>3, <1>4, <1>5 DEF CalmInv

\* A step that stores.
LEMMA CalmStores ==
  ASSUME CalmInv, NEW c \in Caller, Stores(c)
  PROVE  /\ Typed /\ Typed' /\ index' = index /\ faults \in Nat /\ faults' \in {faults, faults + 1}
         /\ caller \in [Caller -> Call] /\ caller[c] \in Call /\ caller[c].file \in File
         /\ \A d \in Caller \ {c} : caller'[d] = caller[d]
         /\ CalmCall(c) /\ Shape(caller[c])
<1>0. Next
  BY DEF Next, CallStep, CutOff, Stores
<1>1. /\ Typed /\ Typed' /\ faults \in Nat
      /\ index' = index
  <2>1. Typed /\ Typed'
    BY <1>0, NextTyped DEF CalmInv
  <2>2. index' = index
    BY DEF Stores, Evict, Move, Truncate, Fill, Publish, StoreFails
  <2> QED BY <2>1, <2>2, CacheAssumption DEF Typed
<1>2. faults' \in {faults, faults + 1}
  BY DEF Stores, Evict, Move, Truncate, Fill, Publish, StoreFails, Fault
<1>3. \A d \in Caller \ {c} : caller'[d] = caller[d]
  BY <1>1, Goes, Becomes DEF Turn
<1> QED BY <1>1, <1>2, <1>3 DEF CalmInv, Typed, Call

\* What is known of a caller that takes a step that leaves the files alone.
LEMMA CalmTurn ==
  ASSUME CalmInv, NEW c \in Caller, Quiet(c)
  PROVE  /\ caller \in [Caller -> Call] /\ caller[c] \in Call /\ Shape(caller[c]) /\ CalmCall(c)
         /\ index' = index /\ dir' = dir /\ faults \in Nat /\ faults' \in {faults, faults + 1}
BY QuietTurns, CacheAssumption DEF CalmInv, Typed

\* A caller that asks, or takes its fingerprint, has the present index for it.
LEMMA CalmStarts ==
  ASSUME CalmInv, NEW c \in Caller, Ask(c) \/ Fingerprint(c) \/ ReadNodes(c) \/ ReadEdges(c)
  PROVE  CalmInv'
<1>0. Quiet(c)
  BY DEF Quiet
<1>1. /\ caller \in [Caller -> Call] /\ caller[c] \in Call /\ Shape(caller[c]) /\ CalmCall(c)
      /\ index' = index /\ dir' = dir /\ faults \in Nat /\ faults' \in {faults, faults + 1}
  BY <1>0, CalmTurn
<1>2. CASE Ask(c)
  <2>1. PICK q \in Asks[c] :
          caller' = [caller EXCEPT ![c] = [Idle EXCEPT !.at = "fingerprint", !.fields = q.fields,
                        !.diff = q.diff, !.useCache = q.useCache,
                        !.own = IF q.diff THEN index ELSE Absent]]
    BY <1>2 DEF Ask, Become
  <2>2. caller'[c].at = "fingerprint" /\ ~caller'[c].cached
    BY <1>1, <2>1 DEF Idle
  <2>3. CalmCall(c)' /\ ~Owes(c)
    BY <1>2, <2>2 DEF CalmCall, Built, Past, Filling, WritesFile, Owes, Ask, Rotating, Writing
  <2> QED BY <1>0, <2>3, CalmQuiet
<1>3. CASE Fingerprint(c)
  <2>1. /\ caller'[c].at \in {"loadMeta", "readNodes"} /\ caller'[c].fingerprint = index
        /\ caller'[c].cached = caller[c].cached /\ caller[c].at = "fingerprint"
    BY <1>1, <1>3 DEF Fingerprint, Become, Call
  <2>2. ~caller[c].cached
    BY <1>1, <2>1 DEF CalmCall, WritesFile, Writing, Bases
  <2>3. CalmCall(c)' /\ ~Owes(c)
    BY <1>1, <2>1, <2>2 DEF CalmCall, Built, Past, Filling, WritesFile, Owes, Rotating, Writing
  <2> QED BY <1>0, <2>3, CalmQuiet
<1>4. CASE ReadNodes(c)
  <2>1. /\ caller'[c].at = "readEdges" /\ caller'[c].ids = index /\ caller[c].at = "readNodes"
        /\ caller'[c].cached = caller[c].cached /\ caller'[c].fingerprint = caller[c].fingerprint
    BY <1>1, <1>4 DEF ReadNodes, Call
  <2>2. ~caller[c].cached
    BY <1>1, <2>1 DEF CalmCall, WritesFile, Writing, Bases
  <2>3. CalmCall(c)' /\ ~Owes(c)
    BY <1>1, <2>1, <2>2 DEF CalmCall, Built, Past, Filling, WritesFile, Owes, Rotating, Writing
  <2> QED BY <1>0, <2>3, CalmQuiet
<1>5. CASE ReadEdges(c)
  <2>1. /\ caller'[c].at = "check" /\ caller'[c].ids = caller[c].ids /\ caller[c].at = "readEdges"
        /\ caller'[c].cached = caller[c].cached /\ caller'[c].fingerprint = caller[c].fingerprint
        /\ caller'[c].graph.nodes = caller[c].ids /\ caller'[c].graph.edges = index
    BY <1>1, <1>5 DEF ReadEdges, Call
  <2>2. caller[c].ids = index /\ ~caller[c].cached
    BY <1>1, <2>1 DEF CalmCall
  <2>3. CalmCall(c)' /\ ~Owes(c)
    BY <1>1, <2>1, <2>2 DEF CalmCall, Built, Past, Filling, WritesFile, Owes, Rotating, Writing
  <2> QED BY <1>0, <2>3, CalmQuiet
<1> QED BY <1>2, <1>3, <1>4, <1>5

\* A meta that fits is that of the present index, and so is the graph next to it
\* by then.
LEMMA CalmLoads ==
  ASSUME CalmInv, NEW c \in Caller, LoadMeta(c) \/ LoadGraph(c)
  PROVE  CalmInv'
<1>0. Quiet(c)
  BY DEF Quiet
<1>1. /\ caller \in [Caller -> Call] /\ caller[c] \in Call /\ Shape(caller[c]) /\ CalmCall(c)
      /\ index' = index /\ dir' = dir /\ faults \in Nat /\ faults' = faults
  BY <1>0, CalmTurn DEF LoadMeta, LoadGraph
<1>2. caller[c].at \in {"loadMeta", "loadGraph"} /\ ~caller[c].cached /\ caller[c].fingerprint = index
  BY <1>1 DEF CalmCall, WritesFile, Writing, Bases, LoadMeta, LoadGraph
<1>3. ~Owes(c)
  BY <1>2 DEF Owes, Filling
<1>4. ASSUME caller'[c].at = "readNodes", caller'[c].cached = caller[c].cached,
             caller'[c].fingerprint = caller[c].fingerprint
      PROVE  CalmInv'
  <2>1. CalmCall(c)'
    BY <1>1, <1>2, <1>4 DEF CalmCall, Built, Past, Filling, WritesFile, Rotating, Writing
  <2> QED BY <1>0, <1>3, <2>1, CalmQuiet
<1>5. CASE LoadMeta(c) /\ Hit(dir.meta.now, caller[c])
  <2>1. /\ caller'[c].at = "loadGraph" /\ caller'[c].ids = dir.meta.now.ids
        /\ caller'[c].cached = caller[c].cached /\ caller'[c].fingerprint = caller[c].fingerprint
    BY <1>1, <1>5 DEF LoadMeta, Call
  <2>2. Readable(dir.meta.now) /\ dir.meta.now.fingerprint = index /\ dir.meta.now.ids = index
    BY <1>2, <1>5 DEF Hit, CalmInv
  <2>3. faults <= 1 => FreshGraph(dir.graph.now)
    BY <2>2 DEF CalmInv, Matched, FreshGraph
  <2>4. CalmCall(c)'
    BY <1>1, <1>2, <2>1, <2>2, <2>3 DEF CalmCall, FreshGraph, Built, Past, Filling, WritesFile, Rotating, Writing
  <2> QED BY <1>0, <1>3, <2>4, CalmQuiet
<1>6. CASE LoadGraph(c) /\ Readable(dir.graph.now)
  <2>1. /\ caller'[c].at = "answer" /\ caller'[c].ids = caller[c].ids
        /\ caller'[c].graph = dir.graph.now /\ caller'[c].fingerprint = caller[c].fingerprint
    BY <1>1, <1>6 DEF LoadGraph, Call
  <2>2. caller[c].ids = index /\ (faults <= 1 => dir.graph.now.nodes = index /\ dir.graph.now.edges = index)
    BY <1>1, <1>6 DEF CalmCall, LoadGraph, FreshGraph
  <2>3. CalmCall(c)'
    BY <1>1, <1>2, <2>1, <2>2 DEF CalmCall, Built, Past, Filling, WritesFile, Rotating, Writing
  <2> QED BY <1>0, <1>3, <2>3, CalmQuiet
<1>7. CASE LoadMeta(c) /\ ~Hit(dir.meta.now, caller[c])
  BY <1>1, <1>4, <1>7 DEF LoadMeta, Goto, Call
<1>8. CASE LoadGraph(c) /\ ~Readable(dir.graph.now)
  BY <1>1, <1>4, <1>8 DEF LoadGraph, Goto, Call
<1> QED BY <1>5, <1>6, <1>7, <1>8

\* A caller that finds the meta of another index goes on to rotate it away.
LEMMA CalmChecks ==
  ASSUME CalmInv, NEW c \in Caller, Check(c)
  PROVE  CalmInv'
<1>0. Quiet(c)
  BY DEF Quiet
<1>1. /\ caller \in [Caller -> Call] /\ caller[c] \in Call /\ Shape(caller[c]) /\ CalmCall(c)
      /\ index' = index /\ dir' = dir /\ faults \in Nat /\ faults' \in {faults, faults + 1}
  BY <1>0, CalmTurn
<1>2. /\ caller[c].at = "check" /\ caller[c].file = "graph" /\ ~Owes(c)
      /\ caller[c].fingerprint = index /\ caller[c].ids = index /\ ~caller[c].cached
      /\ caller[c].graph.nodes = index /\ caller[c].graph.edges = index
  BY <1>1 DEF Check, Shape, CalmCall, Built, Owes, Filling, Rotating, Writing
<1>3. /\ caller'[c].fingerprint = caller[c].fingerprint /\ caller'[c].ids = caller[c].ids
      /\ caller'[c].cached = caller[c].cached /\ caller'[c].graph = caller[c].graph
      /\ caller'[c].file = caller[c].file
      /\ \/ caller'[c].at = "evict"
         \/ caller'[c].at = "truncate" /\ (faults' # 0 \/ ~MustRotate(dir.meta.now, caller[c]))
  BY <1>1 DEF Check, Goto, Fault, Call
<1>4. ~MustRotate(dir.meta.now, caller[c]) =>
        (Readable(dir.meta.now) => dir.meta.now.fingerprint = index)
  BY <1>2 DEF MustRotate
<1>5. CalmCall(c)'
  BY <1>1, <1>2, <1>3, <1>4 DEF CalmCall, Built, Past, Filling, WritesFile, Readable, Rotating, Writing
<1> QED BY <1>0, <1>2, <1>5, CalmQuiet

\* What a caller does with its graph changes neither the graph nor the id map.
LEMMA CalmUses ==
  ASSUME CalmInv, NEW c \in Caller,
         Answer(c) \/ BaseMeta(c) \/ BaseGraph(c) \/ BaseComplexity(c) \/ Compared(c) \/ Kill(c)
  PROVE  CalmInv'
<1>0. Quiet(c)
  BY DEF Quiet
<1>1. /\ caller \in [Caller -> Call] /\ caller[c] \in Call /\ Shape(caller[c]) /\ CalmCall(c)
      /\ index' = index /\ dir' = dir /\ faults \in Nat /\ faults' \in {faults, faults + 1}
  BY <1>0, CalmTurn
<1>2. ASSUME caller'[c] = Idle, ~Kill(c) => ~Owes(c) PROVE CalmInv'
  <2>1. CalmCall(c)'
    BY <1>2 DEF CalmCall, Built, Past, Filling, WritesFile, Idle, Rotating, Writing
  <2>2. faults' = faults => ~Owes(c)
    BY <1>1, <1>2 DEF Kill, Fault
  <2> QED BY <1>0, <2>1, <2>2, CalmQuiet
<1>3. ASSUME ~Kill(c), caller[c].at \in {"answer"} \cup Bases,
             caller'[c].fingerprint = caller[c].fingerprint, caller'[c].ids = caller[c].ids,
             caller'[c].cached = caller[c].cached, caller'[c].graph = caller[c].graph,
             caller'[c].at \in Bases \/ (caller'[c].at = "truncate" /\ caller'[c].file = "complexity")
      PROVE  CalmInv'
  <2>1. CalmCall(c)'
    BY <1>1, <1>3 DEF CalmCall, Built, Past, Filling, WritesFile, Rotating, Writing, Bases
  <2>2. ~Owes(c)
    BY <1>3 DEF Owes, Filling, Bases
  <2> QED BY <1>0, <2>1, <2>2, CalmQuiet
<1>4. CASE Kill(c)
  BY <1>1, <1>2, <1>4 DEF Kill, Become
<1>5. CASE Answer(c) \/ Compared(c)
  <2>1. caller[c].at \in {"answer", "compared"} /\ ~Owes(c)
    BY <1>5 DEF Answer, Compared, Owes, Filling
  <2>2. caller'[c] = Idle \/ caller'[c] = [caller[c] EXCEPT !.at = "baseMeta"]
          \/ caller'[c] = [caller[c] EXCEPT !.at = "truncate", !.file = "complexity", !.gen = "now", !.base = NoBase]
    BY <1>1, <1>5 DEF Answer, Compared, Become, Goto
  <2> QED BY <1>1, <1>2, <1>3, <1>4, <2>1, <2>2 DEF Call, Bases
<1>6. CASE BaseMeta(c) \/ BaseGraph(c) \/ BaseComplexity(c)
  <2>1. caller[c].at \in {"baseMeta", "baseGraph", "baseComplexity"} /\ ~Owes(c)
    BY <1>6 DEF BaseMeta, BaseGraph, BaseComplexity, Owes, Filling
  <2>2. \/ caller'[c] = Idle
        \/ \E p \in Bases : \E b, g : caller'[c] = [caller[c] EXCEPT !.at = p, !.gen = g, !.base = b]
    <3>1. Pass(caller[c]) = Idle
            \/ Pass(caller[c]) = [caller[c] EXCEPT !.at = "baseMeta", !.gen = "prev", !.base = NoBase]
      BY DEF Pass
    <3>2. caller'[c] = Pass(caller[c])
            \/ \E p \in Bases : \E b : caller'[c] = [caller[c] EXCEPT !.at = p, !.base = b]
      <4>1. CASE BaseMeta(c)
        BY <1>1, <4>1 DEF BaseMeta, Become, Bases, Call
      <4>2. CASE BaseGraph(c)
        BY <1>1, <4>2 DEF BaseGraph, Become, Bases, Call
      <4>3. CASE BaseComplexity(c)
        BY <1>1, <4>3 DEF BaseComplexity, Become, Bases, Call
      <4> QED BY <1>6, <4>1, <4>2, <4>3
    <3>3. ASSUME NEW p \in Bases, NEW b, caller'[c] = [caller[c] EXCEPT !.at = p, !.base = b]
          PROVE  caller'[c] = [caller[c] EXCEPT !.at = p, !.gen = caller[c].gen, !.base = b]
      BY <1>1, <3>3 DEF Call
    <3>4. "baseMeta" \in Bases
      BY DEF Bases
    <3>5. CASE caller'[c] = Pass(caller[c])
      BY <3>1, <3>4, <3>5 DEF NoBase
    <3>6. CASE \E p \in Bases : \E b : caller'[c] = [caller[c] EXCEPT !.at = p, !.base = b]
      <4>0. PICK p \in Bases : \E b : caller'[c] = [caller[c] EXCEPT !.at = p, !.base = b]
        BY <3>6
      <4>1. PICK b : caller'[c] = [caller[c] EXCEPT !.at = p, !.base = b]
        BY <4>0
      <4>2. caller'[c] = [caller[c] EXCEPT !.at = p, !.gen = caller[c].gen, !.base = b]
        BY <3>3, <4>1
      <4> QED BY <4>2, Zenon
    <3> QED BY <3>2, <3>5, <3>6
  <2>3. ASSUME NEW p \in Bases, NEW b, NEW g,
               caller'[c] = [caller[c] EXCEPT !.at = p, !.gen = g, !.base = b]
        PROVE  CalmInv'
    BY <1>1, <1>3, <1>4, <2>1, <2>3 DEF Call, Bases
  <2> QED BY <1>2, <2>1, <2>2, <2>3
<1> QED BY <1>4, <1>5, <1>6

\* What a step that stores has to leave.
LEMMA CalmStored ==
  ASSUME CalmInv, NEW c \in Caller, Stores(c), CalmCall(c)', Matched',
         FreshGraph(dir.graph.tmp) => FreshGraph(dir'.graph.tmp),
         FreshMeta(dir.meta.tmp) => FreshMeta(dir'.meta.tmp),
         dir'.graph.now = dir.graph.now \/ FreshGraph(dir'.graph.now),
         dir'.meta.now = dir.meta.now \/ FreshMeta(dir'.meta.now)
  PROVE  CalmInv'
<1>1. /\ Typed' /\ index' = index /\ faults \in Nat /\ faults' \in Nat /\ faults <= faults'
      /\ \A d \in Caller \ {c} : caller'[d] = caller[d]
  BY CalmStores
<1>2. /\ FreshGraph(dir.graph.tmp) => FreshGraph(dir.graph.tmp)'
      /\ FreshMeta(dir.meta.tmp) => FreshMeta(dir.meta.tmp)'
      /\ FreshGraph(dir.graph.now) => FreshGraph(dir.graph.now)'
      /\ (Readable(dir.meta.now) => dir.meta.now.fingerprint = index)
           => (Readable(dir.meta.now) => dir.meta.now.fingerprint = index)'
  BY <1>1 DEF FreshGraph, FreshMeta
<1>3. \A d \in Caller : CalmCall(d)'
  BY <1>1, <1>2, CalmOthers DEF CalmInv
<1>4. /\ (Readable(dir.graph.now) => dir.graph.now.edges = dir.graph.now.nodes)'
      /\ (Readable(dir.meta.now) => dir.meta.now.ids = dir.meta.now.fingerprint)'
  BY DEF CalmInv, FreshGraph, FreshMeta
<1> QED BY <1>1, <1>3, <1>4 DEF CalmInv

\* Graph and meta match as before where both stay, if whoever owes a meta still
\* does, and if a fault was the first one.
LEMMA CalmMatched ==
  ASSUME CalmInv, NEW c \in Caller, Stores(c),
         dir'.graph.now = dir.graph.now, dir'.meta.now = dir.meta.now,
         faults' = faults => /\ dir.meta.tmp # Absent => dir'.meta.tmp # Absent
                             /\ Owes(c) => Owes(c)'
  PROVE  Matched'
<1>1. /\ index' = index /\ faults \in Nat /\ faults' \in {faults, faults + 1}
      /\ \A d \in Caller \ {c} : caller'[d] = caller[d]
  BY CalmStores
<1> SUFFICES ASSUME faults' <= 1, Readable(dir.graph.now), Readable(dir.meta.now),
                    dir.meta.now.fingerprint # dir.graph.now.nodes
             PROVE  faults' = 1 /\ dir.graph.now.nodes = index /\ \E d \in Caller : Owes(d)'
  BY <1>1 DEF Matched
<1>2. faults = 1 /\ dir.graph.now.nodes = index /\ faults' = faults
  BY <1>1 DEF CalmInv, Matched
<1>3. PICK d \in Caller : Owes(d)
  BY <1>1, <1>2 DEF CalmInv, Matched
<1>4. Owes(d)'
  <2>1. CASE d = c
    BY <1>2, <1>3, <2>1
  <2>2. CASE d # c
    BY <1>1, <1>2, <1>3, <2>2 DEF Owes, Filling
  <2> QED BY <2>1, <2>2
<1> QED BY <1>2, <1>4

\* A rotation takes the old meta away before it is done with its last file.
LEMMA CalmRotates ==
  ASSUME CalmInv, NEW c \in Caller, Evict(c) \/ Move(c)
  PROVE  CalmInv'
<1>0. Stores(c)
  BY DEF Stores
<1>1. /\ Typed /\ index' = index /\ faults \in Nat /\ faults' \in {faults, faults + 1}
      /\ caller \in [Caller -> Call] /\ caller[c] \in Call /\ caller[c].file \in File
      /\ CalmCall(c) /\ Shape(caller[c])
  BY <1>0, CalmStores
<1>2. /\ caller[c].at \in Rotating /\ ~Owes(c)
      /\ caller[c].fingerprint = index /\ caller[c].ids = index /\ ~caller[c].cached
      /\ caller[c].graph.nodes = index /\ caller[c].graph.edges = index
  BY <1>1 DEF Evict, Move, CalmCall, Built, Owes, Filling, Rotating
<1>3. /\ caller'[c].fingerprint = caller[c].fingerprint /\ caller'[c].ids = caller[c].ids
      /\ caller'[c].cached = caller[c].cached /\ caller'[c].graph = caller[c].graph
      /\ \/ Evict(c) /\ caller'[c].at = "move" /\ caller'[c].file = caller[c].file
         \/ Move(c) /\ caller[c].file = "graph" /\ caller'[c].at = "evict" /\ caller'[c].file = "meta"
         \/ Move(c) /\ caller[c].file = "meta" /\ caller'[c].at = "evict" /\ caller'[c].file = "complexity"
         \/ Move(c) /\ caller[c].file = "complexity" /\ caller'[c].at = "truncate" /\ caller'[c].file = "graph"
  <2>1. CASE Evict(c)
    BY <1>1, <2>1 DEF Evict, Goto, Call
  <2>2. CASE Move(c)
    BY <1>1, <2>2 DEF Move, Become, AfterMove, Call, File
  <2> QED BY <2>1, <2>2
<1>4. /\ \A f \in File : dir'[f].tmp = dir[f].tmp
      /\ \A f \in File : \/ dir'[f].now = dir[f].now
                         \/ Move(c) /\ f = caller[c].file /\ dir'[f].now = Absent
  <2>1. CASE Evict(c) /\ Put(caller[c].file, "prev", Absent)
    BY <1>1, <2>1, Puts DEF Content, Generation
  <2>2. CASE Move(c) /\ dir' = Rotated(caller[c].file)
    BY <1>1, <2>2, Rotates DEF Generation
  <2>3. CASE dir' = dir
    BY <2>3
  <2> QED BY <2>1, <2>2, <2>3 DEF Evict, Move
<1>5. Move(c) /\ caller[c].file = "meta" /\ faults' = 0 => ~Readable(dir'.meta.now)
  <2> SUFFICES ASSUME Move(c), caller[c].file = "meta", faults' = 0 PROVE dir'.meta.now = Absent
    BY DEF Readable
  <2>1. dir' = Rotated("meta")
    BY <1>1 DEF Move, Fault
  <2> QED BY <1>1, <2>1, Rotates DEF File, Generation
<1>6. /\ dir'.graph.tmp = dir.graph.tmp /\ dir'.meta.tmp = dir.meta.tmp
      /\ dir'.graph.now = dir.graph.now \/ (caller[c].file = "graph" /\ dir'.graph.now = Absent)
      /\ dir'.meta.now = dir.meta.now \/ dir'.meta.now = Absent
  BY <1>4 DEF File
<1>7. CalmCall(c)'
  <2>1. Past(c)' => (faults' = 0 => (Readable(dir'.meta.now) => dir'.meta.now.fingerprint = index))
    <3>1. CASE Past(c)
      BY <1>1, <1>6, <3>1 DEF CalmCall, Readable
    <3>2. CASE ~Past(c)
      BY <1>2, <1>3, <1>5, <3>2 DEF Past, WritesFile, Rotating, Writing
    <3> QED BY <3>1, <3>2
  <2> QED BY <1>1, <1>2, <1>3, <2>1 DEF CalmCall, Built, Filling, WritesFile, Rotating, Writing
<1>8. Matched'
  <2>1. CASE dir'.graph.now = dir.graph.now /\ dir'.meta.now = dir.meta.now
    BY <1>0, <1>2, <1>6, <2>1, CalmMatched
  <2>2. CASE dir'.graph.now = Absent \/ dir'.meta.now = Absent
    BY <2>2 DEF Matched, Readable
  <2> QED BY <1>6, <2>1, <2>2
<1> QED BY <1>0, <1>6, <1>7, <1>8, CalmStored DEF FreshGraph, FreshMeta, Readable

\* What is written is the caller's own graph and its meta.
LEMMA CalmWrites ==
  ASSUME CalmInv, NEW c \in Caller, Truncate(c) \/ Fill(c)
  PROVE  CalmInv'
<1>0. Stores(c)
  BY DEF Stores
<1>1. /\ Typed /\ index' = index /\ faults \in Nat /\ faults' = faults
      /\ caller \in [Caller -> Call] /\ caller[c] \in Call /\ caller[c].file \in File
      /\ CalmCall(c) /\ Shape(caller[c])
  BY <1>0, CalmStores DEF Truncate, Fill
<1>2. /\ caller'[c].fingerprint = caller[c].fingerprint /\ caller'[c].ids = caller[c].ids
      /\ caller'[c].cached = caller[c].cached /\ caller'[c].graph = caller[c].graph
      /\ caller'[c].file = caller[c].file
      /\ \/ Truncate(c) /\ caller[c].at = "truncate" /\ caller'[c].at = "fill"
         \/ Fill(c) /\ caller[c].at = "fill" /\ caller'[c].at = "publish"
  BY <1>1 DEF Truncate, Fill, Goto, Call
<1>3. PICK x \in Content(caller[c].file) :
        /\ x = Torn \/ x = Written(caller[c])
        /\ Put(caller[c].file, "tmp", x)
  BY <1>1, <1>2, Writes DEF Truncate, Fill, Content, Writing
<1>4. \A h \in File, k \in Generation :
        dir'[h][k] = IF h = caller[c].file /\ k = "tmp" THEN x ELSE dir[h][k]
  BY <1>1, <1>3, Puts DEF Generation
<1>5. /\ x # Absent
      /\ caller[c].file = "graph" => FreshGraph(x)
      /\ caller[c].file = "meta" => FreshMeta(x)
  <2>1. CASE x = Torn
    BY <2>1, CacheAssumption DEF FreshGraph, FreshMeta, Readable
  <2>2. CASE x = Written(caller[c]) /\ caller[c].file = "graph"
    <3>1. caller[c].graph.nodes = index /\ caller[c].graph.edges = index /\ caller[c].graph \in Graph
      BY <1>1, <1>2, <2>2 DEF CalmCall, Built, WritesFile, Writing, Shape, Early
    <3> QED BY <2>2, <3>1, CacheAssumption DEF Written, FreshGraph
  <2>3. CASE x = Written(caller[c]) /\ caller[c].file = "meta"
    <3>1. caller[c].fingerprint = index /\ caller[c].ids = index
      BY <1>1, <1>2, <2>3 DEF CalmCall, Built, WritesFile, Writing
    <3>2. x \in Meta
      BY <1>1, <2>3, <3>1 DEF Written, Meta, Typed, Call
    <3>3. x.fingerprint = index /\ x.ids = index
      BY <2>3, <3>1 DEF Written
    <3> QED BY <2>3, <3>2, <3>3, CacheAssumption DEF FreshMeta
  <2>4. CASE x = Written(caller[c]) /\ caller[c].file = "complexity"
    <3>1. x \in Complexity
      <4>1. caller[c].own \in Version /\ caller[c].graph \in Graph
        BY <1>1, <1>2, <2>4 DEF Shape, Early, Writing
      <4>2. caller[c].graph.nodes \in Version
        BY <4>1 DEF Graph
      <4> QED BY <2>4, <4>1, <4>2 DEF Written, Complexity
    <3> QED BY <2>4, <3>1, CacheAssumption
  <2> QED BY <1>1, <1>3, <2>1, <2>2, <2>3, <2>4 DEF File
<1>6. /\ dir'.graph.now = dir.graph.now /\ dir'.meta.now = dir.meta.now
      /\ dir'.graph.tmp = (IF caller[c].file = "graph" THEN x ELSE dir.graph.tmp)
      /\ dir'.meta.tmp = (IF caller[c].file = "meta" THEN x ELSE dir.meta.tmp)
  BY <1>4 DEF File, Generation
<1>7. CalmCall(c)'
  <2>1. /\ Built(c)' = Built(c) /\ Past(c)' = Past(c)
        /\ \A f \in File : WritesFile(c, f)' = WritesFile(c, f)
    BY <1>2 DEF Built, Past, WritesFile, Rotating, Writing
  <2>2. /\ Filling(c, "graph")' => FreshGraph(dir.graph.tmp)'
        /\ Filling(c, "meta")' => FreshMeta(dir.meta.tmp)'
    BY <1>1, <1>2, <1>5, <1>6 DEF Filling, FreshGraph, FreshMeta
  <2>3. FreshGraph(dir.graph.now)' = FreshGraph(dir.graph.now)
    BY <1>1, <1>6 DEF FreshGraph
  <2>4. caller'[c].at \in {"fill", "publish"} /\ caller[c].at \in Writing
    BY <1>2 DEF Writing
  <2>5. caller[c].cached => WritesFile(c, "complexity")
    BY <1>1, <1>2 DEF CalmCall, Bases
  <2>6. Past(c)' /\ faults' = 0 => (Readable(dir.meta.now)' => dir'.meta.now.fingerprint = index)
    BY <1>1, <1>6, <2>1 DEF CalmCall
  <2>7. Built(c)' => /\ caller'[c].ids = index /\ ~caller'[c].cached
                     /\ caller'[c].graph.nodes = index /\ caller'[c].graph.edges = index
    BY <1>1, <1>2, <2>1 DEF CalmCall
  <2>8. caller'[c].fingerprint = index
    BY <1>1, <1>2 DEF CalmCall
  <2>9. WritesFile(c, "meta")' => FreshGraph(dir.graph.now)'
    BY <1>1, <2>1, <2>3 DEF CalmCall, File
  <2>10. caller'[c].cached =>
           /\ WritesFile(c, "complexity")' /\ caller'[c].ids = index
           /\ faults' <= 1 => caller'[c].graph.nodes = index /\ caller'[c].graph.edges = index
    BY <1>1, <1>2, <2>1, <2>5 DEF CalmCall, File
  <2> QED BY <1>1, <2>2, <2>4, <2>6, <2>7, <2>8, <2>9, <2>10 DEF CalmCall
<1>8. Matched'
  BY <1>0, <1>1, <1>2, <1>5, <1>6, CalmMatched DEF Owes, Filling
<1> QED BY <1>0, <1>5, <1>6, <1>7, <1>8, CalmStored

\* A graph in place is owed its meta, and a meta in place has its graph.
LEMMA CalmPublishes ==
  ASSUME CalmInv, NEW c \in Caller, Publish(c)
  PROVE  CalmInv'
<1>0. Stores(c)
  BY DEF Stores
<1>1. /\ Typed /\ index' = index /\ faults \in Nat /\ faults' = faults
      /\ caller \in [Caller -> Call] /\ caller[c] \in Call /\ caller[c].file \in File
      /\ CalmCall(c) /\ Shape(caller[c])
  BY <1>0, CalmStores DEF Publish
<1>2. /\ caller[c].at = "publish" /\ dir[caller[c].file].tmp # Absent
      /\ caller' = [caller EXCEPT ![c] = AfterFile(caller[c])]
      /\ \A h \in File, k \in Generation :
           dir'[h][k] = IF h # caller[c].file \/ k = "prev" THEN dir[h][k]
                        ELSE IF k = "now" THEN dir[caller[c].file].tmp ELSE Absent
  BY <1>1, Replaces DEF Publish, Become
<1>3. CASE caller[c].file = "graph"
  <2>1. /\ Built(c) /\ Past(c) /\ Filling(c, "graph")
    BY <1>2, <1>3 DEF Built, Past, Filling, WritesFile, Writing
  <2>2. /\ caller[c].fingerprint = index /\ caller[c].ids = index /\ ~caller[c].cached
        /\ caller[c].graph.nodes = index /\ caller[c].graph.edges = index
        /\ FreshGraph(dir.graph.tmp)
        /\ faults = 0 => (Readable(dir.meta.now) => dir.meta.now.fingerprint = index)
    BY <1>1, <1>2, <2>1 DEF CalmCall
  <2>3. /\ dir'.graph.now = dir.graph.tmp /\ dir'.graph.tmp = Absent
        /\ dir'.meta.now = dir.meta.now /\ dir'.meta.tmp = dir.meta.tmp
    BY <1>2, <1>3 DEF File, Generation
  <2>4. /\ caller'[c].fingerprint = caller[c].fingerprint /\ caller'[c].ids = caller[c].ids
        /\ caller'[c].cached = caller[c].cached /\ caller'[c].graph = caller[c].graph
        /\ caller'[c].at = "truncate" /\ caller'[c].file = "meta"
    BY <1>1, <1>2, <1>3 DEF AfterFile, Call
  <2>5. FreshGraph(dir'.graph.now) /\ FreshGraph(dir'.graph.tmp) /\ FreshGraph(dir.graph.now)'
    BY <1>1, <2>2, <2>3 DEF FreshGraph, Readable
  <2>6. CalmCall(c)'
    BY <1>1, <2>2, <2>4, <2>5 DEF CalmCall, Built, Past, Filling, WritesFile, Rotating, Writing
  <2>7. Matched'
    <3>1. Owes(c)'
      BY <2>4 DEF Owes
    <3>2. Readable(dir'.graph.now) => dir'.graph.now.nodes = index
      BY <2>5 DEF FreshGraph
    <3> QED BY <1>1, <2>2, <2>3, <3>1, <3>2 DEF Matched
  <2> QED BY <1>0, <2>3, <2>5, <2>6, <2>7, CalmStored
<1>4. CASE caller[c].file = "meta"
  <2>1. /\ Built(c) /\ WritesFile(c, "meta") /\ Filling(c, "meta")
    BY <1>2, <1>4 DEF Built, Filling, WritesFile, Writing
  <2>2. /\ caller[c].fingerprint = index /\ ~caller[c].cached
        /\ FreshMeta(dir.meta.tmp) /\ FreshGraph(dir.graph.now)
    BY <1>1, <1>2, <2>1 DEF CalmCall
  <2>3. /\ dir'.meta.now = dir.meta.tmp /\ dir'.meta.tmp = Absent
        /\ dir'.graph.now = dir.graph.now /\ dir'.graph.tmp = dir.graph.tmp
    BY <1>2, <1>4 DEF File, Generation
  <2>4. /\ caller'[c].fingerprint = caller[c].fingerprint /\ caller'[c].cached = caller[c].cached
        /\ caller'[c].at = "answer"
    BY <1>1, <1>2, <1>4 DEF AfterFile, Call
  <2>5. FreshMeta(dir'.meta.now) /\ FreshMeta(dir'.meta.tmp)
    BY <2>2, <2>3 DEF FreshMeta, Readable
  <2>6. CalmCall(c)'
    BY <1>1, <2>2, <2>4 DEF CalmCall, Built, Past, Filling, WritesFile, Rotating, Writing
  <2>7. Matched'
    BY <1>1, <2>2, <2>3, <2>5 DEF Matched, FreshMeta, FreshGraph
  <2> QED BY <1>0, <2>3, <2>5, <2>6, <2>7, CalmStored
<1>5. CASE caller[c].file = "complexity"
  <2>1. /\ dir'.meta.now = dir.meta.now /\ dir'.meta.tmp = dir.meta.tmp
        /\ dir'.graph.now = dir.graph.now /\ dir'.graph.tmp = dir.graph.tmp
    BY <1>2, <1>5 DEF File, Generation
  <2>2. caller'[c] = Idle /\ ~Owes(c)
    BY <1>1, <1>2, <1>5 DEF AfterFile, Owes, Filling
  <2>3. CalmCall(c)'
    BY <2>2 DEF CalmCall, Built, Past, Filling, WritesFile, Idle, Rotating, Writing
  <2>4. Matched'
    BY <1>0, <2>1, <2>2, CalmMatched
  <2> QED BY <1>0, <2>1, <2>3, <2>4, CalmStored
<1> QED BY <1>1, <1>3, <1>4, <1>5 DEF File

\* A store that fails is a fault, or finds that its file is no longer there.
LEMMA CalmFails ==
  ASSUME CalmInv, NEW c \in Caller, StoreFails(c)
  PROVE  CalmInv'
<1>0. Stores(c)
  BY DEF Stores
<1>1. /\ Typed /\ index' = index /\ faults \in Nat /\ faults' \in {faults, faults + 1}
      /\ caller \in [Caller -> Call] /\ caller[c] \in Call /\ caller[c].file \in File
      /\ CalmCall(c) /\ Shape(caller[c])
  BY <1>0, CalmStores
<1>2. /\ caller[c].at \in {"check"} \cup Writing
      /\ caller[c].at = "check" => caller[c].file = "graph"
  BY <1>1 DEF StoreFails, Writing, Shape, Rotating
<1>3. /\ \A f \in File : dir'[f].now = dir[f].now /\ dir'[f].tmp \in {dir[f].tmp, Absent}
      /\ faults' = faults => dir' = dir /\ dir[caller[c].file].tmp = Absent /\ caller[c].at = "publish"
  <2>1. CASE Put(caller[c].file, "tmp", Absent) /\ Fault
    BY <1>1, <2>1, Puts DEF Content, Generation, Fault
  <2>2. CASE dir' = dir
    BY <1>1, <2>2 DEF StoreFails, Fault
  <2> QED BY <2>1, <2>2 DEF StoreFails
<1>4. /\ dir'.graph.now = dir.graph.now /\ dir'.meta.now = dir.meta.now
      /\ dir'.graph.tmp \in {dir.graph.tmp, Absent} /\ dir'.meta.tmp \in {dir.meta.tmp, Absent}
  BY <1>3 DEF File
<1>5. caller'[c] = IF caller[c].file = "complexity" THEN Idle
                   ELSE [caller[c] EXCEPT !.at = "answer", !.file = "graph"]
  BY <1>1 DEF StoreFails, GiveUp, Become
<1>6. CalmCall(c)'
  <2>1. CASE caller[c].file = "complexity"
    BY <1>5, <2>1 DEF CalmCall, Built, Past, Filling, WritesFile, Idle, Rotating, Writing
  <2>2. CASE caller[c].file # "complexity"
    <3>1. /\ caller'[c].at = "answer" /\ caller'[c].cached = caller[c].cached
          /\ caller'[c].fingerprint = caller[c].fingerprint
      BY <1>1, <1>5, <2>2 DEF Call
    <3>2. Built(c)
      BY <1>1, <1>2, <2>2 DEF Built, WritesFile, File
    <3>3. caller[c].fingerprint = index /\ ~caller[c].cached
      BY <1>1, <1>2, <3>2 DEF CalmCall, Writing
    <3> QED BY <1>1, <3>1, <3>3 DEF CalmCall, Built, Past, Filling, WritesFile, Rotating, Writing
  <2> QED BY <2>1, <2>2
<1>7. Matched'
  BY <1>0, <1>1, <1>3, <1>4, CalmMatched DEF Owes, Filling
<1> QED BY <1>0, <1>4, <1>6, <1>7, CalmStored DEF FreshGraph, FreshMeta, Readable

\* The index changes while nobody is owed or relies on anything.
LEMMA CalmSyncs ==
  ASSUME CalmInv, Sync, Resting
  PROVE  CalmInv'
<1>1. Typed /\ Typed' /\ dir' = dir /\ caller' = caller /\ faults' = faults
  BY NextTyped DEF CalmInv, Next, Sync
<1>2. \A c \in Caller : caller[c].at = "idle" /\ ~Owes(c)
  BY DEF Resting, Owes, Filling
<1>3. \A c \in Caller : CalmCall(c)'
  <2> SUFFICES ASSUME NEW c \in Caller PROVE CalmCall(c)'
    OBVIOUS
  <2>1. caller'[c].at = "idle" /\ ~caller[c].cached
    BY <1>1, <1>2 DEF CalmInv, CalmCall, WritesFile, Writing, Bases
  <2> QED BY <1>1, <2>1 DEF CalmCall, Built, Past, Filling, WritesFile, Rotating, Writing
<1>4. Matched'
  BY <1>1, <1>2 DEF CalmInv, Matched
<1> QED BY <1>1, <1>3, <1>4 DEF CalmInv

\* The empty cache, in calm surroundings.
LEMMA CalmBegins == Init => CalmInv
<1> SUFFICES ASSUME Init PROVE CalmInv
  OBVIOUS
<1>1. \A f \in File, g \in Generation : dir[f][g] = Absent /\ dir[f][g] \in Content(f)
  BY DEF Init, Content
<1>2. Typed
  BY <1>1, IdleTyped, CacheAssumption DEF Init, Typed
<1>3. dir.graph.now = Absent /\ dir.meta.now = Absent
  BY <1>1 DEF File, Generation
<1>4. \A c \in Caller : CalmCall(c)
  BY DEF Init, CalmCall, Built, Past, Filling, WritesFile, Idle, Rotating, Writing
<1> QED BY <1>2, <1>3, <1>4 DEF CalmInv, Matched, Readable

\* The invariant of the cache whose index rests during calls.
LEMMA CalmSteps == CalmInv /\ [CalmNext]_vars => CalmInv'
<1> SUFFICES ASSUME CalmInv, [CalmNext]_vars PROVE CalmInv'
  OBVIOUS
<1>1. CASE Sync /\ Resting
  BY <1>1, CalmSyncs
<1>2. ASSUME NEW c \in Caller, CallStep(c) \/ CutOff(c) PROVE CalmInv'
  <2>1. CASE Ask(c) \/ Fingerprint(c) \/ LoadMeta(c) \/ LoadGraph(c) \/ ReadNodes(c) \/ ReadEdges(c)
    BY <2>1, CalmStarts, CalmLoads
  <2>2. CASE Check(c) \/ Evict(c) \/ Move(c) \/ Truncate(c) \/ Fill(c) \/ Publish(c)
    BY <2>2, CalmChecks, CalmRotates, CalmWrites, CalmPublishes
  <2>3. CASE Answer(c) \/ BaseMeta(c) \/ BaseGraph(c) \/ BaseComplexity(c) \/ Compared(c)
    BY <2>3, CalmUses
  <2>4. CASE Kill(c) \/ StoreFails(c)
    BY <2>4, CalmUses, CalmFails
  <2> QED BY <1>2, <2>1, <2>2, <2>3, <2>4 DEF CallStep, CutOff
<1>3. CASE UNCHANGED vars
  <2>1. Typed' /\ index' = index /\ dir' = dir /\ caller' = caller /\ faults' = faults
    BY <1>3, NextTyped DEF CalmInv, vars
  <2>2. \A c \in Caller : CalmCall(c)' /\ Owes(c)' = Owes(c)
    BY <2>1 DEF CalmInv, CalmCall, Owes, Built, Past, Filling, WritesFile, FreshGraph, FreshMeta
  <2>3. Matched'
    BY <2>1, <2>2 DEF CalmInv, Matched
  <2> QED BY <2>1, <2>2, <2>3 DEF CalmInv
<1> QED BY <1>1, <1>2, <1>3 DEF CalmNext

\* Each surroundings have their invariant.
LEMMA UseHolds == UseSpec => [](IF orderly THEN CacheInv ELSE CalmInv)
<1> DEFINE Inv == IF orderly THEN CacheInv ELSE CalmInv
<1>1. UseInit => Inv
  BY CacheStarts, CalmBegins DEF UseInit
<1>2. Inv /\ [UseNext]_<<vars, orderly>> => Inv'
  <2> SUFFICES ASSUME Inv, [UseNext]_<<vars, orderly>> PROVE Inv'
    OBVIOUS
  <2>1. orderly' = orderly
    BY DEF UseNext
  <2>2. CASE orderly
    <3>1. CacheInv /\ [OrderlyNext]_vars
      BY <2>2 DEF UseNext
    <3> QED BY <2>1, <2>2, <3>1, CacheSteps
  <2>3. CASE ~orderly
    <3>1. CalmInv /\ [CalmNext]_vars
      BY <2>3 DEF UseNext
    <3> QED BY <2>1, <2>3, <3>1, CalmSteps
  <2> QED BY <2>2, <2>3
<1> QED BY <1>1, <1>2, PTL DEF UseSpec

\* A graph that load_cache answers with is of the index asked for in nodes, edges
\* and id map, with one call killed or one operation failed; where the index rests
\* during calls, for any number of callers that rotate and store at the same time,
\* and anywhere (store_cache, rotate_cache_generation, load_cache).
THEOREM CacheIsCurrent == UseSpec => []CachedIsCurrent
<1>1. CacheInv => CachedIsCurrent
  BY DEF CacheInv, CallInv, Early, CachedIsCurrent
<1>2. CalmInv => CachedIsCurrent
  BY DEF CalmInv, CalmCall, WritesFile, Writing, Bases, CachedIsCurrent
<1>3. (IF orderly THEN CacheInv ELSE CalmInv) => CachedIsCurrent
  BY <1>1, <1>2
<1> QED BY <1>3, UseHolds, PTL

-----------------------------------------------------------------------------
(* The files implement two snapshots                                         *)

\* What a step of the snapshots looks like from the files.
Maps == [Cache!Next]_Cache!vars

\* The two generations are snapshots, or none.
LEMMA KeptTyped ==
  ASSUME Typed
  PROVE  /\ Kept \in Cache!Snapshot \cup {Absent} /\ KeptBefore \in Cache!Snapshot \cup {Absent}
         /\ Absent \notin Cache!Snapshot
<1>1. ASSUME NEW m, NEW x \in Graph \cup {Absent, Torn}
      PROVE  Whole(m, x) \in Cache!Snapshot \cup {Absent}
  BY DEF Whole, Readable, Graph, Cache!Snapshot
<1>2. Absent \notin Cache!Snapshot
  BY CacheAssumption DEF Cache!Snapshot
<1> QED BY <1>1, <1>2, Contents DEF Kept, KeptBefore, Generation

\* Nothing that is kept or served changes, whether or not a call failed.
LEMMA LosesNothing ==
  ASSUME NEW c \in Caller, faults \in Nat, faults' \in {faults, faults + 1},
         Kept' = Kept, KeptBefore' = KeptBefore, Served' = Served
  PROVE  Maps
<1>1. CASE faults' = faults
  BY <1>1 DEF Maps, Cache!vars
<1>2. CASE faults' = faults + 1
  <2>1. Served' = Cache!Without(c, {})
    BY DEF Served, Cache!Without, Cache!Use, Cache!Role
  <2>2. Cache!Lose
    BY <1>2, <2>1 DEF Cache!Lose
  <2> QED BY <2>2 DEF Maps, Cache!Next
<1> QED BY <1>1, <1>2

\* What is lost is lost to a fault of this step or an earlier one.
LEMMA Loses ==
  ASSUME NEW c \in Caller, faults' \in {faults, faults + 1}, faults' # 0,
         Kept' \in {Kept, Absent}, KeptBefore' \in {KeptBefore, Kept, Absent},
         Served' = Served \/ Served' = Cache!Without(c, {"graph", "base"})
  PROVE  Maps
<1>1. \E roles \in SUBSET Cache!Role : Served' = Cache!Without(c, roles)
  <2>1. CASE Served' = Served
    <3>1. Served' = Cache!Without(c, {})
      BY <2>1 DEF Served, Cache!Without, Cache!Use, Cache!Role
    <3> QED BY <3>1
  <2>2. CASE Served' = Cache!Without(c, {"graph", "base"})
    BY <2>2 DEF Cache!Role
  <2> QED BY <2>1, <2>2
<1>2. Cache!Lose
  BY <1>1 DEF Cache!Lose
<1> QED BY <1>2 DEF Maps, Cache!Next

\* A caller that keeps its graph and its base.
LEMMA ServedSame ==
  ASSUME NEW c \in Caller, \A d \in Caller \ {c} : caller'[d] = caller[d],
         caller'[c].cached = caller[c].cached,
         caller'[c].cached => caller'[c].graph = caller[c].graph,
         caller'[c].base.graph = caller[c].base.graph
  PROVE  Served' = Served
BY DEF Served, Plain

\* A caller that forgets both.
LEMMA ServedDrop ==
  ASSUME NEW c \in Caller, \A d \in Caller \ {c} : caller'[d] = caller[d],
         caller'[c] = Idle
  PROVE  Served' = Cache!Without(c, {"graph", "base"})
<1>1. Idle.cached = FALSE /\ Plain(Idle.base.graph) = Absent
  BY DEF Idle, NoBase, Plain
<1> QED BY <1>1 DEF Served, Cache!Without, Cache!Use, Cache!Role, Plain

\* Files and rotation as they were.
LEMMA KeptSame ==
  ASSUME dir'.graph.now = dir.graph.now, dir'.graph.prev = dir.graph.prev,
         dir'.meta.now = dir.meta.now, dir'.meta.prev = dir.meta.prev, Turning' = Turning
  PROVE  Kept' = Kept /\ KeptBefore' = KeptBefore
BY DEF Kept, KeptBefore

\* A quiet step serves a snapshot, drops one, or changes nothing of this.
LEMMA QuietFacts ==
  ASSUME CacheInv, OrderlyNext, NEW c \in Caller, Quiet(c), ~Kill(c)
  PROVE  /\ Typed /\ caller \in [Caller -> Call] /\ caller[c] \in Call /\ Shape(caller[c])
         /\ CallInv(c) /\ SeenInv(c)
         /\ \A d \in Caller \ {c} : caller'[d] = caller[d]
         /\ Kept' = Kept /\ KeptBefore' = KeptBefore
         /\ faults \in Nat /\ faults' \in {faults, faults + 1}
<1>1. /\ Typed /\ caller \in [Caller -> Call] /\ caller[c] \in Call /\ Shape(caller[c])
      /\ CallInv(c) /\ SeenInv(c) /\ faults \in Nat
  BY CacheAssumption DEF CacheInv, Typed
<1>2. dir' = dir /\ faults' \in {faults, faults + 1}
  BY <1>1, QuietTurns
<1>3. PICK r \in Call : Turn(c, r)
  BY <1>1, QuietTurns
<1>4. \A d \in Caller \ {c} : caller'[d] = caller[d]
  BY <1>1, <1>3, Becomes DEF Turn
<1>5. caller[c].at \notin Rotating \cup Writing
  BY DEF Quiet, Ask, Fingerprint, LoadMeta, LoadGraph, ReadNodes, ReadEdges, Check, Answer,
         BaseMeta, BaseGraph, BaseComplexity, Compared, Rotating, Writing
<1>6. caller'[c].file # "meta" \/ caller'[c].at \notin Rotating
  <2>1. CASE Check(c)
    <3>1. caller'[c].file = caller[c].file
      BY <1>1, <2>1 DEF Check, Goto, Call
    <3> QED BY <1>1, <1>5, <3>1 DEF Shape
  <2>2. CASE ~Check(c)
    <3>1. CASE Ask(c)
      BY <1>1, <3>1 DEF Ask, Become, Rotating
    <3>3. CASE Fingerprint(c)
      BY <1>1, <3>3 DEF Fingerprint, Become, Rotating, Call
    <3>4. CASE LoadMeta(c) \/ LoadGraph(c) \/ ReadNodes(c) \/ ReadEdges(c)
      BY <1>1, <3>4 DEF LoadMeta, LoadGraph, ReadNodes, ReadEdges, Goto, Rotating, Call
    <3>5. CASE Answer(c) \/ Compared(c)
      BY <1>1, <3>5 DEF Answer, Compared, Goto, Become, Idle, Rotating, Call
    <3>6. Pass(caller[c]).at \notin Rotating
      <4>1. Idle.at = "idle"
        BY DEF Idle
      <4> QED BY <1>1, <4>1 DEF Pass, Rotating, Call
    <3>7. CASE BaseMeta(c)
      BY <1>1, <3>6, <3>7 DEF BaseMeta, Become, Rotating, Call
    <3>8. CASE BaseGraph(c)
      BY <1>1, <3>6, <3>8 DEF BaseGraph, Become, Rotating, Call
    <3>9. CASE BaseComplexity(c)
      <4> DEFINE y == IF Measured(dir.complexity[caller[c].gen], caller[c].base.fingerprint)
                        THEN dir.complexity[caller[c].gen].of ELSE Absent
      <4>1. caller'[c] = [caller[c] EXCEPT !.at = "compared", !.base.complexity = y]
        BY <1>1, <3>9 DEF BaseComplexity, Become
      <4> HIDE DEF y
      <4> QED BY <1>1, <4>1 DEF Rotating, Call
    <3> QED BY <2>2, <3>1, <3>3, <3>4, <3>5, <3>7, <3>8, <3>9 DEF Quiet
  <2> QED BY <2>1, <2>2
<1>7. Turning' = Turning
  <2>1. Turning' <=> Turning
    BY <1>4, <1>5, <1>6 DEF Turning, Rotating
  <2> QED BY <2>1 DEF Turning
<1>8. Kept' = Kept /\ KeptBefore' = KeptBefore
  BY <1>2, <1>7, KeptSame
<1> QED BY <1>1, <1>2, <1>4, <1>8

\* A hit in the cache serves the kept snapshot, a base one of the two.
LEMMA ServesMap ==
  ASSUME CacheInv, OrderlyNext, NEW c \in Caller, NEW role \in {"graph", "base"},
         NEW g \in {"now", "prev"}, role = "graph" => g = "now",
         faults' = faults, Kept' = Kept, KeptBefore' = KeptBefore,
         InFiles(c), ~Storing(c), Readable(dir.meta[g]), Readable(dir.graph[g]),
         Served[<<c, role>>] = Absent,
         Served' = [Served EXCEPT ![<<c, role>>] = Plain(dir.graph[g])]
  PROVE  Maps
<1>1. ~Mixed("now") /\ ~Mixed("prev") /\ ~Turning
  BY Alone DEF Storing, Rotating
<1>2. Plain(dir.graph[g]) \in {Kept, KeptBefore}
  BY <1>1 DEF Kept, KeptBefore, Whole, Plain, Mixed, Readable
<1>3. <<c, role>> \in Cache!Use
  BY DEF Cache!Use, Cache!Role
<1>4. Cache!Serve(<<c, role>>)
  BY <1>2 DEF Cache!Serve
<1> QED BY <1>3, <1>4 DEF Maps, Cache!Next

\* A call that ends forgets its graph and its base.
LEMMA EndMaps ==
  ASSUME NEW c \in Caller, \A d \in Caller \ {c} : caller'[d] = caller[d], caller'[c] = Idle,
         faults' = faults, Kept' = Kept, KeptBefore' = KeptBefore
  PROVE  Maps
<1>1. Served' = Cache!Without(c, {"graph", "base"})
  BY ServedDrop
<1>2. Cache!End(c)
  BY <1>1 DEF Cache!End, Cache!Role
<1> QED BY <1>2 DEF Maps, Cache!Next

\* Reading up to the graph serves nothing but a hit.
LEMMA ReadsMap ==
  ASSUME CacheInv, OrderlyNext, NEW c \in Caller,
         Ask(c) \/ Fingerprint(c) \/ LoadMeta(c) \/ LoadGraph(c) \/ ReadNodes(c) \/ ReadEdges(c)
  PROVE  Maps
<1>0. Quiet(c) /\ ~Kill(c) /\ faults' = faults
  <2>1. faults \in Nat
    BY CacheAssumption DEF CacheInv, Typed
  <2>2. faults' = faults
    BY DEF Ask, Fingerprint, LoadMeta, LoadGraph, ReadNodes, ReadEdges
  <2> QED BY <2>1, <2>2 DEF Quiet, Kill, Fault
<1>1. /\ caller \in [Caller -> Call] /\ caller[c] \in Call /\ Shape(caller[c])
      /\ CallInv(c) /\ SeenInv(c)
      /\ \A d \in Caller \ {c} : caller'[d] = caller[d]
      /\ Kept' = Kept /\ KeptBefore' = KeptBefore
      /\ faults \in Nat /\ faults' \in {faults, faults + 1}
  BY <1>0, QuietFacts
<1>2. caller[c].at \in Early /\ ~caller[c].cached
  BY <1>1 DEF Ask, Fingerprint, LoadMeta, LoadGraph, ReadNodes, ReadEdges, Early, CallInv
<1>3. ASSUME caller'[c].cached = caller[c].cached, caller'[c].base = caller[c].base PROVE Maps
  BY <1>1, <1>2, <1>3, ServedSame, LosesNothing
<1>4. CASE Ask(c)
  <2>1. caller[c] = Idle
    BY <1>1, <1>4 DEF Ask, CallInv
  <2>2. caller'[c].cached = Idle.cached /\ caller'[c].base = Idle.base
    BY <1>1, <1>4 DEF Ask, Become, Idle
  <2> QED BY <1>3, <2>1, <2>2
<1>5. CASE Fingerprint(c)
  BY <1>1, <1>3, <1>5 DEF Fingerprint, Become, Call
<1>6. CASE LoadMeta(c) \/ ReadNodes(c) \/ ReadEdges(c)
  BY <1>1, <1>3, <1>6 DEF LoadMeta, ReadNodes, ReadEdges, Goto, Call
<1>7. CASE LoadGraph(c)
  <2>1. CASE ~Readable(dir.graph.now)
    BY <1>1, <1>3, <1>7, <2>1 DEF LoadGraph, Goto, Call
  <2>2. CASE Readable(dir.graph.now)
    <3>1. /\ caller'[c].cached = TRUE /\ caller'[c].graph = dir.graph.now
          /\ caller'[c].base = caller[c].base
      BY <1>1, <1>7, <2>2 DEF LoadGraph, Call
    <3>2. Served' = [Served EXCEPT ![<<c, "graph">>] = Plain(dir.graph.now)]
      <4>1. \A u \in Caller \X {"graph", "base"} : u = <<u[1], u[2]>> /\ u[1] \in Caller
        OBVIOUS
      <4>2. \A u \in Caller \X {"graph", "base"} : u # <<c, "graph">> =>
              Served'[u] = Served[u]
        BY <1>1, <3>1, <4>1 DEF Served
      <4>3. Served'[<<c, "graph">>] = Plain(dir.graph.now)
        BY <3>1 DEF Served
      <4> QED BY <4>2, <4>3 DEF Served
    <3>3. Served[<<c, "graph">>] = Absent
      BY <1>2 DEF Served
    <3>4. InFiles(c) /\ ~Storing(c) /\ Readable(dir.meta.now)
      BY <1>1, <1>7 DEF LoadGraph, InFiles, Storing, SeenInv, Readable, CacheInv, Sound
    <3> QED BY <1>0, <1>1, <2>2, <3>2, <3>3, <3>4, ServesMap
  <2> QED BY <2>1, <2>2
<1> QED BY <1>4, <1>5, <1>6, <1>7

\* Looking for a base serves a generation, or ends the call.
LEMMA LooksMap ==
  ASSUME CacheInv, OrderlyNext, NEW c \in Caller,
         Check(c) \/ Answer(c) \/ BaseMeta(c) \/ BaseGraph(c) \/ BaseComplexity(c) \/ Compared(c)
  PROVE  Maps
<1>0. Quiet(c) /\ ~Kill(c)
  <2>1. Check(c) => caller'[c].at \in {"evict", "truncate"}
    BY DEF CacheInv, Typed, Check, Goto, Call
  <2>2. Kill(c) => caller'[c].at = "idle"
    BY DEF CacheInv, Typed, Kill, Become, Idle
  <2>3. ~Check(c) => faults' = faults
    BY DEF Answer, BaseMeta, BaseGraph, BaseComplexity, Compared
  <2>4. faults \in Nat
    BY CacheAssumption DEF CacheInv, Typed
  <2>5. Kill(c) => faults' = faults + 1
    BY DEF Kill, Fault
  <2> QED BY <2>1, <2>2, <2>3, <2>4, <2>5 DEF Quiet
<1>1. /\ caller \in [Caller -> Call] /\ caller[c] \in Call /\ Shape(caller[c])
      /\ CallInv(c) /\ SeenInv(c)
      /\ \A d \in Caller \ {c} : caller'[d] = caller[d]
      /\ Kept' = Kept /\ KeptBefore' = KeptBefore
      /\ faults \in Nat /\ faults' \in {faults, faults + 1}
  BY <1>0, QuietFacts
<1>3. ASSUME caller'[c].cached = caller[c].cached, caller'[c].graph = caller[c].graph,
             caller'[c].base.graph = caller[c].base.graph
      PROVE  Maps
  BY <1>1, <1>3, ServedSame, LosesNothing
<1>4. ASSUME caller'[c] = Idle, faults' = faults PROVE Maps
  BY <1>1, <1>4, EndMaps
<1>5. ASSUME caller[c].at \in {"baseMeta", "baseGraph"}, caller'[c] = Pass(caller[c]), faults' = faults
      PROVE  Maps
  <2>1. CASE caller[c].gen = "now"
    <3>1. caller'[c] = [caller[c] EXCEPT !.at = "baseMeta", !.gen = "prev", !.base = NoBase]
      BY <1>5, <2>1 DEF Pass
    <3>2. /\ caller'[c].cached = caller[c].cached /\ caller'[c].graph = caller[c].graph
          /\ caller'[c].base = NoBase /\ NoBase.graph = Absent
      BY <1>1, <3>1 DEF Call, NoBase
    <3>3. caller[c].base.graph = Absent
      BY <1>1, <1>5 DEF CallInv
    <3> QED BY <1>3, <3>2, <3>3
  <2>2. CASE caller[c].gen # "now"
    BY <1>4, <1>5, <2>2 DEF Pass
  <2> QED BY <2>1, <2>2
<1>6. CASE Check(c)
  <2>1. PICK p \in {"evict", "truncate"} : caller'[c] = [caller[c] EXCEPT !.at = p]
    BY <1>1, <1>6 DEF Check, Goto
  <2>2. /\ caller'[c].cached = caller[c].cached /\ caller'[c].graph = caller[c].graph
        /\ caller'[c].base = caller[c].base
    BY <1>1, <2>1 DEF Call
  <2> QED BY <1>3, <2>2
<1>7. CASE Answer(c)
  <2>1. CASE caller[c].diff
    <3>1. caller'[c] = [caller[c] EXCEPT !.at = "baseMeta"]
      BY <1>1, <1>7, <2>1 DEF Answer, Goto
    <3> QED BY <1>1, <1>3, <3>1 DEF Call
  <2>2. CASE ~caller[c].diff
    BY <1>1, <1>4, <1>7, <2>2 DEF Answer, Become
  <2> QED BY <2>1, <2>2
<1>8. CASE BaseMeta(c)
  <2> DEFINE m == dir.meta[caller[c].gen]
  <2>1. CASE Readable(m) /\ m.fingerprint # caller[c].own
    <3>1. caller'[c] = [caller[c] EXCEPT !.at = "baseGraph", !.base.fingerprint = m.fingerprint]
      BY <1>1, <1>8, <2>1 DEF BaseMeta, Become
    <3>2. /\ caller'[c].cached = caller[c].cached /\ caller'[c].graph = caller[c].graph
          /\ caller'[c].base = [caller[c].base EXCEPT !.fingerprint = m.fingerprint]
      BY <1>1, <3>1 DEF Call
    <3>3. caller[c].base \in Base
      BY <1>1 DEF Call
    <3>4. caller'[c].base.graph = caller[c].base.graph
      BY <3>2, <3>3 DEF Base
    <3> QED BY <1>3, <3>2, <3>4
  <2>2. CASE ~(Readable(m) /\ m.fingerprint # caller[c].own)
    <3>1. caller'[c] = Pass(caller[c])
      BY <1>1, <1>8, <2>2 DEF BaseMeta, Become
    <3> QED BY <1>5, <1>8, <3>1 DEF BaseMeta
  <2> QED BY <2>1, <2>2
<1>9. CASE BaseGraph(c)
  <2> DEFINE g == dir.graph[caller[c].gen]
  <2>1. CASE Readable(g)
    <3>1. caller'[c] = [caller[c] EXCEPT !.at = "baseComplexity", !.base.graph = g]
      BY <1>1, <1>9, <2>1 DEF BaseGraph, Become
    <3>2. /\ caller'[c].cached = caller[c].cached /\ caller'[c].graph = caller[c].graph
          /\ caller'[c].base = [caller[c].base EXCEPT !.graph = g]
      BY <1>1, <3>1 DEF Call
    <3>3. caller[c].base \in Base
      BY <1>1 DEF Call
    <3>4. caller'[c].base.graph = g
      BY <3>2, <3>3 DEF Base
    <3>5. caller[c].base.graph = Absent
      BY <1>1, <1>9 DEF CallInv, BaseGraph
    <3>6. caller[c].gen \in {"now", "prev"}
      BY <1>1 DEF Call
    <3>7. Served' = [Served EXCEPT ![<<c, "base">>] = Plain(g)]
      <4>1. \A u \in Caller \X {"graph", "base"} : u = <<u[1], u[2]>> /\ u[1] \in Caller
        OBVIOUS
      <4>2. \A u \in Caller \X {"graph", "base"} : u # <<c, "base">> =>
              Served'[u] = Served[u]
        BY <1>1, <3>2, <4>1 DEF Served
      <4>3. Served'[<<c, "base">>] = Plain(g)
        BY <3>4 DEF Served
      <4> QED BY <4>2, <4>3 DEF Served
    <3>8. Served[<<c, "base">>] = Absent
      BY <3>5 DEF Served, Plain
    <3>9. InFiles(c) /\ ~Storing(c) /\ Readable(dir.meta[caller[c].gen])
      BY <1>1, <1>9, <3>6 DEF BaseGraph, InFiles, Storing, SeenInv, Readable, CacheInv, Sound
    <3>10. faults' = faults
      BY <1>9 DEF BaseGraph
    <3> QED BY <1>1, <2>1, <3>6, <3>7, <3>8, <3>9, <3>10, ServesMap
  <2>2. CASE ~Readable(g)
    <3>1. caller'[c] = Pass(caller[c])
      BY <1>1, <1>9, <2>2 DEF BaseGraph, Become
    <3> QED BY <1>5, <1>9, <3>1 DEF BaseGraph
  <2> QED BY <2>1, <2>2
<1>10. CASE BaseComplexity(c)
  <2> DEFINE y == IF Measured(dir.complexity[caller[c].gen], caller[c].base.fingerprint)
                    THEN dir.complexity[caller[c].gen].of ELSE Absent
  <2>1. caller'[c] = [caller[c] EXCEPT !.at = "compared", !.base.complexity = y]
    BY <1>1, <1>10 DEF BaseComplexity, Become
  <2> HIDE DEF y
  <2>2. /\ caller'[c].cached = caller[c].cached /\ caller'[c].graph = caller[c].graph
        /\ caller'[c].base = [caller[c].base EXCEPT !.complexity = y]
    BY <1>1, <2>1 DEF Call
  <2>3. caller[c].base \in Base
    BY <1>1 DEF Call
  <2>4. caller'[c].base.graph = caller[c].base.graph
    BY <2>2, <2>3 DEF Base
  <2> QED BY <1>3, <2>2, <2>4
<1>11. CASE Compared(c)
  <2>1. /\ caller'[c].cached = caller[c].cached /\ caller'[c].graph = caller[c].graph
        /\ caller'[c].base = NoBase
    BY <1>1, <1>11 DEF Compared, Call
  <2>2. Plain(NoBase.graph) = Absent
    BY DEF NoBase, Plain
  <2>3. Served' = Cache!Without(c, {"base"})
    BY <1>1, <2>1, <2>2 DEF Served, Cache!Without, Cache!Use, Cache!Role
  <2>4. Cache!End(c)
    BY <1>1, <1>11, <2>3 DEF Cache!End, Cache!Role, Compared
  <2> QED BY <2>4 DEF Maps, Cache!Next
<1> QED BY <1>6, <1>7, <1>8, <1>9, <1>10, <1>11

\* A caller that stores does not touch what it has read.
LEMMA StoreServes ==
  ASSUME NEW c \in Caller, \A d \in Caller \ {c} : caller'[d] = caller[d],
         Same(caller'[c], caller[c])
  PROVE  Served' = Served
BY ServedSame DEF Same

\* Making room drops the older generation, if there is a newer one.
LEMMA EvictMaps ==
  ASSUME CacheInv, OrderlyNext, NEW c \in Caller, Evict(c)
  PROVE  Maps
<1> DEFINE f == caller[c].file
<1>1. /\ Typed /\ StoreInv(c) /\ Sound /\ GenInv /\ faults \in Nat
      /\ caller \in [Caller -> Call] /\ caller[c] \in Call
  BY CacheAssumption DEF CacheInv, Typed
<1>2. f \in File /\ caller[c].at = "evict" /\ Storing(c)
  BY <1>1 DEF Call, Evict, Storing
<1>3. /\ caller'[c].at = "move" /\ caller'[c].file = f /\ Same(caller'[c], caller[c])
      /\ \A d \in Caller \ {c} : caller'[d] = caller[d]
  BY <1>1 DEF Call, Same, Evict, Goto
<1>4. Served' = Served
  BY <1>3, StoreServes
<1>5. /\ \A h \in File, k \in Generation :
           dir'[h][k] = dir[h][k] \/ (h = f /\ k = "prev" /\ dir'[h][k] = Absent)
      /\ \/ dir' = dir /\ faults' = faults + 1
         \/ dir'[f].prev = Absent /\ faults' = faults
  <2>1. CASE Put(f, "prev", Absent) /\ UNCHANGED faults
    <3>1. Absent \in Content(f) /\ "prev" \in Generation
      BY DEF Content, Generation
    <3> QED BY <1>1, <1>2, <2>1, <3>1, Puts
  <2>2. CASE UNCHANGED dir /\ Fault
    BY <2>2 DEF Fault
  <2> QED BY <2>1, <2>2 DEF Evict
<1>6. /\ Turning <=> f = "meta"
      /\ Turning' <=> f = "meta"
      /\ f # "meta" => ~Mixed("now") /\ ~Mixed("prev")
  BY <1>1, <1>2, <1>3, Turns DEF Rotating, GenInv
<1>7. /\ dir'.graph.now = dir.graph.now /\ dir'.meta.now = dir.meta.now
      /\ f # "graph" => dir'.graph.prev = dir.graph.prev
      /\ f # "meta" => dir'.meta.prev = dir.meta.prev
  BY <1>5 DEF File, Generation
<1>8. CASE f = "graph" /\ dir' # dir
  <2>1. dir'.graph.prev = Absent /\ faults' = faults
    BY <1>5, <1>8
  <2>2. Kept' = Kept /\ KeptBefore' = Absent
    BY <1>6, <1>7, <1>8, <2>1 DEF Kept, KeptBefore, Whole, Readable
  <2>3. CASE Kept # Absent
    <3>1. Cache!MakeRoom
      BY <1>4, <2>1, <2>2, <2>3 DEF Cache!MakeRoom
    <3> QED BY <3>1 DEF Maps, Cache!Next
  <2>4. CASE Kept = Absent
    <3>1. dir.meta.now # Absent
      BY <1>1, <1>2, <1>8 DEF StoreInv, Rotating
    <3>2. faults # 0
      <4> SUFFICES ASSUME faults = 0 PROVE FALSE
        OBVIOUS
      <4>1. dir.graph.now # Absent
        BY <1>1, <1>6, <1>8, <3>1 DEF GenInv
      <4>2. Readable(dir.meta.now) /\ Readable(dir.graph.now)
        BY <1>1, <3>1, <4>1 DEF Sound, Readable
      <4>3. Kept = [version |-> dir.graph.now.nodes, fields |-> dir.graph.now.fields]
        BY <1>6, <1>8, <4>2 DEF Kept, Whole, Mixed
      <4>4. dir.graph.now \in Graph
        BY <1>1, <4>2, Contents DEF Readable, Generation
      <4>5. Kept \in [version : Version, fields : BOOLEAN]
        BY <4>3, <4>4 DEF Graph
      <4> QED BY <2>4, <4>5, CacheAssumption
    <3> QED BY <1>1, <1>4, <2>1, <2>2, <3>2, Loses
  <2> QED BY <2>3, <2>4
<1>9. CASE f = "meta"
  <2>1. Kept' = Kept /\ KeptBefore' = KeptBefore
    BY <1>6, <1>7, <1>9 DEF Kept, KeptBefore
  <2> QED BY <1>1, <1>4, <1>5, <2>1, LosesNothing
<1>10. CASE f = "complexity" \/ dir' = dir
  <2>1. /\ dir'.graph.now = dir.graph.now /\ dir'.meta.now = dir.meta.now
        /\ dir'.graph.prev = dir.graph.prev /\ dir'.meta.prev = dir.meta.prev
    BY <1>7, <1>10
  <2>2. Turning' = Turning
    BY <1>6 DEF Turning
  <2> QED BY <1>1, <1>4, <1>5, <2>1, <2>2, KeptSame, LosesNothing
<1> QED BY <1>2, <1>8, <1>9, <1>10 DEF File

\* The graph moves first, and the older generation is gone; when the meta has
\* followed, the kept generation is the older one.
LEMMA MoveMaps ==
  ASSUME CacheInv, OrderlyNext, NEW c \in Caller, Move(c)
  PROVE  Maps
<1> DEFINE f == caller[c].file
<1>1. /\ Typed /\ StoreInv(c) /\ Sound /\ GenInv
      /\ f \in File /\ caller[c].at = "move" /\ Storing(c)
      /\ caller'[c].at \in {"evict", "truncate"} /\ Same(caller'[c], caller[c])
      /\ caller'[c].at = "evict" <=> f # "complexity"
      /\ f = "graph" <=> caller'[c].file = "meta"
      /\ f = "meta" <=> caller'[c].file = "complexity"
      /\ \A d \in Caller \ {c} : caller'[d] = caller[d]
      /\ \/ \A h \in File, k \in Generation :
              dir'[h][k] = IF h # f \/ k = "tmp" \/ dir[f].now = Absent
                           THEN dir[h][k] ELSE IF k = "prev" THEN dir[f].now ELSE Absent
         \/ dir' = dir /\ faults' # 0 /\ faults' # faults
  BY Moves
<1>2. faults \in Nat /\ faults' \in {faults, faults + 1} /\ (dir' # dir => faults' = faults)
  BY CacheAssumption DEF CacheInv, Typed, Move, Fault
<1>3. f # "complexity" /\ dir[f].prev # Absent => dir[f].now # Absent /\ dir' # dir
  <2> SUFFICES ASSUME f # "complexity", dir[f].prev # Absent
               PROVE  dir[f].now # Absent /\ dir' # dir
    OBVIOUS
  <2>1. dir[f].now # Absent /\ faults' = faults
    BY DEF OrderlyNext, StaysBehind
  <2>2. dir'[f].now = Absent
    BY <1>1, <2>1 DEF Generation
  <2> QED BY <2>1, <2>2
<1>4. /\ Turning <=> f = "meta"
      /\ Turning' <=> f = "graph"
      /\ f # "meta" => ~Mixed("now") /\ ~Mixed("prev")
  BY <1>1, Turns DEF Storing, Rotating, File, GenInv
<1>5. Served' = Served
  BY <1>1, StoreServes
<1>6. CASE f = "graph"
  <2>1. /\ dir'.meta.now = dir.meta.now /\ dir'.meta.prev = dir.meta.prev
        /\ \/ /\ dir.graph.now # Absent /\ dir'.graph.now = Absent /\ dir'.graph.prev = dir.graph.now
              /\ faults' = faults
           \/ /\ dir.graph.now = Absent /\ dir.graph.prev = Absent
              /\ dir'.graph.now = Absent /\ dir'.graph.prev = Absent
           \/ dir'.graph.now = dir.graph.now /\ dir.graph.prev = Absent /\ dir'.graph.prev = Absent
    BY <1>1, <1>2, <1>3, <1>6 DEF File, Generation
  <2>2. Kept' = Kept /\ KeptBefore' = Absent
    BY <1>4, <1>6, <2>1 DEF Kept, KeptBefore
  <2>3. CASE dir.graph.prev = Absent
    <3>1. KeptBefore = Absent
      BY <2>3, <1>4, <1>6 DEF KeptBefore, Whole, Readable
    <3> QED BY <1>2, <1>5, <2>2, <3>1, LosesNothing
  <2>4. CASE dir.graph.prev # Absent
    <3>1. dir.graph.now # Absent /\ faults' = faults
      BY <2>1, <2>4
    <3>2. dir.meta.now # Absent
      BY <1>1, <1>6 DEF StoreInv, Rotating
    <3>3. Readable(dir.meta.now) /\ Readable(dir.graph.now)
      BY <1>1, <3>1, <3>2 DEF Sound, Readable
    <3>4. Kept = [version |-> dir.graph.now.nodes, fields |-> dir.graph.now.fields]
      BY <1>4, <1>6, <3>3 DEF Kept, Whole, Mixed
    <3>5. dir.graph.now \in Graph
      BY <1>1, <3>3, Contents DEF Readable, Generation
    <3>6. Kept # Absent
      <4>1. Kept \in [version : Version, fields : BOOLEAN]
        BY <3>4, <3>5 DEF Graph
      <4> QED BY <4>1, CacheAssumption
    <3>7. Cache!MakeRoom
      BY <1>5, <2>2, <3>1, <3>6 DEF Cache!MakeRoom
    <3> QED BY <3>7 DEF Maps, Cache!Next
  <2> QED BY <2>3, <2>4
<1>7. CASE f = "meta"
  <2>0. dir.meta.now # Absent
    BY <1>1, <1>7 DEF StoreInv, Rotating
  <2>1. /\ dir'.graph.now = dir.graph.now /\ dir'.graph.prev = dir.graph.prev
        /\ \/ dir'.meta.now = Absent /\ dir'.meta.prev = dir.meta.now /\ faults' = faults
           \/ /\ dir'.meta.now = dir.meta.now /\ dir'.meta.prev = dir.meta.prev
              /\ dir.meta.prev = Absent /\ faults' # 0
    BY <1>1, <1>2, <1>3, <1>7, <2>0 DEF File, Generation
  <2>2. dir.graph.now # Absent => dir.graph.prev = Absent
    BY <1>1, <1>7 DEF StoreInv, Rotating
  <2>3. KeptBefore = Absent /\ ~Turning'
    BY <1>4, <1>7 DEF KeptBefore
  <2>4. CASE dir'.meta.now = Absent /\ dir'.meta.prev = dir.meta.now /\ faults' = faults
    <3>1. Kept' = Absent
      BY <2>3, <2>4 DEF Kept, Whole, Readable
    <3>2. CASE dir.graph.now = Absent
      <4>1. KeptBefore' = Kept
        BY <1>4, <1>7, <2>1, <2>3, <2>4, <3>2 DEF Kept, KeptBefore
      <4>2. CASE Kept = Absent
        BY <1>2, <1>5, <2>3, <3>1, <4>1, <4>2, LosesNothing
      <4>3. CASE Kept # Absent
        <5>1. Cache!Rotate
          BY <1>5, <2>4, <3>1, <4>1, <4>3 DEF Cache!Rotate
        <5> QED BY <5>1 DEF Maps, Cache!Next
      <4> QED BY <4>2, <4>3
    <3>3. CASE dir.graph.now # Absent
      <4>1. KeptBefore' = Absent
        BY <2>1, <2>2, <3>3 DEF KeptBefore, Whole, Readable
      <4>2. faults # 0
        BY <1>1, <1>4, <1>7, <2>0, <3>3 DEF GenInv
      <4> QED BY <1>2, <1>5, <2>4, <3>1, <4>1, <4>2, Loses
    <3> QED BY <3>2, <3>3
  <2>5. CASE /\ dir'.meta.now = dir.meta.now /\ dir'.meta.prev = dir.meta.prev
             /\ dir.meta.prev = Absent /\ faults' # 0
    <3>1. KeptBefore' = Absent
      BY <2>5 DEF KeptBefore, Whole, Readable
    <3>2. Kept' \in {Kept, Absent}
      BY <1>4, <1>7, <2>1, <2>3, <2>5 DEF Kept, Whole, Readable
    <3> QED BY <1>2, <1>5, <2>5, <3>1, <3>2, Loses
  <2> QED BY <2>1, <2>4, <2>5
<1>8. CASE f = "complexity"
  <2>1. /\ dir'.graph.now = dir.graph.now /\ dir'.graph.prev = dir.graph.prev
        /\ dir'.meta.now = dir.meta.now /\ dir'.meta.prev = dir.meta.prev
    BY <1>1, <1>8 DEF File, Generation
  <2>2. Turning' = Turning
    BY <1>4, <1>8 DEF Turning
  <2> QED BY <1>2, <1>5, <2>1, <2>2, KeptSame, LosesNothing
<1> QED BY <1>1, <1>6, <1>7, <1>8 DEF File

\* A temporary file is no part of a generation.
LEMMA TmpMaps ==
  ASSUME CacheInv, OrderlyNext, NEW c \in Caller, Truncate(c) \/ Fill(c)
  PROVE  Maps
<1> DEFINE f == caller[c].file
<1>1. /\ Typed /\ caller \in [Caller -> Call] /\ caller[c] \in Call /\ faults \in Nat
  BY CacheAssumption DEF CacheInv, Typed
<1>2. f \in File /\ caller[c].at \in Writing /\ Storing(c)
  BY <1>1 DEF Call, Truncate, Fill, Writing, Storing
<1>3. PICK p \in {"fill", "publish"}, x \in Content(f) :
        caller' = [caller EXCEPT ![c].at = p] /\ Put(f, "tmp", x) /\ faults' = faults
  <2>1. Torn \in Content(f)
    BY DEF Content
  <2> QED BY <1>1, <1>2, <2>1, Writes DEF Truncate, Fill, Goto
<1>4. /\ caller'[c].at = p /\ Same(caller'[c], caller[c])
      /\ \A d \in Caller \ {c} : caller'[d] = caller[d]
  BY <1>1, <1>3 DEF Call, Same
<1>5. \A h \in File, k \in Generation :
        dir'[h][k] = IF h = f /\ k = "tmp" THEN x ELSE dir[h][k]
  BY <1>1, <1>2, <1>3, Puts DEF Generation
<1>6. /\ dir'.graph.now = dir.graph.now /\ dir'.graph.prev = dir.graph.prev
      /\ dir'.meta.now = dir.meta.now /\ dir'.meta.prev = dir.meta.prev
  BY <1>5 DEF File, Generation
<1>7. Turning' = Turning
  <2>1. ~Turning /\ ~Turning'
    BY <1>2, <1>4, Turns DEF Rotating, Writing
  <2> QED BY <2>1 DEF Turning
<1> QED BY <1>1, <1>3, <1>4, <1>6, <1>7, KeptSame, StoreServes, LosesNothing

\* The meta makes the graph a generation; a graph under the meta of the same
\* index replaces one.
LEMMA PublishMaps ==
  ASSUME CacheInv, OrderlyNext, NEW c \in Caller, Publish(c)
  PROVE  Maps
<1> DEFINE f == caller[c].file
           s == [version |-> caller[c].fingerprint, fields |-> caller[c].fields]
<1>1. /\ Typed /\ CallInv(c) /\ StoreInv(c) /\ Sound /\ GenInv /\ faults \in Nat
      /\ caller \in [Caller -> Call] /\ caller[c] \in Call /\ Shape(caller[c])
      /\ \A d \in Caller \ {c} : caller'[d] = caller[d]
      /\ faults' = faults
  BY CacheAssumption DEF CacheInv, Typed, Publish, Become
<1>2. /\ f \in File /\ caller[c].at = "publish" /\ Storing(c)
      /\ caller'[c] = AfterFile(caller[c])
      /\ dir[f].tmp = Written(caller[c])
  BY <1>1 DEF Call, Publish, Storing, Become, StoreInv
<1>3. \A h \in File, k \in Generation :
        dir'[h][k] = IF h # f \/ k = "prev" THEN dir[h][k]
                     ELSE IF k = "now" THEN Written(caller[c]) ELSE Absent
  BY <1>1, <1>2, Replaces DEF Publish
<1>4. /\ caller[c].graph.nodes = caller[c].fingerprint /\ caller[c].graph.fields = caller[c].fields
      /\ caller[c].graph \in Graph /\ Readable(caller[c].graph)
      /\ caller[c].fingerprint \in Version /\ caller[c].fields \in BOOLEAN
  <2>1. /\ caller[c].graph.nodes = caller[c].fingerprint /\ caller[c].graph.fields = caller[c].fields
        /\ caller[c].graph \in Graph
        /\ caller[c].fingerprint \in Version /\ caller[c].fields \in BOOLEAN
    BY <1>1, <1>2 DEF CallInv, Shape, Early, Call
  <2> QED BY <2>1, CacheAssumption DEF Readable
<1>5. ~Turning
  BY <1>1, <1>2, Turns DEF Rotating
<1>6. caller'[c].at \notin Rotating
  BY <1>1, <1>2 DEF AfterFile, Idle, Rotating, Call
<1>7. ~Turning'
  BY <1>1, <1>2, <1>6, Turns
<1>8. s \in Cache!Snapshot /\ s # Absent
  <2>1. s \in [version : Version, fields : BOOLEAN]
    BY <1>4
  <2> QED BY <2>1, CacheAssumption DEF Cache!Snapshot
<1>9. CASE f = "graph"
  <2>1. /\ dir'.graph.now = caller[c].graph /\ dir'.graph.prev = dir.graph.prev
        /\ dir'.meta.now = dir.meta.now /\ dir'.meta.prev = dir.meta.prev
    BY <1>2, <1>3, <1>9 DEF File, Generation, Written
  <2>2. Same(caller'[c], caller[c])
    BY <1>1, <1>2, <1>9 DEF AfterFile, Call, Same
  <2>3. Served' = Served
    BY <1>1, <2>2, StoreServes
  <2>4. KeptBefore' = KeptBefore
    BY <1>5, <1>7, <2>1 DEF KeptBefore
  <2>5. CASE dir.meta.now = Absent
    <3>1. Kept' = Absent /\ Kept = Absent
      BY <1>5, <1>7, <2>1, <2>5 DEF Kept, Whole, Readable
    <3> QED BY <1>1, <2>3, <2>4, <3>1, LosesNothing
  <2>6. CASE dir.meta.now # Absent /\ dir.meta.now.fingerprint = caller[c].fingerprint
    <3>1. Readable(dir.meta.now)
      BY <1>1, <2>6 DEF Sound, Readable
    <3>2. Kept' = s
      BY <1>4, <1>7, <2>1, <2>6, <3>1 DEF Kept, Whole
    <3>3. Kept # Absent => Kept.version = s.version
      BY <1>5, <2>6 DEF Kept, Whole
    <3>4. CASE Kept = Absent
      <4>1. Cache!Put
        BY <1>1, <1>8, <2>3, <2>4, <3>2, <3>4 DEF Cache!Put
      <4> QED BY <4>1 DEF Maps, Cache!Next
    <3>5. CASE Kept # Absent
      <4>1. Cache!Replace
        BY <1>1, <1>8, <2>3, <2>4, <3>2, <3>3, <3>5 DEF Cache!Replace
      <4> QED BY <4>1 DEF Maps, Cache!Next
    <3> QED BY <3>4, <3>5
  <2>7. CASE dir.meta.now # Absent /\ dir.meta.now.fingerprint # caller[c].fingerprint
    <3>1. Kept' = Absent
      BY <1>4, <1>7, <2>1, <2>7 DEF Kept, Whole
    <3>2. faults # 0
      BY <1>1, <1>2, <1>9, <2>7 DEF StoreInv, Writing
    <3> QED BY <1>1, <2>3, <2>4, <3>1, <3>2, Loses
  <2> QED BY <2>5, <2>6, <2>7
<1>10. CASE f = "meta"
  <2> DEFINE m == [fingerprint |-> caller[c].fingerprint, fields |-> caller[c].fields,
                   ids |-> caller[c].ids]
  <2>1. /\ dir'.graph.now = dir.graph.now /\ dir'.graph.prev = dir.graph.prev
        /\ dir'.meta.now = m /\ dir'.meta.prev = dir.meta.prev
    BY <1>2, <1>3, <1>10 DEF File, Generation, Written
  <2>2. Same(caller'[c], caller[c])
    BY <1>1, <1>2, <1>10 DEF AfterFile, Call, Same
  <2>3. Served' = Served
    BY <1>1, <2>2, StoreServes
  <2>4. KeptBefore' = KeptBefore
    BY <1>5, <1>7, <2>1 DEF KeptBefore
  <2>5. dir.graph.now = caller[c].graph
    BY <1>1, <1>2, <1>10 DEF StoreInv, Writing
  <2>6. Readable(m)
    <3>1. caller[c].ids \in Version
      BY <1>1, <1>2 DEF Shape, Early
    <3>2. m \in Meta
      BY <1>4, <3>1 DEF Meta
    <3> QED BY <3>2, CacheAssumption DEF Readable
  <2>7. Kept' = s
    BY <1>4, <1>7, <2>1, <2>5, <2>6 DEF Kept, Whole
  <2>8. Kept \in {Absent, s}
    BY <1>4, <1>5, <2>5 DEF Kept, Whole
  <2>9. CASE Kept = s
    BY <1>1, <2>3, <2>4, <2>7, <2>9, LosesNothing
  <2>10. CASE Kept = Absent
    <3>1. Cache!Put
      BY <1>1, <1>8, <2>3, <2>4, <2>7, <2>10 DEF Cache!Put
    <3> QED BY <3>1 DEF Maps, Cache!Next
  <2> QED BY <2>8, <2>9, <2>10
<1>11. CASE f = "complexity"
  <2>1. /\ dir'.graph.now = dir.graph.now /\ dir'.graph.prev = dir.graph.prev
        /\ dir'.meta.now = dir.meta.now /\ dir'.meta.prev = dir.meta.prev
    BY <1>2, <1>3, <1>11 DEF File, Generation
  <2>2. Kept' = Kept /\ KeptBefore' = KeptBefore
    BY <1>5, <1>7, <2>1 DEF Kept, KeptBefore
  <2>3. caller'[c] = Idle
    BY <1>2, <1>11 DEF AfterFile
  <2> QED BY <1>1, <2>2, <2>3, EndMaps
<1> QED BY <1>2, <1>9, <1>10, <1>11 DEF File

\* A store that fails before its files are in place loses nothing.
LEMMA StoreFailsMaps ==
  ASSUME CacheInv, OrderlyNext, NEW c \in Caller, StoreFails(c)
  PROVE  Maps
<1>1. /\ Typed /\ caller \in [Caller -> Call] /\ caller[c] \in Call /\ faults \in Nat
  BY CacheAssumption DEF CacheInv, Typed
<1>2. /\ \A d \in Caller \ {c} : caller'[d] = caller[d]
      /\ \/ caller'[c] = Idle
         \/ caller'[c] = [caller[c] EXCEPT !.at = "answer", !.file = "graph"]
  BY <1>1 DEF StoreFails, GiveUp, Become
<1>3. Storing(c) /\ caller[c].at \notin Rotating /\ faults' \in {faults, faults + 1}
  BY DEF StoreFails, Storing, Rotating, Fault
<1>4. caller'[c].at \notin Rotating
  <2>1. Idle.at = "idle"
    BY DEF Idle
  <2>2. [caller[c] EXCEPT !.at = "answer", !.file = "graph"].at = "answer"
    BY <1>1 DEF Call
  <2> QED BY <1>2, <2>1, <2>2 DEF Rotating
<1>5. /\ dir'.graph.now = dir.graph.now /\ dir'.graph.prev = dir.graph.prev
      /\ dir'.meta.now = dir.meta.now /\ dir'.meta.prev = dir.meta.prev
  <2>1. CASE dir' = dir
    BY <2>1
  <2>2. CASE Put(caller[c].file, "tmp", Absent)
    <3>1. \A h \in File, k \in {"now", "prev"} : dir'[h][k] = dir[h][k]
      BY <1>1, <2>2, Puts DEF Content, Call, Generation
    <3> QED BY <3>1 DEF File
  <2> QED BY <2>1, <2>2 DEF StoreFails
<1>6. Turning' = Turning
  <2>1. ~Turning /\ ~Turning'
    BY <1>2, <1>3, <1>4, Turns
  <2> QED BY <2>1 DEF Turning
<1>7. Kept' = Kept /\ KeptBefore' = KeptBefore
  BY <1>5, <1>6, KeptSame
<1>8. CASE caller'[c] = Idle
  <2>1. CASE faults' = faults
    BY <1>2, <1>7, <1>8, <2>1, EndMaps
  <2>2. CASE faults' = faults + 1
    <3>1. Served' = Cache!Without(c, {"graph", "base"})
      BY <1>2, <1>8, ServedDrop
    <3> QED BY <1>1, <1>7, <2>2, <3>1, Loses
  <2> QED BY <1>3, <2>1, <2>2
<1>9. CASE caller'[c] = [caller[c] EXCEPT !.at = "answer", !.file = "graph"]
  <2>1. Same(caller'[c], caller[c])
    BY <1>1, <1>9 DEF Call, Same
  <2> QED BY <1>1, <1>2, <1>3, <1>7, <2>1, StoreServes, LosesNothing
<1> QED BY <1>2, <1>8, <1>9

\* A kill between the two moves of a rotation leaves the kept generation as the
\* older one, or none.
LEMMA KillMaps ==
  ASSUME CacheInv, OrderlyNext, NEW c \in Caller, Kill(c)
  PROVE  Maps
<1>1. /\ Typed /\ CallInv(c) /\ StoreInv(c) /\ Sound /\ caller \in [Caller -> Call]
      /\ faults \in Nat
  BY CacheAssumption DEF CacheInv, Typed
<1>2. /\ \A d \in Caller \ {c} : caller'[d] = caller[d]
      /\ caller'[c] = Idle /\ dir' = dir /\ faults' = faults + 1
  BY <1>1 DEF Kill, Become, Fault
<1>3. Served' = Cache!Without(c, {"graph", "base"})
  BY <1>2, ServedDrop
<1>4. Kept' \in {Kept, Absent} /\ KeptBefore' \in {KeptBefore, Kept, Absent}
  <2>0. Idle.at \notin {"evict", "move"}
    BY DEF Idle
  <2>1. CASE caller[c].at \in Rotating /\ caller[c].file = "meta"
    <3>1. Turning /\ ~Turning'
      <4>1. Storing(c)
        BY <2>1 DEF Storing, Rotating
      <4> QED BY <1>2, <2>0, <2>1, <4>1, Turns DEF Rotating
    <3>2. /\ dir.graph.now # Absent => dir.graph.prev = Absent
          /\ dir.graph.prev # Absent => Of(dir.graph.prev, dir.meta.now)
          /\ dir.meta.now # Absent
      BY <1>1, <2>1 DEF StoreInv
    <3>3. ~Mixed("prev")
      BY DEF OrderlyNext, CutOff
    <3>4. CASE dir.graph.prev = Absent
      <4>1. KeptBefore' = Absent
        BY <1>2, <3>4 DEF KeptBefore, Whole, Readable
      <4>2. Kept' = Whole(dir.meta.now, dir.graph.now)
        BY <1>2, <3>1 DEF Kept
      <4>3. Kept' \in {Kept, Absent}
        BY <3>1, <4>2 DEF Kept, Whole, Readable
      <4> QED BY <4>1, <4>3
    <3>5. CASE dir.graph.prev # Absent
      <4>1. Kept' = Absent
        BY <1>2, <3>1, <3>2, <3>5 DEF Kept, Whole, Readable
      <4>2. Readable(dir.meta.now) /\ Readable(dir.graph.prev)
        BY <1>1, <3>2, <3>5 DEF Sound, Readable
      <4>3. Kept = [version |-> dir.graph.prev.nodes, fields |-> dir.graph.prev.fields]
        BY <3>1, <3>2, <3>5, <4>2 DEF Kept, Whole, Of
      <4>4. KeptBefore' \in {Absent, Kept}
        BY <1>2, <3>1, <3>3, <4>2, <4>3 DEF KeptBefore, Whole, Mixed
      <4> QED BY <4>1, <4>4
    <3> QED BY <3>4, <3>5
  <2>2. CASE ~(caller[c].at \in Rotating /\ caller[c].file = "meta")
    <3>1. Turning' = Turning
      <4>1. Turning' <=> Turning
        BY <1>2, <2>0, <2>2 DEF Turning, Rotating
      <4> QED BY <4>1 DEF Turning
    <3> QED BY <1>2, <3>1, KeptSame
  <2> QED BY <2>1, <2>2
<1> QED BY <1>1, <1>2, <1>3, <1>4, Loses

\* The empty cache is no snapshot.
LEMMA SnapshotsStart == Init => Cache!Init
<1> SUFFICES ASSUME Init PROVE Cache!Init
  OBVIOUS
<1>1. /\ dir.graph.now = Absent /\ dir.graph.prev = Absent
      /\ dir.meta.now = Absent /\ dir.meta.prev = Absent
  BY DEF Init, File, Generation
<1>2. Kept = Absent /\ KeptBefore = Absent
  BY <1>1 DEF Kept, KeptBefore, Whole, Readable
<1>3. Idle.cached = FALSE /\ Plain(Idle.base.graph) = Absent
  BY DEF Idle, NoBase, Plain
<1>4. Served = [u \in Cache!Use |-> Absent]
  BY <1>3 DEF Init, Served, Cache!Use, Cache!Role
<1> QED BY <1>2, <1>4 DEF Init, Cache!Init

\* Each step of the files is one of the snapshots, or none.
LEMMA SnapshotsStep == CacheInv /\ [OrderlyNext]_vars => Maps
<1> SUFFICES ASSUME CacheInv, [OrderlyNext]_vars PROVE Maps
  OBVIOUS
<1>1. ASSUME dir' = dir, caller' = caller, faults' = faults PROVE Maps
  BY <1>1 DEF Maps, Cache!vars, Kept, KeptBefore, Served, Turning
<1>2. CASE UNCHANGED vars
  BY <1>1, <1>2 DEF vars
<1>3. CASE OrderlyNext /\ Sync
  BY <1>1, <1>3 DEF Sync
<1>4. ASSUME OrderlyNext, NEW c \in Caller, CallStep(c) \/ CutOff(c) PROVE Maps
  <2>1. CASE Ask(c) \/ Fingerprint(c) \/ LoadMeta(c) \/ LoadGraph(c) \/ ReadNodes(c) \/ ReadEdges(c)
    BY <1>4, <2>1, ReadsMap
  <2>2. CASE Check(c) \/ Answer(c) \/ BaseMeta(c) \/ BaseGraph(c) \/ BaseComplexity(c) \/ Compared(c)
    BY <1>4, <2>2, LooksMap
  <2>3. CASE Evict(c) \/ Move(c) \/ Truncate(c) \/ Fill(c) \/ Publish(c)
    BY <1>4, <2>3, EvictMaps, MoveMaps, TmpMaps, PublishMaps
  <2>4. CASE Kill(c) \/ StoreFails(c)
    BY <1>4, <2>4, KillMaps, StoreFailsMaps
  <2> QED BY <1>4, <2>1, <2>2, <2>3, <2>4 DEF CallStep, CutOff
<1> QED BY <1>2, <1>3, <1>4 DEF OrderlyNext, Next

\* Three files that are removed, renamed and replaced one by one behave like two
\* whole snapshots: a rotation makes room and then renames, a store puts a
\* snapshot in place, every answer and every base is one of them, and nothing is
\* lost without a kill or a failed call (mod.rs, "One previous generation is
\* kept").
THEOREM FilesAreSnapshots == UseSpec => KeepsSnapshots
<1>1. UseInit => Files!Init
  <2> SUFFICES ASSUME UseInit PROVE Files!Init
    OBVIOUS
  <2>1. Cache!Init
    BY SnapshotsStart DEF UseInit
  <2> QED BY <2>1 DEF Cache!Init, Files!Init, Unserved, Cache!Use, Files!Use, Cache!Role, Files!Role
<1>2. (IF orderly THEN CacheInv ELSE CalmInv) /\ [UseNext]_<<vars, orderly>> => [Files!Next]_Files!vars
  <2> SUFFICES ASSUME IF orderly THEN CacheInv ELSE CalmInv, [UseNext]_<<vars, orderly>>
               PROVE  [Files!Next]_Files!vars
    OBVIOUS
  <2>1. orderly' = orderly
    BY DEF UseNext
  <2>2. CASE orderly
    <3>1. CacheInv /\ [OrderlyNext]_vars
      BY <2>2 DEF UseNext
    <3>2. Maps
      BY <3>1, SnapshotsStep
    <3> QED BY <2>1, <2>2, <3>2
        DEF Maps, Cache!vars, Files!vars, Cache!Next, Files!Next, Cache!Put, Files!Put, Cache!Replace,
            Files!Replace, Cache!MakeRoom, Files!MakeRoom, Cache!Rotate, Files!Rotate, Cache!Lose,
            Files!Lose, Cache!Serve, Files!Serve, Cache!End, Files!End, Cache!Without, Files!Without,
            Cache!Use, Files!Use, Cache!Role, Files!Role, Cache!Snapshot, Files!Snapshot
  <2>3. CASE ~orderly
    <3>1. Unserved' = Unserved
      BY DEF Unserved, Cache!Use, Cache!Role
    <3> QED BY <2>1, <2>3, <3>1 DEF Files!vars
  <2> QED BY <2>2, <2>3
<1> QED BY <1>1, <1>2, UseHolds, PTL DEF UseSpec, KeepsSnapshots, Files!Spec
=============================================================================
