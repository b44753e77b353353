------------------------------ MODULE WalkProofs ------------------------------
(* Proofs about what the walks of a session return: within their bounds, in  *)
(* one piece, a shortest path.  Nodes, edges, queries and commits are any.   *)
EXTENDS ToolCallsProofs, FiniteSetTheorems, WellFoundedInduction

-----------------------------------------------------------------------------
(* Induction: a set of numbers that goes on from each to the next            *)

\* A set of numbers that is not empty has a least one.
LEMMA LeastNumber ==
  ASSUME NEW T \in SUBSET Nat, T # {}
  PROVE  \E n \in T : \A m \in T : ~(m < n)
<1>1. \E n \in T : \A m \in T : ~(<<m, n>> \in OpToRel(<, Nat))
  BY NatLessThanWellFounded, WFMin
<1> QED
  BY <1>1 DEF OpToRel

\* A set that 0 is in, and with each number the next, has all of them.
LEMMA SetInduction ==
  ASSUME NEW T, 0 \in T, \A n \in Nat : n \in T => n + 1 \in T
  PROVE  \A n \in Nat : n \in T
<1>1. SUFFICES ASSUME Nat \ T # {} PROVE FALSE
  OBVIOUS
<1>2. PICK n \in Nat \ T : \A m \in Nat \ T : ~(m < n)
  BY <1>1, LeastNumber
<1>3. n # 0 /\ n - 1 \in Nat /\ n - 1 < n
  BY <1>2
<1>4. n - 1 \in T
  BY <1>2, <1>3
<1> QED BY <1>2, <1>3, <1>4

\* The iterates of a function, from x on.
Chain(f, S, g, x, d) == f \in [0..d -> S] /\ f[0] = x /\ \A n \in 0..d : n # 0 => f[n] = g[f[n-1]]

\* A function can be iterated any number of times.
LEMMA Iterates ==
  ASSUME NEW S, NEW g \in [S -> S], NEW x \in S, NEW d \in Nat
  PROVE  \E f : Chain(f, S, g, x, d)
<1> DEFINE T == {m \in Nat : \E f : Chain(f, S, g, x, m)}
<1>1. 0 \in T
  <2> DEFINE f == [n \in 0..0 |-> x]
  <2>1. Chain(f, S, g, x, 0)
    BY DEF Chain
  <2> QED BY <2>1
<1>2. ASSUME NEW m \in Nat, m \in T PROVE m + 1 \in T
  <2>1. PICK f : Chain(f, S, g, x, m)
    BY <1>2
  <2> DEFINE h == [n \in 0..m+1 |-> IF n = m+1 THEN g[f[m]] ELSE f[n]]
  <2>2. h \in [0..m+1 -> S]
    <3>1. m \in 0..m /\ \A n \in 0..m+1 : n # m+1 => n \in 0..m
      OBVIOUS
    <3> QED BY <2>1, <3>1 DEF Chain
  <2>3. h[0] = x /\ \A n \in 0..m+1 : n # 0 => h[n] = g[h[n-1]]
    <3>1. \A n \in 0..m+1 : n # m+1 => n \in 0..m /\ h[n] = f[n]
      OBVIOUS
    <3>2. h[m+1] = g[f[m]] /\ h[m] = f[m]
      OBVIOUS
    <3> HIDE DEF h
    <3>3. h[0] = x
      BY <3>1, <2>1 DEF Chain
    <3>4. ASSUME NEW n \in 0..m+1, n # 0, n # m+1 PROVE h[n] = g[h[n-1]]
      BY <3>1, <3>4, <2>1 DEF Chain
    <3> QED BY <3>2, <3>3, <3>4
  <2>4. Chain(h, S, g, x, m+1)
    BY <2>2, <2>3 DEF Chain
  <2> QED BY <2>4
<1> HIDE DEF T
<1>3. \A n \in Nat : n \in T
  BY <1>1, <1>2, SetInduction
<1> QED BY <1>3 DEF T

\* Two sequences that start alike and go on alike.
Alike(f, h, d) == f[0] = h[0] /\ \A n \in 0..d : n # 0 /\ f[n-1] = h[n-1] => f[n] = h[n]
Same(f, h, d) == \A n \in 0..d : f[n] = h[n]

\* What starts and goes on alike is the same all along.
LEMMA AlikeSame ==
  ASSUME NEW d \in Nat, NEW f, NEW h, Alike(f, h, d)
  PROVE  Same(f, h, d)
<1> USE DEF Alike, Same
<1> DEFINE T == {n \in Nat : n <= d => f[n] = h[n]}
<1>1. 0 \in T
  OBVIOUS
<1>2. ASSUME NEW n \in Nat, n \in T PROVE n + 1 \in T
  <2>1. CASE n + 1 <= d
    BY <1>2, <2>1
  <2> QED BY <2>1
<1> HIDE DEF T
<1>3. \A n \in Nat : n \in T
  BY <1>1, <1>2, SetInduction
<1> QED BY <1>3 DEF T

-----------------------------------------------------------------------------
(* What a relation reaches                                                   *)

Relations == SUBSET (Node \X Node)

\* The image of a set of nodes is one.
LEMMA SpreadNodes ==
  ASSUME NEW R \in Relations, NEW S \in SUBSET Node
  PROVE  Image(R, S) \subseteq Node /\ Spread(R, S) \in SUBSET Node /\ S \subseteq Spread(R, S)
BY DEF Relations, Image, Spread

\* Spreads is what its recursion says.
LEMMA SpreadsSteps ==
  ASSUME NEW R \in Relations, NEW S \in SUBSET Node, NEW n \in Nat
  PROVE  /\ Spreads(R, S, n) \in [0..n -> SUBSET Node]
         /\ Spreads(R, S, n)[0] = S
         /\ \A k \in 0..n : k # 0 => Spreads(R, S, n)[k] = Spread(R, Spreads(R, S, n)[k-1])
<1> DEFINE g == [T \in SUBSET Node |-> Spread(R, T)]
           Fits(f) == f = [k \in 0..n |-> IF k = 0 THEN S ELSE Spread(R, f[k-1])]
<1>1. g \in [SUBSET Node -> SUBSET Node]
  BY SpreadNodes
<1>2. PICK f \in [0..n -> SUBSET Node] : f[0] = S /\ \A k \in 0..n : k # 0 => f[k] = g[f[k-1]]
  <2> HIDE DEF g
  <2>1. \E f : Chain(f, SUBSET Node, g, S, n)
    BY <1>1, Iterates
  <2> QED BY <2>1 DEF Chain
<1>3. \A k \in 0..n : k # 0 => f[k] = Spread(R, f[k-1])
  <2>1. ASSUME NEW k \in 0..n, k # 0 PROVE f[k] = Spread(R, f[k-1])
    <3>1. f[k-1] \in SUBSET Node
      BY <2>1
    <3>2. f[k] = g[f[k-1]]
      BY <1>2, <2>1
    <3> QED BY <3>1, <3>2
  <2> QED BY <2>1
<1>4. Fits(f)
  BY <1>2, <1>3
<1>5. Fits(Spreads(R, S, n))
  <2>1. Spreads(R, S, n) = CHOOSE l : Fits(l)
    BY DEF Spreads
  <2> HIDE DEF Fits
  <2> QED BY <1>4, <2>1
<1>6. \A k \in 0..n : Spreads(R, S, n)[k] = f[k]
  <2>1. Alike(Spreads(R, S, n), f, n)
    BY <1>2, <1>3, <1>5 DEF Alike
  <2> QED BY <2>1, AlikeSame DEF Same
<1>7. Spreads(R, S, n) = f
  BY <1>5, <1>6
<1> QED BY <1>2, <1>3, <1>7

\* What is reached stays reached, and lies within any set that is closed.
LEMMA SpreadsLeast ==
  ASSUME NEW R \in Relations, NEW S \in SUBSET Node, NEW n \in Nat,
         NEW T \in SUBSET Node, S \subseteq T, Image(R, T) \subseteq T
  PROVE  \A k \in 0..n : S \subseteq Spreads(R, S, n)[k] /\ Spreads(R, S, n)[k] \subseteq T
<1> DEFINE f == Spreads(R, S, n)
           K == {k \in Nat : k <= n => S \subseteq f[k] /\ f[k] \subseteq T}
<1>1. /\ f \in [0..n -> SUBSET Node] /\ f[0] = S
      /\ \A k \in 0..n : k # 0 => f[k] = Spread(R, f[k-1])
  BY SpreadsSteps
<1> HIDE DEF f
<1>2. 0 \in K
  BY <1>1
<1>3. ASSUME NEW k \in Nat, k \in K PROVE k + 1 \in K
  <2>1. SUFFICES ASSUME k + 1 <= n PROVE S \subseteq f[k+1] /\ f[k+1] \subseteq T
    OBVIOUS
  <2>2. f[k+1] = Spread(R, f[k]) /\ S \subseteq f[k] /\ f[k] \subseteq T
    BY <1>1, <1>3, <2>1
  <2> QED BY <2>2 DEF Spread, Image
<1> HIDE DEF K
<1>4. \A k \in Nat : k \in K
  BY <1>2, <1>3, SetInduction
<1> QED BY <1>4 DEF K, f

\* After as many rounds as there are nodes to reach, nothing is left to reach.
LEMMA SpreadsClosed ==
  ASSUME NEW R \in Relations, NEW U \in SUBSET Node, Image(R, U) \subseteq U,
         NEW S \in SUBSET U, NEW n \in Nat, Cardinality(U) <= Cardinality(S) + n
  PROVE  Image(R, Spreads(R, S, n)[n]) \subseteq Spreads(R, S, n)[n]
<1> DEFINE f == Spreads(R, S, n)
           Done(k) == Image(R, f[k]) \subseteq f[k]
           K == {k \in Nat : k <= n => Done(k) \/ Cardinality(f[k]) >= Cardinality(S) + k}
<1>0. S \in SUBSET Node
  OBVIOUS
<1>1. /\ f \in [0..n -> SUBSET Node] /\ f[0] = S
      /\ \A k \in 0..n : k # 0 => f[k] = Spread(R, f[k-1])
  BY <1>0, SpreadsSteps
<1>2. \A k \in 0..n : f[k] \subseteq U
  BY <1>0, SpreadsLeast
<1> HIDE DEF f
<1>3. IsFiniteSet(Node) /\ IsFiniteSet(U)
  BY TraversalAssumption, FS_Subset
<1>4. \A V \in SUBSET U : IsFiniteSet(V) /\ Cardinality(V) \in Nat
  BY <1>3, FS_Subset, FS_CardinalityType
<1>5. 0 \in K
  BY <1>1, <1>4
<1>6. ASSUME NEW k \in Nat, k \in K PROVE k + 1 \in K
  <2>1. SUFFICES ASSUME k + 1 <= n, ~Done(k + 1)
                 PROVE  Cardinality(f[k+1]) >= Cardinality(S) + (k + 1)
    OBVIOUS
  <2>2. f[k+1] = Spread(R, f[k]) /\ k \in 0..n /\ k + 1 \in 0..n
    BY <1>1, <2>1
  <2>3. ~Done(k)
    BY <2>1, <2>2 DEF Spread
  <2>4. PICK m \in Image(R, f[k]) : m \notin f[k]
    BY <2>3
  <2>5. f[k] \cup {m} \subseteq f[k+1] /\ f[k+1] \subseteq U /\ f[k] \subseteq U
    BY <1>2, <2>2, <2>4 DEF Spread
  <2>6. Cardinality(f[k] \cup {m}) = Cardinality(f[k]) + 1 /\ f[k] \cup {m} \subseteq U
    BY <1>4, <2>4, <2>5, FS_AddElement
  <2>7. Cardinality(f[k] \cup {m}) <= Cardinality(f[k+1])
    BY <1>4, <2>5, FS_Subset
  <2>8. Cardinality(f[k]) >= Cardinality(S) + k
    BY <1>6, <2>1, <2>3
  <2> QED BY <1>4, <2>5, <2>6, <2>7, <2>8
<1>7. n \in K
  <2> HIDE DEF K
  <2> QED BY <1>5, <1>6, SetInduction
<1>8. CASE Done(n)
  BY <1>8 DEF f
<1>9. CASE Cardinality(f[n]) >= Cardinality(S) + n
  <2>1. f[n] = U
    <3>1. f[n] \subseteq U
      BY <1>2
    <3>2. Cardinality(f[n]) <= Cardinality(U)
      BY <1>3, <3>1, FS_Subset
    <3>3. Cardinality(f[n]) = Cardinality(U)
      BY <1>4, <1>9, <3>1, <3>2
    <3> QED BY <1>3, <3>1, <3>3, FS_Subset
  <2> QED BY <2>1 DEF f
<1> QED BY <1>7, <1>8, <1>9

\* A set with its members is the smallest one that holds it and what is in it.
LEMMA WholeLeast ==
  ASSUME NEW M \in Relations, NEW S \in SUBSET Node
  PROVE  /\ Whole(M, S) \in SUBSET Node /\ S \subseteq Whole(M, S)
         /\ Image(M, Whole(M, S)) \subseteq Whole(M, S)
         /\ \A T \in SUBSET Node : S \subseteq T /\ Image(M, T) \subseteq T => Whole(M, S) \subseteq T
<1> DEFINE n == Cardinality(Node)
<1>1. IsFiniteSet(Node) /\ n \in Nat /\ IsFiniteSet(S) /\ Cardinality(S) \in Nat
  BY TraversalAssumption, FS_Subset, FS_CardinalityType
<1>2. Node \in SUBSET Node /\ Image(M, Node) \subseteq Node
  BY SpreadNodes
<1>3. Whole(M, S) = Spreads(M, S, n)[n] /\ n \in 0..n /\ n <= Cardinality(S) + n
  BY <1>1 DEF Whole
<1> HIDE DEF n
<1>4. Image(M, Whole(M, S)) \subseteq Whole(M, S)
  BY <1>1, <1>2, <1>3, SpreadsClosed DEF n
<1>5. ASSUME NEW T \in SUBSET Node, S \subseteq T, Image(M, T) \subseteq T
      PROVE  S \subseteq Whole(M, S) /\ Whole(M, S) \subseteq T
  <2>1. \A k \in 0..n : S \subseteq Spreads(M, S, n)[k] /\ Spreads(M, S, n)[k] \subseteq T
    BY <1>1, <1>5, SpreadsLeast
  <2> QED BY <1>3, <2>1
<1>6. S \subseteq Whole(M, S) /\ Whole(M, S) \subseteq Node
  BY <1>2, <1>5
<1> QED BY <1>4, <1>5, <1>6

\* What a sequence of levels is: each is the one before, a hop further.
Climbs(l, H, M, s, d) ==
  /\ l \in [0..d -> SUBSET Node] /\ l[0] = Whole(M, {s})
  /\ \A k \in 0..d : k # 0 => l[k] = Whole(M, Spread(H, l[k-1]))

\* Levels is what its recursion says.
LEMMA LevelsSteps ==
  ASSUME NEW H \in Relations, NEW M \in Relations, NEW s \in Node, NEW d \in Nat
  PROVE  Climbs(Levels(H, M, s, d), H, M, s, d)
<1> DEFINE g == [T \in SUBSET Node |-> Whole(M, Spread(H, T))]
           Fits(f) == f = [k \in 0..d |-> Whole(M, IF k = 0 THEN {s} ELSE Spread(H, f[k-1]))]
<1>1. g \in [SUBSET Node -> SUBSET Node] /\ Whole(M, {s}) \in SUBSET Node
  BY SpreadNodes, WholeLeast
<1>2. PICK f \in [0..d -> SUBSET Node] : f[0] = Whole(M, {s}) /\ \A k \in 0..d : k # 0 => f[k] = g[f[k-1]]
  <2> HIDE DEF g
  <2>1. \E f : Chain(f, SUBSET Node, g, Whole(M, {s}), d)
    BY <1>1, Iterates
  <2> QED BY <2>1 DEF Chain
<1>3. \A k \in 0..d : k # 0 => f[k] = Whole(M, Spread(H, f[k-1]))
  <2>1. ASSUME NEW k \in 0..d, k # 0 PROVE f[k] = Whole(M, Spread(H, f[k-1]))
    <3>1. f[k-1] \in SUBSET Node
      BY <2>1
    <3>2. f[k] = g[f[k-1]]
      BY <1>2, <2>1
    <3> QED BY <3>1, <3>2
  <2> QED BY <2>1
<1>4. Fits(f)
  BY <1>2, <1>3
<1>5. Fits(Levels(H, M, s, d))
  <2>1. Levels(H, M, s, d) = CHOOSE l : Fits(l)
    BY DEF Levels
  <2> HIDE DEF Fits
  <2> QED BY <1>4, <2>1
<1>6. \A k \in 0..d : Levels(H, M, s, d)[k] = f[k]
  <2> DEFINE l == Levels(H, M, s, d)
  <2>0. Fits(l)
    BY <1>5
  <2> HIDE DEF l, g
  <2>1. l[0] = f[0] /\ \A k \in 0..d : k # 0 => l[k] = Whole(M, Spread(H, l[k-1]))
    <3>1. \A k \in 0..d : l[k] = Whole(M, IF k = 0 THEN {s} ELSE Spread(H, l[k-1]))
      BY <2>0
    <3>2. l[0] = Whole(M, {s})
      <4>1. 0 \in 0..d /\ (IF 0 = 0 THEN {s} ELSE Spread(H, l[0-1])) = {s}
        OBVIOUS
      <4> QED BY <3>1, <4>1
    <3>3. ASSUME NEW k \in 0..d, k # 0 PROVE l[k] = Whole(M, Spread(H, l[k-1]))
      <4>1. (IF k = 0 THEN {s} ELSE Spread(H, l[k-1])) = Spread(H, l[k-1])
        BY <3>3
      <4> QED BY <3>1, <4>1
    <3> QED BY <1>2, <3>2, <3>3
  <2>2. Alike(l, f, d)
    BY <1>3, <2>1 DEF Alike
  <2> QED BY <2>2, AlikeSame DEF Same, l
<1>7. Levels(H, M, s, d) = f
  BY <1>5, <1>6
<1> QED BY <1>2, <1>3, <1>7 DEF Climbs

\* The last of the levels, whose recursion does not depend on how many there are.
Last(H, M, s, k) == Levels(H, M, s, k)[k]

\* Each level is made from the one before.
LEMMA LastSteps ==
  ASSUME NEW H \in Relations, NEW M \in Relations, NEW s \in Node, NEW k \in Nat
  PROVE  /\ Last(H, M, s, k) \in SUBSET Node
         /\ Last(H, M, s, k + 1) = Whole(M, Spread(H, Last(H, M, s, k)))
         /\ Reach(H, M, s, k + 1) = Spread(H, Last(H, M, s, k))
<1> DEFINE f == Levels(H, M, s, k)
           h == Levels(H, M, s, k + 1)
<1>1. Climbs(f, H, M, s, k)
  BY LevelsSteps
<1>2. Climbs(h, H, M, s, k + 1)
  BY LevelsSteps
<1>3. Last(H, M, s, k) = f[k] /\ Last(H, M, s, k + 1) = h[k+1]
  BY DEF Last
<1>4. Reach(H, M, s, k + 1) = Spread(H, f[k])
  BY DEF Reach
<1> HIDE DEF f, h
<1>5. f[k] = h[k]
  <2>1. Alike(f, h, k)
    BY <1>1, <1>2 DEF Alike, Climbs
  <2> QED BY <2>1, AlikeSame DEF Same
<1>6. h[k+1] = Whole(M, Spread(H, h[k]))
  BY <1>2 DEF Climbs
<1>7. f[k] \in SUBSET Node
  BY <1>1 DEF Climbs
<1> QED BY <1>3, <1>4, <1>5, <1>6, <1>7

\* The levels begin with the start and what it has.
LEMMA LastStart ==
  ASSUME NEW H \in Relations, NEW M \in Relations, NEW s \in Node
  PROVE  Last(H, M, s, 0) = Whole(M, {s}) /\ Reach(H, M, s, 0) = {s}
<1>1. 0 \in Nat
  OBVIOUS
<1>2. Climbs(Levels(H, M, s, 0), H, M, s, 0)
  BY <1>1, LevelsSteps
<1>3. Last(H, M, s, 0) = Whole(M, {s})
  BY <1>2 DEF Climbs, Last
<1>4. Reach(H, M, s, 0) = {s}
  BY DEF Reach
<1> QED BY <1>3, <1>4

\* A level has what it has within it and what is one hop from the one before, and
\* all levels below the last are within reach.
LEMMA LastHolds ==
  ASSUME NEW H \in Relations, NEW M \in Relations, NEW s \in Node
  PROVE  /\ s \in Last(H, M, s, 0)
         /\ \A k \in Nat : Image(M, Last(H, M, s, k)) \subseteq Last(H, M, s, k)
         /\ \A k \in Nat : Spread(H, Last(H, M, s, k)) \subseteq Last(H, M, s, k + 1)
         /\ \A d \in Nat : s \in Reach(H, M, s, d)
         /\ \A k, d \in Nat : k < d => Spread(H, Last(H, M, s, k)) \subseteq Reach(H, M, s, d)
<1> DEFINE l(k) == Last(H, M, s, k)
<1>1. \A k \in Nat : l(k) \in SUBSET Node /\ l(k + 1) = Whole(M, Spread(H, l(k)))
                      /\ Reach(H, M, s, k + 1) = Spread(H, l(k))
  BY LastSteps
<1>2. l(0) = Whole(M, {s}) /\ Reach(H, M, s, 0) = {s}
  BY LastStart
<1> HIDE DEF l
<1>3. s \in l(0) /\ Image(M, l(0)) \subseteq l(0)
  BY <1>2, WholeLeast
<1>4. \A k \in Nat : Spread(H, l(k)) \subseteq l(k + 1) /\ Image(M, l(k + 1)) \subseteq l(k + 1)
  <2>1. SUFFICES ASSUME NEW k \in Nat
                 PROVE  Spread(H, l(k)) \subseteq l(k + 1) /\ Image(M, l(k + 1)) \subseteq l(k + 1)
    OBVIOUS
  <2>2. Spread(H, l(k)) \in SUBSET Node
    BY <1>1, SpreadNodes
  <2> QED BY <1>1, <2>2, WholeLeast
<1>5. \A k \in Nat : Image(M, l(k)) \subseteq l(k)
  <2>1. ASSUME NEW k \in Nat, k # 0 PROVE Image(M, l(k)) \subseteq l(k)
    <3>1. k - 1 \in Nat /\ k = (k - 1) + 1
      BY <2>1
    <3> QED BY <1>4, <3>1
  <2> QED BY <1>3, <2>1
<1>6. \A k, j \in Nat : k <= j => l(k) \subseteq l(j)
  <2>1. SUFFICES ASSUME NEW k \in Nat PROVE \A j \in Nat : k <= j => l(k) \subseteq l(j)
    OBVIOUS
  <2> DEFINE J == {j \in Nat : k <= j => l(k) \subseteq l(j)}
  <2>2. 0 \in J
    OBVIOUS
  <2>3. ASSUME NEW j \in Nat, j \in J PROVE j + 1 \in J
    <3>1. CASE k <= j
      BY <1>4, <2>3, <3>1 DEF Spread
    <3>2. CASE k = j + 1
      BY <3>2
    <3> QED BY <3>1, <3>2
  <2> HIDE DEF J
  <2>4. \A j \in Nat : j \in J
    BY <2>2, <2>3, SetInduction
  <2> QED BY <2>4 DEF J
<1>7. ASSUME NEW k \in Nat, NEW d \in Nat, k < d
      PROVE  Spread(H, l(k)) \subseteq Reach(H, M, s, d)
  <2>1. d - 1 \in Nat /\ k <= d - 1 /\ d = (d - 1) + 1
    BY <1>7
  <2>2. l(k) \subseteq l(d - 1) /\ Reach(H, M, s, d) = Spread(H, l(d - 1))
    BY <1>1, <1>6, <2>1
  <2> QED BY <2>2 DEF Spread, Image
<1>8. ASSUME NEW d \in Nat PROVE s \in Reach(H, M, s, d)
  <2>1. CASE d = 0
    BY <1>2, <2>1
  <2>2. CASE d # 0
    <3>1. Spread(H, l(0)) \subseteq Reach(H, M, s, d)
      BY <1>7, <2>2
    <3> QED BY <1>3, <3>1 DEF Spread
  <2> QED BY <2>1, <2>2
<1> QED BY <1>3, <1>4, <1>5, <1>7, <1>8 DEF l

\* More hops and more members reach more.
LEMMA ReachGrows ==
  ASSUME NEW H \in Relations, NEW M \in Relations, NEW s \in Node,
         NEW G \in SUBSET H, NEW L \in SUBSET M
  PROVE  /\ \A k \in Nat : Last(G, L, s, k) \subseteq Last(H, M, s, k)
         /\ \A d \in Nat : Reach(G, L, s, d) \subseteq Reach(H, M, s, d)
<1> DEFINE J == {j \in Nat : Last(G, L, s, j) \subseteq Last(H, M, s, j)}
<1>1. G \in Relations /\ L \in Relations
  BY DEF Relations
<1>2. \A T : Image(G, T) \subseteq Image(H, T) /\ Image(L, T) \subseteq Image(M, T)
  BY DEF Image
<1>3. 0 \in J
  <2>1. Last(G, L, s, 0) = Whole(L, {s}) /\ Last(H, M, s, 0) = Whole(M, {s})
    BY <1>1, LastStart
  <2>2. Whole(M, {s}) \in SUBSET Node /\ {s} \subseteq Whole(M, {s}) /\ Image(M, Whole(M, {s})) \subseteq Whole(M, {s})
    BY WholeLeast
  <2>3. Image(L, Whole(M, {s})) \subseteq Whole(M, {s})
    BY <1>2, <2>2
  <2> QED BY <1>1, <2>1, <2>2, <2>3, WholeLeast
<1>4. ASSUME NEW j \in Nat, j \in J PROVE j + 1 \in J
  <2> DEFINE S == Spread(H, Last(H, M, s, j))
             T == Spread(G, Last(G, L, s, j))
  <2>1. /\ Last(G, L, s, j + 1) = Whole(L, T) /\ Last(H, M, s, j + 1) = Whole(M, S)
        /\ Last(G, L, s, j) \in SUBSET Node /\ Last(H, M, s, j) \in SUBSET Node
    BY <1>1, LastSteps
  <2>2. T \subseteq S
    BY <1>4 DEF Spread, Image
  <2>3. S \in SUBSET Node /\ T \in SUBSET Node
    BY <1>1, <2>1, SpreadNodes
  <2> HIDE DEF S, T
  <2>4. Whole(M, S) \in SUBSET Node /\ S \subseteq Whole(M, S) /\ Image(M, Whole(M, S)) \subseteq Whole(M, S)
    BY <2>3, WholeLeast
  <2>5. T \subseteq Whole(M, S) /\ Image(L, Whole(M, S)) \subseteq Whole(M, S)
    BY <1>2, <2>2, <2>4
  <2>6. Whole(L, T) \subseteq Whole(M, S)
    BY <1>1, <2>3, <2>4, <2>5, WholeLeast
  <2> QED BY <2>1, <2>6
<1> HIDE DEF J
<1>5. \A j \in Nat : j \in J
  BY <1>3, <1>4, SetInduction
<1>6. ASSUME NEW d \in Nat PROVE Reach(G, L, s, d) \subseteq Reach(H, M, s, d)
  <2>1. CASE d = 0
    <3>1. Reach(G, L, s, 0) = {s} /\ Reach(H, M, s, 0) = {s}
      BY <1>1, LastStart
    <3> QED BY <2>1, <3>1
  <2>2. CASE d # 0
    <3>1. d - 1 \in Nat /\ d = (d - 1) + 1
      BY <2>2
    <3>2. /\ Reach(G, L, s, d) = Spread(G, Last(G, L, s, d - 1))
          /\ Reach(H, M, s, d) = Spread(H, Last(H, M, s, d - 1))
      BY <1>1, <3>1, LastSteps
    <3>3. Last(G, L, s, d - 1) \subseteq Last(H, M, s, d - 1)
      BY <1>5, <3>1 DEF J
    <3> QED BY <3>2, <3>3 DEF Spread, Image
  <2> QED BY <2>1, <2>2
<1> QED BY <1>5, <1>6 DEF J

\* Nodes with their depths that leave nothing out within a number of hops have
\* all that it reaches.
LEMMA ReachLeast ==
  ASSUME NEW H \in Relations, NEW M \in Relations, NEW s \in Node, NEW d \in Nat,
         NEW D \in SUBSET Node, NEW b \in [D -> Nat], s \in D, b[s] = 0,
         \A n \in D : b[n] < d =>
           /\ \A m \in Node : <<n, m>> \in H => m \in D /\ b[m] <= b[n] + 1
           /\ \A m \in Node : <<n, m>> \in M => m \in D /\ b[m] <= b[n]
  PROVE  Reach(H, M, s, d) \subseteq D
<1> DEFINE To(k) == {n \in D : b[n] <= k}
           J == {j \in Nat : j < d => Last(H, M, s, j) \subseteq To(j)}
<1>1. \A k \in Nat : To(k) \in SUBSET Node
  OBVIOUS
<1>2. ASSUME NEW k \in Nat, k < d PROVE Image(M, To(k)) \subseteq To(k)
  <2>1. SUFFICES ASSUME NEW n \in To(k), NEW m, <<n, m>> \in M PROVE m \in To(k)
    BY DEF Image, Relations
  <2>2. m \in Node /\ n \in D /\ b[n] <= k /\ b[n] < d
    BY <1>2, <2>1 DEF Relations
  <2>3. m \in D /\ b[m] <= b[n]
    BY <2>1, <2>2
  <2> QED BY <2>2, <2>3
<1>3. ASSUME NEW k \in Nat, k < d PROVE Spread(H, To(k)) \subseteq To(k + 1)
  <2>1. \A n \in To(k) : n \in To(k + 1)
    OBVIOUS
  <2>2. ASSUME NEW n \in To(k), NEW m, <<n, m>> \in H PROVE m \in To(k + 1)
    <3>1. m \in Node /\ n \in D /\ b[n] <= k /\ b[n] < d
      BY <1>3, <2>2 DEF Relations
    <3>2. m \in D /\ b[m] <= b[n] + 1
      BY <2>2, <3>1
    <3> QED BY <3>1, <3>2
  <2> HIDE DEF To
  <2> QED BY <2>1, <2>2 DEF Spread, Image, Relations
<1>4. s \in To(0)
  OBVIOUS
<1> HIDE DEF To
<1>5. 0 \in J
  <2>1. SUFFICES ASSUME 0 < d PROVE Last(H, M, s, 0) \subseteq To(0)
    OBVIOUS
  <2>2. Image(M, To(0)) \subseteq To(0) /\ {s} \subseteq To(0)
    BY <1>2, <1>4, <2>1
  <2>3. Last(H, M, s, 0) = Whole(M, {s})
    BY LastStart
  <2> QED BY <1>1, <2>2, <2>3, WholeLeast
<1>6. ASSUME NEW j \in Nat, j \in J PROVE j + 1 \in J
  <2>1. SUFFICES ASSUME j + 1 < d PROVE Last(H, M, s, j + 1) \subseteq To(j + 1)
    OBVIOUS
  <2>2. Last(H, M, s, j) \subseteq To(j)
    BY <1>6, <2>1
  <2>3. Spread(H, Last(H, M, s, j)) \subseteq Spread(H, To(j))
    BY <2>2 DEF Spread, Image
  <2>4. Spread(H, Last(H, M, s, j)) \subseteq To(j + 1)
    BY <1>3, <2>1, <2>3
  <2>5. Image(M, To(j + 1)) \subseteq To(j + 1)
    BY <1>2, <2>1
  <2>6. /\ Last(H, M, s, j + 1) = Whole(M, Spread(H, Last(H, M, s, j)))
        /\ Last(H, M, s, j) \in SUBSET Node
    BY LastSteps
  <2>7. Spread(H, Last(H, M, s, j)) \in SUBSET Node /\ To(j + 1) \in SUBSET Node
    BY <1>1, <2>6, SpreadNodes
  <2> QED BY <2>4, <2>5, <2>6, <2>7, WholeLeast
<1> HIDE DEF J
<1>7. \A j \in Nat : j \in J
  BY <1>5, <1>6, SetInduction
<1>8. CASE d = 0
  <2>1. Reach(H, M, s, 0) = {s}
    BY DEF Reach
  <2> QED BY <1>8, <2>1
<1>9. CASE d # 0
  <2>1. d - 1 \in Nat /\ d - 1 < d /\ d = (d - 1) + 1
    BY <1>9
  <2>2. Last(H, M, s, d - 1) \subseteq To(d - 1)
    BY <1>7, <2>1 DEF J
  <2>3. Reach(H, M, s, d) = Spread(H, Last(H, M, s, d - 1))
    BY <2>1, LastSteps
  <2>4. Spread(H, Last(H, M, s, d - 1)) \subseteq Spread(H, To(d - 1))
    BY <2>2 DEF Spread, Image
  <2>5. Spread(H, To(d - 1)) \subseteq To(d)
    BY <1>3, <2>1
  <2> QED BY <2>3, <2>4, <2>5 DEF To
<1> QED BY <1>8, <1>9

-----------------------------------------------------------------------------
(* A walk's invariant                                                        *)

InRound == at \in {"edges", "both", "nodes", "add"}
Underway == at = "loop" \/ InRound

\* An edge that a round follows from its nodes.
Adjacent(e) ==
  IF pass = "members" THEN e.kind = "contains" /\ e.src \in front
  ELSE /\ e.kind \in Kinds
       /\ (Direction # "incoming" /\ e.src \in front) \/ (Direction # "outgoing" /\ e.dst \in front)

Queued == {queue[i].node : i \in DOMAIN queue}

\* Between walks nothing is in hand, and little before the first round.
BlankInv ==
  /\ at \in {"idle", "start", "done"} =>
       pass = "around" /\ queue = <<>> /\ front = {} /\ depth = 0 /\ Marked = {} /\ todo = {} /\ found = {}
  /\ at \in {"idle", "start"} => nodes = {} /\ links = {}
  /\ at = "goal" =>
       /\ query.op = "path" /\ pass = "around" /\ front = {} /\ depth = 0 /\ todo = {} /\ links = {}
       /\ queue = <<[node |-> query.start, link |-> {}, depth |-> 0]>>
       /\ Marked = {query.start} /\ best[query.start] = 0 /\ nodes \subseteq {query.start}

\* What was always there is there, and what is there is what was there at some moment.
HistInv == always \subseteq db.edges /\ db.edges \subseteq ever

\* What a walk has in hand in each of its steps.
HandInv ==
  /\ Underway /\ Layered => /\ queue = <<>> /\ pass = "around"
                            /\ front = {n \in Marked : best[n] = depth}
                            /\ \A n \in Marked : best[n] <= IF at = "loop" THEN depth ELSE depth + 1
  /\ InRound /\ ~Layered => \E x \in Marked : best[x] = depth /\ front = {x}
  /\ InRound /\ query.op # "path" => depth < query.depth
  /\ pass = "members" => query.op = "impact" /\ front \subseteq Container
  /\ at = "both" => pass = "around" /\ Direction = "both"
  /\ at \in {"edges", "loop"} => todo = {}
  /\ \A e \in todo : e \in ever /\ Adjacent(e)
  /\ Underway => nodes \cup {query.start} = Marked \cup Queued \cup {query.start}

\* The queue is in the order of depths, which span two at most.
OrderInv ==
  /\ \A i, j \in DOMAIN queue : i <= j => /\ queue[i].depth <= queue[j].depth
                                          /\ queue[j].depth <= queue[i].depth + 1
  /\ \A i \in DOMAIN queue :
       /\ query.op # "path" => queue[i].depth <= query.depth
       /\ InRound => depth <= queue[i].depth /\ queue[i].depth <= depth + 1
       /\ query.op \in {"impact", "path"} => queue[i].node \in Marked /\ best[queue[i].node] <= queue[i].depth
       /\ query.op = "path" => best[queue[i].node] = queue[i].depth
       /\ \A n \in Marked : /\ query.op = "bfs" => best[n] <= queue[i].depth
                            /\ query.op = "path" => best[n] <= queue[i].depth + 1
  /\ InRound => \A n \in Marked : /\ query.op = "bfs" => best[n] <= depth
                                  /\ query.op = "path" => best[n] <= depth + 1

Base == BlankInv /\ HistInv /\ HandInv /\ OrderInv

-----------------------------------------------------------------------------
(* What a step of a walk does                                                *)

Item == [node : Node, link : SUBSET Edge, depth : Nat]
Frame == UNCHANGED <<dbVars, query, token, flags>>

\* Taking an entry drops it, marks it, or starts a round from it.
Popped == at = "loop" /\ ~Layered /\ queue # <<>> /\ queue' = Tail(queue) /\ Frame
          /\ UNCHANGED <<nodes, todo, found, outcome>>
Dropping ==
  /\ Popped /\ UNCHANGED <<at, pass, front, depth, best, links>>
  /\ Stale(Head(queue)) \/ (query.op = "impact" /\ Head(queue).depth >= query.depth)
Noting ==
  /\ query.op = "bfs" /\ Head(queue).node \notin Marked
  /\ best' = Mark(Head(queue).node, Head(queue).depth) /\ links' = links \cup Head(queue).link
Marking ==
  /\ Popped /\ Noting /\ UNCHANGED <<at, pass, front, depth>>
  /\ Head(queue).depth >= query.depth
Opening ==
  /\ Popped /\ at' = "edges" /\ front' = {Head(queue).node} /\ depth' = Head(queue).depth
  /\ Noting \/ (query.op # "bfs" /\ UNCHANGED <<best, links>> /\ ~Stale(Head(queue)))
  /\ query.op # "path" => Head(queue).depth < query.depth
  /\ pass' = IF query.op = "impact" /\ Head(queue).node \in Container THEN "members" ELSE "around"

\* Take is one of the three, and what it does to a stale entry is nothing.
LEMMA TakeCases ==
  ASSUME WalkTypeOK, Take
  PROVE  Dropping \/ Marking \/ Opening
<1> DEFINE entry == Head(queue)
<1>1. /\ at = "loop" /\ ~Layered /\ queue # <<>> /\ queue' = Tail(queue) /\ Frame
      /\ UNCHANGED <<nodes, todo, found, outcome>>
      /\ IF query.op = "bfs" /\ ~Stale(entry)
           THEN best' = Mark(entry.node, entry.depth) /\ links' = links \cup entry.link
           ELSE UNCHANGED <<best, links>>
      /\ IF Stale(entry) \/ TooDeep(entry)
           THEN UNCHANGED <<at, pass, front, depth>>
           ELSE /\ at' = "edges"
                /\ front' = {entry.node} /\ depth' = entry.depth
                /\ pass' = IF query.op = "impact" /\ entry.node \in Container
                             THEN "members" ELSE "around"
  BY DEF Take, Rest, Frame, More
<1>2. query.op \in {"bfs", "impact", "path"}
  BY <1>1 DEF Layered, WalkTypeOK, Query
<1>3. entry \in Item /\ query.depth \in Nat
  <2>1. queue \in Seq(Item) /\ query.depth \in Nat
    BY DEF WalkTypeOK, LocalTypeOK, Item, Query
  <2> QED BY <1>1, <2>1
<1> HIDE DEF entry
<1>4. CASE Stale(entry)
  BY <1>1, <1>4 DEF Dropping, Popped, entry
<1>5. CASE ~Stale(entry) /\ TooDeep(entry)
  <2>1. query.op # "path" /\ entry.depth >= query.depth
    BY <1>5 DEF TooDeep
  <2>2. CASE query.op = "bfs"
    BY <1>1, <1>5, <2>1, <2>2 DEF Marking, Noting, Popped, Stale, entry
  <2>3. CASE query.op = "impact"
    BY <1>1, <1>5, <2>1, <2>3 DEF Dropping, Popped, entry
  <2> QED BY <1>2, <2>1, <2>2, <2>3
<1>6. CASE ~Stale(entry) /\ ~TooDeep(entry)
  <2>1. query.op = "path" \/ entry.depth < query.depth
    BY <1>3, <1>6 DEF TooDeep, Item
  <2>2. Noting \/ (query.op # "bfs" /\ UNCHANGED <<best, links>>)
    BY <1>1, <1>6 DEF Noting, Stale, entry
  <2> QED BY <1>1, <1>6, <2>1, <2>2 DEF Opening, Popped, entry
<1> QED BY <1>4, <1>5, <1>6

\* Looking at an edge passes it by, ends a path, or finds a node.
Passing(e) ==
  /\ ~Fresh(Beyond(e)) /\ todo' = todo \ {e}
  /\ UNCHANGED <<at, pass, front, depth, found, outcome, nodes, links, queue, best>>
Ending(e) ==
  /\ query.op = "path" /\ Beyond(e) = query.goal /\ Fresh(query.goal)
  /\ Return("found", nodes \cup {query.goal}, Reconstruct(links \cup {e}))
Finding(e) ==
  /\ Fresh(Beyond(e)) /\ ~(query.op = "path" /\ Beyond(e) = query.goal)
  /\ todo' = todo \ {e} /\ nodes' = nodes \cup {Beyond(e)} /\ links' = Linked(Beyond(e), e)
  /\ best' = IF query.op = "bfs" THEN best ELSE Mark(Beyond(e), NewDepth)
  /\ queue' = Push(Beyond(e), e)
  /\ UNCHANGED <<at, pass, front, depth, found, outcome>>

\* Add is one of the three for some edge in hand.
LEMMA AddCases ==
  ASSUME Add
  PROVE  at = "add" /\ Frame /\ \E e \in todo : Passing(e) \/ Ending(e) \/ Finding(e)
<1>1. PICK e \in todo :
       IF ~Fresh(Beyond(e))
         THEN todo' = todo \ {e}
              /\ UNCHANGED <<at, pass, front, depth, found, outcome, nodes, links, queue, best>>
       ELSE IF query.op = "path" /\ Beyond(e) = query.goal
         THEN Return("found", nodes \cup {Beyond(e)}, Reconstruct(Linked(Beyond(e), e)))
       ELSE /\ todo' = todo \ {e}
            /\ nodes' = nodes \cup {Beyond(e)}
            /\ links' = Linked(Beyond(e), e)
            /\ best' = IF query.op = "bfs" THEN best ELSE Mark(Beyond(e), NewDepth)
            /\ queue' = Push(Beyond(e), e)
            /\ UNCHANGED <<at, pass, front, depth, found, outcome>>
  BY DEF Add
<1>2. at = "add" /\ Frame
  BY DEF Add, Frame
<1>3. query.op = "path" => Linked(Beyond(e), e) = links \cup {e}
  BY DEF Linked
<1>4. Passing(e) \/ Ending(e) \/ Finding(e)
  BY <1>1, <1>3 DEF Passing, Ending, Finding
<1> QED BY <1>2, <1>4

\* The first entry of a queue.
Entry0 == [node |-> query.start, link |-> {}, depth |-> 0]
\* Beginning finds no start, or has it and one entry to expand.
LEMMA BeginCases ==
  ASSUME Begin, BlankInv
  PROVE  /\ Frame /\ at = "start" /\ ~Layered
         /\ \/ at' = "done" /\ outcome' = "none" /\ query.op # "path" /\ Return("none", {}, {})
            \/ /\ at' = (IF query.op = "path" THEN "goal" ELSE "loop")
               /\ queue' = <<Entry0>>
               /\ query.op = "bfs" => Marked' = {} /\ best' = Unmarked
               /\ query.op # "bfs" => best' = [n \in {query.start} |-> 0]
               /\ nodes' \subseteq {query.start} /\ links' = {} /\ todo' = {} /\ found' = {}
               /\ pass' = "around" /\ front' = {} /\ depth' = 0
               /\ outcome' = outcome
<1>1. PICK got \in Rows({query.start}) :
       /\ Keep({query.start}, got)
       /\ IF got = {} /\ query.op # "path"
            THEN Return("none", {}, {})
            ELSE /\ at' = IF query.op = "path" THEN "goal" ELSE "loop"
                 /\ queue' = <<[node |-> query.start, link |-> {}, depth |-> 0]>>
                 /\ best' = IF query.op = "bfs" THEN Unmarked ELSE [n \in {query.start} |-> 0]
                 /\ nodes' = IF query.op = "bfs" /\ ~query.keepStart THEN {} ELSE got
                 /\ UNCHANGED <<pass, front, depth, links, todo, found, outcome>>
  BY DEF Begin
<1>2. got \subseteq {query.start}
  BY DEF Rows
<1>3. at = "start" /\ ~Layered /\ Frame
  BY DEF Begin, Frame
<1>4. CASE got = {} /\ query.op # "path"
  BY <1>1, <1>3, <1>4 DEF Return
<1>5. CASE ~(got = {} /\ query.op # "path")
  <2>1. Unmarked = [n \in {} |-> 0]
    BY DEF Unmarked
  <2>2. query.op = "bfs" => Marked' = {}
    BY <1>1, <1>5, <2>1 DEF Marked
  <2>3. pass = "around" /\ front = {} /\ depth = 0 /\ links = {} /\ todo = {} /\ found = {}
    BY <1>3 DEF BlankInv
  <2> QED BY <1>1, <1>2, <1>3, <1>5, <2>2, <2>3 DEF Entry0
<1> QED BY <1>4, <1>5

-----------------------------------------------------------------------------
(* The hand and the queue, step by step                                      *)

\* Places in a queue, and the entries there, once the first is taken off.
LEMMA TakenPlaces ==
  ASSUME NEW q \in Seq(Item), q # <<>>
  PROVE  /\ Tail(q) \in Seq(Item) /\ q[1] = Head(q) /\ 1 \in DOMAIN q /\ Head(q) \in Item
         /\ \A i \in DOMAIN Tail(q) : i \in Nat /\ i + 1 \in DOMAIN q /\ Tail(q)[i] = q[i+1]
         /\ \A i \in DOMAIN q : i = 1 \/ (i - 1 \in DOMAIN Tail(q) /\ Tail(q)[i-1] = q[i])
         /\ {q[i].node : i \in DOMAIN q} = {Tail(q)[i].node : i \in DOMAIN Tail(q)} \cup {Head(q).node}
<1>1. /\ Tail(q) \in Seq(Item) /\ q[1] = Head(q) /\ 1 \in DOMAIN q /\ Head(q) \in Item
      /\ \A i \in DOMAIN Tail(q) : i \in Nat /\ i + 1 \in DOMAIN q /\ Tail(q)[i] = q[i+1]
      /\ \A i \in DOMAIN q : i = 1 \/ (i - 1 \in DOMAIN Tail(q) /\ Tail(q)[i-1] = q[i])
  OBVIOUS
<1> DEFINE r == Tail(q)
<1>2. \A i \in DOMAIN q : i = 1 \/ \E j \in DOMAIN r : r[j] = q[i]
  BY <1>1
<1>3. \A i \in DOMAIN r : \E j \in DOMAIN q : r[i] = q[j]
  BY <1>1
<1>4. {q[i].node : i \in DOMAIN q} = {r[i].node : i \in DOMAIN r} \cup {Head(q).node}
  <2> HIDE DEF r
  <2> QED BY <1>1, <1>2, <1>3
<1> QED BY <1>1, <1>4

\* The same when one is put on at the end.
LEMMA AddedPlaces ==
  ASSUME NEW q \in Seq(Item), NEW x \in Item
  PROVE  LET r == Append(q, x) IN
         /\ r \in Seq(Item) /\ Len(q) + 1 \in DOMAIN r /\ r[Len(q) + 1] = x /\ Len(q) \in Nat
         /\ \A i \in DOMAIN r : i = Len(q) + 1 \/ (i \in DOMAIN q /\ r[i] = q[i])
         /\ \A i \in DOMAIN q : i \in DOMAIN r /\ r[i] = q[i] /\ i <= Len(q) /\ i \in Nat
         /\ {r[i].node : i \in DOMAIN r} = {q[i].node : i \in DOMAIN q} \cup {x.node}
<1> DEFINE r == Append(q, x)
<1>1. /\ r \in Seq(Item) /\ Len(q) + 1 \in DOMAIN r /\ r[Len(q) + 1] = x /\ Len(q) \in Nat
      /\ \A i \in DOMAIN r : i = Len(q) + 1 \/ (i \in DOMAIN q /\ r[i] = q[i])
      /\ \A i \in DOMAIN q : i \in DOMAIN r /\ r[i] = q[i] /\ i <= Len(q) /\ i \in Nat
  OBVIOUS
<1> HIDE DEF r
<1>2. {r[i].node : i \in DOMAIN r} = {q[i].node : i \in DOMAIN q} \cup {x.node}
  BY <1>1
<1> QED BY <1>1, <1>2 DEF r

\* The same when one is put on in front.
LEMMA FirstPlaces ==
  ASSUME NEW q \in Seq(Item), NEW x \in Item
  PROVE  LET r == <<x>> \o q IN
         /\ r \in Seq(Item) /\ 1 \in DOMAIN r /\ r[1] = x
         /\ \A i \in DOMAIN r : i = 1 \/ (i - 1 \in DOMAIN q /\ r[i] = q[i-1])
         /\ \A i \in DOMAIN q : i \in Nat /\ i + 1 \in DOMAIN r /\ r[i+1] = q[i]
         /\ {r[i].node : i \in DOMAIN r} = {q[i].node : i \in DOMAIN q} \cup {x.node}
<1> DEFINE r == <<x>> \o q
<1>1. /\ r \in Seq(Item) /\ 1 \in DOMAIN r /\ r[1] = x
      /\ \A i \in DOMAIN r : i = 1 \/ (i - 1 \in DOMAIN q /\ r[i] = q[i-1])
      /\ \A i \in DOMAIN q : i \in Nat /\ i + 1 \in DOMAIN r /\ r[i+1] = q[i]
  OBVIOUS
<1> HIDE DEF r
<1>2. \A i \in DOMAIN r : i = 1 \/ \E j \in DOMAIN q : r[i] = q[j]
  BY <1>1
<1>3. \A i \in DOMAIN q : \E j \in DOMAIN r : q[i] = r[j]
  BY <1>1
<1>4. {r[i].node : i \in DOMAIN r} = {q[i].node : i \in DOMAIN q} \cup {x.node}
  <2>1. 1 \in DOMAIN r /\ r[1] = x
    BY <1>1
  <2> QED BY <1>2, <1>3, <2>1
<1> QED BY <1>1, <1>4 DEF r

\* Steps that leave the walk alone, whatever is committed.
LEMMA BaseKept ==
  ASSUME Base, UNCHANGED walkVars, UNCHANGED dbVars \/ Commit
  PROVE  Base'
<1> USE DEF walkVars, localVars
<1>1. BlankInv'
  BY DEF Base, BlankInv, Marked
<1>2. HistInv' /\ ever \subseteq ever'
  BY DEF Base, HistInv, dbVars, Commit
<1>3. HandInv'
  BY <1>2 DEF Base, HandInv, Adjacent, Kinds, Direction, Layered, InRound, Underway, Queued, Marked
<1>4. OrderInv'
  BY DEF Base, OrderInv, InRound, Marked
<1> QED BY <1>1, <1>2, <1>3, <1>4 DEF Base

\* A walk that is over has nothing in hand.
LEMMA BaseReturn ==
  ASSUME Base, Frame, NEW how, NEW N, NEW L, Return(how, N, L)
  PROVE  Base'
<1>1. /\ at' = "done" /\ pass' = "around" /\ queue' = <<>> /\ front' = {} /\ depth' = 0
      /\ Marked' = {} /\ todo' = {} /\ found' = {}
  BY DEF Return, Marked, Unmarked
<1>2. HistInv'
  BY DEF Base, HistInv, Frame, dbVars
<1> QED BY <1>1, <1>2 DEF Base, BlankInv, HandInv, OrderInv, InRound, Underway, Marked

\* The first steps of a walk, up to its first round.
LEMMA BaseStart ==
  ASSUME WalkTypeOK, Base, BeginLayers \/ Begin \/ FindGoal
  PROVE  Base'
<1>1. CASE BeginLayers
  <2>1. /\ at = "start" /\ Layered /\ at' = "loop" /\ query' = query /\ UNCHANGED dbVars
        /\ front' = {query.start} /\ Marked' = {query.start} /\ best'[query.start] = 0
        /\ UNCHANGED <<pass, queue, depth, nodes, todo>>
    BY <1>1 DEF BeginLayers, Marked
  <2>2. pass = "around" /\ queue = <<>> /\ depth = 0 /\ nodes = {} /\ todo = {}
    BY <2>1 DEF Base, BlankInv
  <2>3. BlankInv' /\ HistInv'
    BY <2>1 DEF Base, BlankInv, HistInv, dbVars
  <2>4. HandInv'
    BY <2>1, <2>2 DEF HandInv, InRound, Underway, Layered, Queued, Adjacent
  <2>5. OrderInv'
    BY <2>1, <2>2 DEF OrderInv, InRound
  <2> QED BY <2>3, <2>4, <2>5 DEF Base
<1>2. CASE Begin
  <2>1. Frame /\ at = "start" /\ ~Layered
    BY <1>2, BeginCases DEF Base
  <2>2. CASE Return("none", {}, {})
    BY <2>1, <2>2, BaseReturn
  <2>3. CASE /\ at' = (IF query.op = "path" THEN "goal" ELSE "loop")
             /\ queue' = <<Entry0>>
             /\ query.op = "bfs" => Marked' = {} /\ best' = Unmarked
             /\ query.op # "bfs" => best' = [n \in {query.start} |-> 0]
             /\ nodes' \subseteq {query.start} /\ links' = {} /\ todo' = {} /\ found' = {}
             /\ pass' = "around" /\ front' = {} /\ depth' = 0
    <3>1. /\ DOMAIN queue' = {1} /\ queue'[1] = Entry0
          /\ Entry0.node = query.start /\ Entry0.depth = 0
      BY <2>3 DEF Entry0
    <3>2. IF query.op = "bfs" THEN Marked' = {} ELSE Marked' = {query.start} /\ best'[query.start] = 0
      BY <2>3 DEF Marked
    <3>3. query' = query /\ HistInv' /\ query.depth \in Nat
      BY <2>1 DEF Base, HistInv, Frame, dbVars, WalkTypeOK, Query
    <3>4. BlankInv'
      BY <2>3, <3>2, <3>3 DEF BlankInv, Entry0
    <3>5. Queued' = {query.start}
      BY <3>1 DEF Queued
    <3>6. HandInv'
      BY <2>1, <2>3, <3>2, <3>3, <3>5 DEF HandInv, InRound, Underway, Layered
    <3>7. OrderInv'
      BY <2>3, <3>1, <3>2, <3>3 DEF OrderInv, InRound
    <3> QED BY <3>3, <3>4, <3>6, <3>7 DEF Base
  <2> QED BY <1>2, <2>1, <2>2, <2>3, BeginCases DEF Base
<1>3. CASE FindGoal
  <2>1. Frame /\ at = "goal"
    BY <1>3 DEF FindGoal, Frame
  <2>2. ASSUME Return("none", nodes, links) \/ Return("found", nodes, links)
        PROVE  Base'
    BY <2>1, <2>2, BaseReturn
  <2>3. CASE at' = "loop" /\ UNCHANGED <<localVars, nodes, links>>
    <3>1. /\ query.op = "path" /\ pass = "around" /\ front = {} /\ depth = 0 /\ todo = {} /\ query' = query
          /\ Marked = {query.start} /\ best[query.start] = 0 /\ nodes \subseteq {query.start}
      BY <2>1 DEF Base, BlankInv, Frame
    <3>2. DOMAIN queue = {1} /\ queue[1].node = query.start /\ queue[1].depth = 0
      BY <2>1 DEF Base, BlankInv
    <3>3. BlankInv' /\ HistInv'
      BY <2>1, <2>3 DEF Base, BlankInv, HistInv, Frame, dbVars
    <3>4. Queued' = {query.start} /\ Marked' = Marked
      BY <2>3, <3>2 DEF Queued, localVars, Marked
    <3>5. HandInv'
      BY <2>3, <3>1, <3>4 DEF HandInv, InRound, Underway, Layered, localVars
    <3>6. OrderInv'
      BY <2>3, <3>1, <3>2, <3>4 DEF OrderInv, InRound, localVars
    <3> QED BY <3>3, <3>5, <3>6 DEF Base
  <2> QED BY <1>3, <2>2, <2>3 DEF FindGoal
<1> QED BY <1>1, <1>2, <1>3

\* Taking an entry: what is left in the queue is no nearer than it.
LEMMA BaseTake ==
  ASSUME WalkTypeOK, Base, Take
  PROVE  Base'
<1> DEFINE x == Head(queue)
<1>1. /\ queue \in Seq(Item) /\ best \in [Marked -> Nat] /\ depth \in Nat /\ query.depth \in Nat
      /\ query.op \in {"bfs", "callers", "callees", "impact", "path"}
  BY DEF WalkTypeOK, LocalTypeOK, Item, Query
<1>2. Dropping \/ Marking \/ Opening
  BY TakeCases
<1>3. Popped /\ at = "loop" /\ ~Layered /\ queue # <<>> /\ queue' = Tail(queue) /\ query' = query
  BY <1>2 DEF Dropping, Marking, Opening, Popped, Frame
<1>4. /\ x \in Item /\ queue[1] = x /\ 1 \in DOMAIN queue
      /\ \A i \in DOMAIN queue' : i \in Nat /\ i + 1 \in DOMAIN queue /\ queue'[i] = queue[i+1]
      /\ Queued = Queued' \cup {x.node}
  <2>1. /\ queue[1] = x /\ 1 \in DOMAIN queue /\ x \in Item
        /\ \A i \in DOMAIN Tail(queue) : i \in Nat /\ i + 1 \in DOMAIN queue /\ Tail(queue)[i] = queue[i+1]
    BY <1>1, <1>3, TakenPlaces
  <2>2. {queue[i].node : i \in DOMAIN queue} = {Tail(queue)[i].node : i \in DOMAIN Tail(queue)} \cup {x.node}
    BY <1>1, <1>3, TakenPlaces
  <2>3. Queued = Queued' \cup {x.node}
    BY <1>3, <2>2 DEF Queued
  <2> QED BY <1>3, <2>1, <2>3
<1>5. x.node \in Node /\ x.depth \in Nat
  BY <1>4 DEF Item
<1>6. todo' = {} /\ nodes' = nodes /\ HistInv'
  BY <1>3 DEF Base, HandInv, HistInv, Popped, Frame, dbVars
<1>7. query.op \in {"bfs", "impact", "path"}
  BY <1>1, <1>3 DEF Layered
\* Every later entry is as deep as this one or one deeper.
<1>8. \A i \in DOMAIN queue' : /\ x.depth <= queue'[i].depth /\ queue'[i].depth <= x.depth + 1
                               /\ queue'[i].depth \in Nat /\ queue'[i].node \in Node
  <2>1. SUFFICES ASSUME NEW i \in DOMAIN queue'
                 PROVE  /\ x.depth <= queue'[i].depth /\ queue'[i].depth <= x.depth + 1
                        /\ queue'[i].depth \in Nat /\ queue'[i].node \in Node
    OBVIOUS
  <2>2. i \in Nat /\ i + 1 \in DOMAIN queue /\ 1 <= i + 1 /\ queue'[i] = queue[i+1]
    BY <1>4, <2>1
  <2>3. queue[i+1] \in Item
    BY <1>1, <2>2
  <2> QED BY <1>4, <2>2, <2>3 DEF Base, OrderInv, Item
<1>9. /\ query.op # "path" => x.depth <= query.depth
      /\ query.op \in {"impact", "path"} => x.node \in Marked /\ best[x.node] <= x.depth
      /\ query.op = "path" => best[x.node] = x.depth
      /\ \A n \in Marked : /\ query.op = "bfs" => best[n] <= x.depth
                           /\ query.op = "path" => best[n] <= x.depth + 1
  BY <1>4 DEF Base, OrderInv
<1>10. \A i, j \in DOMAIN queue' : i <= j => /\ queue'[i].depth <= queue'[j].depth
                                            /\ queue'[j].depth <= queue'[i].depth + 1
  <2>1. \A i, j \in DOMAIN queue' : i <= j => i + 1 <= j + 1
    BY <1>4
  <2> QED BY <1>4, <2>1 DEF Base, OrderInv
<1>11. \A i \in DOMAIN queue' :
         /\ query.op # "path" => queue'[i].depth <= query.depth
         /\ query.op \in {"impact", "path"} => queue'[i].node \in Marked /\ best[queue'[i].node] <= queue'[i].depth
         /\ query.op = "path" => best[queue'[i].node] = queue'[i].depth
         /\ \A n \in Marked : /\ query.op = "bfs" => best[n] <= queue'[i].depth
                              /\ query.op = "path" => best[n] <= queue'[i].depth + 1
  BY <1>4 DEF Base, OrderInv
<1>12. nodes \cup {query.start} = Marked \cup Queued \cup {query.start}
  BY <1>3 DEF Base, HandInv, Underway
<1> HIDE DEF x
<1>13. CASE Dropping
  <2>1. UNCHANGED <<at, pass, front, depth, best, links>> /\ Marked' = Marked
    BY <1>13 DEF Dropping, Marked
  <2>2. x.node \in Marked
    BY <1>7, <1>9, <1>13 DEF Dropping, Stale, x
  <2>3. BlankInv'
    BY <1>3, <2>1 DEF BlankInv
  <2>4. HandInv'
    BY <1>3, <1>4, <1>6, <1>12, <2>1, <2>2 DEF Base, HandInv, InRound, Underway, Layered
  <2>5. OrderInv'
    BY <1>3, <1>10, <1>11, <2>1 DEF OrderInv, InRound
  <2> QED BY <1>6, <2>3, <2>4, <2>5 DEF Base
<1>14. CASE (Marking \/ Opening) /\ Noting
  <2>1. /\ query.op = "bfs" /\ best' = Mark(x.node, x.depth) /\ Marked' = Marked \cup {x.node}
        /\ best'[x.node] = x.depth /\ \A n \in Marked : n # x.node => best'[n] = best[n]
        /\ x.node \notin Marked
    BY <1>14 DEF Noting, Mark, Marked, x
  <2>2. \A n \in Marked' : best'[n] <= x.depth
    BY <1>5, <1>9, <2>1
  <2>3. \A n \in Marked' : best'[n] \in Nat
    BY <1>1, <1>5, <2>1
  <2>4. \A i \in DOMAIN queue', n \in Marked' : best'[n] <= queue'[i].depth
    BY <1>5, <1>8, <2>2, <2>3
  <2>5. nodes \cup {query.start} = Marked' \cup Queued' \cup {query.start}
    BY <1>4, <1>12, <2>1
  <2>6. CASE Marking
    <3>1. at' = "loop" /\ UNCHANGED <<pass, front, depth>>
      BY <1>3, <2>6 DEF Marking
    <3>2. BlankInv'
      BY <3>1 DEF BlankInv
    <3>3. HandInv'
      BY <1>3, <1>6, <2>5, <3>1 DEF Base, HandInv, InRound, Underway, Layered
    <3>4. OrderInv'
      BY <1>3, <1>10, <1>11, <2>1, <2>4, <3>1 DEF OrderInv, InRound
    <3> QED BY <1>6, <3>2, <3>3, <3>4 DEF Base
  <2>7. CASE Opening
    <3>1. /\ at' = "edges" /\ front' = {x.node} /\ depth' = x.depth /\ pass' = "around"
          /\ x.depth < query.depth
      BY <2>1, <2>7 DEF Opening, x
    <3>2. BlankInv'
      BY <3>1 DEF BlankInv
    <3>3. HandInv'
      BY <1>3, <1>6, <2>1, <2>5, <3>1 DEF HandInv, InRound, Underway, Layered
    <3>4. OrderInv'
      BY <1>3, <1>8, <1>10, <1>11, <2>1, <2>2, <2>4, <3>1 DEF OrderInv, InRound
    <3> QED BY <1>6, <3>2, <3>3, <3>4 DEF Base
  <2> QED BY <1>14, <2>6, <2>7
<1>15. CASE Opening /\ ~Noting
  <2>1. /\ query.op \in {"impact", "path"} /\ UNCHANGED <<best, links>> /\ ~Stale(x)
        /\ at' = "edges" /\ front' = {x.node} /\ depth' = x.depth
        /\ query.op # "path" => x.depth < query.depth
        /\ pass' = IF query.op = "impact" /\ x.node \in Container THEN "members" ELSE "around"
    BY <1>7, <1>15 DEF Opening, x
  <2>2. Marked' = Marked /\ x.node \in Marked /\ best[x.node] <= x.depth /\ best[x.node] \in Nat
    BY <1>1, <1>9, <2>1 DEF Marked
  <2>3. best[x.node] = x.depth
    <3>1. CASE query.op = "impact"
      BY <1>5, <2>1, <2>2, <3>1 DEF Stale
    <3>2. CASE query.op = "path"
      BY <1>9, <3>2
    <3> QED BY <2>1, <3>1, <3>2
  <2>4. nodes \cup {query.start} = Marked' \cup Queued' \cup {query.start}
    BY <1>4, <1>12, <2>2
  <2>5. BlankInv'
    BY <2>1 DEF BlankInv
  <2>6. HandInv'
    BY <1>3, <1>6, <2>1, <2>2, <2>3, <2>4 DEF HandInv, InRound, Underway, Layered
  <2>7. OrderInv'
    BY <1>3, <1>7, <1>8, <1>9, <1>10, <1>11, <2>1, <2>2 DEF OrderInv, InRound
  <2> QED BY <1>6, <2>5, <2>6, <2>7 DEF Base
<1> QED BY <1>2, <1>13, <1>14, <1>15 DEF Marking

\* The directions in which the edges of a walk are followed.
LEMMA Directions ==
  ASSUME WalkTypeOK
  PROVE  /\ Direction \in {"outgoing", "incoming", "both"}
         /\ query.op = "impact" => Direction = "incoming"
         /\ query.op = "path" => Direction = "outgoing"
         /\ Layered => Direction # "both"
         /\ Layered <=> query.op \notin {"bfs", "impact", "path"}
         /\ query.op \in {"bfs", "callers", "callees", "impact", "path"}
<1>1. query.op \in {"bfs", "callers", "callees", "impact", "path"} /\ query.direction \in {"outgoing", "incoming", "both"}
  BY DEF WalkTypeOK, Query
<1> QED BY <1>1 DEF Direction, Layered

\* The reads of a round, which mark nothing.
LEMMA BaseRead ==
  ASSUME WalkTypeOK, Base, TakeLayer \/ ReadEdges \/ ReadIncoming \/ ReadNodes
  PROVE  Base'
<1>1. /\ UNCHANGED dbVars /\ UNCHANGED <<query, pass, queue, front, depth, best, nodes>>
      /\ at' \in {"edges", "both", "nodes", "add"}
  BY DEF TakeLayer, ReadEdges, ReadIncoming, ReadNodes, localVars
<1>2. Marked' = Marked /\ Queued' = Queued
  BY <1>1 DEF Marked, Queued
<1>3. BlankInv' /\ HistInv'
  BY <1>1 DEF Base, BlankInv, HistInv, dbVars
<1>4. pass \in {"members", "around"} /\ (pass = "members" => query.op = "impact")
  BY DEF WalkTypeOK, LocalTypeOK, Base, HandInv
<1>5. Direction \in {"outgoing", "incoming", "both"} /\ (query.op = "impact" => Direction = "incoming")
  BY Directions
<1>6. CASE TakeLayer
  <2>1. at = "loop" /\ Layered /\ depth < query.depth /\ at' = "edges" /\ todo' = todo
    BY <1>6 DEF TakeLayer, More, localVars
  <2>2. HandInv'
    <3>1. \A n \in Marked : best[n] <= depth /\ best[n] \in Nat /\ depth \in Nat
      BY <2>1 DEF Base, HandInv, Underway, WalkTypeOK, LocalTypeOK
    <3>2. \A n \in Marked : best[n] <= depth + 1
      BY <3>1
    <3> QED BY <1>1, <1>2, <2>1, <3>2 DEF Base, HandInv, InRound, Underway, Layered
  <2>3. OrderInv'
    <3>1. queue = <<>> /\ query.op \notin {"bfs", "path"}
      BY <2>1 DEF Base, HandInv, Underway, Layered
    <3> QED BY <1>1, <3>1 DEF OrderInv
  <2> QED BY <1>3, <2>2, <2>3 DEF Base
<1>7. CASE ReadEdges \/ ReadIncoming \/ ReadNodes
  <2>1. InRound /\ InRound'
    BY <1>1, <1>7 DEF InRound, ReadEdges, ReadIncoming, ReadNodes
  <2>2. OrderInv'
    BY <1>1, <1>2, <2>1 DEF Base, OrderInv
  <2>3. \A e \in todo' : e \in ever /\ Adjacent(e)
    <3>1. CASE ReadEdges
      BY <1>4, <1>5, <3>1 DEF ReadEdges, Outgoing, Incoming, Adjacent, Base, HistInv
    <3>2. CASE ReadIncoming
      BY <3>2 DEF ReadIncoming, Incoming, Adjacent, Base, HandInv, HistInv
    <3>3. CASE ReadNodes
      BY <3>3 DEF ReadNodes, Base, HandInv
    <3> QED BY <1>7, <3>1, <3>2, <3>3
  <2>4. \A e \in todo' : e \in ever' /\ Adjacent(e)'
    BY <1>1, <2>3 DEF Adjacent, Kinds, Direction, Layered, dbVars
  <2>5. at' = "both" => ReadEdges /\ Direction = "both"
    BY <1>7 DEF ReadEdges, ReadIncoming, ReadNodes
  <2>6. at' \notin {"edges", "loop"}
    BY <1>7 DEF ReadEdges, ReadIncoming, ReadNodes
  <2>7. pass = "members" => front \subseteq Container
    BY DEF Base, HandInv
  <2>8. Layered' = Layered /\ Direction' = Direction
    BY <1>1 DEF Layered, Direction
  <2>9. HandInv'
    <3>1. /\ Layered => /\ queue = <<>> /\ pass = "around" /\ front = {n \in Marked : best[n] = depth}
                        /\ \A n \in Marked : best[n] <= depth + 1
          /\ ~Layered => \E x \in Marked : best[x] = depth /\ front = {x}
          /\ query.op # "path" => depth < query.depth
          /\ nodes \cup {query.start} = Marked \cup Queued \cup {query.start}
      BY <2>1 DEF Base, HandInv, Underway, InRound
    <3> QED BY <1>1, <1>2, <1>4, <1>5, <2>4, <2>5, <2>6, <2>7, <2>8, <3>1 DEF HandInv
  <2> QED BY <1>3, <2>2, <2>9 DEF Base
<1> QED BY <1>6, <1>7

\* The end of a round, after which a layer gives way to the next.
LEMMA BaseEnd ==
  ASSUME WalkTypeOK, Base, EndPass
  PROVE  Base'
<1>1. /\ at = "add" /\ todo = {} /\ at' = (IF pass = "members" THEN "edges" ELSE "loop") /\ pass' = "around"
      /\ front' = (IF Layered THEN {n \in Marked : best[n] = depth + 1} ELSE front)
      /\ depth' = (IF Layered THEN depth + 1 ELSE depth)
      /\ UNCHANGED dbVars /\ UNCHANGED <<query, queue, best, nodes, todo>>
  BY DEF EndPass
<1>2. Marked' = Marked /\ Queued' = Queued /\ Layered' = Layered
  BY <1>1 DEF Marked, Queued, Layered
<1>3. /\ Layered => /\ queue = <<>> /\ pass = "around" /\ front = {n \in Marked : best[n] = depth}
                    /\ \A n \in Marked : best[n] <= depth + 1
      /\ ~Layered => \E x \in Marked : best[x] = depth /\ front = {x}
      /\ query.op # "path" => depth < query.depth
      /\ nodes \cup {query.start} = Marked \cup Queued \cup {query.start}
      /\ pass = "members" => query.op = "impact"
  BY <1>1 DEF Base, HandInv, Underway, InRound
<1>4. BlankInv' /\ HistInv'
  BY <1>1 DEF Base, BlankInv, HistInv, dbVars
<1>5. query.op = "impact" => ~Layered
  BY DEF Layered
<1>6. HandInv'
  BY <1>1, <1>2, <1>3, <1>5 DEF HandInv, Underway, InRound
<1>7. OrderInv'
  <2>1. InRound
    BY <1>1 DEF InRound
  <2>2. CASE Layered
    BY <1>1, <1>2, <1>3, <2>2 DEF Layered, OrderInv
  <2>3. CASE ~Layered
    BY <1>1, <1>2, <2>1, <2>3 DEF Base, OrderInv
  <2> QED BY <2>2, <2>3
<1> QED BY <1>4, <1>6, <1>7 DEF Base

\* Finding a node: it is marked and queued where the order of depths puts it.
LEMMA BaseFind ==
  ASSUME WalkTypeOK, Base, at = "add", Frame, NEW e \in todo, Finding(e)
  PROVE  Base'
<1> DEFINE n == Beyond(e)
<1>1. /\ Fresh(n) /\ todo' \subseteq todo /\ nodes' = nodes \cup {n}
      /\ best' = (IF query.op = "bfs" THEN best ELSE Mark(n, NewDepth)) /\ queue' = Push(n, e)
      /\ UNCHANGED <<at, pass, front, depth>>
  BY DEF Finding
<1>2. e \in Edge /\ n \in Node
  <2>1. e \in Edge
    BY DEF WalkTypeOK, LocalTypeOK
  <2> QED BY <2>1, BeyondNode
<1> HIDE DEF n
<1>3. /\ queue \in Seq(Item) /\ best \in [Marked -> Nat] /\ depth \in Nat /\ query.depth \in Nat
      /\ pass \in {"members", "around"}
  BY DEF WalkTypeOK, LocalTypeOK, Item, Query
<1>4. /\ Layered => /\ queue = <<>> /\ pass = "around" /\ front = {m \in Marked : best[m] = depth}
                    /\ \A m \in Marked : best[m] <= depth + 1
      /\ ~Layered => \E x \in Marked : best[x] = depth /\ front = {x}
      /\ query.op # "path" => depth < query.depth
      /\ nodes \cup {query.start} = Marked \cup Queued \cup {query.start}
      /\ pass = "members" => query.op = "impact" /\ front \subseteq Container
      /\ \A f \in todo : f \in ever /\ Adjacent(f)
  BY DEF Base, HandInv, Underway, InRound
<1>5. NewDepth \in Nat /\ depth <= NewDepth /\ NewDepth <= depth + 1 /\ (pass = "around" => NewDepth = depth + 1)
  BY <1>3 DEF NewDepth
<1>6. IF query.op = "bfs" THEN Marked' = Marked /\ best' = best
      ELSE /\ Marked' = Marked \cup {n} /\ best'[n] = NewDepth
           /\ \A m \in Marked : m # n => best'[m] = best[m]
           /\ n \in Marked => query.op = "impact" /\ NewDepth < best[n]
  BY <1>1 DEF Mark, Marked, Fresh, Shorter
<1>7. query' = query /\ UNCHANGED dbVars
  BY DEF Frame
<1>8. Direction' = Direction /\ Layered' = Layered /\ Kinds' = Kinds
  BY <1>7 DEF Direction, Layered, Kinds
<1>9. BlankInv' /\ HistInv'
  BY <1>1, <1>7 DEF Base, BlankInv, HistInv, dbVars
<1>10. Entry(n, e) \in Item /\ Entry(n, e).node = n /\ Entry(n, e).depth = NewDepth
  BY <1>2, <1>5 DEF Entry, Item
<1>11. CASE Layered
  <2>1. queue' = queue /\ query.op \notin {"bfs", "impact", "path"}
    BY <1>1, <1>11 DEF Push, Layered
  <2>2. n \notin Marked /\ NewDepth = depth + 1 /\ Marked' = Marked \cup {n} /\ queue = <<>>
    BY <1>4, <1>5, <1>6, <1>11, <2>1
  <2>3. front = {m \in Marked' : best'[m] = depth} /\ \A m \in Marked' : best'[m] <= depth + 1
    BY <1>3, <1>4, <1>6, <1>11, <2>1, <2>2
  <2>4. Queued' = Queued
    BY <2>1 DEF Queued
  <2>5. HandInv'
    BY <1>1, <1>4, <1>7, <1>8, <1>11, <2>1, <2>2, <2>3, <2>4 DEF HandInv, Underway, InRound, Adjacent, dbVars
  <2>6. OrderInv'
    BY <1>7, <2>1, <2>2 DEF OrderInv
  <2> QED BY <1>9, <2>5, <2>6 DEF Base
<1>12. CASE ~Layered
  <2>0. query.op \in {"bfs", "impact", "path"}
    BY <1>12, Directions
  <2>1. PICK x \in Marked : best[x] = depth /\ front = {x}
    BY <1>4, <1>12
  <2>2. x \in Marked' /\ best'[x] = depth
    BY <1>3, <1>5, <1>6, <2>1
  <2>3. Queued' = Queued \cup {n}
    <3>1. CASE pass = "members"
      <4>1. queue' = <<Entry(n, e)>> \o queue
        BY <1>1, <1>12, <3>1 DEF Push
      <4>2. {queue'[i].node : i \in DOMAIN queue'} = {queue[i].node : i \in DOMAIN queue} \cup {Entry(n, e).node}
        <5> DEFINE y == Entry(n, e)
                   r == <<y>> \o queue
        <5>1. y \in Item /\ queue' = r
          BY <1>10, <4>1
        <5> HIDE DEF y
        <5>2. {r[i].node : i \in DOMAIN r} = {queue[i].node : i \in DOMAIN queue} \cup {y.node}
          BY <1>3, <5>1, FirstPlaces
        <5> HIDE DEF r
        <5> QED BY <5>1, <5>2 DEF y
      <4> QED BY <1>10, <4>2 DEF Queued
    <3>2. CASE pass # "members"
      <4>1. queue' = Append(queue, Entry(n, e))
        BY <1>1, <1>12, <3>2 DEF Push
      <4> QED BY <1>3, <1>10, <4>1, AddedPlaces DEF Queued
    <3> QED BY <3>1, <3>2
  <2>4. Marked' \cup Queued' = Marked \cup Queued \cup {n}
    BY <1>6, <2>3
  <2>5. \A f \in todo' : f \in ever' /\ Adjacent(f)'
    BY <1>1, <1>4, <1>7, <1>8 DEF Adjacent, dbVars
  <2>6. HandInv'
    <3>1. InRound' /\ Underway' /\ at' = "add"
      BY <1>1 DEF InRound, Underway
    <3>2. nodes' \cup {query.start} = Marked' \cup Queued' \cup {query.start}
      BY <1>1, <1>4, <2>4
    <3> QED BY <1>1, <1>4, <1>7, <1>8, <1>12, <2>1, <2>2, <2>5, <3>1, <3>2 DEF HandInv
  <2>7. \A i \in DOMAIN queue : queue[i] \in Item /\ queue[i].depth \in Nat
    <3>1. \A i \in DOMAIN queue : queue[i] \in Item
      BY <1>3
    <3> QED BY <3>1 DEF Item
  <2>8. \A i, j \in DOMAIN queue : i <= j => /\ queue[i].depth <= queue[j].depth
                                            /\ queue[j].depth <= queue[i].depth + 1
    BY DEF Base, OrderInv
  <2>9. \A i \in DOMAIN queue :
         /\ query.op # "path" => queue[i].depth <= query.depth
         /\ depth <= queue[i].depth /\ queue[i].depth <= depth + 1
         /\ query.op \in {"impact", "path"} => queue[i].node \in Marked /\ best[queue[i].node] <= queue[i].depth
         /\ query.op = "path" => best[queue[i].node] = queue[i].depth
         /\ \A m \in Marked : /\ query.op = "bfs" => best[m] <= queue[i].depth
                              /\ query.op = "path" => best[m] <= queue[i].depth + 1
    BY DEF Base, OrderInv, InRound
  <2>10. \A m \in Marked : /\ query.op = "bfs" => best[m] <= depth
                           /\ query.op = "path" => best[m] <= depth + 1
    BY DEF Base, OrderInv, InRound
  \* What holds of each entry and of the marks once n is marked.
  <2> DEFINE Fits(y) ==
         /\ query.op # "path" => y.depth <= query.depth
         /\ depth <= y.depth /\ y.depth <= depth + 1
         /\ query.op \in {"impact", "path"} => y.node \in Marked' /\ best'[y.node] <= y.depth
         /\ query.op = "path" => best'[y.node] = y.depth
         /\ \A m \in Marked' : /\ query.op = "bfs" => best'[m] <= y.depth
                               /\ query.op = "path" => best'[m] <= y.depth + 1
  <2>11. \A m \in Marked' : /\ query.op = "bfs" => best'[m] <= depth
                            /\ query.op = "path" => best'[m] <= depth + 1
    BY <1>5, <1>6, <2>10
  <2>12. query.op = "path" => NewDepth = depth + 1 /\ n \notin Marked
    BY <1>3, <1>4, <1>5, <1>6
  <2>13. \A i \in DOMAIN queue : Fits(queue[i])
    <3>1. SUFFICES ASSUME NEW i \in DOMAIN queue PROVE Fits(queue[i])
      OBVIOUS
    <3>2. queue[i].depth \in Nat
      BY <2>7
    <3>3. query.op \in {"impact", "path"} => queue[i].node \in Marked' /\ best'[queue[i].node] <= queue[i].depth
      <4> DEFINE m == queue[i].node
      <4>1. SUFFICES ASSUME query.op \in {"impact", "path"}
                     PROVE  m \in Marked' /\ best'[m] <= queue[i].depth
        OBVIOUS
      <4>2. m \in Marked /\ best[m] <= queue[i].depth /\ best[m] \in Nat
        BY <1>3, <2>9, <4>1
      <4> HIDE DEF m
      <4>3. m \in Marked' /\ best'[m] \in Nat /\ best'[m] <= best[m]
        BY <1>5, <1>6, <4>1, <4>2
      <4> QED BY <3>2, <4>2, <4>3
    <3>4. query.op = "path" => best'[queue[i].node] = queue[i].depth
      BY <1>6, <2>9, <2>12
    <3>5. \A m \in Marked' : query.op = "bfs" => best'[m] <= queue[i].depth
      BY <1>6, <2>9
    <3>6. \A m \in Marked' : query.op = "path" => best'[m] <= queue[i].depth + 1
      BY <1>3, <1>5, <1>6, <2>9, <2>12, <3>2
    <3> QED BY <2>9, <3>3, <3>4, <3>5, <3>6
  <2>14. Fits(Entry(n, e))
    <3>1. query.op # "path" => NewDepth <= query.depth
      BY <1>3, <1>4, <1>5
    <3>2. query.op \in {"impact", "path"} => n \in Marked' /\ best'[n] = NewDepth
      BY <1>6
    <3>3. \A m \in Marked' : query.op = "bfs" => best'[m] <= NewDepth
      <4>1. SUFFICES ASSUME NEW m \in Marked', query.op = "bfs" PROVE best'[m] <= NewDepth
        OBVIOUS
      <4>2. best'[m] <= depth /\ best'[m] \in Nat
        BY <1>3, <1>6, <2>11, <4>1
      <4> QED BY <1>3, <1>5, <4>2
    <3>4. \A m \in Marked' : query.op = "path" => best'[m] <= NewDepth + 1
      <4>1. SUFFICES ASSUME NEW m \in Marked', query.op = "path" PROVE best'[m] <= NewDepth + 1
        OBVIOUS
      <4>2. best'[m] <= depth + 1 /\ best'[m] \in Nat
        BY <1>3, <1>5, <1>6, <2>11, <4>1
      <4> QED BY <1>3, <1>5, <4>2
    <3> QED BY <1>5, <1>10, <3>1, <3>2, <3>3, <3>4
  <2> HIDE DEF Fits
  <2>15. /\ \A i \in DOMAIN queue' : Fits(queue'[i])
         /\ \A i, j \in DOMAIN queue' : i <= j => /\ queue'[i].depth <= queue'[j].depth
                                                  /\ queue'[j].depth <= queue'[i].depth + 1
    <3>1. CASE pass = "members"
      <4>1. queue' = <<Entry(n, e)>> \o queue /\ NewDepth = depth
        BY <1>1, <1>12, <3>1 DEF Push, NewDepth
      <4>2. /\ queue'[1] = Entry(n, e)
            /\ \A i \in DOMAIN queue' : i = 1 \/ (i - 1 \in DOMAIN queue /\ queue'[i] = queue[i-1])
            /\ DOMAIN queue' \subseteq Nat \ {0}
        BY <1>3, <1>10, <4>1, FirstPlaces
      <4>3. \A i \in DOMAIN queue' : Fits(queue'[i])
        BY <2>13, <2>14, <4>2
      <4>4. ASSUME NEW i \in DOMAIN queue', NEW j \in DOMAIN queue', i <= j
            PROVE  queue'[i].depth <= queue'[j].depth /\ queue'[j].depth <= queue'[i].depth + 1
        <5>1. CASE i = 1 /\ j = 1
          BY <1>5, <1>10, <4>2, <5>1
        <5>2. CASE i = 1 /\ j # 1
          BY <1>3, <1>10, <2>9, <4>1, <4>2, <5>2
        <5>3. CASE i # 1
          <6>1. j # 1 /\ i - 1 <= j - 1
            BY <4>2, <4>4, <5>3
          <6> QED BY <2>8, <4>2, <5>3, <6>1
        <5> QED BY <5>1, <5>2, <5>3
      <4> QED BY <4>3, <4>4
    <3>2. CASE pass # "members"
      <4>1. queue' = Append(queue, Entry(n, e)) /\ NewDepth = depth + 1
        BY <1>1, <1>12, <3>2 DEF Push, NewDepth
      <4>2. /\ queue'[Len(queue) + 1] = Entry(n, e) /\ Len(queue) \in Nat
            /\ \A i \in DOMAIN queue' : i = Len(queue) + 1 \/ (i \in DOMAIN queue /\ queue'[i] = queue[i])
            /\ \A i \in DOMAIN queue : i <= Len(queue) /\ i \in Nat
        BY <1>3, <1>10, <4>1, AddedPlaces
      <4>3. \A i \in DOMAIN queue' : Fits(queue'[i])
        BY <2>13, <2>14, <4>2
      <4>4. ASSUME NEW i \in DOMAIN queue', NEW j \in DOMAIN queue', i <= j
            PROVE  queue'[i].depth <= queue'[j].depth /\ queue'[j].depth <= queue'[i].depth + 1
        <5>1. CASE i = Len(queue) + 1
          <6>1. j = Len(queue) + 1
            BY <4>2, <4>4, <5>1
          <6> QED BY <1>5, <1>10, <4>2, <5>1, <6>1
        <5>2. CASE i # Len(queue) + 1 /\ j = Len(queue) + 1
          <6>1. i \in DOMAIN queue /\ queue'[i] = queue[i] /\ queue'[j].depth = depth + 1
            BY <1>10, <4>1, <4>2, <5>2
          <6>2. queue[i].depth \in Nat /\ depth <= queue[i].depth /\ queue[i].depth <= depth + 1
            BY <2>7, <2>9, <6>1
          <6> QED BY <1>3, <6>1, <6>2
        <5>3. CASE i # Len(queue) + 1 /\ j # Len(queue) + 1
          BY <2>8, <4>2, <4>4, <5>3
        <5> QED BY <5>1, <5>2, <5>3
      <4> QED BY <4>3, <4>4
    <3> QED BY <3>1, <3>2
  <2>16. OrderInv'
    BY <1>1, <1>7, <2>11, <2>15 DEF OrderInv, Fits
  <2> QED BY <1>9, <2>6, <2>16 DEF Base
<1> QED BY <1>11, <1>12

\* Every step of a walk.
LEMMA BaseWalk ==
  ASSUME WalkTypeOK, Base, Walk
  PROVE  Base'
<1>1. Frame
  BY WalkKeeps DEF Frame
<1>2. CASE Finish \/ Abandon
  BY <1>1, <1>2, BaseReturn DEF Finish, Abandon
<1>3. CASE Add
  <2>1. PICK e \in todo : Passing(e) \/ Ending(e) \/ Finding(e)
    BY <1>3, AddCases
  <2>2. at = "add"
    BY <1>3, AddCases
  <2>3. CASE Passing(e)
    <3>1. todo' \subseteq todo /\ UNCHANGED <<at, pass, front, depth, found, nodes, links, queue, best>>
      BY <2>3 DEF Passing
    <3>2. BlankInv' /\ HistInv' /\ Marked' = Marked /\ Queued' = Queued
      BY <1>1, <2>2, <3>1 DEF Base, BlankInv, HistInv, Frame, dbVars, Marked, Queued
    <3>3. query' = query /\ ever' = ever
      BY <1>1 DEF Frame, dbVars
    <3>4. HandInv'
      BY <2>2, <3>1, <3>2, <3>3 DEF Base, HandInv, Adjacent, Kinds, Direction, Layered, InRound, Underway
    <3>5. OrderInv'
      BY <3>1, <3>2, <3>3 DEF Base, OrderInv, InRound
    <3> QED BY <3>2, <3>4, <3>5 DEF Base
  <2>4. CASE Ending(e)
    BY <1>1, <2>4, BaseReturn DEF Ending
  <2>5. CASE Finding(e)
    BY <1>1, <2>2, <2>5, BaseFind
  <2> QED BY <2>1, <2>3, <2>4, <2>5
<1> QED BY <1>2, <1>3, BaseStart, BaseTake, BaseRead, BaseEnd DEF Walk

-----------------------------------------------------------------------------
(* What the edges of a walk relate                                           *)

\* The hops and the memberships over a set of edges, more of them over more.
LEMMA HopsRelate ==
  ASSUME NEW F \in SUBSET Edge, NEW E \in SUBSET F
  PROVE  /\ Hops(E) \in Relations /\ Members(E) \in Relations
         /\ Hops(E) \subseteq Hops(F) /\ Members(E) \subseteq Members(F)
<1>1. \A e \in F : e.src \in Node /\ e.dst \in Node
  BY DEF Edge
<1>2. Hops(E) \in Relations /\ Members(E) \in Relations
  BY <1>1 DEF Hops, Members, Relations
<1> QED BY <1>2 DEF Hops, Members

\* Steps of a walk relate nothing else, commits what is stored at other times.
LEMMA HopsKept ==
  ASSUME query' = query
  PROVE  /\ ever' = ever => Hops(ever)' = Hops(ever) /\ Members(ever)' = Members(ever)
         /\ always' = always => Hops(always)' = Hops(always) /\ Members(always)' = Members(always)
         /\ ever \subseteq ever' => Hops(ever) \subseteq Hops(ever)' /\ Members(ever) \subseteq Members(ever)'
         /\ always' \subseteq always => Hops(always)' \subseteq Hops(always) /\ Members(always)' \subseteq Members(always)
BY DEF Hops, Members, Kinds, Direction, Layered

\* The nodes k hops away over the edges that were there at some moment.
Near(k) == Last(Hops(ever), Members(ever), query.start, k)

\* A step of the walk itself moves no node nearer or further.
LEMMA NearKept ==
  ASSUME Frame
  PROVE  /\ \A k : Near(k)' = Near(k)
         /\ \A k : Within(ever, k)' = Within(ever, k)
         /\ \A k : Within(always, k)' = Within(always, k)
<1>1. query' = query /\ ever' = ever /\ always' = always
  BY DEF Frame, dbVars
<1>2. /\ Hops(ever)' = Hops(ever) /\ Members(ever)' = Members(ever)
      /\ Hops(always)' = Hops(always) /\ Members(always)' = Members(always)
  BY <1>1, HopsKept
<1> QED BY <1>1, <1>2 DEF Near, Within

\* An edge that a round follows leads one hop, or one membership, on.
LEMMA AdjacentRelates ==
  ASSUME WalkTypeOK, NEW E \in SUBSET Edge, NEW e \in E, Adjacent(e),
         pass = "members" => query.op = "impact" /\ front \subseteq Container
  PROVE  \E x \in front : <<x, Beyond(e)>> \in IF pass = "members" THEN Members(E) ELSE Hops(E)
<1>1. Direction \in {"outgoing", "incoming", "both"}
  BY Directions
<1>2. CASE pass = "members"
  <2>1. e.kind = "contains" /\ e.src \in front /\ e.src \in Container /\ Beyond(e) = e.dst /\ query.op = "impact"
    BY <1>2 DEF Adjacent, Beyond
  <2>2. <<e.src, e.dst>> \in Members(E)
    BY <2>1 DEF Members
  <2> QED BY <1>2, <2>1, <2>2
<1>3. CASE pass # "members"
  <2>1. e.kind \in Kinds /\ ((Direction # "incoming" /\ e.src \in front) \/ (Direction # "outgoing" /\ e.dst \in front))
    BY <1>3 DEF Adjacent
  <2>2. /\ Direction # "incoming" => <<e.src, e.dst>> \in Hops(E)
        /\ Direction # "outgoing" => <<e.dst, e.src>> \in Hops(E)
    BY <2>1 DEF Hops
  <2>3. \/ Direction # "incoming" /\ e.src \in front /\ Beyond(e) = e.dst
        \/ Direction # "outgoing" /\ e.dst \in front /\ Beyond(e) = e.src
    BY <1>1, <1>3, <2>1 DEF Beyond
  <2> QED BY <1>3, <2>2, <2>3
<1> QED BY <1>2, <1>3

\* Every hop, and every membership of a container, is over an edge that a round
\* from its node follows.
LEMMA RelatesAdjacent ==
  ASSUME WalkTypeOK, Base, InRound, NEW E \in SUBSET Edge, NEW x \in front, NEW m,
         <<x, m>> \in IF pass = "members" THEN Members(E) ELSE Hops(E)
  PROVE  \E e \in E : Adjacent(e) /\ Beyond(e) = m
<1>1. Direction \in {"outgoing", "incoming", "both"} /\ (Layered => Direction # "both")
  BY Directions
<1>2. CASE pass = "members"
  <2>1. PICK e \in E : e.kind = "contains" /\ e.src = x /\ e.dst = m
    BY <1>2 DEF Members
  <2> QED BY <1>2, <2>1 DEF Adjacent, Beyond
<1>3. CASE pass # "members"
  <2>1. PICK e \in E : /\ e.kind \in Kinds
                       /\ \/ Direction # "incoming" /\ e.src = x /\ e.dst = m
                          \/ Direction # "outgoing" /\ e.dst = x /\ e.src = m
    BY <1>3 DEF Hops
  <2>2. Adjacent(e)
    BY <1>3, <2>1 DEF Adjacent
  <2>3. Direction = "both" => front = {x}
    BY <1>1 DEF Base, HandInv
  <2>4. Beyond(e) = m
    BY <1>1, <1>3, <2>1, <2>3 DEF Beyond
  <2> QED BY <2>2, <2>4
<1> QED BY <1>2, <1>3

-----------------------------------------------------------------------------
(* Nothing is found too far away                                             *)

\* Nothing is marked or waits that is further away than its depth says, and
\* nothing is in the answer that is further away than was asked.
SoundInv ==
  Underway /\ query.op # "path" =>
    /\ nodes \subseteq Within(ever, query.depth)
    /\ \A i \in DOMAIN queue : queue[i].node \in Near(queue[i].depth)
    /\ \A n \in Marked : n \in Near(best[n])

\* What is k hops away, and what lies one hop or one membership on from there.
LEMMA NearHolds ==
  ASSUME WalkTypeOK
  PROVE  /\ query.start \in Near(0) /\ query.start \in Within(ever, query.depth)
         /\ \A k \in Nat, x, m \in Node : x \in Near(k) /\ <<x, m>> \in Members(ever) => m \in Near(k)
         /\ \A k \in Nat, x, m \in Node : x \in Near(k) /\ <<x, m>> \in Hops(ever) => m \in Near(k + 1)
         /\ \A k \in Nat, m \in Node : m \in Near(k) /\ k < query.depth => m \in Within(ever, query.depth)
         /\ \A k \in Nat, x, m \in Node : x \in Near(k) /\ <<x, m>> \in Hops(ever) /\ k < query.depth
                                            => m \in Within(ever, query.depth)
<1> DEFINE H == Hops(ever)
           M == Members(ever)
           s == query.start
           d == query.depth
           L(k) == Last(H, M, s, k)
<1>1. H \in Relations /\ M \in Relations /\ s \in Node /\ d \in Nat
  <2>1. ever \subseteq Edge /\ s \in Node /\ d \in Nat
    BY DEF WalkTypeOK, DbTypeOK, Query
  <2> QED BY <2>1, HopsRelate
<1>2. \A k : Near(k) = L(k)
  BY DEF Near
<1>3. Within(ever, query.depth) = Reach(H, M, s, d)
  BY DEF Within
<1> HIDE DEF H, M, s, d
<1>4. /\ s \in L(0)
      /\ \A k \in Nat : Image(M, L(k)) \subseteq L(k)
      /\ \A k \in Nat : Spread(H, L(k)) \subseteq L(k + 1)
      /\ s \in Reach(H, M, s, d)
      /\ \A k \in Nat : k < d => Spread(H, L(k)) \subseteq Reach(H, M, s, d)
  BY <1>1, LastHolds
<1> HIDE DEF L
<1>5. \A T, x, m : x \in T => /\ <<x, m>> \in H => m \in Spread(H, T)
                              /\ <<x, m>> \in M => m \in Image(M, T)
                              /\ x \in Spread(H, T)
  BY DEF Spread, Image
<1>6. \A k \in Nat, x, m \in Node : x \in L(k) /\ <<x, m>> \in M => m \in L(k)
  BY <1>4, <1>5
<1>7. \A k \in Nat, x, m \in Node : x \in L(k) /\ <<x, m>> \in H => m \in L(k + 1)
  BY <1>4, <1>5
<1>8. \A k \in Nat, m \in Node : m \in L(k) /\ k < d => m \in Reach(H, M, s, d)
  BY <1>4, <1>5
<1>9. \A k \in Nat, x, m \in Node : x \in L(k) /\ <<x, m>> \in H /\ k < d => m \in Reach(H, M, s, d)
  BY <1>4, <1>5
<1> QED BY <1>2, <1>3, <1>4, <1>6, <1>7, <1>8, <1>9 DEF H, M, s, d

\* Commits only bring nodes nearer.
LEMMA SoundKept ==
  ASSUME WalkTypeOK, WalkTypeOK', SoundInv, UNCHANGED walkVars, UNCHANGED dbVars \/ Commit
  PROVE  SoundInv'
<1>1. UNCHANGED <<query, at, queue, best, nodes>>
  BY DEF walkVars, localVars
<1>2. ever \subseteq ever'
  BY DEF dbVars, Commit
<1>3. /\ ever \subseteq Edge /\ ever' \subseteq Edge /\ query.start \in Node /\ query.depth \in Nat
      /\ \A i \in DOMAIN queue : queue[i].depth \in Nat
      /\ \A n \in Marked : best[n] \in Nat
  <2>1. queue \in Seq(Item) /\ best \in [Marked -> Nat] /\ ever \subseteq Edge /\ query.start \in Node /\ query.depth \in Nat
    BY DEF WalkTypeOK, DbTypeOK, LocalTypeOK, Item, Query
  <2>2. \A i \in DOMAIN queue : queue[i] \in Item
    BY <2>1
  <2>3. ever' \subseteq Edge
    BY DEF WalkTypeOK, DbTypeOK
  <2> QED BY <2>1, <2>2, <2>3 DEF Item
<1>4. /\ Hops(ever) \subseteq Hops(ever)' /\ Members(ever) \subseteq Members(ever)'
      /\ Hops(ever)' \in Relations /\ Members(ever)' \in Relations
  <2>1. Hops(ever') \in Relations /\ Members(ever') \in Relations
    BY <1>3, HopsRelate
  <2>2. Hops(ever)' = Hops(ever') /\ Members(ever)' = Members(ever')
    BY <1>1 DEF Hops, Members, Kinds, Direction, Layered
  <2> QED BY <1>1, <1>2, <2>1, <2>2, HopsKept
<1>5. /\ \A k \in Nat : Near(k) \subseteq Near(k)'
      /\ \A d \in Nat : Within(ever, d) \subseteq Within(ever, d)'
  <2> DEFINE s == query.start
             H2 == Hops(ever)'
             M2 == Members(ever)'
             H1 == Hops(ever)
             M1 == Members(ever)
  <2>1. \A k : Near(k)' = Last(H2, M2, s, k) /\ Within(ever, k)' = Reach(H2, M2, s, k)
    BY <1>1 DEF Near, Within
  <2>2. \A k : Near(k) = Last(H1, M1, s, k) /\ Within(ever, k) = Reach(H1, M1, s, k)
    BY DEF Near, Within
  <2>3. H1 \in SUBSET H2 /\ M1 \in SUBSET M2 /\ H2 \in Relations /\ M2 \in Relations /\ s \in Node
    BY <1>3, <1>4
  <2> HIDE DEF s, H1, H2, M1, M2
  <2> QED BY <2>1, <2>2, <2>3, ReachGrows
<1>6. SUFFICES ASSUME (Underway /\ query.op # "path")'
               PROVE  /\ nodes' \subseteq Within(ever, query.depth)'
                      /\ \A i \in DOMAIN queue' : queue'[i].node \in Near(queue[i].depth)'
                      /\ \A n \in Marked' : n \in Near(best[n])'
  BY DEF SoundInv
<1>7. Underway /\ query.op # "path" /\ Marked' = Marked
  BY <1>1, <1>6 DEF Underway, InRound, Marked
<1>8. \A k : Near(k)' = Last(Hops(ever)', Members(ever)', query.start, k)
  BY <1>1 DEF Near
<1>9. nodes' \subseteq Within(ever, query.depth)'
  BY <1>1, <1>3, <1>5, <1>7 DEF SoundInv
<1>10. ASSUME NEW i \in DOMAIN queue PROVE queue[i].node \in Near(queue[i].depth)'
  BY <1>1, <1>3, <1>5, <1>7 DEF SoundInv
<1>11. ASSUME NEW n \in Marked PROVE n \in Near(best[n])'
  BY <1>1, <1>3, <1>5, <1>7 DEF SoundInv
<1> QED BY <1>1, <1>7, <1>9, <1>10, <1>11

\* Every step of a walk.
LEMMA SoundWalk ==
  ASSUME WalkTypeOK, Base, SoundInv, Walk
  PROVE  SoundInv'
<1>1. Frame /\ query' = query
  BY WalkKeeps DEF Frame
<1>2. /\ \A k : Near(k)' = Near(k)
      /\ Within(ever, query.depth)' = Within(ever, query.depth)
  BY <1>1, NearKept
<1>3. /\ queue \in Seq(Item) /\ best \in [Marked -> Nat] /\ Marked \subseteq Node /\ front \subseteq Node
      /\ depth \in Nat /\ query.depth \in Nat /\ todo \subseteq Edge /\ ever \subseteq Edge
      /\ pass \in {"members", "around"}
  BY DEF WalkTypeOK, DbTypeOK, LocalTypeOK, Item, Query
<1>4. SUFFICES ASSUME Underway', query.op # "path"
               PROVE  /\ nodes' \subseteq Within(ever, query.depth)
                      /\ \A i \in DOMAIN queue' : queue'[i].node \in Near(queue'[i].depth)
                      /\ \A n \in Marked' : n \in Near(best'[n])
  BY <1>1, <1>2 DEF SoundInv
<1>5. query.start \in Near(0) /\ query.start \in Within(ever, query.depth)
  BY NearHolds
<1>6. Underway => /\ nodes \subseteq Within(ever, query.depth)
                  /\ \A i \in DOMAIN queue : queue[i].node \in Near(queue[i].depth)
                  /\ \A n \in Marked : n \in Near(best[n])
  BY <1>4 DEF SoundInv
<1>7. CASE BeginLayers
  <2>1. Marked' = {query.start} /\ best'[query.start] = 0 /\ queue' = queue /\ nodes' = nodes /\ at = "start"
    BY <1>7 DEF BeginLayers, Marked
  <2>2. queue = <<>> /\ nodes = {}
    BY <2>1 DEF Base, BlankInv
  <2> QED BY <1>5, <2>1, <2>2
<1>8. CASE Begin
  <2>1. /\ queue' = <<Entry0>> /\ nodes' \subseteq {query.start}
        /\ query.op = "bfs" => Marked' = {}
        /\ query.op # "bfs" => best' = [n \in {query.start} |-> 0]
    BY <1>4, <1>8, BeginCases DEF Base, Underway, InRound, Return
  <2>2. DOMAIN queue' = {1} /\ queue'[1].node = query.start /\ queue'[1].depth = 0
    BY <2>1 DEF Entry0
  <2>3. query.op # "bfs" => Marked' = {query.start} /\ best'[query.start] = 0
    BY <2>1 DEF Marked
  <2> QED BY <1>5, <2>1, <2>2, <2>3
<1>9. CASE FindGoal \/ Finish \/ Abandon
  <2>1. FindGoal => query.op = "path"
    BY DEF FindGoal, Base, BlankInv
  <2>2. Finish \/ Abandon => at' = "done"
    BY DEF Finish, Abandon, Return
  <2> QED BY <1>4, <1>9, <2>1, <2>2 DEF Underway, InRound
<1>10. CASE Take
  <2>1. Popped /\ Underway
    BY <1>10, TakeCases DEF Dropping, Marking, Opening, Underway, Popped
  <2>2. queue # <<>> /\ queue' = Tail(queue) /\ nodes' = nodes
    BY <2>1 DEF Popped
  <2>3. /\ queue[1] = Head(queue) /\ 1 \in DOMAIN queue /\ Head(queue) \in Item
        /\ \A i \in DOMAIN queue' : i + 1 \in DOMAIN queue /\ queue'[i] = queue[i+1]
    BY <1>3, <2>2, TakenPlaces
  <2>4. \A i \in DOMAIN queue' : queue'[i].node \in Near(queue'[i].depth)
    BY <1>6, <2>1, <2>3
  <2>5. Noting \/ best' = best
    BY <1>10, TakeCases DEF Dropping, Marking, Opening
  <2>6. CASE Noting
    <3> DEFINE x == Head(queue)
    <3>1. x.node \in Near(x.depth)
      BY <1>6, <2>1, <2>3
    <3>2. /\ Marked' = Marked \cup {x.node} /\ best'[x.node] = x.depth
          /\ \A n \in Marked : n # x.node => best'[n] = best[n]
      BY <2>6 DEF Noting, Mark, Marked
    <3> HIDE DEF x
    <3> QED BY <1>6, <2>1, <2>2, <2>4, <3>1, <3>2
  <2>7. CASE best' = best
    BY <1>6, <2>1, <2>2, <2>4, <2>7 DEF Marked
  <2> QED BY <2>5, <2>6, <2>7
<1>11. CASE TakeLayer \/ ReadEdges \/ ReadIncoming \/ ReadNodes \/ EndPass
  <2>1. UNCHANGED <<queue, nodes, best>> /\ Underway
    BY <1>11 DEF TakeLayer, ReadEdges, ReadIncoming, ReadNodes, EndPass, localVars, Underway, InRound
  <2> QED BY <1>6, <2>1 DEF Marked
<1>12. CASE Add
  <2>1. PICK e \in todo : Passing(e) \/ Ending(e) \/ Finding(e)
    BY <1>12, AddCases
  <2>2. at = "add" /\ Underway /\ InRound
    BY <1>12, AddCases DEF Underway, InRound
  <2>3. CASE Passing(e)
    BY <1>6, <2>2, <2>3 DEF Passing, Marked
  <2>4. CASE Ending(e)
    BY <1>4, <2>4 DEF Ending
  <2>5. CASE Finding(e)
    <3> DEFINE n == Beyond(e)
    <3>1. /\ nodes' = nodes \cup {n} /\ queue' = Push(n, e)
          /\ best' = (IF query.op = "bfs" THEN best ELSE Mark(n, NewDepth))
      BY <2>5 DEF Finding
    <3>2. e \in ever /\ Adjacent(e) /\ n \in Node /\ e \in Edge
          /\ (pass = "members" => query.op = "impact" /\ front \subseteq Container)
      BY <1>3, BeyondNode DEF Base, HandInv
    <3>3. PICK x \in front : <<x, n>> \in IF pass = "members" THEN Members(ever) ELSE Hops(ever)
      BY <1>3, <3>2, AdjacentRelates
    <3>4. x \in Marked /\ best[x] = depth /\ depth < query.depth
      BY <1>4, <2>2 DEF Base, HandInv, Underway
    <3>5. x \in Near(depth) /\ x \in Node
      BY <1>3, <1>6, <2>2, <3>4
    <3> HIDE DEF n
    <3>6. n \in Near(NewDepth) /\ n \in Within(ever, query.depth)
      <4>1. CASE pass = "members"
        BY <1>3, <3>2, <3>3, <3>4, <3>5, <4>1, NearHolds DEF NewDepth
      <4>2. CASE pass # "members"
        BY <1>3, <3>2, <3>3, <3>4, <3>5, <4>2, NearHolds DEF NewDepth
      <4> QED BY <4>1, <4>2
    <3>7. \A m \in Marked' : m \in Near(best'[m])
      <4>1. CASE query.op = "bfs"
        BY <1>6, <2>2, <3>1, <4>1 DEF Marked
      <4>2. CASE query.op # "bfs"
        <5>1. /\ Marked' = Marked \cup {n} /\ best'[n] = NewDepth
              /\ \A m \in Marked : m # n => best'[m] = best[m]
          BY <3>1, <4>2 DEF Mark, Marked
        <5> QED BY <1>6, <2>2, <3>6, <5>1
      <4> QED BY <4>1, <4>2
    <3>8. \A i \in DOMAIN queue' : queue'[i].node \in Near(queue'[i].depth)
      <4> DEFINE y == Entry(n, e)
      <4>1. y \in Item /\ y.node = n /\ y.depth = NewDepth
        BY <1>3, <3>2 DEF Entry, Item, NewDepth
      <4>2. queue' = queue \/ queue' = <<y>> \o queue \/ queue' = Append(queue, y)
        BY <3>1 DEF Push
      <4> HIDE DEF y
      <4>3. \A i \in DOMAIN queue' : queue'[i] = y \/ \E j \in DOMAIN queue : queue'[i] = queue[j]
        <5>1. CASE queue' = queue
          BY <5>1
        <5>2. CASE queue' = <<y>> \o queue
          BY <1>3, <4>1, <5>2, FirstPlaces
        <5>3. CASE queue' = Append(queue, y)
          BY <1>3, <4>1, <5>3, AddedPlaces
        <5> QED BY <4>2, <5>1, <5>2, <5>3
      <4> QED BY <1>6, <2>2, <3>6, <4>1, <4>3
    <3>9. nodes' \subseteq Within(ever, query.depth)
      BY <1>6, <2>2, <3>1, <3>6
    <3> QED BY <3>7, <3>8, <3>9
  <2> QED BY <2>1, <2>3, <2>4, <2>5
<1> QED BY <1>7, <1>8, <1>9, <1>10, <1>11, <1>12 DEF Walk

-----------------------------------------------------------------------------
(* Nothing near is left out                                                  *)

\* A node is accounted for within d hops: marked that near, or waiting in a bfs.
Covered(n, d) ==
  \/ n \in Marked /\ best[n] <= d
  \/ query.op = "bfs" /\ \E i \in DOMAIN queue : queue[i].node = n /\ queue[i].depth <= d

\* A marked node whose neighbours are still to be looked at.
Pending(n) ==
  \/ InRound /\ n \in front
  \/ Layered /\ best[n] >= depth
  \/ query.op # "bfs" /\ \E i \in DOMAIN queue : queue[i].node = n /\ queue[i].depth = best[n]

MembersDone(n) == \A m \in Node : <<n, m>> \in Members(always) => Covered(m, best[n])
HopsDone(n) == \A m \in Node : <<n, m>> \in Hops(always) => Covered(m, best[n] + 1)
Expanded(n) == MembersDone(n) /\ HopsDone(n)
Expands(n) == query.op # "path" => best[n] < query.depth

\* The neighbours of every node that is done are as near as they should be.
DoneInv ==
  /\ Underway => Covered(query.start, 0)
  /\ \A n \in Marked : ~Pending(n) /\ Expands(n) => Expanded(n)
  /\ InRound /\ pass = "around" => \A n \in front : MembersDone(n)

\* While a round goes on, what it has not come to yet is in hand.
RoundInv ==
  /\ at = "both" => \A e \in always : e.kind \in Kinds /\ e.src \in front => e \in todo
  /\ at = "nodes" => \A e \in always : Adjacent(e) => e \in todo
  /\ at = "add" => /\ \A e \in always : Adjacent(e) => e \in todo \/ Covered(Beyond(e), NewDepth)
                   /\ \A e \in todo \cap always : Beyond(e) \in found \/ (query.op # "impact" /\ Beyond(e) \in Marked)

\* What is accounted for stays so.
LEMMA CoveredTake ==
  ASSUME WalkTypeOK, Base, Take
  PROVE  \A n : \A d \in Nat : Covered(n, d) => Covered(n, d)'
<1> DEFINE x == Head(queue)
<1>1. Dropping \/ Marking \/ Opening
  BY TakeCases
<1>2. Popped /\ queue # <<>> /\ queue' = Tail(queue) /\ query' = query
  BY <1>1 DEF Dropping, Marking, Opening, Popped, Frame
<1>3. queue \in Seq(Item) /\ best \in [Marked -> Nat]
  BY DEF WalkTypeOK, LocalTypeOK, Item
<1>4. /\ x \in Item /\ queue[1] = x /\ 1 \in DOMAIN queue
      /\ \A i \in DOMAIN queue : i = 1 \/ (i - 1 \in DOMAIN queue' /\ queue'[i-1] = queue[i])
  BY <1>2, <1>3, TakenPlaces
<1>5. x.depth \in Nat
  BY <1>4 DEF Item
<1>6. query.op = "bfs" => x.node \in Marked' /\ best'[x.node] <= x.depth /\ best'[x.node] \in Nat
  <2>1. CASE Noting
    BY <1>5, <2>1 DEF Noting, Mark, Marked, x
  <2>2. CASE ~Noting /\ query.op = "bfs"
    <3>1. Dropping /\ x.node \in Marked /\ best' = best
      BY <1>1, <2>2 DEF Dropping, Marking, Opening, Stale, x
    <3>2. best[x.node] <= x.depth
      BY <1>4, <2>2, <3>1 DEF Base, OrderInv
    <3> QED BY <1>3, <3>1, <3>2 DEF Marked
  <2> QED BY <2>1, <2>2
<1>7. \A n \in Marked : n \in Marked' /\ best'[n] = best[n]
  <2>1. CASE Noting
    BY <2>1 DEF Noting, Mark, Marked
  <2>2. CASE ~Noting
    BY <1>1, <2>2 DEF Dropping, Marking, Opening, Marked
  <2> QED BY <2>1, <2>2
<1>8. SUFFICES ASSUME NEW n, NEW d \in Nat, Covered(n, d)
               PROVE  \/ n \in Marked' /\ best'[n] <= d
                      \/ query.op = "bfs" /\ \E i \in DOMAIN queue' : queue'[i].node = n /\ queue'[i].depth <= d
  BY <1>2 DEF Covered
<1>9. CASE n \in Marked /\ best[n] <= d
  BY <1>7, <1>9
<1>10. ASSUME query.op = "bfs", NEW i \in DOMAIN queue, queue[i].node = n, queue[i].depth <= d
       PROVE  \/ n \in Marked' /\ best'[n] <= d
              \/ query.op = "bfs" /\ \E j \in DOMAIN queue' : queue'[j].node = n /\ queue'[j].depth <= d
  <2>1. CASE i = 1
    BY <1>4, <1>5, <1>6, <1>10, <2>1
  <2>2. CASE i # 1
    BY <1>4, <1>10, <2>2
  <2> QED BY <2>1, <2>2
<1> QED BY <1>8, <1>9, <1>10 DEF Covered

\* Finding a node: the marks that change only fall, and no entry is lost.
LEMMA FindKeeps ==
  ASSUME WalkTypeOK, Base, at = "add", NEW e \in todo, Finding(e)
  PROVE  /\ Beyond(e) \in Node /\ NewDepth \in Nat
         /\ \A i \in DOMAIN queue : \E j \in DOMAIN queue' : queue'[j] = queue[i]
         /\ ~Layered => \E j \in DOMAIN queue' : queue'[j].node = Beyond(e) /\ queue'[j].depth = NewDepth
         /\ query.op = "bfs" => best' = best
         /\ query.op # "bfs" => /\ Marked' = Marked \cup {Beyond(e)} /\ best'[Beyond(e)] = NewDepth
                                /\ Beyond(e) \in Marked => NewDepth < best[Beyond(e)]
                                /\ \A n \in Marked : n # Beyond(e) => best'[n] = best[n]
         /\ \A n \in Marked : n \in Marked' /\ best'[n] <= best[n] /\ best'[n] \in Nat /\ best[n] \in Nat
         /\ \A n \in front : n \in Marked => best'[n] = best[n]
<1> DEFINE n == Beyond(e)
           y == Entry(n, e)
<1>1. /\ queue \in Seq(Item) /\ best \in [Marked -> Nat] /\ depth \in Nat /\ e \in Edge
  BY DEF WalkTypeOK, LocalTypeOK, Item
<1>2. n \in Node /\ NewDepth \in Nat
  BY <1>1, BeyondNode DEF NewDepth
<1>3. y \in Item /\ y.node = n /\ y.depth = NewDepth
  BY <1>1, <1>2 DEF Entry, Item
<1>4. /\ Fresh(n) /\ queue' = Push(n, e)
      /\ best' = (IF query.op = "bfs" THEN best ELSE Mark(n, NewDepth))
  BY DEF Finding
<1>5. queue' = IF Layered THEN queue ELSE IF pass = "members" THEN <<y>> \o queue ELSE Append(queue, y)
  BY <1>4 DEF Push
<1>6. NewDepth >= depth /\ \A m \in front : m \in Marked => best[m] = depth
  <2>1. InRound
    BY DEF InRound
  <2> QED BY <1>1, <2>1 DEF NewDepth, Base, HandInv, Underway
<1> HIDE DEF y, n
<1>7. /\ \A i \in DOMAIN queue : \E j \in DOMAIN queue' : queue'[j] = queue[i]
      /\ ~Layered => \E j \in DOMAIN queue' : queue'[j] = y
  <2>1. CASE Layered
    BY <1>5, <2>1
  <2>2. CASE ~Layered /\ pass = "members"
    <3>1. queue' = <<y>> \o queue
      BY <1>5, <2>2
    <3>2. /\ 1 \in DOMAIN (<<y>> \o queue) /\ (<<y>> \o queue)[1] = y
          /\ \A i \in DOMAIN queue : i + 1 \in DOMAIN (<<y>> \o queue) /\ (<<y>> \o queue)[i+1] = queue[i]
      BY <1>1, <1>3, FirstPlaces
    <3> QED BY <3>1, <3>2
  <2>3. CASE ~Layered /\ pass # "members"
    <3>1. queue' = Append(queue, y)
      BY <1>5, <2>3
    <3>2. /\ Len(queue) + 1 \in DOMAIN Append(queue, y) /\ Append(queue, y)[Len(queue) + 1] = y
          /\ \A i \in DOMAIN queue : i \in DOMAIN Append(queue, y) /\ Append(queue, y)[i] = queue[i]
      BY <1>1, <1>3, AddedPlaces
    <3> QED BY <3>1, <3>2
  <2> QED BY <2>1, <2>2, <2>3
<1>8. query.op # "bfs" => /\ Marked' = Marked \cup {n} /\ best'[n] = NewDepth
                          /\ \A m \in Marked : m # n => best'[m] = best[m]
                          /\ n \in Marked => NewDepth < best[n]
  BY <1>4 DEF Mark, Marked, Fresh, Shorter
<1>9. query.op = "bfs" => best' = best /\ Marked' = Marked
  BY <1>4 DEF Marked
<1>10. \A m \in Marked : m \in Marked' /\ best'[m] <= best[m] /\ best'[m] \in Nat /\ best[m] \in Nat
  BY <1>1, <1>2, <1>8, <1>9
<1>11. \A m \in front : m \in Marked => best'[m] = best[m]
  BY <1>1, <1>2, <1>6, <1>8, <1>9
<1> QED BY <1>2, <1>3, <1>7, <1>8, <1>9, <1>10, <1>11 DEF n

\* Finding a node loses nothing that is accounted for, and accounts for the node.
LEMMA CoveredFind ==
  ASSUME WalkTypeOK, Base, at = "add", NEW e \in todo, Finding(e), query' = query
  PROVE  /\ \A n : \A d \in Nat : Covered(n, d) => Covered(n, d)'
         /\ Covered(Beyond(e), NewDepth)'
<1>1. ASSUME NEW n, NEW d \in Nat, Covered(n, d) PROVE Covered(n, d)'
  <2>1. CASE n \in Marked /\ best[n] <= d
    <3>1. n \in Marked' /\ best'[n] <= best[n] /\ best'[n] \in Nat /\ best[n] \in Nat
      BY <2>1, FindKeeps
    <3>2. n \in Marked' /\ best'[n] <= d
      BY <2>1, <3>1
    <3> QED BY <3>2 DEF Covered
  <2>2. CASE query.op = "bfs" /\ \E i \in DOMAIN queue : queue[i].node = n /\ queue[i].depth <= d
    <3>1. PICK i \in DOMAIN queue : queue[i].node = n /\ queue[i].depth <= d
      BY <2>2
    <3>2. \E j \in DOMAIN queue' : queue'[j] = queue[i]
      BY FindKeeps
    <3> QED BY <2>2, <3>1, <3>2 DEF Covered
  <2> QED BY <1>1, <2>1, <2>2 DEF Covered
<1>2. Covered(Beyond(e), NewDepth)'
  <2>1. UNCHANGED <<pass, front, depth>>
    BY DEF Finding
  <2>2. Beyond(e)' = Beyond(e) /\ NewDepth' = NewDepth
    BY <2>1 DEF Beyond, NewDepth, Direction
  <2>3. CASE query.op = "bfs"
    <3>1. ~Layered
      BY <2>3 DEF Layered
    <3>2. PICK j \in DOMAIN queue' : queue'[j].node = Beyond(e) /\ queue'[j].depth = NewDepth
      BY <3>1, FindKeeps
    <3>3. NewDepth \in Nat
      BY FindKeeps
    <3>4. queue'[j].depth <= NewDepth
      BY <3>2, <3>3
    <3> QED BY <2>2, <2>3, <3>2, <3>4 DEF Covered
  <2>4. CASE query.op # "bfs"
    <3>1. Beyond(e) \in Marked' /\ best'[Beyond(e)] = NewDepth /\ NewDepth \in Nat
      BY <2>4, FindKeeps
    <3>2. best'[Beyond(e)] <= NewDepth
      BY <3>1
    <3> QED BY <2>2, <3>1, <3>2 DEF Covered
  <2> QED BY <2>3, <2>4
<1> QED BY <1>1, <1>2

\* What is accounted for stays so.
Keeps == \A n : \A d \in Nat : Covered(n, d) => Covered(n, d)'

\* What is expanded stays so, as what is accounted for does.
LEMMA ExpandedKeeps ==
  ASSUME Frame, Keeps, NEW n, best[n] \in Nat, best'[n] = best[n]
  PROVE  /\ MembersDone(n) => MembersDone(n)'
         /\ HopsDone(n) => HopsDone(n)'
<1>1. Members(always)' = Members(always) /\ Hops(always)' = Hops(always)
  BY HopsKept DEF Frame, dbVars
<1>2. best[n] + 1 \in Nat
  OBVIOUS
<1>3. \A m : /\ Covered(m, best[n]) => Covered(m, best[n])'
             /\ Covered(m, best[n] + 1) => Covered(m, best[n] + 1)'
  BY <1>2 DEF Covered, Keeps
<1> QED BY <1>1, <1>3 DEF MembersDone, HopsDone

\* The start, from which everything is still to be looked at.
LEMMA DoneStart ==
  ASSUME WalkTypeOK, Base, BeginLayers \/ Begin \/ FindGoal
  PROVE  DoneInv'
<1>1. query' = query /\ Layered' = Layered /\ InRound' = FALSE
  BY DEF BeginLayers, Begin, FindGoal, Layered, InRound, Return
<1>2. SUFFICES /\ Underway' => Covered(query.start, 0)'
               /\ \A n \in Marked' : Pending(n)'
  BY <1>1 DEF DoneInv
<1>3. ASSUME NEW how, NEW N, NEW L, Return(how, N, L)
      PROVE  /\ Underway' => Covered(query.start, 0)'
             /\ \A n \in Marked' : Pending(n)'
  BY <1>3 DEF Return, Underway, InRound, Marked, Unmarked
<1>4. CASE BeginLayers
  <2>1. Marked' = {query.start} /\ best'[query.start] = 0 /\ depth' = 0 /\ Layered
    <3>1. at = "start" /\ depth' = depth /\ Layered /\ best' = [n \in {query.start} |-> 0]
      BY <1>4 DEF BeginLayers
    <3>2. depth = 0
      BY <3>1 DEF Base, BlankInv
    <3> QED BY <3>1, <3>2 DEF Marked
  <2> QED BY <1>1, <2>1 DEF Covered, Pending
<1>5. CASE Begin
  <2>1. CASE Return("none", {}, {})
    BY <1>3, <2>1
  <2>2. CASE ~Return("none", {}, {})
    <3>1. /\ queue' = <<Entry0>>
          /\ query.op = "bfs" => Marked' = {}
          /\ query.op # "bfs" => best' = [n \in {query.start} |-> 0]
      BY <1>5, <2>2, BeginCases DEF Base
    <3>2. 1 \in DOMAIN queue' /\ queue'[1].node = query.start /\ queue'[1].depth = 0 /\ 0 <= 0
      BY <3>1 DEF Entry0
    <3>3. query.op # "bfs" => Marked' = {query.start} /\ best'[query.start] = 0
      BY <3>1 DEF Marked
    <3>4. CASE query.op = "bfs"
      BY <1>1, <3>1, <3>2, <3>4 DEF Covered
    <3>5. CASE query.op # "bfs"
      BY <1>1, <3>2, <3>3, <3>5 DEF Covered, Pending
    <3> QED BY <3>4, <3>5
  <2> QED BY <2>1, <2>2
<1>6. CASE FindGoal
  <2>1. CASE Return("none", nodes, links) \/ Return("found", nodes, links)
    BY <1>3, <2>1
  <2>2. CASE UNCHANGED localVars
    <3>1. at = "goal"
      BY <1>6 DEF FindGoal
    <3>2. /\ query.op = "path" /\ queue = <<[node |-> query.start, link |-> {}, depth |-> 0]>>
          /\ Marked = {query.start} /\ best[query.start] = 0
      BY <3>1 DEF Base, BlankInv
    <3>3. 1 \in DOMAIN queue /\ queue[1].node = query.start /\ queue[1].depth = 0
      BY <3>2
    <3>4. best' = best /\ queue' = queue /\ Marked' = Marked
      BY <2>2 DEF localVars, Marked
    <3> QED BY <1>1, <3>2, <3>3, <3>4 DEF Covered, Pending
  <2> QED BY <1>6, <2>1, <2>2 DEF FindGoal
<1> QED BY <1>4, <1>5, <1>6

\* A walk that is over has nothing to look at.
LEMMA DoneReturn ==
  ASSUME NEW how, NEW N, NEW L, Return(how, N, L)
  PROVE  DoneInv' /\ RoundInv'
BY DEF Return, DoneInv, RoundInv, Underway, InRound, Marked, Unmarked

\* Taking an entry: a node that is passed over has been looked at, or need not be.
LEMMA DoneTake ==
  ASSUME WalkTypeOK, Base, DoneInv, Take
  PROVE  DoneInv'
<1> DEFINE x == Head(queue)
<1>1. Dropping \/ Marking \/ Opening
  BY TakeCases
<1>2. Popped /\ Frame /\ at = "loop" /\ ~Layered /\ queue # <<>> /\ queue' = Tail(queue) /\ query' = query
  BY <1>1 DEF Dropping, Marking, Opening, Popped, Frame
<1>3. queue \in Seq(Item) /\ best \in [Marked -> Nat] /\ query.depth \in Nat
  BY DEF WalkTypeOK, LocalTypeOK, Item, Query
<1>4. /\ x \in Item /\ queue[1] = x /\ 1 \in DOMAIN queue
      /\ \A i \in DOMAIN queue : i = 1 \/ (i - 1 \in DOMAIN queue' /\ queue'[i-1] = queue[i])
  BY <1>2, <1>3, TakenPlaces
<1>5. x.depth \in Nat
  BY <1>4 DEF Item
<1>6. /\ query.op # "path" => x.depth <= query.depth
      /\ query.op \in {"impact", "path"} => x.node \in Marked /\ best[x.node] <= x.depth
  BY <1>4 DEF Base, OrderInv
<1>7. Keeps
  BY CoveredTake DEF Keeps
<1>8. ~InRound /\ Underway /\ Layered' = Layered
  BY <1>2 DEF InRound, Underway, Layered
<1>9. Covered(query.start, 0)'
  BY <1>2, <1>7, <1>8 DEF DoneInv, Keeps
<1>10. Noting \/ UNCHANGED best
  BY <1>1 DEF Dropping, Marking, Opening
<1>11. /\ \A n \in Marked : n \in Marked' /\ best'[n] = best[n] /\ best[n] \in Nat
       /\ \A n \in Marked' \ Marked : Noting /\ n = x.node /\ best'[n] = x.depth
  BY <1>3, <1>10 DEF Noting, Mark, Marked
\* What waits still does, but for the entry that was taken.
<1>12. ASSUME NEW n \in Marked, Pending(n)
       PROVE  Pending(n)' \/ (query.op # "bfs" /\ n = x.node /\ best[n] = x.depth)
  <2>1. PICK i \in DOMAIN queue : query.op # "bfs" /\ queue[i].node = n /\ queue[i].depth = best[n]
    BY <1>2, <1>8, <1>12 DEF Pending
  <2>2. CASE i = 1
    BY <1>4, <2>1, <2>2
  <2>3. CASE i # 1
    BY <1>2, <1>4, <1>11, <2>1, <2>3 DEF Pending
  <2> QED BY <2>2, <2>3
<1>13. ASSUME NEW n \in Marked, Expanded(n) PROVE Expanded(n)'
  BY <1>2, <1>7, <1>11, <1>13, ExpandedKeeps DEF Expanded
\* The entry that was taken is being looked at, or need not be.
<1>14. ASSUME NEW n \in Marked', n = x.node
       PROVE  \/ Pending(n)' \/ ~Expands(n)'
              \/ n \in Marked /\ ~(query.op # "bfs" /\ best[n] = x.depth)
  <2>1. CASE Opening
    <3>1. at' = "edges" /\ front' = {n}
      BY <1>14, <2>1 DEF Opening
    <3> QED BY <3>1 DEF Pending, InRound
  <2>2. CASE Marking
    <3>1. query.op = "bfs" /\ best'[n] = x.depth /\ x.depth >= query.depth
      BY <1>14, <2>2 DEF Marking, Noting, Mark
    <3> QED BY <1>2, <1>3, <1>5, <3>1 DEF Expands
  <2>3. CASE Dropping
    <3>1. best' = best /\ Marked' = Marked
      BY <2>3 DEF Dropping, Marked
    <3>2. CASE query.op = "impact" /\ best[n] = x.depth
      <4>1. x.depth >= query.depth
        BY <1>5, <1>14, <2>3, <3>2 DEF Dropping, Stale
      <4> QED BY <1>2, <1>3, <1>5, <3>1, <3>2, <4>1 DEF Expands
    <3>3. query.op \in {"bfs", "impact"}
      BY <2>3 DEF Dropping, Stale
    <3> QED BY <1>14, <3>1, <3>2, <3>3
  <2> QED BY <1>1, <2>1, <2>2, <2>3
<1> HIDE DEF x
<1>15. ASSUME NEW n \in Marked', ~Pending(n)', Expands(n)' PROVE Expanded(n)'
  <2>1. n \in Marked
    BY <1>11, <1>14, <1>15
  <2>2. Expands(n)
    BY <1>2, <1>11, <1>15, <2>1 DEF Expands
  <2>3. ~Pending(n)
    <3>1. SUFFICES ASSUME Pending(n) PROVE FALSE
      OBVIOUS
    <3>2. n = x.node /\ query.op # "bfs" /\ best[n] = x.depth
      BY <1>12, <1>15, <2>1, <3>1
    <3> QED BY <1>14, <1>15, <3>2
  <2>4. Expanded(n)
    BY <2>1, <2>2, <2>3 DEF DoneInv
  <2> QED BY <1>13, <2>1, <2>4
<1>16. ASSUME InRound', pass' = "around", NEW n \in front' PROVE MembersDone(n)'
  <2>1. Opening
    BY <1>1, <1>8, <1>16 DEF Dropping, Marking, InRound
  <2>2. query.op # "impact" \/ n \notin Container
    BY <1>16, <2>1 DEF Opening
  <2>3. \A m : <<n, m>> \notin Members(always)'
    BY <1>2, <2>2 DEF Members
  <2> QED BY <2>3 DEF MembersDone
<1> QED BY <1>9, <1>15, <1>16 DEF DoneInv

\* The reads of a round mark nothing and look at nothing.
LEMMA DoneRead ==
  ASSUME WalkTypeOK, Base, DoneInv, TakeLayer \/ ReadEdges \/ ReadIncoming \/ ReadNodes
  PROVE  DoneInv'
<1>1. /\ UNCHANGED <<query, pass, queue, front, depth, best, always>>
      /\ Underway /\ Underway'
  BY DEF TakeLayer, ReadEdges, ReadIncoming, ReadNodes, localVars, dbVars, Underway, InRound
<1>2. Marked' = Marked /\ Layered' = Layered /\ \A n : Expands(n)' = Expands(n)
  BY <1>1 DEF Marked, Layered, Expands
<1>3. /\ \A n, d : Covered(n, d)' = Covered(n, d)
      /\ Members(always)' = Members(always) /\ Hops(always)' = Hops(always)
  <2>1. \A n, d : Covered(n, d)' = Covered(n, d)
    BY <1>1, <1>2 DEF Covered
  <2> QED BY <1>1, <2>1, HopsKept
<1>4. \A n : MembersDone(n)' = MembersDone(n) /\ HopsDone(n)' = HopsDone(n)
  <2>1. \A n, m : Covered(m, best[n])' = Covered(m, best[n]) /\ Covered(m, best[n] + 1)' = Covered(m, best[n] + 1)
    BY <1>1, <1>2 DEF Covered
  <2> QED BY <1>3, <2>1 DEF MembersDone, HopsDone
<1>5. \A n : Pending(n) => Pending(n)'
  <2>1. InRound => InRound'
    BY DEF TakeLayer, ReadEdges, ReadIncoming, ReadNodes, InRound
  <2> QED BY <1>1, <1>2, <2>1 DEF Pending
<1>6. Covered(query.start, 0)'
  BY <1>1, <1>3 DEF DoneInv, Covered
<1>7. ASSUME InRound', pass' = "around", NEW n \in front' PROVE MembersDone(n)'
  <2>1. CASE InRound
    BY <1>1, <1>4, <1>7, <2>1 DEF DoneInv
  <2>2. CASE ~InRound
    <3>1. Layered
      BY <2>2 DEF InRound, TakeLayer, ReadEdges, ReadIncoming, ReadNodes
    <3>2. Members(always)' = {}
      BY <1>3, <3>1 DEF Members, Layered
    <3> QED BY <3>2 DEF MembersDone
  <2> QED BY <2>1, <2>2
<1> QED BY <1>1, <1>2, <1>4, <1>5, <1>6, <1>7 DEF DoneInv, Expanded

\* The end of a round, when nothing is left in hand.
LEMMA DoneEnd ==
  ASSUME WalkTypeOK, Base, DoneInv, RoundInv, EndPass
  PROVE  DoneInv'
<1>1. /\ at = "add" /\ todo = {} /\ at' = (IF pass = "members" THEN "edges" ELSE "loop") /\ pass' = "around"
      /\ front' = (IF Layered THEN {n \in Marked : best[n] = depth + 1} ELSE front)
      /\ depth' = (IF Layered THEN depth + 1 ELSE depth)
      /\ UNCHANGED <<query, queue, best, always>>
  BY DEF EndPass, dbVars
<1>2. /\ Marked' = Marked /\ Layered' = Layered /\ InRound /\ Underway /\ Underway'
      /\ \A n : Expands(n)' = Expands(n)
  BY <1>1 DEF Marked, Layered, InRound, Underway, Expands
<1>3. \A n : MembersDone(n)' = MembersDone(n) /\ HopsDone(n)' = HopsDone(n)
  <2>1. \A n, m : Covered(m, best[n])' = Covered(m, best[n]) /\ Covered(m, best[n] + 1)' = Covered(m, best[n] + 1)
    BY <1>1, <1>2 DEF Covered
  <2>2. Members(always)' = Members(always) /\ Hops(always)' = Hops(always)
    BY <1>1, HopsKept
  <2> QED BY <2>1, <2>2 DEF MembersDone, HopsDone
<1>4. Covered(query.start, 0)'
  BY <1>1, <1>2 DEF DoneInv, Covered
<1>5. /\ best \in [Marked -> Nat] /\ depth \in Nat /\ pass \in {"members", "around"} /\ always \subseteq Edge
  BY DEF WalkTypeOK, DbTypeOK, LocalTypeOK
<1>6. /\ Layered => /\ queue = <<>> /\ pass = "around" /\ front = {n \in Marked : best[n] = depth}
                    /\ \A n \in Marked : best[n] <= depth + 1
      /\ ~Layered => \E x \in Marked : best[x] = depth /\ front = {x}
      /\ pass = "members" => ~Layered
  BY <1>1, <1>2 DEF Base, HandInv, Underway, Layered
<1>7. \A n \in front : n \in Marked /\ best[n] = depth
  BY <1>6
\* What the edges of the round lead to is accounted for.
<1>8. ASSUME NEW n \in front, NEW m, <<n, m>> \in IF pass = "members" THEN Members(always) ELSE Hops(always)
      PROVE  Covered(m, NewDepth)
  <2>1. \E e \in always : Adjacent(e) /\ Beyond(e) = m
    BY <1>2, <1>5, <1>8, RelatesAdjacent
  <2> QED BY <1>1, <2>1 DEF RoundInv
<1>9. CASE pass = "members"
  <2>1. \A n \in front : MembersDone(n)
    BY <1>7, <1>8, <1>9 DEF MembersDone, NewDepth
  <2>2. front' = front /\ depth' = depth /\ InRound'
    BY <1>1, <1>6, <1>9 DEF InRound
  <2>3. \A n : Pending(n)' = Pending(n)
    BY <1>1, <1>2, <2>2 DEF Pending
  <2> QED BY <1>2, <1>3, <1>4, <2>1, <2>2, <2>3 DEF DoneInv, Expanded
<1>10. CASE pass = "around"
  <2>1. ~InRound' /\ at' = "loop"
    BY <1>1, <1>10 DEF InRound
  <2>2. \A n \in front : MembersDone(n) /\ HopsDone(n)
    <3>1. \A n \in front : HopsDone(n)
      BY <1>7, <1>8, <1>10 DEF HopsDone, NewDepth
    <3> QED BY <1>2, <1>10, <3>1 DEF DoneInv
  <2>3. ASSUME NEW n \in Marked, ~Pending(n)', Expands(n), n \notin front PROVE Expanded(n)
    <3>1. ~Pending(n)
      <4>1. CASE Layered
        <5>1. ~(best[n] >= depth + 1) /\ best[n] # depth /\ best[n] \in Nat
          BY <1>1, <1>2, <1>5, <1>6, <2>3, <4>1 DEF Pending
        <5>2. ~(best[n] >= depth)
          BY <1>5, <5>1
        <5> QED BY <1>6, <2>3, <4>1, <5>2 DEF Pending
      <4>2. CASE ~Layered
        BY <1>1, <1>2, <2>3, <4>2 DEF Pending
      <4> QED BY <4>1, <4>2
    <3> QED BY <2>3, <3>1 DEF DoneInv
  <2> QED BY <1>2, <1>3, <1>4, <2>1, <2>2, <2>3 DEF DoneInv, Expanded
<1> QED BY <1>5, <1>9, <1>10

\* Finding a node, which then waits for its own round.
LEMMA DoneFind ==
  ASSUME WalkTypeOK, Base, DoneInv, at = "add", Frame, NEW e \in todo, Finding(e)
  PROVE  DoneInv'
<1>1. /\ UNCHANGED <<at, pass, front, depth>> /\ query' = query
      /\ InRound /\ InRound' /\ Underway /\ Layered' = Layered
  BY DEF Finding, Frame, InRound, Underway, Layered
<1>2. Keeps
  BY <1>1, CoveredFind DEF Keeps
<1>3. Covered(query.start, 0)'
  BY <1>1, <1>2 DEF DoneInv, Keeps
<1>4. /\ \A i \in DOMAIN queue : \E j \in DOMAIN queue' : queue'[j] = queue[i]
      /\ ~Layered => \E j \in DOMAIN queue' : queue'[j].node = Beyond(e) /\ queue'[j].depth = NewDepth
      /\ query.op = "bfs" => best' = best
      /\ query.op # "bfs" => /\ Marked' = Marked \cup {Beyond(e)} /\ best'[Beyond(e)] = NewDepth
                             /\ \A n \in Marked : n # Beyond(e) => best'[n] = best[n]
      /\ \A n \in Marked : n \in Marked' /\ best'[n] \in Nat /\ best[n] \in Nat
      /\ \A n \in front : n \in Marked => best'[n] = best[n]
      /\ NewDepth \in Nat
  BY FindKeeps
<1>5. ASSUME NEW n \in Marked', ~Pending(n)', Expands(n)' PROVE Expanded(n)'
  <2>1. n \in Marked /\ best'[n] = best[n]
    <3>1. CASE query.op = "bfs"
      BY <1>4, <1>5, <3>1 DEF Marked
    <3>2. CASE query.op # "bfs" /\ n = Beyond(e)
      <4>1. CASE Layered
        <5>1. pass = "around" /\ depth \in Nat /\ NewDepth >= depth
          BY <1>1, <4>1 DEF Base, HandInv, NewDepth, WalkTypeOK, LocalTypeOK
        <5> QED BY <1>1, <1>4, <1>5, <3>2, <4>1, <5>1 DEF Pending
      <4>2. CASE ~Layered
        BY <1>1, <1>4, <1>5, <3>2, <4>2 DEF Pending
      <4> QED BY <4>1, <4>2
    <3>3. CASE query.op # "bfs" /\ n # Beyond(e)
      BY <1>4, <1>5, <3>3
    <3> QED BY <3>1, <3>2, <3>3
  <2>2. ~Pending(n)
    BY <1>1, <1>4, <1>5, <2>1 DEF Pending
  <2>3. Expands(n)
    BY <1>1, <1>5, <2>1 DEF Expands
  <2>4. Expanded(n) /\ best[n] \in Nat
    BY <1>4, <2>1, <2>2, <2>3 DEF DoneInv
  <2> QED BY <1>2, <2>1, <2>4, ExpandedKeeps DEF Expanded
<1>6. ASSUME pass' = "around", NEW n \in front' PROVE MembersDone(n)'
  <2>1. MembersDone(n) /\ n \in front
    BY <1>1, <1>6 DEF DoneInv
  <2>2. n \in Marked
    BY <1>1, <2>1 DEF Base, HandInv, Underway
  <2> QED BY <1>2, <1>4, <2>1, <2>2, ExpandedKeeps
<1> QED BY <1>3, <1>5, <1>6 DEF DoneInv

\* Every step of a walk.
LEMMA DoneWalk ==
  ASSUME WalkTypeOK, Base, DoneInv, RoundInv, Walk
  PROVE  DoneInv'
<1>1. Frame
  BY WalkKeeps DEF Frame
<1>2. CASE Finish \/ Abandon
  BY <1>2, DoneReturn DEF Finish, Abandon
<1>3. CASE Add
  <2>1. PICK e \in todo : Passing(e) \/ Ending(e) \/ Finding(e)
    BY <1>3, AddCases
  <2>2. at = "add"
    BY <1>3, AddCases
  <2>3. CASE Passing(e)
    <3>1. UNCHANGED <<at, pass, front, depth, queue, best, query, always>>
      BY <1>1, <2>3 DEF Passing, Frame, dbVars
    <3>2. Members(always)' = Members(always) /\ Hops(always)' = Hops(always) /\ Marked' = Marked
      BY <3>1, HopsKept DEF Marked
    <3> QED BY <3>1, <3>2 DEF DoneInv, Underway, InRound, Covered, Pending, Layered, Expands, Expanded,
                              MembersDone, HopsDone
  <2>4. CASE Ending(e)
    BY <2>4, DoneReturn DEF Ending
  <2>5. CASE Finding(e)
    BY <1>1, <2>2, <2>5, DoneFind
  <2> QED BY <2>1, <2>3, <2>4, <2>5
<1> QED BY <1>2, <1>3, DoneStart, DoneTake, DoneRead, DoneEnd DEF Walk

\* The statements of a round read every edge that was always there, and every
\* node at the end of one.
LEMMA RoundRead ==
  ASSUME WalkTypeOK, Base, RoundInv, TakeLayer \/ ReadEdges \/ ReadIncoming \/ ReadNodes
  PROVE  RoundInv'
<1>1. /\ UNCHANGED <<query, pass, front, depth, best, always>>
      /\ always \subseteq db.edges
  BY DEF TakeLayer, ReadEdges, ReadIncoming, ReadNodes, localVars, dbVars, Base, HistInv
<1>2. /\ \A e : Adjacent(e)' = Adjacent(e) /\ Beyond(e)' = Beyond(e)
      /\ Kinds' = Kinds /\ Direction' = Direction /\ Marked' = Marked
  BY <1>1 DEF Adjacent, Beyond, Kinds, Direction, Layered, Marked
<1>3. /\ Direction \in {"outgoing", "incoming", "both"} /\ (query.op = "impact" => Direction = "incoming")
      /\ pass \in {"members", "around"} /\ (pass = "members" => query.op = "impact")
  BY Directions DEF WalkTypeOK, LocalTypeOK, Base, HandInv
<1>4. CASE TakeLayer
  BY <1>4 DEF TakeLayer, RoundInv
<1>5. CASE ReadEdges
  <2>1. at' = IF Direction = "both" THEN "both" ELSE "nodes"
    BY <1>5 DEF ReadEdges
  <2>2. Direction = "both" => \A e \in always : e.kind \in Kinds /\ e.src \in front => e \in todo'
    BY <1>1, <1>3, <1>5 DEF ReadEdges, Outgoing
  <2>3. Direction # "both" => \A e \in always : Adjacent(e) => e \in todo'
    BY <1>1, <1>3, <1>5 DEF ReadEdges, Outgoing, Incoming, Adjacent
  <2> QED BY <1>1, <1>2, <2>1, <2>2, <2>3 DEF RoundInv
<1>6. CASE ReadIncoming
  <2>1. at = "both" /\ at' = "nodes" /\ todo' = todo \cup Incoming(front, Kinds)
    BY <1>6 DEF ReadIncoming
  <2>2. pass = "around" /\ Direction = "both"
    BY <2>1 DEF Base, HandInv
  <2>3. \A e \in always : Adjacent(e) => e \in todo'
    BY <1>1, <2>1, <2>2 DEF RoundInv, Adjacent, Incoming
  <2> QED BY <1>1, <1>2, <2>1, <2>3 DEF RoundInv
<1>7. CASE ReadNodes
  <2>1. at = "nodes" /\ at' = "add" /\ todo' = todo /\ found' \in Rows(Wanted)
    BY <1>7 DEF ReadNodes
  <2>2. \A e \in always : Adjacent(e) => e \in todo'
    BY <2>1 DEF RoundInv
  <2>3. \A n \in Wanted : n \in db.nodes => n \in found'
    BY <2>1 DEF Rows
  <2>4. ASSUME NEW e \in todo \cap always
        PROVE  Beyond(e) \in found' \/ (query.op # "impact" /\ Beyond(e) \in Marked)
    <3>1. e \in db.edges /\ e.src \in db.nodes /\ e.dst \in db.nodes
      BY <1>1 DEF WalkTypeOK, DbTypeOK, Graph
    <3>2. Beyond(e) \in db.nodes
      BY <3>1 DEF Beyond
    <3> QED BY <2>3, <3>2 DEF Wanted
  <2> QED BY <1>1, <1>2, <2>1, <2>2, <2>4 DEF RoundInv
<1> QED BY <1>4, <1>5, <1>6, <1>7

\* Looking at an edge: what it leads to is accounted for, found or passed by.
LEMMA RoundAdd ==
  ASSUME WalkTypeOK, Base, RoundInv, at = "add", Frame, NEW e \in todo, Passing(e) \/ Finding(e)
  PROVE  RoundInv'
<1> DEFINE n == Beyond(e)
<1>1. UNCHANGED <<at, pass, front, depth, found, query, always>> /\ todo' = todo \ {e} /\ at' = "add"
  BY DEF Passing, Finding, Frame, dbVars
<1>2. \A f : Adjacent(f)' = Adjacent(f) /\ Beyond(f)' = Beyond(f)
  BY <1>1 DEF Adjacent, Beyond, Kinds, Direction, Layered
<1>3. NewDepth' = NewDepth /\ NewDepth \in Nat /\ InRound
  BY <1>1 DEF NewDepth, WalkTypeOK, LocalTypeOK, InRound
<1>4. Keeps /\ \A m \in Marked : m \in Marked'
  <2>1. CASE Passing(e)
    <3>1. UNCHANGED <<queue, best, query>>
      BY <1>1, <2>1 DEF Passing
    <3> QED BY <3>1 DEF Keeps, Covered, Marked
  <2>2. CASE Finding(e)
    BY <1>1, <2>2, CoveredFind, FindKeeps DEF Keeps
  <2> QED BY <2>1, <2>2
<1>5. e \in always => Covered(n, NewDepth)'
  <2>1. CASE Finding(e)
    BY <1>1, <1>2, <1>3, <2>1, CoveredFind
  <2>2. CASE Passing(e) /\ e \in always
    <3>1. ~Fresh(n) /\ (n \in found \/ (query.op # "impact" /\ n \in Marked))
      BY <2>2 DEF Passing, RoundInv
    <3>2. n \in Marked
      BY <3>1 DEF Fresh, Shorter
    <3>3. best[n] \in Nat /\ depth \in Nat /\ pass \in {"members", "around"}
          /\ (pass = "members" => query.op = "impact")
      BY <3>2 DEF WalkTypeOK, LocalTypeOK, Base, HandInv
    <3>4. best[n] <= NewDepth
      <4>1. CASE query.op = "impact"
        BY <1>3, <3>1, <3>2, <3>3, <4>1 DEF Fresh, Shorter
      <4>2. CASE query.op = "bfs"
        <5>1. best[n] <= depth
          BY <1>3, <3>2, <4>2 DEF Base, OrderInv
        <5> QED BY <3>3, <5>1 DEF NewDepth
      <4>3. CASE query.op = "path"
        BY <1>3, <3>2, <3>3, <4>3 DEF Base, OrderInv, NewDepth
      <4>4. CASE Layered
        BY <1>3, <3>2, <3>3, <4>4 DEF Base, HandInv, Underway, NewDepth
      <4> QED BY <4>1, <4>2, <4>3, <4>4, Directions
    <3>5. Covered(n, NewDepth)
      BY <3>2, <3>4 DEF Covered
    <3> QED BY <1>2, <1>3, <1>4, <3>5 DEF Keeps, Covered
  <2> QED BY <2>1, <2>2
<1>6. \A m : Covered(m, NewDepth) => Covered(m, NewDepth)'
  BY <1>3, <1>4 DEF Keeps, Covered
<1>7. ASSUME NEW f \in always, Adjacent(f) PROVE f \in todo' \/ Covered(Beyond(f), NewDepth)'
  <2>1. CASE f = e
    BY <1>5, <1>7, <2>1
  <2>2. CASE f # e
    <3>1. f \in todo' \/ Covered(Beyond(f), NewDepth)
      BY <1>1, <1>7, <2>2 DEF RoundInv
    <3> QED BY <1>2, <1>3, <1>6, <3>1 DEF Covered
  <2> QED BY <2>1, <2>2
<1>8. \A f \in todo' \cap always : Beyond(f) \in found \/ (query.op # "impact" /\ Beyond(f) \in Marked')
  BY <1>1, <1>4 DEF RoundInv
<1> HIDE DEF n
<1> QED BY <1>1, <1>2, <1>7, <1>8 DEF RoundInv

\* Every step of a walk.
LEMMA RoundWalk ==
  ASSUME WalkTypeOK, Base, RoundInv, Walk
  PROVE  RoundInv'
<1>1. Frame
  BY WalkKeeps DEF Frame
<1>2. CASE BeginLayers \/ Begin \/ FindGoal \/ Finish \/ Abandon \/ Take \/ EndPass
  <2>1. at' \notin {"both", "nodes", "add"}
    <3>1. CASE Take
      <4>1. at = "loop" /\ at' \in {at, "edges"}
        BY <3>1, TakeCases DEF Dropping, Marking, Opening, Popped
      <4> QED BY <4>1
    <3>2. CASE ~Take
      BY <1>2, <3>2 DEF BeginLayers, Begin, FindGoal, Finish, Abandon, EndPass, Return
    <3> QED BY <3>1, <3>2
  <2> QED BY <2>1 DEF RoundInv
<1>3. CASE Add
  <2>1. PICK e \in todo : Passing(e) \/ Ending(e) \/ Finding(e)
    BY <1>3, AddCases
  <2>2. at = "add"
    BY <1>3, AddCases
  <2>3. CASE Ending(e)
    BY <2>3, DoneReturn DEF Ending
  <2> QED BY <1>1, <2>1, <2>2, <2>3, RoundAdd
<1> QED BY <1>1, <1>2, <1>3, RoundRead DEF Walk

\* Commits leave fewer edges to account for.
LEMMA DoneKept ==
  ASSUME DoneInv, RoundInv, UNCHANGED walkVars, UNCHANGED dbVars \/ Commit
  PROVE  DoneInv' /\ RoundInv'
<1>1. /\ UNCHANGED <<query, at, pass, queue, front, depth, best, todo, found>> /\ always' \subseteq always
  BY DEF walkVars, localVars, dbVars, Commit
<1>2. Marked' = Marked /\ Members(always)' \subseteq Members(always) /\ Hops(always)' \subseteq Hops(always)
  BY <1>1, HopsKept DEF Marked
<1>3. DoneInv'
  BY <1>1, <1>2 DEF DoneInv, Underway, InRound, Covered, Pending, Layered, Expands, Expanded, MembersDone, HopsDone
<1>4. /\ \A e : Adjacent(e)' = Adjacent(e) /\ Beyond(e)' = Beyond(e)
      /\ Kinds' = Kinds /\ NewDepth' = NewDepth
  BY <1>1 DEF Adjacent, Beyond, Kinds, Direction, Layered, NewDepth
<1>5. \A n : Covered(n, NewDepth)' = Covered(n, NewDepth)
  BY <1>1, <1>2, <1>4 DEF Covered
<1>6. RoundInv'
  BY <1>1, <1>2, <1>4, <1>5 DEF RoundInv, Covered
<1> QED BY <1>3, <1>6

-----------------------------------------------------------------------------
(* A walk that ends has found what it should                                 *)

\* A walk that is not cut short leaves no entry waiting.
LEMMA FinishEmpties ==
  ASSUME WalkTypeOK, Base, Finish, ~CutShort
  PROVE  queue = <<>>
<1>1. at = "loop" /\ ~More
  BY DEF Finish
<1>2. CASE Layered
  BY <1>1, <1>2 DEF Base, HandInv, Underway
<1>3. CASE ~Layered
  <2>1. nodes \subseteq Node /\ query.limit \in Nat
    BY DEF WalkTypeOK, Query
  <2>2. IsFiniteSet(nodes)
    BY <2>1, TraversalAssumption, FS_Subset
  <2>3. Cardinality(nodes) \in Nat
    BY <2>2, FS_CardinalityType
  <2> QED BY <1>1, <1>3, <2>1, <2>3 DEF More, CutShort
<1> QED BY <1>2, <1>3

\* The walk is over when nothing is left to expand within the asked depth.
LEMMA FinishBounded ==
  ASSUME WalkTypeOK, Base, SoundInv, DoneInv, Finish
  PROVE  Bounded'
<1>1. /\ at = "loop" /\ ~More /\ nodes' = nodes /\ query' = query /\ Frame
  BY DEF Finish, Return, Frame
<1>2. Within(ever, query.depth)' = Within(ever, query.depth) /\ Within(always, query.depth)' = Within(always, query.depth)
  BY <1>1, NearKept
<1>3. SUFFICES ASSUME query.op # "path"
               PROVE  /\ nodes \subseteq Within(ever, query.depth)
                      /\ CutShort \/ Within(always, query.depth) \subseteq nodes \cup {query.start}
  BY <1>1, <1>2 DEF Bounded, CutShort, Answered
<1>4. Underway /\ ~InRound
  BY <1>1 DEF Underway, InRound
<1>5. nodes \subseteq Within(ever, query.depth)
  BY <1>3, <1>4 DEF SoundInv
<1>6. SUFFICES ASSUME ~CutShort PROVE Within(always, query.depth) \subseteq nodes \cup {query.start}
  BY <1>5
<1>7. /\ best \in [Marked -> Nat] /\ Marked \subseteq Node /\ depth \in Nat /\ query.depth \in Nat
      /\ query.start \in Node /\ query.limit \in Nat /\ always \subseteq Edge /\ nodes \subseteq Node
  BY DEF WalkTypeOK, DbTypeOK, LocalTypeOK, Query
<1>8. queue = <<>>
  BY <1>6, FinishEmpties
<1>9. \A n, d : Covered(n, d) => n \in Marked /\ best[n] <= d
  BY <1>8 DEF Covered
<1>10. query.start \in Marked /\ best[query.start] = 0
  <2>1. query.start \in Marked /\ best[query.start] <= 0
    BY <1>4, <1>9 DEF DoneInv
  <2> QED BY <1>7, <2>1
<1>11. ASSUME NEW n \in Marked, best[n] < query.depth PROVE Expanded(n)
  <2>1. ~Pending(n)
    <3>1. CASE Layered
      <4>1. best[n] <= depth /\ front = {m \in Marked : best[m] = depth}
        BY <1>1, <1>4, <3>1 DEF Base, HandInv
      <4>2. depth >= query.depth \/ front = {}
        BY <1>1, <1>7, <3>1 DEF More
      <4>3. ~(best[n] >= depth)
        <5>1. best[n] \in Nat
          BY <1>7
        <5> QED BY <1>7, <1>11, <4>1, <4>2, <5>1
      <4> QED BY <1>4, <1>8, <4>3 DEF Pending
    <3>2. CASE ~Layered
      BY <1>4, <1>8, <3>2 DEF Pending
    <3> QED BY <3>1, <3>2
  <2> QED BY <1>11, <2>1 DEF DoneInv, Expands
<1>12. Within(always, query.depth) \subseteq Marked
  <2> DEFINE H == Hops(always)
             M == Members(always)
             s == query.start
             d == query.depth
             D == Marked
             b == best
  <2>1. H \in Relations /\ M \in Relations
    BY <1>7, HopsRelate
  <2>2. s \in Node /\ d \in Nat /\ D \in SUBSET Node /\ b \in [D -> Nat] /\ s \in D /\ b[s] = 0
    BY <1>7, <1>10
  <2>3. \A n \in D : b[n] < d =>
           /\ \A m \in Node : <<n, m>> \in H => m \in D /\ b[m] <= b[n] + 1
           /\ \A m \in Node : <<n, m>> \in M => m \in D /\ b[m] <= b[n]
    BY <1>9, <1>11 DEF Expanded, HopsDone, MembersDone
  <2>4. Within(always, query.depth) = Reach(H, M, s, d)
    BY DEF Within
  <2> HIDE DEF H, M, s, d, D, b
  <2>5. Reach(H, M, s, d) \subseteq D
    BY <2>1, <2>2, <2>3, ReachLeast
  <2> QED BY <2>4, <2>5 DEF D
<1>13. Marked \subseteq nodes \cup {query.start}
  BY <1>4 DEF Base, HandInv
<1> QED BY <1>12, <1>13

\* Only the end of its loop, or a path, ends a walk with an answer.
LEMMA WalkAnswers ==
  ASSUME WalkTypeOK, Base, Walk
  PROVE  Finish \/ ~Answered' \/ query'.op = "path"
<1>1. query' = query
  BY WalkKeeps
<1>2. CASE Begin
  BY <1>2, BeginCases DEF Base, Answered
<1>3. CASE Abandon
  BY <1>3 DEF Abandon, Return, Answered
<1>4. CASE FindGoal
  BY <1>1, <1>4 DEF FindGoal, Base, BlankInv
<1>5. CASE Add
  <2>1. at = "add" /\ \E e \in todo : Passing(e) \/ Ending(e) \/ Finding(e)
    BY <1>5, AddCases
  <2>2. at' # "done" \/ query.op = "path"
    BY <2>1 DEF Passing, Ending, Finding
  <2> QED BY <1>1, <2>2 DEF Answered
<1>6. CASE Take
  <2>1. at = "loop" /\ at' \in {at, "edges"}
    BY <1>6, TakeCases DEF Dropping, Marking, Opening, Popped
  <2> QED BY <2>1 DEF Answered
<1>7. CASE BeginLayers \/ TakeLayer \/ ReadEdges \/ ReadIncoming \/ ReadNodes \/ EndPass
  BY <1>7 DEF BeginLayers, TakeLayer, ReadEdges, ReadIncoming, ReadNodes, EndPass, Answered
<1> QED BY <1>2, <1>3, <1>4, <1>5, <1>6, <1>7 DEF Walk

\* The answer is within its bounds when the walk ends.
LEMMA BoundedWalk ==
  ASSUME WalkTypeOK, Base, SoundInv, DoneInv, Walk
  PROVE  Bounded'
<1>1. CASE Finish
  BY <1>1, FinishBounded
<1>2. CASE ~Answered' \/ query'.op = "path"
  BY <1>2 DEF Bounded
<1> QED BY <1>1, <1>2, WalkAnswers

\* Commits leave fewer hops that were there throughout.
LEMMA AlwaysShrinks ==
  ASSUME WalkTypeOK, query' = query, always' \subseteq always, NEW d \in Nat
  PROVE  Within(always, d)' \subseteq Within(always, d)
<1> DEFINE s == query.start
           H2 == Hops(always)'
           M2 == Members(always)'
           H1 == Hops(always)
           M1 == Members(always)
<1>1. Within(always, d)' = Reach(H2, M2, s, d) /\ Within(always, d) = Reach(H1, M1, s, d)
  BY DEF Within
<1>2. H2 \in SUBSET H1 /\ M2 \in SUBSET M1
  BY HopsKept
<1>3. H1 \in Relations /\ M1 \in Relations /\ s \in Node
  BY HopsRelate DEF WalkTypeOK, DbTypeOK, Query
<1> HIDE DEF s, H1, H2, M1, M2
<1> QED BY <1>1, <1>2, <1>3, ReachGrows

\* An answer within its bounds stays so, whatever is committed before it is sent.
LEMMA BoundedKept ==
  ASSUME WalkTypeOK, WalkTypeOK', Bounded, UNCHANGED walkVars, UNCHANGED dbVars \/ Commit
  PROVE  Bounded'
<1>1. UNCHANGED <<query, at, outcome, nodes>>
  BY DEF walkVars
<1>2. ever \subseteq ever' /\ always' \subseteq always
  BY DEF dbVars, Commit
<1>3. ever' \subseteq Edge /\ always \subseteq Edge /\ query.start \in Node /\ query.depth \in Nat
  BY DEF WalkTypeOK, DbTypeOK, Query
<1>4. /\ Hops(ever) \subseteq Hops(ever)' /\ Members(ever) \subseteq Members(ever)'
      /\ Hops(always)' \subseteq Hops(always) /\ Members(always)' \subseteq Members(always)
      /\ Hops(ever)' \in Relations /\ Members(ever)' \in Relations
      /\ Hops(always) \in Relations /\ Members(always) \in Relations
  <2>1. Hops(ever') \in Relations /\ Members(ever') \in Relations /\ Hops(always) \in Relations /\ Members(always) \in Relations
    BY <1>3, HopsRelate
  <2>2. Hops(ever)' = Hops(ever') /\ Members(ever)' = Members(ever')
    BY <1>1 DEF Hops, Members, Kinds, Direction, Layered
  <2> QED BY <1>1, <1>2, <2>1, <2>2, HopsKept
<1>5. Within(ever, query.depth) \subseteq Within(ever, query.depth)'
  <2> DEFINE s == query.start
             d == query.depth
             H2 == Hops(ever)'
             M2 == Members(ever)'
             H1 == Hops(ever)
             M1 == Members(ever)
  <2>1. Within(ever, query.depth)' = Reach(H2, M2, s, d) /\ Within(ever, query.depth) = Reach(H1, M1, s, d)
    BY <1>1 DEF Within
  <2>2. H1 \in SUBSET H2 /\ M1 \in SUBSET M2 /\ H2 \in Relations /\ M2 \in Relations /\ s \in Node /\ d \in Nat
    BY <1>3, <1>4
  <2> HIDE DEF s, d, H1, H2, M1, M2
  <2> QED BY <2>1, <2>2, ReachGrows
<1>6. Within(always, query.depth)' \subseteq Within(always, query.depth)
  BY <1>1, <1>2, <1>3, AlwaysShrinks
<1> QED BY <1>1, <1>5, <1>6 DEF Bounded, Answered, CutShort

-----------------------------------------------------------------------------
(* A subgraph is one piece                                                   *)

Ends(L) == {<<e.src, e.dst>> : e \in L} \cup {<<e.dst, e.src>> : e \in L}

\* Edges L tie the nodes S to the root s, one edge for each but the root.
Tree(s, L, S) ==
  /\ \A e \in L : e.src \in S /\ e.dst \in S
  /\ \A T \in SUBSET Node : s \in T /\ Image(Ends(L), T) \subseteq T => S \subseteq T
  /\ IsFiniteSet(L) /\ Cardinality(L) = Cardinality(S \ {s})

\* An edge from one node to another, whichever way it points.
Ties(e, x, n) == (e.src = x /\ e.dst = n) \/ (e.dst = x /\ e.src = n)

\* A node that is not there yet, tied to one that is, makes a larger tree.
LEMMA TreeGrows ==
  ASSUME NEW S \in SUBSET Node, NEW s \in S, NEW L \in SUBSET Edge, Tree(s, L, S),
         NEW x \in S, NEW n \in Node \ S, NEW e \in Edge, Ties(e, x, n)
  PROVE  Tree(s, L \cup {e}, S \cup {n})
<1>1. /\ \A f \in L : f.src \in S /\ f.dst \in S
      /\ \A T \in SUBSET Node : s \in T /\ Image(Ends(L), T) \subseteq T => S \subseteq T
      /\ IsFiniteSet(L) /\ Cardinality(L) = Cardinality(S \ {s})
  BY DEF Tree
<1>2. \A f \in L \cup {e} : f.src \in S \cup {n} /\ f.dst \in S \cup {n}
  BY <1>1 DEF Ties
<1>3. ASSUME NEW T \in SUBSET Node, s \in T, Image(Ends(L \cup {e}), T) \subseteq T
      PROVE  S \cup {n} \subseteq T
  <2>1. Image(Ends(L), T) \subseteq Image(Ends(L \cup {e}), T)
    BY DEF Image, Ends
  <2>2. x \in T
    BY <1>1, <1>3, <2>1
  <2>3. <<x, n>> \in Ends(L \cup {e})
    BY DEF Ends, Ties
  <2>4. n \in Image(Ends(L \cup {e}), T)
    BY <2>2, <2>3 DEF Image
  <2> QED BY <1>1, <1>3, <2>1, <2>4
<1>4. e \notin L
  BY <1>1 DEF Ties
<1>5. IsFiniteSet(L \cup {e}) /\ Cardinality(L \cup {e}) = Cardinality(L) + 1
  BY <1>1, <1>4, FS_AddElement
<1>6. Cardinality((S \cup {n}) \ {s}) = Cardinality(S \ {s}) + 1
  <2>1. (S \cup {n}) \ {s} = (S \ {s}) \cup {n} /\ n \notin S \ {s}
    OBVIOUS
  <2>2. IsFiniteSet(S \ {s})
    BY TraversalAssumption, FS_Subset
  <2> QED BY <2>1, <2>2, FS_AddElement
<1> QED BY <1>1, <1>2, <1>3, <1>5, <1>6 DEF Tree

\* The root alone.
LEMMA TreeStarts ==
  ASSUME NEW s \in Node
  PROVE  Tree(s, {}, {s}) /\ Tree(s, {}, {})
<1>1. IsFiniteSet({}) /\ Cardinality({}) = 0
  BY FS_EmptySet
<1>2. {s} \ {s} = {} /\ {} \ {s} = {}
  OBVIOUS
<1> QED BY <1>1, <1>2 DEF Tree

\* What the edges of a tree reach from its root is the tree.
LEMMA TreeReaches ==
  ASSUME NEW S \in SUBSET Node, NEW s \in S, NEW L \in SUBSET Edge, Tree(s, L, S),
         NEW N \in SUBSET Node, N \cup {s} = S
  PROVE  Spreads(Ends(L), {s}, Cardinality(N))[Cardinality(N)] = S
<1> DEFINE R == Ends(L)
           n == Cardinality(N)
           P == Spreads(R, {s}, n)[n]
<1>1. R \in Relations
  BY DEF Relations, Ends, Edge
<1>2. Image(R, S) \subseteq S
  BY DEF Tree, Image, Ends
<1>3. IsFiniteSet(N) /\ n \in Nat
  BY TraversalAssumption, FS_Subset, FS_CardinalityType
<1>4. Cardinality({s}) = 1 /\ Cardinality(S) <= 1 + n
  <2>1. Cardinality({s}) = 1
    BY FS_Singleton
  <2>2. CASE s \in N
    BY <1>3, <2>1, <2>2
  <2>3. CASE s \notin N
    <3>1. S = N \cup {s}
      OBVIOUS
    <3>2. Cardinality(N \cup {s}) = n + 1
      BY <1>3, <2>3, FS_AddElement
    <3> QED BY <1>3, <2>1, <3>1, <3>2
  <2> QED BY <2>1, <2>2, <2>3
<1>5. P \subseteq S /\ s \in P
  <2>1. \A k \in 0..n : {s} \subseteq Spreads(R, {s}, n)[k] /\ Spreads(R, {s}, n)[k] \subseteq S
    <3> DEFINE Z == {s}
    <3>1. Z \in SUBSET Node /\ Z \subseteq S
      OBVIOUS
    <3> HIDE DEF R, n, Z
    <3>2. \A k \in 0..n : Z \subseteq Spreads(R, Z, n)[k] /\ Spreads(R, Z, n)[k] \subseteq S
      BY <1>1, <1>2, <1>3, <3>1, SpreadsLeast
    <3> QED BY <3>2 DEF Z
  <2> QED BY <1>3, <2>1
<1>6. Image(R, P) \subseteq P
  <2> HIDE DEF R, n
  <2> QED BY <1>1, <1>2, <1>3, <1>4, SpreadsClosed
<1>7. S \subseteq P
  <2>1. P \in SUBSET Node
    BY <1>5
  <2> HIDE DEF P
  <2> QED BY <1>5, <1>6, <2>1 DEF Tree
<1> QED BY <1>5, <1>7

-----------------------------------------------------------------------------

\* The root is marked, but for a bfs that has not taken it yet.
Rooted ==
  \/ query.start \in Marked
  \/ query.op = "bfs" /\ at = "loop" /\ Marked = {} /\ queue = <<Entry0>>

\* An entry of a bfs hangs on a stored edge from a marked node.
Hangs(entry) ==
  \/ entry = Entry0
  \/ \E e \in ever : entry.link = {e} /\ \E x \in Marked : Ties(e, x, entry.node)

TreeInv ==
  Underway /\ query.op # "path" =>
    /\ links \subseteq ever
    /\ Tree(query.start, links, Marked)
    /\ Rooted
    /\ query.op = "bfs" => \A i \in DOMAIN queue : Hangs(queue[i])

\* An edge that a round follows ties one of its nodes to the one beyond.
LEMMA AdjacentTies ==
  ASSUME WalkTypeOK, NEW e, Adjacent(e)
  PROVE  \E x \in front : Ties(e, x, Beyond(e))
<1>1. Direction \in {"outgoing", "incoming", "both"}
  BY Directions
<1> QED BY <1>1 DEF Adjacent, Beyond, Ties

\* Taking an entry ties its node to the rest.
LEMMA TreeTake ==
  ASSUME WalkTypeOK, Base, TreeInv, Take, query.op # "path"
  PROVE  TreeInv'
<1> DEFINE x == Head(queue)
<1>1. Dropping \/ Marking \/ Opening
  BY TakeCases
<1>2. Popped /\ Frame /\ at = "loop" /\ ~Layered /\ queue # <<>> /\ queue' = Tail(queue) /\ query' = query /\ ever' = ever
  BY <1>1 DEF Dropping, Marking, Opening, Popped, Frame, dbVars
<1>3. queue \in Seq(Item) /\ best \in [Marked -> Nat] /\ Marked \subseteq Node /\ links \subseteq Edge /\ query.start \in Node
      /\ ever \subseteq Edge
  BY DEF WalkTypeOK, DbTypeOK, LocalTypeOK, Item, Query
<1>4. /\ x \in Item /\ queue[1] = x /\ 1 \in DOMAIN queue
      /\ \A i \in DOMAIN queue' : i + 1 \in DOMAIN queue /\ queue'[i] = queue[i+1]
  BY <1>2, <1>3, TakenPlaces
<1>5. /\ links \subseteq ever /\ Tree(query.start, links, Marked) /\ Rooted
      /\ query.op = "bfs" => \A i \in DOMAIN queue : Hangs(queue[i])
  BY <1>2 DEF TreeInv, Underway
<1>6. query.op = "bfs" => Hangs(x) /\ \A i \in DOMAIN queue' : Hangs(queue'[i])
  BY <1>4, <1>5
<1>7. \A m \in Marked : m \in Marked'
  <2>1. CASE Noting
    BY <2>1 DEF Noting, Mark, Marked
  <2>2. CASE ~Noting
    BY <1>1, <2>2 DEF Dropping, Marking, Opening, Marked
  <2> QED BY <2>1, <2>2
<1>8. query.op = "bfs" => \A i \in DOMAIN queue' : Hangs(queue[i])'
  BY <1>2, <1>6, <1>7 DEF Hangs, Entry0
<1>9. CASE Noting
  <2>1. /\ query.op = "bfs" /\ x.node \notin Marked /\ Marked' = Marked \cup {x.node} /\ links' = links \cup x.link
    BY <1>9 DEF Noting, Mark, Marked
  <2> HIDE DEF x
  <2>2. CASE query.start \notin Marked
    <3>1. Marked = {} /\ x = Entry0
      BY <1>4, <1>5, <2>2 DEF Rooted, x
    <3>2. x.node = query.start /\ x.link = {}
      BY <3>1 DEF Entry0
    <3>3. \A e \in links : FALSE
      BY <1>5, <3>1 DEF Tree
    <3>4. Marked' = {query.start} /\ links' = {}
      BY <2>1, <3>1, <3>2, <3>3
    <3> QED BY <1>2, <1>3, <1>8, <3>4, TreeStarts DEF TreeInv, Rooted
  <2>3. CASE query.start \in Marked
    <3>1. x # Entry0
      BY <2>1, <2>3 DEF Entry0
    <3>2. PICK e \in ever, y \in Marked : x.link = {e} /\ Ties(e, y, x.node)
      BY <1>6, <2>1, <3>1 DEF Hangs
    <3>3. x.node \in Node
      BY <1>4 DEF Item
    <3>4. Tree(query.start, links \cup {e}, Marked \cup {x.node})
      BY <1>3, <1>5, <2>1, <2>3, <3>2, <3>3, TreeGrows
    <3>5. links' = links \cup {e} /\ links' \subseteq ever /\ query.start \in Marked'
      BY <1>5, <2>1, <2>3, <3>2
    <3> QED BY <1>2, <1>8, <2>1, <3>4, <3>5 DEF TreeInv, Rooted
  <2> QED BY <2>2, <2>3
<1>10. CASE ~Noting
  <2>1. best' = best /\ links' = links /\ Marked' = Marked
    BY <1>1, <1>10 DEF Dropping, Marking, Opening, Marked
  <2>2. query.start \in Marked
    <3>1. CASE query.op # "bfs"
      BY <1>5, <3>1 DEF Rooted
    <3>2. CASE query.op = "bfs"
      <4>1. Stale(x)
        BY <1>1, <1>10, <3>2 DEF Dropping, Marking, Opening
      <4> QED BY <1>5, <3>2, <4>1 DEF Stale, Rooted
    <3> QED BY <3>1, <3>2
  <2> QED BY <1>2, <1>5, <1>8, <2>1, <2>2 DEF TreeInv, Rooted
<1> QED BY <1>9, <1>10

\* Finding a node ties it to the node it was found from.
LEMMA TreeFind ==
  ASSUME WalkTypeOK, Base, DoneInv, TreeInv, at = "add", Frame, NEW e \in todo, Finding(e), query.op # "path"
  PROVE  TreeInv'
<1> DEFINE n == Beyond(e)
<1>1. /\ Fresh(n) /\ nodes' = nodes \cup {n} /\ links' = Linked(n, e)
      /\ best' = (IF query.op = "bfs" THEN best ELSE Mark(n, NewDepth)) /\ queue' = Push(n, e)
      /\ at' = at /\ query' = query /\ ever' = ever
  BY DEF Finding, Frame, dbVars
<1>2. /\ queue \in Seq(Item) /\ best \in [Marked -> Nat] /\ Marked \subseteq Node /\ links \subseteq Edge
      /\ depth \in Nat /\ e \in Edge /\ query.start \in Node
  BY DEF WalkTypeOK, LocalTypeOK, Item, Query
<1>3. InRound /\ Underway /\ Underway' /\ n \in Node /\ NewDepth \in Nat
  BY <1>1, FindKeeps DEF InRound, Underway
<1>4. e \in ever /\ Adjacent(e) /\ front \subseteq Marked
      /\ nodes \cup {query.start} = Marked \cup Queued \cup {query.start}
  BY <1>3 DEF Base, HandInv
<1>5. PICK x \in Marked : Ties(e, x, n)
  BY <1>4, AdjacentTies
<1>6. /\ links \subseteq ever /\ Tree(query.start, links, Marked) /\ query.start \in Marked
      /\ query.op = "bfs" => \A i \in DOMAIN queue : Hangs(queue[i])
  BY <1>3 DEF TreeInv, Rooted, InRound
<1> HIDE DEF n
<1>7. CASE query.op = "bfs"
  <2>1. links' = links /\ Marked' = Marked
    BY <1>1, <1>7 DEF Linked, Marked
  <2>2. Hangs(Entry(n, e))
    BY <1>4, <1>5, <1>7 DEF Hangs, Entry
  <2>3. queue' = Append(queue, Entry(n, e)) \/ queue' = <<Entry(n, e)>> \o queue \/ queue' = queue
    BY <1>1 DEF Push
  <2>4. Entry(n, e) \in Item
    BY <1>2, <1>3 DEF Entry, Item
  <2>5. \A i \in DOMAIN queue' : queue'[i] = Entry(n, e) \/ \E j \in DOMAIN queue : queue'[i] = queue[j]
    <3> DEFINE y == Entry(n, e)
    <3> HIDE DEF y
    <3>1. y \in Item /\ (queue' = Append(queue, y) \/ queue' = <<y>> \o queue \/ queue' = queue)
      BY <2>3, <2>4 DEF y
    <3>2. CASE queue' = Append(queue, y)
      BY <1>2, <3>1, <3>2, AddedPlaces DEF y
    <3>3. CASE queue' = <<y>> \o queue
      BY <1>2, <3>1, <3>3, FirstPlaces DEF y
    <3> QED BY <3>1, <3>2, <3>3
  <2>6. \A i \in DOMAIN queue' : Hangs(queue'[i])
    BY <1>6, <1>7, <2>2, <2>5
  <2>7. \A i \in DOMAIN queue' : Hangs(queue[i])'
    BY <1>1, <2>1, <2>6 DEF Hangs, Entry0
  <2> QED BY <1>1, <1>6, <2>1, <2>7 DEF TreeInv, Rooted
<1>8. CASE query.op # "bfs" /\ n \in Marked
  <2>1. query.op = "impact" /\ NewDepth < best[n] /\ best[n] \in Nat
    BY <1>1, <1>2, <1>8 DEF Fresh, Shorter
  <2>2. n # query.start
    <3>1. best[query.start] <= 0
      BY <1>3, <1>8 DEF DoneInv, Covered
    <3> QED BY <1>3, <2>1, <3>1
  <2>3. n \in nodes
    <3>1. Queued \subseteq Marked
      BY <2>1 DEF Base, OrderInv, Queued
    <3> QED BY <1>4, <1>8, <2>2, <3>1
  <2>4. links' = links /\ Marked' = Marked
    BY <1>1, <1>8, <2>1, <2>3 DEF Linked, Mark, Marked
  <2> QED BY <1>1, <1>6, <2>1, <2>4 DEF TreeInv, Rooted
<1>9. CASE query.op # "bfs" /\ n \notin Marked
  <2>1. query.op = "impact" => n \notin nodes
    <3>1. query.op = "impact" => Queued \subseteq Marked
      BY DEF Base, OrderInv, Queued
    <3> QED BY <1>4, <1>6, <1>9, <3>1
  <2>2. links' = links \cup {e} /\ Marked' = Marked \cup {n}
    BY <1>1, <1>9, <2>1 DEF Linked, Mark, Marked
  <2>3. Tree(query.start, links \cup {e}, Marked \cup {n})
    BY <1>2, <1>3, <1>5, <1>6, <1>9, TreeGrows
  <2> QED BY <1>1, <1>4, <1>6, <1>9, <2>2, <2>3 DEF TreeInv, Rooted
<1> QED BY <1>7, <1>8, <1>9

\* Every step of a walk.
LEMMA TreeWalk ==
  ASSUME WalkTypeOK, Base, DoneInv, TreeInv, Walk
  PROVE  TreeInv'
<1>1. Frame /\ query' = query /\ ever' = ever
  BY WalkKeeps DEF Frame, dbVars
<1>2. SUFFICES ASSUME query.op # "path", Underway' PROVE TreeInv'
  BY <1>1 DEF TreeInv
<1>3. query.start \in Node
  BY DEF WalkTypeOK, Query
<1>4. CASE BeginLayers
  <2>1. at = "start" /\ Layered /\ links' = links /\ Marked' = {query.start}
    BY <1>4 DEF BeginLayers, Marked
  <2>2. links = {}
    BY <2>1 DEF Base, BlankInv
  <2> QED BY <1>1, <1>3, <2>1, <2>2, TreeStarts DEF TreeInv, Rooted, Layered
<1>5. CASE Begin
  <2>1. /\ queue' = <<Entry0>> /\ links' = {} /\ at' = "loop"
        /\ query.op = "bfs" => Marked' = {}
        /\ query.op # "bfs" => best' = [n \in {query.start} |-> 0]
    BY <1>2, <1>5, BeginCases DEF Base, Underway, InRound, Return
  <2>2. query.op # "bfs" => Marked' = {query.start}
    BY <2>1 DEF Marked
  <2>3. DOMAIN queue' = {1} /\ queue'[1] = Entry0 /\ Entry0' = Entry0
    BY <1>1, <2>1 DEF Entry0
  <2>4. \A i \in DOMAIN queue' : Hangs(queue[i])'
    BY <2>3 DEF Hangs
  <2>5. Tree(query.start, links', Marked')
    BY <1>3, <2>1, <2>2, TreeStarts
  <2> QED BY <1>1, <2>1, <2>2, <2>3, <2>4, <2>5 DEF TreeInv, Rooted
<1>6. CASE FindGoal \/ Finish \/ Abandon
  <2>1. FindGoal => query.op = "path"
    BY DEF FindGoal, Base, BlankInv
  <2>2. Finish \/ Abandon => at' = "done"
    BY DEF Finish, Abandon, Return
  <2> QED BY <1>2, <1>6, <2>1, <2>2 DEF Underway, InRound
<1>7. CASE TakeLayer \/ ReadEdges \/ ReadIncoming \/ ReadNodes \/ EndPass
  <2>1. UNCHANGED <<queue, links, best>> /\ Underway
    BY <1>7 DEF TakeLayer, ReadEdges, ReadIncoming, ReadNodes, EndPass, localVars, Underway, InRound
  <2>2. query.op = "bfs" => at # "loop"
    BY <1>7 DEF TakeLayer, ReadEdges, ReadIncoming, ReadNodes, EndPass, Layered
  <2>3. Marked' = Marked /\ \A i \in DOMAIN queue : Hangs(queue[i])' = Hangs(queue[i])
    BY <1>1, <2>1 DEF Marked, Hangs, Entry0
  <2> QED BY <1>1, <1>2, <2>1, <2>2, <2>3 DEF TreeInv, Rooted
<1>8. CASE Add
  <2>1. PICK e \in todo : Passing(e) \/ Ending(e) \/ Finding(e)
    BY <1>8, AddCases
  <2>2. at = "add"
    BY <1>8, AddCases
  <2>3. CASE Passing(e)
    <3>1. UNCHANGED <<at, queue, links, best>> /\ Underway
      BY <2>2, <2>3 DEF Passing, Underway, InRound
    <3>2. Marked' = Marked /\ \A i \in DOMAIN queue : Hangs(queue[i])' = Hangs(queue[i])
      BY <1>1, <3>1 DEF Marked, Hangs, Entry0
    <3> QED BY <1>1, <1>2, <3>1, <3>2 DEF TreeInv, Rooted, Entry0
  <2>4. CASE Ending(e)
    BY <1>2, <2>4 DEF Ending
  <2>5. CASE Finding(e)
    BY <1>1, <1>2, <2>2, <2>5, TreeFind
  <2> QED BY <2>1, <2>3, <2>4, <2>5
<1>9. CASE Take
  BY <1>2, <1>9, TreeTake
<1> QED BY <1>4, <1>5, <1>6, <1>7, <1>8, <1>9 DEF Walk

\* A subgraph that is returned whole is a tree.
LEMMA FinishOnePiece ==
  ASSUME WalkTypeOK, Base, TreeInv, Finish
  PROVE  OnePiece'
<1>1. at = "loop" /\ nodes' = nodes /\ links' = links /\ query' = query /\ ever' = ever
  BY DEF Finish, Return, dbVars
<1>2. SUFFICES ASSUME query.op # "path", ~CutShort PROVE OnePiece'
  BY <1>1 DEF OnePiece, CutShort, Answered
<1>3. queue = <<>>
  BY <1>2, FinishEmpties
<1>4. links \subseteq ever /\ Tree(query.start, links, Marked) /\ query.start \in Marked
  BY <1>1, <1>2, <1>3 DEF TreeInv, Underway, Rooted
<1>5. nodes \cup {query.start} = Marked
  BY <1>1, <1>3, <1>4 DEF Base, HandInv, Underway, Queued
<1>6. nodes \in SUBSET Node /\ Marked \in SUBSET Node /\ links \in SUBSET Edge
  BY DEF WalkTypeOK, LocalTypeOK
<1>7. Spreads(Ends(links), {query.start}, Cardinality(nodes))[Cardinality(nodes)] = Marked
  BY <1>4, <1>5, <1>6, TreeReaches
<1>8. Marked \ {query.start} = nodes \ {query.start}
  BY <1>5
<1>9. Cardinality(links) = Cardinality(nodes \ {query.start})
  BY <1>4, <1>8 DEF Tree
<1> QED BY <1>1, <1>4, <1>5, <1>7, <1>9 DEF OnePiece, Ends

\* A step of a walk that ends it with an answer is its last.
LEMMA OnePieceWalk ==
  ASSUME WalkTypeOK, Base, TreeInv, Walk
  PROVE  OnePiece'
<1>1. Finish \/ ~Answered' \/ query'.op = "path"
  BY WalkAnswers
<1>2. CASE ~Answered' \/ query'.op = "path"
  BY <1>2 DEF OnePiece
<1> QED BY <1>1, <1>2, FinishOnePiece

\* An answer stays one piece, whatever is committed before it is sent.
LEMMA OnePieceKept ==
  ASSUME OnePiece, UNCHANGED walkVars, UNCHANGED dbVars \/ Commit
  PROVE  OnePiece'
<1>1. UNCHANGED <<query, at, outcome, nodes, links>> /\ ever \subseteq ever'
  BY DEF walkVars, dbVars, Commit
<1> QED BY <1>1 DEF OnePiece, Answered, CutShort

-----------------------------------------------------------------------------
(* A path that is found                                                      *)

\* Onward is what its recursion says.
LEMMA OnwardSteps ==
  ASSUME NEW R \in Relations, NEW S \in SUBSET Node, NEW n \in Nat
  PROVE  /\ Onward(R, S, n) \in [0..n -> SUBSET Node]
         /\ Onward(R, S, n)[0] = S
         /\ \A k \in 0..n : k # 0 => Onward(R, S, n)[k] = Image(R, Onward(R, S, n)[k-1])
<1> DEFINE g == [T \in SUBSET Node |-> Image(R, T)]
           Fits(f) == f = [k \in 0..n |-> IF k = 0 THEN S ELSE Image(R, f[k-1])]
<1>1. g \in [SUBSET Node -> SUBSET Node]
  BY SpreadNodes
<1>2. PICK f \in [0..n -> SUBSET Node] : f[0] = S /\ \A k \in 0..n : k # 0 => f[k] = g[f[k-1]]
  <2> HIDE DEF g
  <2>1. \E f : Chain(f, SUBSET Node, g, S, n)
    BY <1>1, Iterates
  <2> QED BY <2>1 DEF Chain
<1>3. \A k \in 0..n : k # 0 => f[k] = Image(R, f[k-1])
  <2>1. ASSUME NEW k \in 0..n, k # 0 PROVE f[k] = Image(R, f[k-1])
    <3>1. f[k-1] \in SUBSET Node
      BY <2>1
    <3>2. f[k] = g[f[k-1]]
      BY <1>2, <2>1
    <3> QED BY <3>1, <3>2
  <2> QED BY <2>1
<1>4. Fits(f)
  BY <1>2, <1>3
<1>5. Fits(Onward(R, S, n))
  <2>1. Onward(R, S, n) = CHOOSE l : Fits(l)
    BY DEF Onward
  <2> HIDE DEF Fits
  <2> QED BY <1>4, <2>1
<1>6. \A k \in 0..n : Onward(R, S, n)[k] = f[k]
  <2>1. Alike(Onward(R, S, n), f, n)
    BY <1>2, <1>3, <1>5 DEF Alike
  <2> QED BY <2>1, AlikeSame DEF Same
<1>7. Onward(R, S, n) = f
  BY <1>5, <1>6
<1> QED BY <1>2, <1>3, <1>7

\* Numbers counted by a set that has one element for each.
LEMMA Counted ==
  ASSUME NEW n \in Nat, NEW T, NEW f \in [0..n -> T],
         \A j, k \in 0..n : f[j] = f[k] => j = k,
         \A t \in T : \E k \in 0..n : f[k] = t
  PROVE  IsFiniteSet(T) /\ Cardinality(T) = n + 1
<1>1. f \in Surjection(0..n, T)
  BY DEF Surjection
<1>2. f \in Injection(0..n, T)
  BY DEF Injection, IsInjective
<1>3. IsFiniteSet(0..n) /\ Cardinality(0..n) = n + 1
  BY FS_Interval
<1> QED BY <1>1, <1>2, <1>3, FS_Surjection

\* Every node of S but the start s has one edge of L into it, from a node of S
\* whose depth is one less.
Traced(s, L, S, b) ==
  /\ S \in SUBSET Node /\ s \in S /\ b \in [S -> Nat] /\ L \in SUBSET Edge /\ IsFiniteSet(L)
  /\ \A n \in S : b[n] = 0 <=> n = s
  /\ \A n \in S \ {s} : \E e \in L : e.dst = n
  /\ \A e \in L : e.src \in S /\ e.dst \in S /\ b[e.dst] = b[e.src] + 1
  /\ \A e, f \in L : e.dst = f.dst => e = f

\* A node found by an edge from one of them, one hop deeper, is traced as well.
LEMMA TraceGrows ==
  ASSUME NEW s, NEW L, NEW S, NEW b, Traced(s, L, S, b),
         NEW n \in Node \ S, NEW e \in Edge, e.src \in S, e.dst = n, NEW c,
         c = [m \in S \cup {n} |-> IF m = n THEN b[e.src] + 1 ELSE b[m]]
  PROVE  Traced(s, L \cup {e}, S \cup {n}, c)
<1> USE DEF Traced
<1>1. IsFiniteSet(L \cup {e})
  BY FS_AddElement
<1>2. /\ c[n] = b[e.src] + 1 /\ \A m \in S : c[m] = b[m]
      /\ c \in [S \cup {n} -> Nat]
  OBVIOUS
<1>3. \A f \in L : f.src \in S /\ f.dst \in S /\ f.src # n /\ f.dst # n
  OBVIOUS
<1>4. \A m \in S \cup {n} : c[m] = 0 <=> m = s
  BY <1>2
<1>5. \A f \in L \cup {e} : f.src \in S \cup {n} /\ f.dst \in S \cup {n} /\ c[f.dst] = c[f.src] + 1
  BY <1>2, <1>3
<1>6. \A m \in (S \cup {n}) \ {s} : \E f \in L \cup {e} : f.dst = m
  OBVIOUS
<1>7. \A f, h \in L \cup {e} : f.dst = h.dst => f = h
  BY <1>3
<1> QED BY <1>1, <1>2, <1>4, <1>5, <1>6, <1>7

\* The way back from g, edge by edge.
Into(L, n) == CHOOSE e \in L : e.dst = n
Back(f, s, L, g, d) ==
  /\ f[0] = g
  /\ \A k \in 0..d : k # 0 => f[k] = IF f[k-1] = s THEN s ELSE Into(L, f[k-1]).src

\* Each step back is one hop nearer, and once at the start the way stays there.
LEMMA BackDescends ==
  ASSUME NEW s, NEW L, NEW S, NEW b, Traced(s, L, S, b), NEW g \in S, NEW d \in Nat, NEW f, Back(f, s, L, g, d)
  PROVE  \A k \in 0..d : f[k] \in S /\ b[f[k]] = IF k <= b[g] THEN b[g] - k ELSE 0
<1> DEFINE J == {k \in Nat : k <= d => f[k] \in S /\ b[f[k]] = IF k <= b[g] THEN b[g] - k ELSE 0}
<1>1. b[g] \in Nat
  BY DEF Traced
<1>2. 0 \in J
  BY <1>1 DEF Back
<1>3. ASSUME NEW k \in Nat, k \in J PROVE k + 1 \in J
  <2>1. SUFFICES ASSUME k + 1 <= d
                 PROVE  f[k+1] \in S /\ b[f[k+1]] = IF k + 1 <= b[g] THEN b[g] - (k + 1) ELSE 0
    OBVIOUS
  <2>2. /\ f[k] \in S /\ b[f[k]] = IF k <= b[g] THEN b[g] - k ELSE 0
        /\ f[k+1] = IF f[k] = s THEN s ELSE Into(L, f[k]).src
    BY <1>3, <2>1 DEF Back
  <2>3. CASE f[k] = s
    BY <1>1, <2>2, <2>3 DEF Traced
  <2>4. CASE f[k] # s
    <3>1. Into(L, f[k]) \in L /\ Into(L, f[k]).dst = f[k]
      BY <2>2, <2>4 DEF Traced, Into
    <3>2. f[k+1] \in S /\ b[f[k]] = b[f[k+1]] + 1 /\ b[f[k+1]] \in Nat
      BY <2>2, <2>4, <3>1 DEF Traced
    <3> QED BY <1>1, <2>2, <3>2
  <2> QED BY <2>3, <2>4
<1> HIDE DEF J
<1>4. \A k \in Nat : k \in J
  BY <1>2, <1>3, SetInduction
<1> QED BY <1>4 DEF J

\* There is a way back, and as many edges as it takes.
LEMMA BackEnds ==
  ASSUME NEW s, NEW L, NEW S, NEW b, Traced(s, L, S, b), NEW g \in S
  PROVE  /\ \A d \in Nat : \E f : Back(f, s, L, g, d) /\ f \in [0..d -> S]
         /\ b[g] <= Cardinality(L)
<1> DEFINE h == [n \in S |-> IF n = s THEN s ELSE Into(L, n).src]
<1>1. h \in [S -> S]
  <2>1. \A n \in S \ {s} : Into(L, n) \in L /\ Into(L, n).src \in S
    BY DEF Traced, Into
  <2> QED BY <2>1 DEF Traced
<1>2. ASSUME NEW d \in Nat PROVE \E f : Back(f, s, L, g, d) /\ f \in [0..d -> S]
  <2>1. \E f : Chain(f, S, h, g, d)
    <3> HIDE DEF h
    <3> QED BY <1>1, Iterates
  <2>2. PICK f : Chain(f, S, h, g, d)
    BY <2>1
  <2>3. \A k \in 0..d : k # 0 => f[k] = IF f[k-1] = s THEN s ELSE Into(L, f[k-1]).src
    <3>1. SUFFICES ASSUME NEW k \in 0..d, k # 0 PROVE f[k] = IF f[k-1] = s THEN s ELSE Into(L, f[k-1]).src
      OBVIOUS
    <3>2. f[k-1] \in S /\ f[k] = h[f[k-1]]
      <4> HIDE DEF h
      <4> QED BY <2>2, <3>1 DEF Chain
    <3> QED BY <3>2
  <2>4. f[0] = g /\ f \in [0..d -> S]
    <3> HIDE DEF h
    <3> QED BY <2>2 DEF Chain
  <2> QED BY <2>3, <2>4 DEF Back
<1>3. b[g] <= Cardinality(L)
  <2> DEFINE d == b[g]
  <2>1. d \in Nat /\ IsFiniteSet(L)
    BY DEF Traced
  <2>2. Cardinality(L) \in Nat
    BY <2>1, FS_CardinalityType
  <2>3. PICK f : Back(f, s, L, g, d)
    BY <1>2, <2>1
  <2>4. \A k \in 0..d : f[k] \in S /\ b[f[k]] = d - k
    BY <2>1, <2>3, BackDescends
  <2> HIDE DEF d
  <2>5. \A k \in 0..(d-1) : f[k] \in S \ {s}
    BY <2>1, <2>4 DEF Traced
  <2>6. \A k \in 0..(d-1) : Into(L, f[k]) \in L /\ Into(L, f[k]).dst = f[k]
    BY <2>5 DEF Traced, Into
  <2> DEFINE m == [k \in 0..(d-1) |-> Into(L, f[k])]
  <2>7. m \in Injection(0..(d-1), L)
    <3>1. m \in [0..(d-1) -> L]
      BY <2>6
    <3>2. ASSUME NEW j \in 0..(d-1), NEW k \in 0..(d-1), m[j] = m[k] PROVE j = k
      <4>1. f[j] = f[k]
        BY <2>6, <3>2
      <4>2. b[f[j]] = d - j /\ b[f[k]] = d - k
        BY <2>1, <2>4
      <4> QED BY <2>1, <4>1, <4>2
    <3> QED BY <3>1, <3>2 DEF Injection, IsInjective
  <2>8. Cardinality(0..(d-1)) = d
    BY <2>1, FS_Interval
  <2> HIDE DEF m
  <2> QED BY <2>1, <2>7, <2>8, FS_Injection DEF d
<1> QED BY <1>2, <1>3

\* The edges into the nodes of a way back.
OnTheWay(P, f, L) == P = {e \in L : \E k \in 0..Cardinality(L) : f[k] = e.dst}

\* A path of d edges: each step from s leads to exactly one node, no node comes
\* twice, and the last one is g.
IsPath(P, f, s, g, d) ==
  /\ Cardinality(P) = d
  /\ \A k \in 0..d : Onward(Pairs(P), {s}, d)[k] = {f[d - k]}
  /\ \A j, k \in 0..d : f[j] = f[k] => j = k
  /\ f[0] = g

\* The edges on the way back are such a path.
LEMMA PathRebuilt ==
  ASSUME NEW s, NEW L, NEW S, NEW b, Traced(s, L, S, b), NEW g \in S,
         NEW f, Back(f, s, L, g, Cardinality(L)), NEW P, OnTheWay(P, f, L)
  PROVE  P \subseteq L /\ IsPath(P, f, s, g, b[g])
<1> DEFINE n == Cardinality(L)
           d == b[g]
           R == Pairs(P)
           hop == Onward(R, {s}, d)
<1>1. d \in Nat /\ n \in Nat /\ d <= n
  BY BackEnds, FS_CardinalityType DEF Traced
<1>2. Back(f, s, L, g, n) /\ P = {e \in L : \E k \in 0..n : f[k] = e.dst}
  BY DEF OnTheWay
<1>3. \A k \in 0..n : f[k] \in S /\ b[f[k]] = IF k <= d THEN d - k ELSE 0
  <2> HIDE DEF n
  <2> QED BY <1>1, <1>2, BackDescends
<1> HIDE DEF n, d
<1>4. f[d] = s
  <2>1. f[d] \in S /\ b[f[d]] = 0
    BY <1>1, <1>3
  <2> QED BY <2>1 DEF Traced
<1>5. \A k \in 0..(d-1) : /\ Into(L, f[k]) \in L /\ Into(L, f[k]).dst = f[k] /\ Into(L, f[k]).src = f[k+1]
  <2>1. SUFFICES ASSUME NEW k \in 0..(d-1)
                 PROVE  Into(L, f[k]) \in L /\ Into(L, f[k]).dst = f[k] /\ Into(L, f[k]).src = f[k+1]
    OBVIOUS
  <2>2. f[k] \in S \ {s} /\ k + 1 \in 0..n
    <3>1. k \in 0..n /\ k + 1 \in 0..n /\ k <= d /\ d - k # 0
      BY <1>1
    <3>2. f[k] \in S /\ b[f[k]] # 0
      BY <1>3, <3>1
    <3> QED BY <3>1, <3>2 DEF Traced
  <2>3. Into(L, f[k]) \in L /\ Into(L, f[k]).dst = f[k]
    BY <2>2 DEF Traced, Into
  <2>4. f[k+1] = Into(L, f[k]).src
    BY <1>1, <1>2, <2>2 DEF Back
  <2> QED BY <2>3, <2>4
<1>6. \A k \in 0..(d-1) : Into(L, f[k]) \in P
  BY <1>1, <1>2, <1>5
<1>7. ASSUME NEW e \in P PROVE \E k \in 0..(d-1) : e = Into(L, f[k])
  <2>1. PICK k \in 0..n : e \in L /\ f[k] = e.dst
    BY <1>2
  <2>2. b[f[k]] # 0
    BY <2>1 DEF Traced
  <2>3. k \in 0..(d-1)
    BY <1>1, <1>3, <2>1, <2>2
  <2>4. e = Into(L, f[k])
    BY <1>5, <2>1, <2>3 DEF Traced
  <2> QED BY <2>3, <2>4
<1>8. \A j, k \in 0..d : f[j] = f[k] => j = k
  <2>1. \A k \in 0..d : b[f[k]] = d - k
    BY <1>1, <1>3
  <2> QED BY <1>1, <2>1
<1>9. Cardinality(P) = d
  <2>1. CASE d = 0
    <3>1. P = {}
      BY <1>7, <2>1
    <3> QED BY <2>1, <3>1, FS_EmptySet
  <2>2. CASE d # 0
    <3> DEFINE m == [k \in 0..(d-1) |-> Into(L, f[k])]
    <3>1. m \in [0..(d-1) -> P] /\ \A k \in 0..(d-1) : m[k] = Into(L, f[k])
      BY <1>6
    <3> HIDE DEF m
    <3>2. \A j, k \in 0..(d-1) : m[j] = m[k] => j = k
      <4>1. \A k \in 0..(d-1) : m[k].dst = f[k] /\ k \in 0..d
        BY <1>1, <1>5, <3>1
      <4> QED BY <1>8, <4>1
    <3>3. \A e \in P : \E k \in 0..(d-1) : m[k] = e
      BY <1>7, <3>1
    <3>4. d - 1 \in Nat
      BY <1>1, <2>2
    <3>5. Cardinality(P) = (d - 1) + 1
      BY <3>1, <3>2, <3>3, <3>4, Counted
    <3> QED BY <1>1, <3>5
  <2> QED BY <2>1, <2>2
<1>10. R \in Relations /\ {s} \in SUBSET Node
  BY <1>2 DEF Traced, Pairs, Relations, Edge
<1>11. hop[0] = {s} /\ \A k \in 0..d : k # 0 => hop[k] = Image(R, hop[k-1])
  <2> DEFINE Z == {s}
  <2>1. Z \in SUBSET Node
    BY <1>10
  <2> HIDE DEF R, Z
  <2>2. Onward(R, Z, d)[0] = Z /\ \A k \in 0..d : k # 0 => Onward(R, Z, d)[k] = Image(R, Onward(R, Z, d)[k-1])
    BY <1>1, <1>10, <2>1, OnwardSteps
  <2> QED BY <2>2 DEF Z
<1>12. /\ \A p \in R : \E k \in 0..(d-1) : p[1] = f[k+1] /\ p[2] = f[k]
       /\ \A k \in 0..(d-1) : <<f[k+1], f[k]>> \in R
  <2>1. ASSUME NEW p \in R PROVE \E k \in 0..(d-1) : p[1] = f[k+1] /\ p[2] = f[k]
    <3>1. PICK e \in P : p = <<e.src, e.dst>>
      BY DEF Pairs
    <3>2. PICK k \in 0..(d-1) : e = Into(L, f[k])
      BY <1>7
    <3> QED BY <1>5, <3>1, <3>2
  <2>2. ASSUME NEW k \in 0..(d-1) PROVE <<f[k+1], f[k]>> \in R
    BY <1>5, <1>6 DEF Pairs
  <2> QED BY <2>1, <2>2
<1> HIDE DEF R, hop
<1> DEFINE K == {k \in Nat : k <= d => hop[k] = {f[d - k]}}
<1>13. 0 \in K
  BY <1>1, <1>4, <1>11
<1>14. ASSUME NEW k \in Nat, k \in K PROVE k + 1 \in K
  <2>1. SUFFICES ASSUME k + 1 <= d PROVE hop[k+1] = {f[d - (k + 1)]}
    OBVIOUS
  <2> DEFINE j == d - (k + 1)
  <2>2. j \in 0..(d-1) /\ j + 1 = d - k /\ j + 1 \in 0..d
    BY <1>1, <2>1
  <2>3. hop[k+1] = Image(R, {f[j+1]})
    <3>1. hop[k] = {f[d - k]} /\ hop[k+1] = Image(R, hop[k])
      BY <1>1, <1>11, <1>14, <2>1
    <3> QED BY <2>2, <3>1
  <2> HIDE DEF j, K
  <2>4. f[j] \in Image(R, {f[j+1]})
    BY <1>12, <2>2 DEF Image
  <2>5. ASSUME NEW m \in Image(R, {f[j+1]}) PROVE m = f[j]
    <3>1. PICK p \in R : p[1] = f[j+1] /\ p[2] = m
      BY DEF Image
    <3>2. PICK i \in 0..(d-1) : p[1] = f[i+1] /\ p[2] = f[i]
      BY <1>12
    <3>3. i + 1 \in 0..d
      BY <1>1
    <3>4. f[i+1] = f[j+1]
      BY <3>1, <3>2
    <3>5. i + 1 = j + 1
      BY <1>8, <2>2, <3>3, <3>4
    <3>6. i = j
      BY <2>2, <3>5
    <3> QED BY <3>1, <3>2, <3>6
  <2> QED BY <2>3, <2>4, <2>5 DEF j
<1> HIDE DEF K
<1>15. \A k \in Nat : k \in K
  BY <1>13, <1>14, SetInduction
<1>16. \A k \in 0..d : hop[k] = {f[d - k]}
  BY <1>1, <1>15 DEF K
<1>17. f[0] = g /\ P \subseteq L
  BY <1>2 DEF Back
<1>18. IsPath(P, f, s, g, d)
  BY <1>8, <1>9, <1>16, <1>17 DEF IsPath, hop, R
<1> QED BY <1>17, <1>18 DEF d

\* While a path is looked for, each marked node but the start has its edge.
PathInv ==
  query.op = "path" /\ Underway =>
    /\ links \subseteq ever /\ query.goal \notin Marked
    /\ Traced(query.start, links, Marked, best)

\* The edge that a round of find_path looks at leads on from a node it has.
LEMMA PathEdge ==
  ASSUME WalkTypeOK, Base, query.op = "path", at = "add", NEW e \in todo
  PROVE  /\ e \in ever /\ e \in Edge /\ e.src \in Marked /\ best[e.src] = depth
         /\ Beyond(e) = e.dst /\ NewDepth = depth + 1 /\ e.kind \in Kinds
<1>1. Direction = "outgoing" /\ ~Layered /\ pass # "members" /\ InRound
  BY DEF Direction, Layered, Base, HandInv, InRound
<1>2. e \in ever /\ Adjacent(e) /\ e \in Edge
  BY DEF Base, HandInv, WalkTypeOK, LocalTypeOK
<1>3. e.src \in front /\ e.kind \in Kinds
  BY <1>1, <1>2 DEF Adjacent
<1>4. PICK x \in Marked : best[x] = depth /\ front = {x}
  BY <1>1 DEF Base, HandInv
<1> QED BY <1>1, <1>2, <1>3, <1>4 DEF Beyond, NewDepth

\* Every step of a walk.
LEMMA PathWalk ==
  ASSUME WalkTypeOK, Base, PathInv, Walk
  PROVE  PathInv'
<1>1. Frame /\ query' = query /\ ever' = ever
  BY WalkKeeps DEF Frame, dbVars
<1>2. SUFFICES ASSUME query.op = "path", Underway' PROVE PathInv'
  BY <1>1 DEF PathInv
<1>3. query.start \in Node /\ ~Layered
  BY <1>2 DEF WalkTypeOK, Query, Layered
<1>4. CASE FindGoal
  <2>1. at = "goal" /\ at' # "done"
    BY <1>2, <1>4 DEF FindGoal, Underway, InRound
  <2>2. query.goal # query.start /\ UNCHANGED <<best, links>>
    BY <1>4, <2>1 DEF FindGoal, Return, localVars
  <2>3. links = {} /\ Marked = {query.start} /\ best[query.start] = 0
    BY <2>1 DEF Base, BlankInv
  <2>4. best \in [{query.start} -> Nat]
    BY <2>3 DEF WalkTypeOK, LocalTypeOK
  <2>5. IsFiniteSet({})
    BY FS_EmptySet
  <2>6. Traced(query.start, links, Marked, best)
    BY <1>3, <2>3, <2>4, <2>5 DEF Traced
  <2> QED BY <1>1, <2>2, <2>3, <2>6 DEF PathInv, Marked
<1>5. CASE BeginLayers \/ Begin \/ Finish \/ Abandon \/ TakeLayer
  <2>1. ~BeginLayers /\ ~TakeLayer
    BY <1>3 DEF BeginLayers, TakeLayer
  <2>2. Begin => at' \in {"goal", "done"}
    BY <1>2, BeginCases DEF Base
  <2>3. Finish \/ Abandon => at' = "done"
    BY DEF Finish, Abandon, Return
  <2> QED BY <1>2, <1>5, <2>1, <2>2, <2>3 DEF Underway, InRound
<1>6. CASE ReadEdges \/ ReadIncoming \/ ReadNodes \/ EndPass
  <2>1. UNCHANGED <<links, best>> /\ Underway
    BY <1>6 DEF ReadEdges, ReadIncoming, ReadNodes, EndPass, Underway, InRound
  <2>2. Marked' = Marked
    BY <2>1 DEF Marked
  <2> QED BY <1>1, <1>2, <2>1, <2>2 DEF PathInv
<1>7. CASE Take
  <2>1. UNCHANGED <<links, best>> /\ Underway
    BY <1>2, <1>7, TakeCases DEF Dropping, Marking, Opening, Noting, Popped, Underway
  <2>2. Marked' = Marked
    BY <2>1 DEF Marked
  <2> QED BY <1>1, <1>2, <2>1, <2>2 DEF PathInv
<1>8. CASE Add
  <2>1. PICK e \in todo : Passing(e) \/ Ending(e) \/ Finding(e)
    BY <1>8, AddCases
  <2>2. at = "add" /\ Underway
    BY <1>8, AddCases DEF Underway, InRound
  <2>3. CASE Passing(e)
    <3>1. UNCHANGED <<links, best>>
      BY <2>3 DEF Passing
    <3>2. Marked' = Marked
      BY <3>1 DEF Marked
    <3> QED BY <1>1, <1>2, <2>2, <3>1, <3>2 DEF PathInv
  <2>4. CASE Ending(e)
    BY <1>2, <2>4 DEF Ending, Return, Underway, InRound
  <2>5. CASE Finding(e)
    <3> DEFINE n == Beyond(e)
    <3>1. /\ e \in ever /\ e \in Edge /\ e.src \in Marked /\ best[e.src] = depth
          /\ n = e.dst /\ NewDepth = depth + 1
      BY <1>2, <2>2, PathEdge
    <3>2. /\ n \in Node \ Marked /\ n # query.goal /\ links' = links \cup {e}
          /\ best' = Mark(n, NewDepth)
      BY <1>2, <2>5, <3>1 DEF Finding, Fresh, Linked, Edge
    <3>3. /\ links \subseteq ever /\ query.goal \notin Marked
          /\ Traced(query.start, links, Marked, best)
      BY <1>2, <2>2 DEF PathInv
    <3> HIDE DEF n
    <3>4. best' = [m \in Marked \cup {n} |-> IF m = n THEN best[e.src] + 1 ELSE best[m]]
      BY <3>1, <3>2 DEF Mark
    <3>5. Traced(query.start, links \cup {e}, Marked \cup {n}, best')
      BY <3>1, <3>2, <3>3, <3>4, TraceGrows
    <3>6. Marked' = Marked \cup {n}
      BY <3>4 DEF Marked
    <3> QED BY <1>1, <3>1, <3>2, <3>3, <3>5, <3>6 DEF PathInv
  <2> QED BY <2>1, <2>3, <2>4, <2>5
<1> QED BY <1>4, <1>5, <1>6, <1>7, <1>8 DEF Walk

\* Commits only add to the edges that were there at some moment.
LEMMA TreesKept ==
  ASSUME TreeInv, PathInv, UNCHANGED walkVars, UNCHANGED dbVars \/ Commit
  PROVE  TreeInv' /\ PathInv'
<1>1. UNCHANGED <<query, at, queue, links, best>> /\ ever \subseteq ever'
  BY DEF walkVars, localVars, dbVars, Commit
<1>2. Marked' = Marked /\ \A i \in DOMAIN queue : Hangs(queue[i]) => Hangs(queue[i])'
  BY <1>1 DEF Marked, Hangs, Entry0
<1> QED BY <1>1, <1>2 DEF TreeInv, PathInv, Underway, InRound, Rooted, Entry0

\* What is promised of a path that was found.
Shortest(hop, g, d) ==
  /\ hop[d] = {g}
  /\ \A k \in 0..d : Cardinality(hop[k]) = 1
  /\ Cardinality({hop[k] : k \in 0..d}) = d + 1

\* A path that runs through one node after another shows it.
LEMMA PathShape ==
  ASSUME NEW d \in Nat, NEW P, NEW f, NEW s, NEW g, IsPath(P, f, s, g, d)
  PROVE  Shortest(Onward(Pairs(P), {s}, d), g, d)
<1> DEFINE hop == Onward(Pairs(P), {s}, d)
<1>0. /\ \A k \in 0..d : hop[k] = {f[d - k]}
      /\ \A j, k \in 0..d : f[j] = f[k] => j = k
      /\ f[0] = g
  BY DEF IsPath
<1> HIDE DEF hop
<1>1. hop[d] = {g}
  BY <1>0
<1>2. \A k \in 0..d : Cardinality(hop[k]) = 1
  <2>1. SUFFICES ASSUME NEW k \in 0..d PROVE Cardinality({f[d - k]}) = 1
    BY <1>0
  <2> QED BY FS_Singleton
<1>3. Cardinality({hop[k] : k \in 0..d}) = d + 1
  <2> DEFINE T == {hop[k] : k \in 0..d}
             h == [k \in 0..d |-> hop[k]]
  <2>1. h \in [0..d -> T] /\ \A k \in 0..d : h[k] = hop[k]
    OBVIOUS
  <2>2. \A t \in T : \E k \in 0..d : h[k] = t
    OBVIOUS
  <2>3. ASSUME NEW j \in 0..d, NEW k \in 0..d, h[j] = h[k] PROVE j = k
    <3>1. f[d - j] = f[d - k] /\ d - j \in 0..d /\ d - k \in 0..d
      <4>1. h[j] = {f[d - j]} /\ h[k] = {f[d - k]}
        BY <1>0, <2>1
      <4>2. {f[d - j]} = {f[d - k]}
        BY <2>3, <4>1
      <4> QED BY <4>2
    <3>2. d - j = d - k
      BY <1>0, <3>1
    <3> QED BY <3>2
  <2> HIDE DEF h, T
  <2>4. Cardinality(T) = d + 1
    BY <2>1, <2>2, <2>3, Counted
  <2> QED BY <2>4 DEF T
<1> QED BY <1>1, <1>2, <1>3 DEF Shortest, hop

\* Reconstruct follows the way back.
LEMMA Reconstructed ==
  ASSUME NEW L, NEW S, NEW b, Traced(query.start, L, S, b), query.goal \in S
  PROVE  \E f : /\ Back(f, query.start, L, query.goal, Cardinality(L))
                /\ OnTheWay(Reconstruct(L), f, L)
<1> DEFINE n == Cardinality(L)
           s == query.start
           g == query.goal
           Fits(f) == f = [k \in 0..n |-> IF k = 0 THEN g ELSE IF f[k-1] = s THEN s
                                          ELSE (CHOOSE e \in L : e.dst = f[k-1]).src]
           back == CHOOSE f : Fits(f)
<1>1. n \in Nat
  BY FS_CardinalityType DEF Traced
<1>2. PICK f \in [0..n -> S] : Back(f, s, L, g, n)
  BY <1>1, BackEnds
<1>3. Reconstruct(L) = {e \in L : \E k \in DOMAIN back : back[k] = e.dst}
  BY DEF Reconstruct
<1> HIDE DEF n, s, g
<1>4. Fits(f)
  BY <1>2 DEF Back, Into
<1>5. Fits(back)
  <2> HIDE DEF Fits
  <2> QED BY <1>4
<1> HIDE DEF back
<1>6. DOMAIN back = 0..n /\ Back(back, s, L, g, n)
  <2> DEFINE F == [k \in 0..n |-> IF k = 0 THEN g ELSE IF back[k-1] = s THEN s
                                  ELSE (CHOOSE e \in L : e.dst = back[k-1]).src]
  <2>1. back = F
    BY <1>5
  <2>2. DOMAIN F = 0..n /\ F[0] = g
    BY <1>1
  <2>3. ASSUME NEW k \in 0..n, k # 0
        PROVE  F[k] = IF back[k-1] = s THEN s ELSE (CHOOSE e \in L : e.dst = back[k-1]).src
    BY <2>3
  <2> HIDE DEF F
  <2> QED BY <2>1, <2>2, <2>3 DEF Back, Into
<1> QED BY <1>3, <1>6 DEF OnTheWay, n, s, g

\* What is nearer than every node still to be expanded is marked.
LEMMA PathNear ==
  ASSUME WalkTypeOK, Base, DoneInv, PathInv, query.op = "path", Underway, NEW d \in Nat,
         \A n \in Marked : best[n] < d => ~Pending(n)
  PROVE  query.goal \notin Within(always, d)
<1>1. query.goal \notin Marked /\ Traced(query.start, links, Marked, best)
  BY DEF PathInv
<1>2. always \subseteq Edge
  BY DEF WalkTypeOK, DbTypeOK
<1>3. \A n, k : Covered(n, k) => n \in Marked /\ best[n] <= k
  BY DEF Covered
<1>4. \A n \in Marked : best[n] < d => Expanded(n)
  BY DEF DoneInv, Expands
<1>5. Within(always, d) \subseteq Marked
  <2> DEFINE H == Hops(always)
             M == Members(always)
             s == query.start
             D == Marked
             b == best
  <2>1. H \in Relations /\ M \in Relations
    BY <1>2, HopsRelate
  <2>2. s \in Node /\ D \in SUBSET Node /\ b \in [D -> Nat] /\ s \in D /\ b[s] = 0
    BY <1>1 DEF Traced
  <2>3. \A n \in D : b[n] < d =>
           /\ \A m \in Node : <<n, m>> \in H => m \in D /\ b[m] <= b[n] + 1
           /\ \A m \in Node : <<n, m>> \in M => m \in D /\ b[m] <= b[n]
    BY <1>3, <1>4 DEF Expanded, HopsDone, MembersDone
  <2>4. Within(always, d) = Reach(H, M, s, d)
    BY DEF Within
  <2> HIDE DEF H, M, s, D, b
  <2>5. Reach(H, M, s, d) \subseteq D
    BY <2>1, <2>2, <2>3, ReachLeast
  <2> QED BY <2>4, <2>5 DEF D
<1> QED BY <1>1, <1>5

\* A goal that is not stored is nowhere near.
LEMMA NoGoal ==
  ASSUME WalkTypeOK, HistInv, query.op = "path", query.goal \notin db.nodes, query.goal # query.start, NEW d \in Nat
  PROVE  query.goal \notin Within(always, d)
<1> DEFINE H == Hops(always)
           M == Members(always)
           s == query.start
           D == Node \ {query.goal}
           b == [n \in D |-> 0]
<1>1. H \in Relations /\ M \in Relations
  BY HopsRelate DEF WalkTypeOK, DbTypeOK
<1>2. s \in Node /\ D \in SUBSET Node /\ b \in [D -> Nat] /\ s \in D /\ b[s] = 0
  BY DEF WalkTypeOK, Query
<1>3. \A e \in always : e.dst # query.goal
  BY DEF HistInv, WalkTypeOK, DbTypeOK, Graph
<1>4. M = {} /\ \A n, m \in Node : <<n, m>> \in H => m \in D
  BY <1>3 DEF Hops, Members, Direction
<1>5. \A n \in D : b[n] < d =>
         /\ \A m \in Node : <<n, m>> \in H => m \in D /\ b[m] <= b[n] + 1
         /\ \A m \in Node : <<n, m>> \in M => m \in D /\ b[m] <= b[n]
  BY <1>4
<1>6. Within(always, d) = Reach(H, M, s, d) /\ query.goal \notin D
  BY DEF Within
<1> HIDE DEF H, M, s, D, b
<1>7. Reach(H, M, s, d) \subseteq D
  BY <1>1, <1>2, <1>5, ReachLeast
<1> QED BY <1>6, <1>7

\* The edge that reaches the goal ends a path, which is as short as any that
\* was there throughout.
LEMMA EndingShortest ==
  ASSUME WalkTypeOK, Base, DoneInv, PathInv, at = "add", Frame, NEW e \in todo, Ending(e)
  PROVE  PathIsShortest'
<1> DEFINE L == links \cup {e}
           S == Marked \cup {query.goal}
           c == [m \in S |-> IF m = query.goal THEN best[e.src] + 1 ELSE best[m]]
           d == depth + 1
           P == Reconstruct(L)
<1>1. /\ query' = query /\ ever' = ever /\ always' = always
      /\ query.op = "path" /\ Beyond(e) = query.goal /\ at' = "done" /\ outcome' = "found" /\ links' = P
  BY DEF Frame, dbVars, Ending, Return
<1>2. /\ e \in ever /\ e \in Edge /\ e.src \in Marked /\ best[e.src] = depth /\ e.dst = query.goal
  BY <1>1, PathEdge
<1>3. Underway /\ InRound /\ ~Layered
  BY <1>1 DEF Underway, InRound, Layered
<1>4. links \subseteq ever /\ query.goal \notin Marked /\ Traced(query.start, links, Marked, best)
  BY <1>1, <1>3 DEF PathInv
<1>5. depth \in Nat /\ query.goal \in Node \ Marked /\ d \in Nat
  BY <1>4 DEF WalkTypeOK, LocalTypeOK, Query
<1>6. Traced(query.start, L, S, c) /\ query.goal \in S /\ c[query.goal] = d
  <2>1. Traced(query.start, L, S, c)
    BY <1>2, <1>4, <1>5, TraceGrows
  <2> QED BY <1>2, <2>1
<1>7. L \subseteq ever
  BY <1>2, <1>4
<1> HIDE DEF L, S, c, d
<1>8. PICK f : /\ Back(f, query.start, L, query.goal, Cardinality(L))
               /\ OnTheWay(P, f, L)
  BY <1>6, Reconstructed
<1> HIDE DEF P
<1>9. P \subseteq L /\ IsPath(P, f, query.start, query.goal, d)
  <2>1. P \subseteq L /\ IsPath(P, f, query.start, query.goal, c[query.goal])
    BY <1>6, <1>8, PathRebuilt
  <2> QED BY <1>6, <2>1
<1> DEFINE hop == Onward(Pairs(P), {query.start}, d)
<1>10. Shortest(hop, query.goal, d)
  BY <1>5, <1>9, PathShape
<1>11. ASSUME NEW k \in 0..d-1 PROVE query.goal \notin Within(always, k)
  <2>1. k \in Nat /\ k <= depth
    BY <1>5, <1>11 DEF d
  <2>2. ASSUME NEW n \in Marked, best[n] < k PROVE ~Pending(n)
    <3>1. best[n] \in Nat /\ best[n] < depth
      BY <1>5, <2>1, <2>2 DEF WalkTypeOK, LocalTypeOK
    <3>2. n \notin front
      BY <1>3, <1>5, <3>1 DEF Base, HandInv
    <3>3. \A i \in DOMAIN queue : depth <= queue[i].depth /\ queue[i].depth \in Nat
      <4>1. \A i \in DOMAIN queue : queue[i] \in Item
        <5>1. queue \in Seq(Item)
          BY DEF WalkTypeOK, LocalTypeOK, Item
        <5> QED BY <5>1
      <4> QED BY <1>3, <4>1 DEF Base, OrderInv, Item
    <3> QED BY <1>3, <1>5, <3>1, <3>2, <3>3 DEF Pending
  <2> QED BY <1>1, <1>3, <2>1, <2>2, PathNear
<1>12. \A k \in 0..d-1 : query.goal \notin Within(always, k)'
  BY <1>11, NearKept
<1>13. Pairs(links)' = Pairs(P)
  BY <1>1 DEF Pairs
<1>14. Cardinality(links') = d /\ links' = P /\ links' \subseteq ever'
  BY <1>1, <1>7, <1>9 DEF IsPath
<1> QED BY <1>1, <1>10, <1>12, <1>13, <1>14 DEF PathIsShortest, Shortest

\* The loop of find_path ends without a path only if there was none throughout.
LEMMA FinishShortest ==
  ASSUME WalkTypeOK, Base, DoneInv, PathInv, Finish, Frame
  PROVE  PathIsShortest'
<1>1. /\ query' = query /\ always' = always /\ at = "loop" /\ ~More
      /\ query.op = "path" => outcome' = "none"
  BY DEF Frame, dbVars, Finish, Return
<1>2. SUFFICES ASSUME query.op = "path"
               PROVE  query.goal \notin Within(always, Cardinality(Node))
  BY <1>1, NearKept DEF PathIsShortest
<1>3. queue = <<>> /\ ~Layered /\ ~InRound /\ Underway
  BY <1>1, <1>2 DEF More, Layered, InRound, Underway
<1>4. \A n \in Marked : ~Pending(n)
  BY <1>3 DEF Pending
<1>5. Cardinality(Node) \in Nat
  BY TraversalAssumption, FS_CardinalityType
<1> QED BY <1>2, <1>3, <1>4, <1>5, PathNear

\* From the start to itself the path is empty; to a node not stored there is none.
LEMMA GoalShortest ==
  ASSUME WalkTypeOK, Base, FindGoal, Frame
  PROVE  PathIsShortest'
<1>1. /\ query' = query /\ always' = always /\ ever' = ever /\ at = "goal"
  BY DEF Frame, dbVars, FindGoal
<1>2. query.op = "path" /\ links = {}
  BY <1>1 DEF Base, BlankInv
<1>3. PICK got \in Rows({query.goal}) :
        IF nodes = {} \/ got = {} THEN Return("none", nodes, links)
        ELSE IF query.goal = query.start THEN Return("found", nodes, links)
        ELSE at' = "loop"
  BY DEF FindGoal
<1>4. CASE nodes = {}
  BY <1>3, <1>4 DEF Return, PathIsShortest
<1>5. CASE nodes # {} /\ got = {}
  <2>1. query.goal \notin db.nodes /\ HistInv
    BY <1>3, <1>5 DEF Rows, Base
  <2>2. at' = "done" /\ outcome' = "none"
    BY <1>3, <1>5 DEF Return
  <2>3. Cardinality(Node) \in Nat
    BY TraversalAssumption, FS_CardinalityType
  <2>4. query.goal # query.start => query.goal \notin Within(always, Cardinality(Node))
    BY <1>2, <2>1, <2>3, NoGoal
  <2>5. query.goal # query.start => query.goal \notin Within(always, Cardinality(Node))'
    BY <2>4, NearKept
  <2> QED BY <1>1, <2>2, <2>5 DEF PathIsShortest
<1>6. CASE nodes # {} /\ got # {} /\ query.goal = query.start
  <2>1. at' = "done" /\ outcome' = "found" /\ links' = {}
    BY <1>2, <1>3, <1>6 DEF Return
  <2> DEFINE R == Pairs({})
             Z == {query.start}
             hop == Onward(R, Z, 0)
  <2>2. R \in Relations /\ Z \in SUBSET Node
    BY DEF Pairs, Relations, WalkTypeOK, Query
  <2>3. hop[0] = {query.start}
    <3>1. hop[0] = Z
      <4> HIDE DEF R, Z
      <4> QED BY <2>2, OnwardSteps
    <3> QED BY <3>1
  <2> HIDE DEF hop
  <2>4. 0..0 = {0} /\ {hop[k] : k \in 0..0} = {hop[0]}
    OBVIOUS
  <2>5. Cardinality({query.start}) = 1 /\ Cardinality({hop[0]}) = 1 /\ Cardinality({}) = 0
    BY FS_Singleton, FS_EmptySet
  <2>6. /\ hop[0] = {query.goal} /\ \A k \in 0..0 : Cardinality(hop[k]) = 1
        /\ Cardinality({hop[k] : k \in 0..0}) = 0 + 1
    <3>1. hop[0] = {query.goal} /\ \A k \in 0..0 : hop[k] = hop[0]
      BY <1>6, <2>3
    <3>2. Cardinality({hop[k] : k \in 0..0}) = 1 /\ 0 + 1 = 1
      BY <2>4, <2>5
    <3> QED BY <2>3, <2>5, <3>1, <3>2
  <2>7. \A k \in 0..0 - 1 : FALSE
    OBVIOUS
  <2> QED BY <1>1, <2>1, <2>5, <2>6, <2>7 DEF PathIsShortest, hop, R, Z
<1>7. CASE nodes # {} /\ got # {} /\ query.goal # query.start
  BY <1>3, <1>7 DEF PathIsShortest
<1> QED BY <1>4, <1>5, <1>6, <1>7

\* Every step of a walk.
LEMMA ShortestWalk ==
  ASSUME WalkTypeOK, Base, DoneInv, PathInv, Walk
  PROVE  PathIsShortest'
<1>1. Frame /\ query' = query
  BY WalkKeeps DEF Frame
<1>2. CASE Finish
  BY <1>1, <1>2, FinishShortest
<1>3. CASE FindGoal
  BY <1>1, <1>3, GoalShortest
<1>4. CASE Abandon
  BY <1>4 DEF Abandon, Return, PathIsShortest
<1>5. CASE Begin
  <2>1. query.op = "path" => at' # "done"
    BY <1>5, BeginCases DEF Base
  <2> QED BY <1>1, <2>1 DEF PathIsShortest
<1>6. CASE Add
  <2>1. PICK e \in todo : Passing(e) \/ Ending(e) \/ Finding(e)
    BY <1>6, AddCases
  <2>2. at = "add"
    BY <1>6, AddCases
  <2>3. CASE Ending(e)
    BY <1>1, <2>2, <2>3, EndingShortest
  <2>4. CASE Passing(e) \/ Finding(e)
    BY <2>2, <2>4 DEF Passing, Finding, PathIsShortest
  <2> QED BY <2>1, <2>3, <2>4
<1>7. CASE Take
  <2>1. at = "loop" /\ at' \in {at, "edges"}
    BY <1>7, TakeCases DEF Dropping, Marking, Opening, Popped
  <2> QED BY <2>1 DEF PathIsShortest
<1>8. CASE BeginLayers \/ TakeLayer \/ ReadEdges \/ ReadIncoming \/ ReadNodes \/ EndPass
  BY <1>8 DEF BeginLayers, TakeLayer, ReadEdges, ReadIncoming, ReadNodes, EndPass, PathIsShortest
<1> QED BY <1>2, <1>3, <1>4, <1>5, <1>6, <1>7, <1>8 DEF Walk

\* A path stays as short as any, whatever is committed before it is sent.
LEMMA ShortestKept ==
  ASSUME WalkTypeOK, PathIsShortest, UNCHANGED walkVars, UNCHANGED dbVars \/ Commit
  PROVE  PathIsShortest'
<1>1. UNCHANGED <<query, at, outcome, nodes, links>> /\ ever \subseteq ever' /\ always' \subseteq always
  BY DEF walkVars, dbVars, Commit
<1>2. \A d \in Nat : Within(always, d)' \subseteq Within(always, d)
  BY <1>1, AlwaysShrinks
<1>3. Cardinality(Node) \in Nat
  BY TraversalAssumption, FS_CardinalityType
<1>4. \A k \in 0..Cardinality(links) - 1 : k \in Nat
  OBVIOUS
<1>5. Pairs(links)' = Pairs(links)
  BY <1>1 DEF Pairs
<1> DEFINE n == Cardinality(links)
           hop == Onward(Pairs(links), {query.start}, n)
<1>6. n' = n /\ hop' = hop
  BY <1>1, <1>5
<1>7. PathIsShortest <=>
        (at = "done" /\ query.op = "path" =>
           /\ outcome = "found" =>
                /\ hop[n] = {query.goal}
                /\ \A k \in 0..n : Cardinality(hop[k]) = 1
                /\ Cardinality({hop[k] : k \in 0..n}) = n + 1
                /\ links \subseteq ever
                /\ \A k \in 0..n - 1 : query.goal \notin Within(always, k)
           /\ outcome = "none" /\ query.start \in nodes /\ query.goal # query.start =>
                query.goal \notin Within(always, Cardinality(Node)))
  BY DEF PathIsShortest
<1>8. PathIsShortest' <=>
        (at' = "done" /\ query'.op = "path" =>
           /\ outcome' = "found" =>
                /\ hop'[n'] = {query'.goal}
                /\ \A k \in 0..n' : Cardinality(hop'[k]) = 1
                /\ Cardinality({hop'[k] : k \in 0..n'}) = n' + 1
                /\ links' \subseteq ever'
                /\ \A k \in 0..n' - 1 : query'.goal \notin Within(always, k)'
           /\ outcome' = "none" /\ query'.start \in nodes' /\ query'.goal # query'.start =>
                query'.goal \notin Within(always, Cardinality(Node))')
  BY DEF PathIsShortest
<1> HIDE DEF n, hop
<1> QED BY <1>1, <1>2, <1>3, <1>4, <1>6, <1>7, <1>8 DEF n

-----------------------------------------------------------------------------
(* The walks of a session                                                    *)

\* A call's walk is opened between walks and closed once it is over.
Starting ==
  /\ at = "idle" /\ at' = "start" /\ outcome' = "pending" /\ nodes' = {} /\ links' = {}
  /\ ever' = db.edges /\ always' = db.edges /\ UNCHANGED <<db, localVars>>
Closing ==
  /\ at = "done" /\ at' = "idle" /\ outcome' = "pending" /\ nodes' = {} /\ links' = {}
  /\ UNCHANGED <<dbVars, query, localVars>>
Aside == UNCHANGED walkVars /\ (UNCHANGED dbVars \/ Commit)

\* A step of a session walks, opens or closes a walk, or leaves it alone.
LEMMA WalkCases ==
  ASSUME LeakInv, [SessionNext]_allVars
  PROVE  Walk \/ Starting \/ Closing \/ Aside
<1>1. CASE UNCHANGED vars
  BY <1>1 DEF vars, Aside
<1>2. CASE UNCHANGED allVars
  BY <1>1, <1>2 DEF allVars
<1>3. ASSUME NEW c \in Calls, Service(c) \/ CancelCall(c) PROVE UNCHANGED vars
  BY <1>3 DEF Service, Reject, Submit, View, Record, Send, CancelCall
<1>4. ASSUME NEW c \in Calls, Flag(c) PROVE Aside
  BY <1>4 DEF Flag, Cancel, Aside
<1>5. CASE OtherWriter
  BY <1>5 DEF OtherWriter, Sync, Aside
<1>6. CASE RequestStop \/ TakeLookup \/ TakeCall \/ TakeStop
  BY <1>1, <1>6 DEF RequestStop, TakeLookup, TakeCall, TakeStop
<1>7. CASE CatchUp
  BY <1>7 DEF CatchUp, Aside
<1>8. CASE Refuse \/ AnswerSource
  BY <1>8 DEF Refuse, AnswerSource, Reply, Aside
<1>9. CASE Dispatch
  <2>1. at = "idle"
    BY <1>9 DEF Dispatch, LeakInv
  <2>2. (Open(asks[context].query) /\ UNCHANGED <<db, commits, localVars>>) \/ UNCHANGED <<dbVars, walkVars>>
    BY <1>9 DEF Dispatch
  <2> QED BY <2>1, <2>2 DEF Open, Starting, Aside
<1>10. CASE Walking
  BY <1>10 DEF Walking
<1>11. CASE AnswerWalk
  BY <1>11 DEF AnswerWalk, Reply, Closing
<1> QED BY <1>1, <1>2, <1>3, <1>4, <1>5, <1>6, <1>7, <1>8, <1>9, <1>10, <1>11 DEF SessionNext, Worker

\* All that holds of a walk in each of its steps.
WalkInv ==
  /\ Base /\ SoundInv /\ DoneInv /\ RoundInv /\ TreeInv /\ PathInv
  /\ Bounded /\ OnePiece /\ PathIsShortest

\* A session starts between walks.
LEMMA WalkInit == SessionInit => WalkInv
<1>1. SUFFICES ASSUME SessionInit PROVE WalkInv
  OBVIOUS
<1>2. at = "idle" /\ Blank /\ ever = db.edges /\ always = db.edges
  BY <1>1 DEF SessionInit
<1>3. Marked = {}
  BY <1>2 DEF Blank, Marked, Unmarked
<1>4. Base
  BY <1>2, <1>3 DEF Base, BlankInv, HistInv, HandInv, OrderInv, InRound, Underway, Blank
<1>5. SoundInv /\ DoneInv /\ RoundInv /\ TreeInv /\ PathInv
  BY <1>2, <1>3 DEF SoundInv, DoneInv, RoundInv, TreeInv, PathInv, InRound, Underway
<1>6. Bounded /\ OnePiece /\ PathIsShortest
  BY <1>2 DEF Bounded, OnePiece, PathIsShortest, Answered
<1> QED BY <1>4, <1>5, <1>6 DEF WalkInv

\* Every step keeps it.
LEMMA WalkStep ==
  ASSUME TypeOK, TypeOK', LeakInv, WalkInv, [SessionNext]_allVars
  PROVE  WalkInv'
<1>1. WalkTypeOK /\ WalkTypeOK'
  BY DEF TypeOK
<1>2. CASE Walk
  <2>1. Base' /\ SoundInv' /\ DoneInv' /\ RoundInv' /\ TreeInv' /\ PathInv'
    BY <1>1, <1>2, BaseWalk, SoundWalk, DoneWalk, RoundWalk, TreeWalk, PathWalk DEF WalkInv
  <2>2. Bounded' /\ OnePiece' /\ PathIsShortest'
    BY <1>1, <1>2, BoundedWalk, OnePieceWalk, ShortestWalk DEF WalkInv
  <2> QED BY <2>1, <2>2 DEF WalkInv
<1>3. CASE Aside
  <2>1. Base' /\ SoundInv' /\ DoneInv' /\ RoundInv' /\ TreeInv' /\ PathInv'
    BY <1>1, <1>3, BaseKept, SoundKept, DoneKept, TreesKept DEF WalkInv, Aside
  <2>2. Bounded' /\ OnePiece' /\ PathIsShortest'
    BY <1>1, <1>3, BoundedKept, OnePieceKept, ShortestKept DEF WalkInv, Aside
  <2> QED BY <2>1, <2>2 DEF WalkInv
<1>4. CASE Starting \/ Closing
  <2>1. /\ at \in {"idle", "done"} /\ at' \in {"idle", "start"}
        /\ UNCHANGED localVars /\ nodes' = {} /\ links' = {}
    BY <1>4 DEF Starting, Closing
  <2>2. /\ pass = "around" /\ queue = <<>> /\ front = {} /\ depth = 0
        /\ Marked = {} /\ todo = {} /\ found = {}
    BY <2>1 DEF WalkInv, Base, BlankInv
  <2>3. /\ pass' = "around" /\ queue' = <<>> /\ front' = {} /\ depth' = 0
        /\ Marked' = {} /\ todo' = {} /\ found' = {}
    BY <2>1, <2>2 DEF localVars, Marked
  <2>4. HistInv'
    BY <1>4 DEF Starting, Closing, WalkInv, Base, HistInv, dbVars
  <2>5. Base'
    BY <2>1, <2>3, <2>4 DEF Base, BlankInv, HandInv, OrderInv, InRound, Underway
  <2>6. SoundInv' /\ DoneInv' /\ RoundInv' /\ TreeInv' /\ PathInv'
    BY <2>1, <2>3 DEF SoundInv, DoneInv, RoundInv, TreeInv, PathInv, InRound, Underway
  <2>7. Bounded' /\ OnePiece' /\ PathIsShortest'
    BY <2>1 DEF Bounded, OnePiece, PathIsShortest, Answered
  <2> QED BY <2>5, <2>6, <2>7 DEF WalkInv
<1> QED BY <1>2, <1>3, <1>4, WalkCases

\* It holds throughout a session.
LEMMA WalkInvariant == SessionSpec => []WalkInv
<1>1. SessionInit => TypeOK /\ LeakInv /\ SourceInv /\ WalkInv
  BY TypeInit, SourceInit, WalkInit
<1>2. WalkInv /\ [SessionNext]_allVars /\ TypeOK /\ TypeOK' /\ LeakInv => WalkInv'
  BY WalkStep
<1> QED BY <1>1, <1>2, SessionInvariant, PTL DEF SessionSpec

-----------------------------------------------------------------------------
(* The properties                                                            *)

\* An answer holds every node within the asked number of hops over edges that
\* were there throughout, and none further away than the edges that were there
\* at some moment allow: breadth-first, callers, callees and impact radius.
THEOREM AnswersAreBounded == SessionSpec => []Bounded
<1>1. WalkInv => Bounded
  BY DEF WalkInv
<1> QED BY <1>1, WalkInvariant, PTL

\* The subgraph of an answer is a tree over stored edges, whatever was committed
\* between a walk's statements.
THEOREM AnswersAreOnePiece == SessionSpec => []OnePiece
<1>1. WalkInv => OnePiece
  BY DEF WalkInv
<1> QED BY <1>1, WalkInvariant, PTL

\* What find_path returns is a path, no longer than any over edges that were
\* there throughout, and it says that there is none only if there was none.
THEOREM PathsAreShortest == SessionSpec => []PathIsShortest
<1>1. WalkInv => PathIsShortest
  BY DEF WalkInv
<1> QED BY <1>1, WalkInvariant, PTL
=============================================================================
