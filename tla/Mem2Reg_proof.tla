--------------------------- MODULE Mem2Reg_proof ---------------------------
(***************************************************************************)
(* Proofs about Mem2Reg and the dominator tree it works with, for every    *)
(* set of functions: the algorithm of Lengauer and Tarjan, as the code     *)
(* runs it, finds the semidominators; the intervals it leaves mean         *)
(* dominance; and the pass leaves well-formed functions well formed.       *)
(***************************************************************************)
EXTENDS Mem2Reg, FiniteSetTheorems, TLAPS

(* Numbers. *)

LEMMA NatMin ==
  ASSUME NEW T \in SUBSET Nat, T # {}
  PROVE  \E n \in T : \A m \in T : n <= m
<1> DEFINE below(n) == 1 .. n
           U == {below(n) : n \in T}
<1>1. \A n \in T : below(n) \in FiniteSubsetsOf(Nat)
  BY FS_Interval DEF FiniteSubsetsOf
<1>2. U \subseteq FiniteSubsetsOf(Nat) /\ U # {}
  BY <1>1
<1>3. IsWellFoundedOn(StrictSubsetOrdering(Nat), FiniteSubsetsOf(Nat))
  BY FS_StrictSubsetOrderingWellFounded
<1> HIDE DEF U
<1>4. \E x \in U : \A y \in U : ~(<<y, x>> \in StrictSubsetOrdering(Nat))
  BY <1>2, <1>3, WFMin
<1> USE DEF U
<1>5. PICK n \in T : \A y \in U : ~(<<y, below(n)>> \in StrictSubsetOrdering(Nat))
  BY <1>4
<1>6. ASSUME NEW m \in T, m < n PROVE FALSE
  <2>1. below(m) \subseteq below(n)
    BY <1>6
  <2>2. n \in below(n) /\ n \notin below(m)
    BY <1>6
  <2> QED
    BY <1>1, <1>5, <2>1, <2>2 DEF StrictSubsetOrdering, FiniteSubsetsOf
<1> QED
  BY <1>6

LEMMA NatInd ==
  ASSUME NEW T, 0 \in T, \A n \in Nat : n \in T => n + 1 \in T
  PROVE  Nat \subseteq T
<1> SUFFICES ASSUME Nat \ T # {} PROVE FALSE
  OBVIOUS
<1>1. PICK n \in Nat \ T : \A m \in Nat \ T : n <= m
  BY NatMin
<1>2. n # 0 /\ n - 1 \in Nat
  BY <1>1
<1>3. n - 1 \in T
  BY <1>1, <1>2
<1> QED
  BY <1>1, <1>2, <1>3

\* Induction over things that have a number.
LEMMA RankInd ==
  ASSUME NEW V, NEW rank \in [V -> Nat], NEW T,
         \A x \in V : (\A y \in V : rank[y] < rank[x] => y \in T) => x \in T
  PROVE  V \subseteq T
<1> SUFFICES ASSUME V \ T # {} PROVE FALSE
  OBVIOUS
<1> DEFINE R == {rank[x] : x \in V \ T}
<1>1. R \subseteq Nat /\ R # {}
  OBVIOUS
<1> HIDE DEF R
<1>2. PICK n \in R : \A m \in R : n <= m
  BY <1>1, NatMin
<1> USE DEF R
<1>3. PICK x \in V \ T : n = rank[x]
  BY <1>2
<1>4. \A y \in V : rank[y] < rank[x] => y \in T
  <2> SUFFICES ASSUME NEW y \in V, rank[y] < rank[x], y \notin T PROVE FALSE
    OBVIOUS
  <2>1. rank[y] \in R
    OBVIOUS
  <2>2. rank[x] \in Nat /\ rank[y] \in Nat /\ n <= rank[y]
    BY <1>2, <1>3, <2>1
  <2> QED
    BY <1>3, <2>2
<1> QED
  BY <1>3, <1>4

-----------------------------------------------------------------------------
(* Closure. *)

\* The recursive function of Closure exists: each of its prefixes does.
LEMMA ClosureDef ==
  ASSUME NEW start, NEW next, NEW n \in Nat
  PROVE  \E r : /\ Closure(start, next, n) = r[n]
                /\ r[0] = start
                /\ \A k \in 1 .. n : r[k] = r[k - 1] \cup UNION {next[b] : b \in r[k - 1]}
<1> DEFINE More(S) == UNION {near \cup UNION {next[b] : b \in near} : near \in {S}}
           Upto(g, m) == g = [k \in 0 .. m |-> IF k = 0 THEN start ELSE More(g[k - 1])]
           T == {m \in Nat : \E g : Upto(g, m)}
<1>m. \A S : More(S) = S \cup UNION {next[b] : b \in S}
  OBVIOUS
<1>1. 0 \in T
  <2> DEFINE g == [k \in 0 .. 0 |-> start]
  <2>1. Upto(g, 0)
    OBVIOUS
  <2> QED
    BY <2>1
<1>2. \A m \in Nat : m \in T => m + 1 \in T
  <2> SUFFICES ASSUME NEW m \in Nat, m \in T PROVE m + 1 \in T
    OBVIOUS
  <2>1. PICK g : Upto(g, m)
    OBVIOUS
  <2> HIDE DEF More
  <2> DEFINE h == [k \in 0 .. (m + 1) |-> IF k <= m THEN g[k] ELSE More(g[m])]
  <2>2. ASSUME NEW k \in 0 .. (m + 1)
        PROVE  h[k] = IF k = 0 THEN start ELSE More(h[k - 1])
    <3>1. CASE k = 0
      BY <2>1, <3>1
    <3>2. CASE k \in 1 .. m
      BY <2>1, <3>2
    <3>3. CASE k = m + 1
      BY <3>3
    <3> QED
      BY <3>1, <3>2, <3>3
  <2>3. Upto(h, m + 1)
    BY <2>2, Zenon
  <2>4. m + 1 \in Nat
    OBVIOUS
  <2> HIDE DEF h, Upto
  <2> QED
    BY <2>3, <2>4
<1>3. n \in T
  <2> HIDE DEF T
  <2> QED
    BY <1>1, <1>2, NatInd
<1> DEFINE reach == CHOOSE g : Upto(g, n)
<1>4. Upto(reach, n)
  BY <1>3
<1>5. Closure(start, next, n) = reach[n]
  BY DEF Closure
<1>6. reach[0] = start /\ \A k \in 1 .. n : reach[k] = More(reach[k - 1])
  <2> HIDE DEF reach, More
  <2> QED
    BY <1>4
<1> HIDE DEF reach, More
<1> QED
  BY <1>m, <1>5, <1>6

IsClosure(C, start, next) ==
  /\ start \subseteq C
  /\ \A b \in C : next[b] \subseteq C
  /\ \A T : start \subseteq T /\ (\A b \in T \cap C : next[b] \subseteq T) => C \subseteq T

\* As many steps as there are elements are enough.
LEMMA ClosureFacts ==
  ASSUME NEW S, IsFiniteSet(S), NEW n \in Nat, Cardinality(S) <= n,
         NEW start \in SUBSET S, NEW next \in [S -> SUBSET S]
  PROVE  /\ Closure(start, next, n) \subseteq S
         /\ IsClosure(Closure(start, next, n), start, next)
<1>1. PICK r : /\ Closure(start, next, n) = r[n]
               /\ r[0] = start
               /\ \A k \in 1 .. n : r[k] = r[k - 1] \cup UNION {next[b] : b \in r[k - 1]}
  BY ClosureDef
<1> DEFINE Good(k) == /\ r[k] \subseteq S
                      /\ start \subseteq r[k]
                      /\ \/ \A b \in r[k] : next[b] \subseteq r[k]
                         \/ Cardinality(r[k]) >= k
                      /\ \A T : start \subseteq T /\ (\A b \in T \cap r[k] : next[b] \subseteq T)
                                  => r[k] \subseteq T
           U == {k \in Nat : k <= n => Good(k)}
<1>2. Good(0)
  <2>1. Cardinality(start) >= 0
    BY FS_Subset, FS_CardinalityType
  <2> QED
    BY <1>1, <2>1
<1>3. ASSUME NEW k \in Nat, k + 1 <= n, Good(k) PROVE Good(k + 1)
  <2>1. r[k + 1] = r[k] \cup UNION {next[b] : b \in r[k]}
    <3>1. k + 1 \in 1 .. n /\ (k + 1) - 1 = k
      BY <1>3
    <3> QED
      BY <1>1, <3>1
  <2>2. r[k + 1] \subseteq S /\ start \subseteq r[k + 1]
    BY <1>3, <2>1
  <2>3. ASSUME NEW T, start \subseteq T, \A b \in T \cap r[k + 1] : next[b] \subseteq T
        PROVE  r[k + 1] \subseteq T
    <3>1. r[k] \subseteq T
      BY <1>3, <2>1, <2>3
    <3> QED
      BY <2>1, <2>3, <3>1
  <2>4. CASE \A b \in r[k] : next[b] \subseteq r[k]
    <3>1. r[k + 1] = r[k]
      BY <2>1, <2>4
    <3> QED
      BY <2>2, <2>3, <2>4, <3>1
  <2>5. CASE Cardinality(r[k]) >= k /\ ~(\A b \in r[k] : next[b] \subseteq r[k])
    <3>1. r[k] \subseteq r[k + 1] /\ r[k] # r[k + 1]
      BY <2>1, <2>5
    <3>2. IsFiniteSet(r[k + 1]) /\ IsFiniteSet(r[k])
      BY <1>3, <2>2, FS_Subset
    <3>4. Cardinality(r[k]) \in Nat /\ Cardinality(r[k + 1]) \in Nat
      BY <3>2, FS_CardinalityType
    <3>3. Cardinality(r[k]) < Cardinality(r[k + 1])
      <4>1. Cardinality(r[k]) <= Cardinality(r[k + 1])
            /\ (Cardinality(r[k]) = Cardinality(r[k + 1]) => r[k] = r[k + 1])
        BY <3>1, <3>2, FS_Subset
      <4> QED
        BY <3>1, <3>4, <4>1
    <3>5. Cardinality(r[k + 1]) >= k + 1
      BY <2>5, <3>3, <3>4
    <3> QED
      BY <2>2, <2>3, <3>5
  <2> QED
    BY <1>3, <2>4, <2>5
<1>4. n \in U
  <2> HIDE DEF Good
  <2>1. 0 \in U
    BY <1>2
  <2>2. \A k \in Nat : k \in U => k + 1 \in U
    BY <1>3
  <2> HIDE DEF U
  <2> QED
    BY <2>1, <2>2, NatInd
<1>5. Good(n)
  BY <1>4
<1>6. \A b \in r[n] : next[b] \subseteq r[n]
  <2>1. CASE Cardinality(r[n]) >= n
    <3>1. IsFiniteSet(r[n]) /\ Cardinality(r[n]) <= Cardinality(S)
          /\ (Cardinality(r[n]) = Cardinality(S) => r[n] = S)
      BY <1>5, FS_Subset
    <3>2. Cardinality(r[n]) \in Nat /\ Cardinality(S) \in Nat
      BY <3>1, FS_CardinalityType
    <3>3. r[n] = S
      BY <2>1, <3>1, <3>2
    <3> QED
      BY <3>3
  <2> QED
    BY <1>5, <2>1
<1> QED
  BY <1>1, <1>5, <1>6 DEF IsClosure

-----------------------------------------------------------------------------
(* Control flow: what can be reached, and dominance. *)

\* What the proofs use of a function.
Flow(G) ==
  /\ IsFiniteSet(BlocksOf(G)) /\ Len(G.layout) \in Nat
  /\ Cardinality(BlocksOf(G)) <= Len(G.layout)
  /\ Entry(G) \in BlocksOf(G)
  /\ \A b \in BlocksOf(G) : G.code[b] # <<>> /\ successors(G, b) \subseteq BlocksOf(G)

LEMMA PredecessorFacts ==
  ASSUME NEW G, Flow(G), NEW b, NEW c
  PROVE  c \in predecessors(G, b) <=> c \in BlocksOf(G) /\ b \in successors(G, c)
BY DEF Flow, predecessors

\* R is what can be reached without entering A.
IsReached(G, A, R) ==
  /\ R \subseteq BlocksOf(G)
  /\ Entry(G) \notin A => Entry(G) \in R
  /\ \A b \in R : b \notin A
  /\ \A b \in R : \A c \in successors(G, b) : c \notin A => c \in R
  /\ \A T : /\ Entry(G) \notin A => Entry(G) \in T
            /\ \A b \in T \cap R : \A c \in successors(G, b) : c \notin A => c \in T
           => R \subseteq T

LEMMA ReachedFacts ==
  ASSUME NEW G, Flow(G), NEW A
  PROVE  IsReached(G, A, ReachableAvoiding(G, A))
<1> DEFINE S == BlocksOf(G)
           start == {Entry(G)} \ A
           next == [b \in S |-> successors(G, b) \ A]
           R == Closure(start, next, Len(G.layout))
<1>1. start \in SUBSET S /\ next \in [S -> SUBSET S]
  BY DEF Flow
<1>2. IsFiniteSet(S) /\ Len(G.layout) \in Nat /\ Cardinality(S) <= Len(G.layout)
  BY DEF Flow
<1> HIDE DEF start, next
<1>3. R \subseteq S /\ IsClosure(R, start, next)
  BY <1>1, <1>2, ClosureFacts
<1>4. ReachableAvoiding(G, A) = R
  BY DEF ReachableAvoiding, start, next
<1>5. \A b \in S : next[b] = successors(G, b) \ A
  BY DEF next
<1> HIDE DEF R
<1>6. start \subseteq R /\ \A b \in R : next[b] \subseteq R
  BY <1>3 DEF IsClosure
<1>7. R \subseteq S \ A
  <2> DEFINE T == S \ A
  <2>1. start \subseteq T
    BY <1>1 DEF start
  <2>2. \A b \in T \cap R : next[b] \subseteq T
    BY <1>1, <1>5
  <2> HIDE DEF T
  <2>3. R \subseteq T
    BY <1>3, <2>1, <2>2 DEF IsClosure
  <2> QED
    BY <2>3 DEF T
<1>8. ASSUME NEW T, Entry(G) \notin A => Entry(G) \in T,
             \A b \in T \cap R : \A c \in successors(G, b) : c \notin A => c \in T
      PROVE  R \subseteq T
  <2>1. start \subseteq T
    BY <1>8 DEF start
  <2>2. \A b \in T \cap R : next[b] \subseteq T
    BY <1>3, <1>5, <1>8
  <2> QED
    BY <1>3, <2>1, <2>2 DEF IsClosure
<1>9. /\ Entry(G) \notin A => Entry(G) \in R
      /\ \A b \in R : \A c \in successors(G, b) : c \notin A => c \in R
  BY <1>3, <1>5, <1>6 DEF start
<1> QED
  BY <1>4, <1>7, <1>8, <1>9 DEF IsReached

\* A block dominates itself, and dominance is transitive.
LEMMA DominatesReflexive ==
  ASSUME NEW G, Flow(G), NEW b
  PROVE  dominates(G, b, b)
BY ReachedFacts DEF dominates, IsReached

LEMMA DominatesTransitive ==
  ASSUME NEW G, Flow(G), NEW a, NEW b, NEW c, dominates(G, a, b), dominates(G, b, c)
  PROVE  dominates(G, a, c)
<1> DEFINE R == ReachableAvoiding(G, {a})
           T == ReachableAvoiding(G, {b})
<1>1. IsReached(G, {a}, R) /\ IsReached(G, {b}, T)
  BY ReachedFacts
<1>2. b \notin R /\ c \notin T
  BY DEF dominates
<1> HIDE DEF R, T
<1>3. Entry(G) \notin {a} => Entry(G) \in T
  BY <1>1, <1>2 DEF IsReached
<1>4. \A x \in T \cap R : \A y \in successors(G, x) : y \notin {a} => y \in T
  BY <1>1, <1>2 DEF IsReached
<1>5. R \subseteq T
  BY <1>1, <1>3, <1>4 DEF IsReached
<1> QED
  BY <1>2, <1>5 DEF dominates, R

-----------------------------------------------------------------------------
(* The tree of the depth-first search. *)

LEMMA NumberFacts ==
  ASSUME NEW B, NEW vs \in Seq(B), IsInjective(vs)
  PROVE  /\ \A n \in 1 .. Len(vs) : (CHOOSE m \in DOMAIN vs : vs[m] = vs[n]) = n
         /\ \A b \in Range(vs) : /\ (CHOOSE m \in DOMAIN vs : vs[m] = b) \in 1 .. Len(vs)
                                 /\ vs[CHOOSE m \in DOMAIN vs : vs[m] = b] = b
BY DEF IsInjective, Range

LEMMA RangeFacts ==
  ASSUME NEW B, NEW vs \in Seq(B)
  PROVE  /\ Range(vs) \subseteq B /\ IsFiniteSet(Range(vs)) /\ Cardinality(Range(vs)) <= Len(vs)
         /\ Len(vs) \in Nat /\ DOMAIN vs = 1 .. Len(vs)
         /\ \A n \in 1 .. Len(vs) : vs[n] \in Range(vs)
<1>1. DOMAIN vs = 1 .. Len(vs) /\ Len(vs) \in Nat
  OBVIOUS
<1>2. IsFiniteSet(1 .. Len(vs)) /\ Cardinality(1 .. Len(vs)) = Len(vs)
  BY <1>1, FS_Interval
<1>3. vs \in Surjection(1 .. Len(vs), Range(vs))
  BY <1>1 DEF Surjection, Range
<1>4. IsFiniteSet(Range(vs)) /\ Cardinality(Range(vs)) <= Cardinality(1 .. Len(vs))
  BY <1>2, <1>3, FS_Surjection
<1>5. Range(vs) \subseteq B /\ \A n \in 1 .. Len(vs) : vs[n] \in Range(vs)
  BY <1>1 DEF Range
<1>6. Cardinality(Range(vs)) <= Len(vs)
  BY <1>2, <1>4
<1> QED
  BY <1>1, <1>4, <1>5, <1>6, Zenon

\* b and its ancestors, when vs are the blocks and par their parents.
Up(vs, par, b) ==
  Closure({b}, [c \in Range(vs) |-> IF c \in DOMAIN par THEN {par[c]} ELSE {}], Len(vs))

IsUp(U, par, b) ==
  /\ b \in U
  /\ \A c \in U : c \in DOMAIN par => par[c] \in U
  /\ \A T : b \in T /\ (\A c \in T \cap U : c \in DOMAIN par => par[c] \in T) => U \subseteq T

LEMMA UpLeast ==
  ASSUME NEW B, NEW vs \in Seq(B), NEW par,
         \A c \in Range(vs) : c \in DOMAIN par => par[c] \in Range(vs),
         NEW b \in Range(vs)
  PROVE  Up(vs, par, b) \subseteq Range(vs) /\ IsUp(Up(vs, par, b), par, b)
<1> DEFINE S == Range(vs)
           next == [c \in S |-> IF c \in DOMAIN par THEN {par[c]} ELSE {}]
           U == Closure({b}, next, Len(vs))
<1>1. IsFiniteSet(S) /\ Len(vs) \in Nat /\ Cardinality(S) <= Len(vs)
  BY RangeFacts
<1>2. {b} \in SUBSET S /\ next \in [S -> SUBSET S]
  OBVIOUS
<1>3. \A c \in S : next[c] = IF c \in DOMAIN par THEN {par[c]} ELSE {}
  OBVIOUS
<1> HIDE DEF next, S
<1>4. U \subseteq S /\ IsClosure(U, {b}, next)
  BY <1>1, <1>2, ClosureFacts
<1>5. Up(vs, par, b) = U
  BY DEF Up, next, S
<1> HIDE DEF U
<1>6. b \in U /\ \A c \in U : c \in DOMAIN par => par[c] \in U
  BY <1>3, <1>4 DEF IsClosure
<1>7. ASSUME NEW T, b \in T, \A c \in T \cap U : c \in DOMAIN par => par[c] \in T
      PROVE  U \subseteq T
  <2>1. \A c \in T \cap U : next[c] \subseteq T
    BY <1>3, <1>4, <1>7
  <2> QED
    BY <1>4, <1>7, <2>1 DEF IsClosure
<1> QED
  BY <1>4, <1>5, <1>6, <1>7 DEF IsUp, S

LEMMA UpUnique ==
  ASSUME NEW par, NEW b, NEW U, NEW W, IsUp(U, par, b), IsUp(W, par, b)
  PROVE  U = W
<1>1. U \subseteq W
  BY DEF IsUp
<1>2. W \subseteq U
  BY DEF IsUp
<1> QED
  BY <1>1, <1>2

\* The ancestors of a vertex are those of its parent and itself.
LEMMA UpParent ==
  ASSUME NEW par, NEW b \in DOMAIN par, NEW U, IsUp(U, par, par[b])
  PROVE  IsUp({b} \cup U, par, b)
<1>1. \A c \in {b} \cup U : c \in DOMAIN par => par[c] \in {b} \cup U
  BY DEF IsUp
<1>2. ASSUME NEW T, b \in T,
             \A c \in T \cap ({b} \cup U) : c \in DOMAIN par => par[c] \in T
      PROVE  {b} \cup U \subseteq T
  <2>1. par[b] \in T
    BY <1>2
  <2> QED
    BY <1>2, <2>1 DEF IsUp
<1> QED
  BY <1>1, <1>2 DEF IsUp

\* A block that is not an ancestor of b may get a parent.
LEMMA UpKept ==
  ASSUME NEW par, NEW more, NEW b, NEW U, IsUp(U, par, b),
         \A c \in U : /\ c \in DOMAIN par <=> c \in DOMAIN more
                      /\ c \in DOMAIN par => more[c] = par[c]
  PROVE  IsUp(U, more, b)
BY DEF IsUp

up(b) == Up(vertex, parent, b)

\* The search has left a tree, in which numbers grow downwards, the next block
\* found hangs from an ancestor of the last one, and an edge that goes up in the
\* numbers goes down in the tree.
Span ==
  /\ Flow(fn)
  /\ vertex \in Seq(BlocksOf(fn)) /\ IsInjective(vertex)
  /\ vertex # <<>> => vertex[1] = Entry(fn)
  /\ DOMAIN parent = Range(vertex) \ {Entry(fn)}
  /\ \A b \in DOMAIN parent : /\ parent[b] \in Range(vertex)
                              /\ b \in successors(fn, parent[b])
                              /\ number(parent[b]) < number(b)
  /\ \A n \in 2 .. Len(vertex) : parent[vertex[n]] \in up(vertex[n - 1])
  /\ \A n \in 2 .. Len(vertex) : \A a \in Range(vertex) :
       vertex[n] \in successors(fn, a) /\ number(a) < n => a \in up(vertex[n])

Numbered == Range(vertex)
rank == [b \in Numbered |-> number(b)]

LEMMA Numbers ==
  ASSUME Span
  PROVE  /\ Numbered \subseteq BlocksOf(fn) /\ Len(vertex) \in Nat
         /\ \A n \in 1 .. Len(vertex) : vertex[n] \in Numbered /\ number(vertex[n]) = n
         /\ \A b \in Numbered : number(b) \in 1 .. Len(vertex) /\ vertex[number(b)] = b
         /\ \A a, b \in Numbered : number(a) = number(b) => a = b
         /\ \A b \in Numbered : b # Entry(fn) <=> number(b) >= 2
         /\ \A b \in Numbered : b # Entry(fn) =>
              /\ b \in DOMAIN parent /\ parent[b] \in Numbered
              /\ b \in successors(fn, parent[b]) /\ number(parent[b]) < number(b)
         /\ \A b \in DOMAIN parent : b \in Numbered /\ b # Entry(fn)
<1>1. vertex \in Seq(BlocksOf(fn)) /\ IsInjective(vertex)
  BY DEF Span
<1>2. /\ Numbered \subseteq BlocksOf(fn) /\ Len(vertex) \in Nat
      /\ \A n \in 1 .. Len(vertex) : vertex[n] \in Numbered
  BY <1>1, RangeFacts DEF Numbered
<1>3. \A n \in 1 .. Len(vertex) : number(vertex[n]) = n
  BY <1>1, NumberFacts DEF number
<1>4. \A b \in Numbered : number(b) \in 1 .. Len(vertex) /\ vertex[number(b)] = b
  BY <1>1, NumberFacts DEF number, Numbered
<1>5. \A a, b \in Numbered : number(a) = number(b) => a = b
  BY <1>4
<1>6. ASSUME NEW b \in Numbered PROVE b # Entry(fn) <=> number(b) >= 2
  <2>1. Len(vertex) >= 1 /\ vertex[1] = Entry(fn)
    BY <1>1, <1>2, <1>4, <1>6 DEF Span
  <2>2. number(Entry(fn)) = 1
    BY <1>2, <1>3, <2>1
  <2>3. number(b) \in 1 .. Len(vertex) /\ vertex[number(b)] = b
    BY <1>4
  <2>4. number(b) = 1 => b = Entry(fn)
    BY <2>1, <2>3
  <2> QED
    BY <1>2, <2>2, <2>3, <2>4
<1>7. ASSUME NEW b \in Numbered, b # Entry(fn)
      PROVE  /\ b \in DOMAIN parent /\ parent[b] \in Numbered
             /\ b \in successors(fn, parent[b]) /\ number(parent[b]) < number(b)
  BY <1>7 DEF Span, Numbered
<1>8. \A b \in DOMAIN parent : b \in Numbered /\ b # Entry(fn)
  BY DEF Span, Numbered
<1> QED
  BY <1>2, <1>3, <1>4, <1>5, <1>6, <1>7, <1>8

LEMMA RankFacts ==
  ASSUME Span
  PROVE  rank \in [Numbered -> Nat] /\ \A b \in Numbered : rank[b] = number(b)
<1>1. \A b \in Numbered : number(b) \in Nat
  BY Numbers
<1> QED
  BY <1>1 DEF rank

LEMMA UpIs ==
  ASSUME Span, NEW b \in Numbered
  PROVE  up(b) \subseteq Numbered /\ IsUp(up(b), parent, b)
<1>1. vertex \in Seq(BlocksOf(fn))
  BY DEF Span
<1>2. \A c \in Range(vertex) : c \in DOMAIN parent => parent[c] \in Range(vertex)
  BY DEF Span
<1> QED
  BY <1>1, <1>2, UpLeast DEF up, Numbered

LEMMA UpSteps ==
  ASSUME Span, NEW b \in Numbered
  PROVE  /\ b \in up(b)
         /\ b = Entry(fn) => up(b) = {b}
         /\ b # Entry(fn) => /\ up(b) = {b} \cup up(parent[b])
                             /\ parent[b] \in up(b) /\ parent[b] \in up(parent[b])
<1>1. IsUp(up(b), parent, b)
  BY UpIs
<1>2. ASSUME b = Entry(fn) PROVE up(b) = {b}
  <2>1. b \notin DOMAIN parent
    BY <1>2, Numbers
  <2>2. IsUp({b}, parent, b)
    BY <2>1 DEF IsUp
  <2> QED
    BY <1>1, <2>2, UpUnique
<1>3. ASSUME b # Entry(fn)
      PROVE  up(b) = {b} \cup up(parent[b]) /\ parent[b] \in up(b) /\ parent[b] \in up(parent[b])
  <2>1. b \in DOMAIN parent /\ parent[b] \in Numbered
    BY <1>3, Numbers
  <2>2. IsUp(up(parent[b]), parent, parent[b])
    BY <2>1, UpIs
  <2>3. IsUp({b} \cup up(parent[b]), parent, b)
    BY <2>1, <2>2, UpParent
  <2>4. up(b) = {b} \cup up(parent[b])
    BY <1>1, <2>3, UpUnique
  <2> QED
    BY <2>2, <2>4 DEF IsUp
<1> QED
  BY <1>1, <1>2, <1>3 DEF IsUp

LEMMA UpNumber ==
  ASSUME Span, NEW b \in Numbered, NEW a \in up(b)
  PROVE  a \in Numbered /\ number(a) <= number(b) /\ (a # b => number(a) < number(b))
<1> DEFINE T == {c \in Numbered : number(c) <= number(b)}
<1>1. up(b) \subseteq Numbered /\ IsUp(up(b), parent, b)
  BY UpIs
<1>2. \A c \in Numbered : number(c) \in Nat
  BY Numbers
<1>3. \A c \in T \cap up(b) : c \in DOMAIN parent => parent[c] \in T
  <2> SUFFICES ASSUME NEW c \in T, c \in DOMAIN parent PROVE parent[c] \in T
    OBVIOUS
  <2>1. parent[c] \in Numbered /\ number(parent[c]) < number(c)
    BY Numbers
  <2> QED
    BY <1>2, <2>1
<1>4. b \in T
  BY <1>2
<1> HIDE DEF T
<1>5. a \in T
  BY <1>1, <1>3, <1>4 DEF IsUp
<1>6. a \in Numbered /\ number(a) <= number(b)
  BY <1>5 DEF T
<1>7. a # b => number(a) # number(b)
  BY <1>6, Numbers
<1> QED
  BY <1>2, <1>6, <1>7

LEMMA UpTransitive ==
  ASSUME Span, NEW c \in Numbered, NEW b \in up(c), NEW a \in up(b)
  PROVE  a \in up(c)
<1>1. up(c) \subseteq Numbered /\ IsUp(up(c), parent, c)
  BY UpIs
<1>2. IsUp(up(b), parent, b)
  BY <1>1, UpIs
<1>3. \A d \in up(c) \cap up(b) : d \in DOMAIN parent => parent[d] \in up(c)
  BY <1>1 DEF IsUp
<1> QED
  BY <1>2, <1>3 DEF IsUp

\* Of two ancestors of a block, the one with the lesser number is the other's.
LEMMA UpChain ==
  ASSUME Span, NEW c \in Numbered, NEW a \in up(c), NEW b \in up(c), number(a) <= number(b)
  PROVE  a \in up(b)
<1> DEFINE T == {d \in Numbered : \A x, y \in up(d) : number(x) <= number(y) => x \in up(y)}
<1>1. ASSUME NEW d \in Numbered, \A e \in Numbered : rank[e] < rank[d] => e \in T
      PROVE  d \in T
  <2> SUFFICES ASSUME NEW x \in up(d), NEW y \in up(d), number(x) <= number(y)
               PROVE  x \in up(y)
    OBVIOUS
  <2>1. CASE y = d
    BY <2>1
  <2>2. CASE d = Entry(fn)
    BY <2>2, UpSteps
  <2>3. CASE y # d /\ d # Entry(fn)
    <3>1. up(d) = {d} \cup up(parent[d]) /\ parent[d] \in Numbered
          /\ number(parent[d]) < number(d)
      BY <2>3, UpSteps, Numbers
    <3>2. number(y) < number(d) /\ y \in Numbered /\ x \in Numbered
      BY <2>3, UpNumber
    <3>3. number(x) \in Nat /\ number(y) \in Nat /\ number(d) \in Nat
      BY <3>2, Numbers
    <3>4. x # d
      BY <3>2, <3>3
    <3>5. parent[d] \in T
      BY <1>1, <3>1, RankFacts
    <3> QED
      BY <2>3, <3>1, <3>4, <3>5
  <2> QED
    BY <2>1, <2>2, <2>3
<1> HIDE DEF T
<1>2. Numbered \subseteq T
  BY <1>1, RankFacts, RankInd
<1> QED
  BY <1>2 DEF T

\* The descendants of a block have consecutive numbers.
LEMMA UpBetween ==
  ASSUME Span, NEW c \in Numbered, NEW a \in up(c), NEW b \in Numbered,
         number(a) <= number(b), number(b) <= number(c)
  PROVE  a \in up(b)
<1> DEFINE T == {d \in Numbered : \A x \in up(d) : \A y \in Numbered :
                   number(x) <= number(y) /\ number(y) <= number(d) => x \in up(y)}
<1>n. \A e \in Numbered : number(e) \in Nat
  BY Numbers
<1>1. ASSUME NEW d \in Numbered, \A e \in Numbered : rank[e] < rank[d] => e \in T
      PROVE  d \in T
  <2> SUFFICES ASSUME NEW x \in up(d), NEW y \in Numbered,
                      number(x) <= number(y), number(y) <= number(d)
               PROVE  x \in up(y)
    OBVIOUS
  <2>1. CASE y = d
    BY <2>1
  <2>2. CASE y # d
    <3>1. number(y) # number(d)
      BY <2>2, Numbers
    <3>2. number(y) < number(d) /\ number(y) >= 1 /\ number(d) \in 1 .. Len(vertex)
      BY <1>n, <3>1, Numbers
    <3>3. number(d) >= 2 /\ d # Entry(fn) /\ number(d) \in 2 .. Len(vertex)
      BY <1>n, <3>2, Numbers
    <3> DEFINE e == vertex[number(d) - 1]
    <3>4. number(d) - 1 \in 1 .. Len(vertex)
      BY <3>3, Numbers
    <3>5. e \in Numbered /\ number(e) = number(d) - 1
      BY <3>4, Numbers
    <3>6. parent[d] \in up(e)
      <4>1. vertex[number(d)] = d
        BY Numbers
      <4> QED
        BY <3>3, <4>1 DEF Span
    <3> HIDE DEF e
    <3>7. e \in T
      <4>1. rank[e] < rank[d]
        BY <1>n, <3>5, RankFacts
      <4> QED
        BY <1>1, <3>5, <4>1
    <3>8. x # d
      BY <1>n, <3>2
    <3>9. x \in up(parent[d])
      BY <3>3, <3>8, UpSteps
    <3>10. x \in up(e)
      BY <3>5, <3>6, <3>9, UpTransitive
    <3>11. number(y) <= number(e)
      BY <1>n, <3>2, <3>5
    <3> QED
      BY <3>7, <3>10, <3>11
  <2> QED
    BY <2>1, <2>2
<1> HIDE DEF T
<1>2. Numbered \subseteq T
  BY <1>1, RankFacts, RankInd
<1> QED
  BY <1>2 DEF T

\* An edge that enters the numbers from c on comes from an ancestor of c.
LEMMA EdgeBetween ==
  ASSUME Span, NEW a \in Numbered, NEW b \in Numbered, NEW c \in Numbered,
         b \in successors(fn, a), number(a) < number(c), number(c) <= number(b)
  PROVE  a \in up(c)
<1>1. \A e \in Numbered : number(e) \in 1 .. Len(vertex) /\ Len(vertex) \in Nat
  BY Numbers
<1>2. number(b) \in 2 .. Len(vertex) /\ vertex[number(b)] = b /\ number(a) < number(b)
  BY <1>1, Numbers
<1>3. a \in up(b)
  BY <1>2 DEF Span, Numbered
<1> QED
  BY <1>1, <1>3, UpBetween

LEMMA UpRoot ==
  ASSUME Span, NEW b \in Numbered
  PROVE  Entry(fn) \in up(b)
<1> DEFINE T == {d \in Numbered : Entry(fn) \in up(d)}
<1>1. ASSUME NEW d \in Numbered, \A e \in Numbered : rank[e] < rank[d] => e \in T
      PROVE  d \in T
  <2>1. CASE d = Entry(fn)
    BY <2>1, UpSteps
  <2>2. CASE d # Entry(fn)
    <3>1. up(d) = {d} \cup up(parent[d]) /\ parent[d] \in Numbered
          /\ number(parent[d]) < number(d)
      BY <2>2, UpSteps, Numbers
    <3>2. parent[d] \in T
      BY <1>1, <3>1, RankFacts
    <3> QED
      BY <3>1, <3>2
  <2> QED
    BY <2>1, <2>2
<1> HIDE DEF T
<1>2. Numbered \subseteq T
  BY <1>1, RankFacts, RankInd
<1> QED
  BY <1>2 DEF T

\* Between a block and a proper ancestor there is a child of the ancestor.
LEMMA UpChild ==
  ASSUME Span, NEW b \in Numbered, NEW a \in up(b), a # b
  PROVE  \E c \in up(b) : c \in DOMAIN parent /\ parent[c] = a
<1> DEFINE T == {d \in Numbered : \A x \in up(d) : x # d =>
                   \E c \in up(d) : c \in DOMAIN parent /\ parent[c] = x}
<1>1. ASSUME NEW d \in Numbered, \A e \in Numbered : rank[e] < rank[d] => e \in T
      PROVE  d \in T
  <2> SUFFICES ASSUME NEW x \in up(d), x # d
               PROVE  \E c \in up(d) : c \in DOMAIN parent /\ parent[c] = x
    OBVIOUS
  <2>1. d # Entry(fn)
    BY UpSteps
  <2>2. up(d) = {d} \cup up(parent[d]) /\ parent[d] \in Numbered /\ d \in DOMAIN parent
        /\ number(parent[d]) < number(d)
    BY <2>1, UpSteps, Numbers
  <2>3. CASE x = parent[d]
    BY <2>2, <2>3
  <2>4. CASE x # parent[d]
    <3>1. parent[d] \in T
      BY <1>1, <2>2, RankFacts
    <3>2. x \in up(parent[d])
      BY <2>2
    <3> QED
      BY <2>2, <2>4, <3>1, <3>2
  <2> QED
    BY <2>3, <2>4
<1> HIDE DEF T
<1>2. Numbered \subseteq T
  BY <1>1, RankFacts, RankInd
<1> QED
  BY <1>2 DEF T

-----------------------------------------------------------------------------
(* Dominators and the tree. *)

\* The search is over: it has numbered what can be reached.
Complete == Span /\ Numbered = Reachable(fn)

avoids(d) == ReachableAvoiding(fn, {d})

LEMMA Successors ==
  ASSUME Complete, NEW b \in Numbered, NEW c \in successors(fn, b)
  PROVE  c \in Numbered
<1>1. IsReached(fn, {}, Numbered)
  BY ReachedFacts DEF Complete, Span, Reachable
<1> QED
  BY <1>1 DEF IsReached

LEMMA Avoiding ==
  ASSUME Complete, NEW d
  PROVE  /\ avoids(d) \subseteq Numbered /\ d \notin avoids(d)
         /\ Entry(fn) # d => Entry(fn) \in avoids(d)
         /\ \A b \in avoids(d) : \A c \in successors(fn, b) : c # d => c \in avoids(d)
<1>1. IsReached(fn, {d}, avoids(d)) /\ IsReached(fn, {}, Numbered)
  BY ReachedFacts DEF Complete, Span, Reachable, avoids
<1>2. \A b \in Numbered \cap avoids(d) : \A c \in successors(fn, b) : c \notin {d} => c \in Numbered
  BY <1>1 DEF IsReached
<1>3. Entry(fn) \in Numbered
  BY <1>1 DEF IsReached
<1>4. avoids(d) \subseteq Numbered
  BY <1>1, <1>2, <1>3 DEF IsReached
<1>5. /\ d \notin avoids(d)
      /\ Entry(fn) # d => Entry(fn) \in avoids(d)
      /\ \A b \in avoids(d) : \A c \in successors(fn, b) : c # d => c \in avoids(d)
  BY <1>1 DEF IsReached
<1> QED
  BY <1>4, <1>5

LEMMA AvoidingLeast ==
  ASSUME Complete, NEW d, NEW T, Entry(fn) # d => Entry(fn) \in T,
         \A b \in T \cap Numbered : \A c \in successors(fn, b) : c # d => c \in T
  PROVE  avoids(d) \subseteq T
<1>1. IsReached(fn, {d}, avoids(d))
  BY ReachedFacts DEF Complete, Span, avoids
<1>2. avoids(d) \subseteq Numbered
  BY Avoiding
<1>3. \A b \in T \cap avoids(d) : \A c \in successors(fn, b) : c \notin {d} => c \in T
  BY <1>2
<1>4. Entry(fn) \notin {d} => Entry(fn) \in T
  OBVIOUS
<1> QED
  BY <1>1, <1>3, <1>4 DEF IsReached

\* A dominator is an ancestor in the tree.
LEMMA DominatorAbove ==
  ASSUME Complete, NEW b \in Numbered, NEW d, dominates(fn, d, b)
  PROVE  d \in up(b)
<1> DEFINE T == {c \in Numbered : d \notin up(c) => c \in avoids(d)}
<1>s. Span
  BY DEF Complete
<1>1. ASSUME NEW c \in Numbered, \A e \in Numbered : rank[e] < rank[c] => e \in T
      PROVE  c \in T
  <2> SUFFICES ASSUME d \notin up(c) PROVE c \in avoids(d)
    OBVIOUS
  <2>0. c # d
    BY <1>s, UpSteps
  <2>1. CASE c = Entry(fn)
    BY <2>0, <2>1, Avoiding
  <2>2. CASE c # Entry(fn)
    <3>1. up(c) = {c} \cup up(parent[c]) /\ parent[c] \in Numbered
          /\ number(parent[c]) < number(c) /\ c \in successors(fn, parent[c])
      BY <1>s, <2>2, UpSteps, Numbers
    <3>2. parent[c] \in T
      BY <1>1, <1>s, <3>1, RankFacts
    <3>3. parent[c] \in avoids(d)
      BY <3>1, <3>2
    <3> QED
      BY <2>0, <3>1, <3>3, Avoiding
  <2> QED
    BY <2>1, <2>2
<1> HIDE DEF T
<1>2. Numbered \subseteq T
  BY <1>1, <1>s, RankFacts, RankInd
<1>3. b \notin avoids(d)
  BY DEF dominates, avoids
<1> QED
  BY <1>2, <1>3 DEF T

\* Down the tree from a block that can be reached without d, and whose number is
\* greater than d's, no block is dominated by d.
LEMMA TreeDown ==
  ASSUME Complete, NEW b \in Numbered, NEW a \in up(b), NEW d \in Numbered,
         a \in avoids(d), number(d) < number(a)
  PROVE  b \in avoids(d)
<1> DEFINE T == {c \in Numbered : a \in up(c) => c \in avoids(d)}
<1>s. Span
  BY DEF Complete
<1>n. \A e \in Numbered : number(e) \in Nat
  BY <1>s, Numbers
<1>1. ASSUME NEW c \in Numbered, \A e \in Numbered : rank[e] < rank[c] => e \in T
      PROVE  c \in T
  <2> SUFFICES ASSUME a \in up(c) PROVE c \in avoids(d)
    OBVIOUS
  <2>0. number(a) <= number(c) /\ a \in Numbered
    BY <1>s, UpNumber
  <2>1. CASE c = a
    BY <2>1
  <2>2. CASE c # a
    <3>0. c # Entry(fn)
      BY <1>s, <2>2, UpSteps
    <3>1. up(c) = {c} \cup up(parent[c]) /\ parent[c] \in Numbered
          /\ number(parent[c]) < number(c) /\ c \in successors(fn, parent[c])
      BY <1>s, <3>0, UpSteps, Numbers
    <3>2. parent[c] \in T
      BY <1>1, <1>s, <3>1, RankFacts
    <3>3. parent[c] \in avoids(d)
      BY <2>2, <3>1, <3>2
    <3>4. c # d
      BY <1>n, <2>0
    <3> QED
      BY <3>1, <3>3, <3>4, Avoiding
  <2> QED
    BY <2>1, <2>2
<1> HIDE DEF T
<1>2. Numbered \subseteq T
  BY <1>1, <1>s, RankFacts, RankInd
<1> QED
  BY <1>2 DEF T

-----------------------------------------------------------------------------
(* Semidominators. *)

\* The blocks from which a path through greater numbers leads to b, and b.
near(b) ==
  Closure({b}, [c \in Range(vertex) |->
                  {d \in predecessors(fn, c) \cap Range(vertex) : number(d) > number(b)}],
          Len(vertex))

LEMMA NearFacts ==
  ASSUME Span, NEW b \in Numbered
  PROVE  /\ near(b) \subseteq Numbered /\ b \in near(b)
         /\ \A c \in near(b) : number(c) >= number(b)
         /\ \A c \in near(b) : \A d \in Numbered :
              c \in successors(fn, d) /\ number(d) > number(b) => d \in near(b)
<1> DEFINE next == [c \in Range(vertex) |->
                      {d \in predecessors(fn, c) \cap Range(vertex) : number(d) > number(b)}]
           T == {c \in Numbered : number(c) >= number(b)}
<1>1. vertex \in Seq(BlocksOf(fn)) /\ Flow(fn)
  BY DEF Span
<1>2. /\ IsFiniteSet(Numbered) /\ Len(vertex) \in Nat /\ Cardinality(Numbered) <= Len(vertex)
      /\ Numbered \subseteq BlocksOf(fn)
  BY <1>1, RangeFacts DEF Numbered
<1>3. {b} \in SUBSET Numbered /\ next \in [Numbered -> SUBSET Numbered]
  BY DEF Numbered
<1>4. \A c \in Numbered : \A d \in Numbered :
        d \in next[c] <=> c \in successors(fn, d) /\ number(d) > number(b)
  BY <1>1, <1>2, PredecessorFacts DEF Numbered
<1> HIDE DEF next
<1>5. near(b) \subseteq Numbered /\ IsClosure(near(b), {b}, next)
  BY <1>2, <1>3, ClosureFacts DEF near, next
<1>6. b \in near(b) /\ \A c \in near(b) : next[c] \subseteq near(b)
  BY <1>5 DEF IsClosure
<1>7. \A c \in Numbered : number(c) \in Nat
  BY Numbers
<1>8. near(b) \subseteq T
  <2>1. {b} \subseteq T
    BY <1>7
  <2>2. \A c \in T \cap near(b) : next[c] \subseteq T
    BY <1>3, <1>4, <1>7
  <2> HIDE DEF T
  <2> QED
    BY <1>5, <2>1, <2>2 DEF IsClosure
<1>9. \A c \in near(b) : \A d \in Numbered :
        c \in successors(fn, d) /\ number(d) > number(b) => d \in near(b)
  BY <1>4, <1>5, <1>6
<1> QED
  BY <1>5, <1>6, <1>8, <1>9

LEMMA NearLeast ==
  ASSUME Span, NEW b \in Numbered, NEW T, b \in T,
         \A c \in T \cap Numbered : \A d \in Numbered :
           c \in successors(fn, d) /\ number(d) > number(b) => d \in T
  PROVE  near(b) \subseteq T
<1> DEFINE next == [c \in Range(vertex) |->
                      {d \in predecessors(fn, c) \cap Range(vertex) : number(d) > number(b)}]
<1>1. vertex \in Seq(BlocksOf(fn)) /\ Flow(fn)
  BY DEF Span
<1>2. /\ IsFiniteSet(Numbered) /\ Len(vertex) \in Nat /\ Cardinality(Numbered) <= Len(vertex)
      /\ Numbered \subseteq BlocksOf(fn)
  BY <1>1, RangeFacts DEF Numbered
<1>3. {b} \in SUBSET Numbered /\ next \in [Numbered -> SUBSET Numbered]
  BY DEF Numbered
<1>4. \A c \in Numbered : \A d \in Numbered :
        d \in next[c] <=> c \in successors(fn, d) /\ number(d) > number(b)
  BY <1>1, <1>2, PredecessorFacts DEF Numbered
<1> HIDE DEF next
<1>5. near(b) \subseteq Numbered /\ IsClosure(near(b), {b}, next)
  BY <1>2, <1>3, ClosureFacts DEF near, next
<1>6. \A c \in T \cap near(b) : next[c] \subseteq T
  <2> SUFFICES ASSUME NEW c \in T, c \in near(b), NEW d \in next[c] PROVE d \in T
    OBVIOUS
  <2>1. c \in Numbered /\ d \in Numbered
    BY <1>3, <1>5
  <2> QED
    BY <1>4, <2>1
<1>7. {b} \subseteq T
  OBVIOUS
<1> QED
  BY <1>5, <1>6, <1>7 DEF IsClosure

LEMMA SourceFacts ==
  ASSUME Span, NEW b \in Numbered, NEW s
  PROVE  s \in sources(b) <=> s \in Numbered /\ \E c \in near(b) : c \in successors(fn, s)
<1>1. sources(b) = UNION {predecessors(fn, c) \cap Range(vertex) : c \in near(b)}
  BY DEF sources, near
<1>2. Flow(fn) /\ Numbered \subseteq BlocksOf(fn)
  BY Numbers DEF Span
<1>3. \A c : s \in predecessors(fn, c) <=> s \in BlocksOf(fn) /\ c \in successors(fn, s)
  BY <1>2, PredecessorFacts
<1> QED
  BY <1>1, <1>2, <1>3 DEF Numbered

\* The block with the number Semidominator(b).
semiOf(b) == vertex[Semidominator(b)]

LEMMA SemiFacts ==
  ASSUME Span, NEW b \in Numbered, b # Entry(fn)
  PROVE  /\ semiOf(b) \in Numbered /\ number(semiOf(b)) = Semidominator(b)
         /\ semiOf(b) \in sources(b)
         /\ Semidominator(b) \in 1 .. Len(vertex)
         /\ \A s \in sources(b) : Semidominator(b) <= number(s)
         /\ Semidominator(b) <= number(parent[b]) /\ Semidominator(b) < number(b)
<1> DEFINE M == {number(c) : c \in sources(b)}
<1>1. \A s \in sources(b) : s \in Numbered
  BY SourceFacts
<1>2. \A s \in Numbered : number(s) \in 1 .. Len(vertex) /\ Len(vertex) \in Nat
  BY Numbers
<1>3. parent[b] \in sources(b) /\ number(parent[b]) < number(b) /\ parent[b] \in Numbered
  <2>1. b \in near(b) /\ b \in successors(fn, parent[b]) /\ parent[b] \in Numbered
        /\ number(parent[b]) < number(b)
    BY NearFacts, Numbers
  <2> QED
    BY <2>1, SourceFacts
<1>4. M \in SUBSET Nat /\ M # {}
  BY <1>1, <1>2, <1>3
<1>5. \E n \in M : \A c \in sources(b) : n <= number(c)
  <2> HIDE DEF M
  <2>1. PICK n \in M : \A m \in M : n <= m
    BY <1>4, NatMin
  <2> QED
    BY <2>1 DEF M
<1>6. Semidominator(b) \in M /\ \A c \in sources(b) : Semidominator(b) <= number(c)
  BY <1>5 DEF Semidominator
<1>7. PICK s \in sources(b) : Semidominator(b) = number(s)
  BY <1>6
<1>8. semiOf(b) = s
  BY <1>1, <1>7, Numbers DEF semiOf
<1>9. Semidominator(b) \in 1 .. Len(vertex)
  BY <1>1, <1>2, <1>7
<1>10. Semidominator(b) <= number(parent[b]) /\ Semidominator(b) < number(b)
  <2>1. Semidominator(b) <= number(parent[b])
    BY <1>3, <1>6
  <2>2. number(parent[b]) \in Nat /\ number(b) \in Nat /\ Semidominator(b) \in Nat
    BY <1>2, <1>3, <1>9
  <2> QED
    BY <1>3, <2>1, <2>2
<1> QED
  BY <1>1, <1>6, <1>7, <1>8, <1>9, <1>10

\* A source with a lesser number is an ancestor.
LEMMA SourceAbove ==
  ASSUME Span, NEW b \in Numbered, NEW s \in sources(b), number(s) < number(b)
  PROVE  s \in up(b)
<1>1. PICK c \in near(b) : c \in successors(fn, s)
  BY SourceFacts
<1>2. s \in Numbered /\ c \in Numbered /\ number(c) >= number(b)
  BY NearFacts, SourceFacts
<1>3. number(b) <= number(c)
  BY <1>2, Numbers
<1> QED
  BY <1>1, <1>2, <1>3, EdgeBetween

LEMMA SemiAbove ==
  ASSUME Span, NEW b \in Numbered, b # Entry(fn)
  PROVE  semiOf(b) \in up(b) /\ semiOf(b) # b
<1>1. semiOf(b) \in sources(b) /\ number(semiOf(b)) < number(b)
  BY SemiFacts
<1>2. number(b) \in Nat
  BY Numbers
<1> QED
  BY <1>1, <1>2, SourceAbove

-----------------------------------------------------------------------------
(* Semidominators and immediate dominators. *)

\* A proper dominator is an ancestor of the semidominator, or is it.
LEMMA DominatorAboveSemi ==
  ASSUME Complete, NEW b \in Numbered, NEW d \in Numbered, dominates(fn, d, b), d # b
  PROVE  d \in up(semiOf(b)) /\ b # Entry(fn) /\ number(d) <= Semidominator(b)
<1>s. Span
  BY DEF Complete
<1>n. \A e \in Numbered : number(e) \in Nat
  BY <1>s, Numbers
<1>1. d \in up(b) /\ number(d) < number(b) /\ b # Entry(fn)
  <2>1. d \in up(b)
    BY DominatorAbove
  <2> QED
    BY <1>s, <2>1, UpNumber, UpSteps
<1>2. semiOf(b) \in Numbered /\ semiOf(b) \in sources(b)
      /\ number(semiOf(b)) = Semidominator(b)
  BY <1>s, <1>1, SemiFacts
<1>3. d \in up(semiOf(b))
  <2> SUFFICES ASSUME d \notin up(semiOf(b)) PROVE FALSE
    OBVIOUS
  <2> DEFINE T == {c \in near(b) : c \in avoids(d) => b \in avoids(d)}
  <2>1. semiOf(b) \in avoids(d)
    BY <1>2, DominatorAbove DEF dominates, avoids
  <2>2. PICK k \in near(b) : k \in successors(fn, semiOf(b))
    BY <1>s, <1>2, SourceFacts
  <2>3. near(b) \subseteq Numbered /\ b \in near(b) /\ \A c \in near(b) : number(c) >= number(b)
    BY <1>s, NearFacts
  <2>4. \A c \in near(b) : c # d
    BY <1>1, <1>n, <2>3
  <2>5. \A c \in T \cap Numbered : \A e \in Numbered :
          c \in successors(fn, e) /\ number(e) > number(b) => e \in T
    <3> SUFFICES ASSUME NEW c \in T, NEW e \in Numbered, c \in successors(fn, e),
                        number(e) > number(b)
                 PROVE  e \in T
      OBVIOUS
    <3>1. e \in near(b)
      BY <1>s, NearFacts
    <3>2. e \in avoids(d) => c \in avoids(d)
      BY <2>4, Avoiding
    <3> QED
      BY <3>1, <3>2
  <2>6. b \in T
    BY <2>3
  <2> HIDE DEF T
  <2>7. near(b) \subseteq T
    BY <1>s, <2>5, <2>6, NearLeast
  <2>8. k \in avoids(d)
    BY <2>1, <2>2, <2>4, Avoiding
  <2>9. b \in avoids(d)
    BY <2>2, <2>7, <2>8 DEF T
  <2> QED
    BY <2>9 DEF dominates, avoids
<1>4. number(d) <= number(semiOf(b))
  BY <1>s, <1>2, <1>3, UpNumber
<1> QED
  BY <1>1, <1>2, <1>3, <1>4

\* An ancestor dominates b if no semidominator between the two is above it.
LEMMA DominatesBySemi ==
  ASSUME Complete, NEW b \in Numbered, NEW d \in up(b), d # b,
         \A y \in up(b) : number(y) > number(d) => Semidominator(y) >= number(d)
  PROVE  dominates(fn, d, b)
<1>s. Span
  BY DEF Complete
<1>n. \A e \in Numbered : number(e) \in Nat
  BY <1>s, Numbers
<1> DEFINE Y == {y \in up(b) : number(y) > number(d)}
           B == UNION {near(y) : y \in Y}
           T == Numbered \ (B \cup {d})
<1>1. up(b) \subseteq Numbered /\ b \in up(b) /\ d \in Numbered /\ number(d) < number(b)
  BY <1>s, UpIs, UpSteps, UpNumber
<1>2. \A y \in Y : y \in Numbered /\ number(y) > number(d) /\ Semidominator(y) >= number(d)
                   /\ y # Entry(fn)
  <2>1. \A y \in Y : y \in Numbered /\ number(y) > number(d) /\ Semidominator(y) >= number(d)
    BY <1>1
  <2>2. number(d) >= 1
    BY <1>s, <1>1, Numbers
  <2>3. \A y \in Y : number(y) >= 2
    BY <1>n, <1>1, <2>1, <2>2
  <2> QED
    BY <1>s, <2>1, <2>3, Numbers
<1> HIDE DEF Y
<1>3. \A y \in Y : near(y) \subseteq Numbered /\ y \in near(y)
                   /\ \A c \in near(y) : number(c) >= number(y)
  BY <1>s, <1>2, NearFacts
<1>4. \A c \in B : number(c) > number(d)
  <2> SUFFICES ASSUME NEW y \in Y, NEW c \in near(y) PROVE number(c) > number(d)
    OBVIOUS
  <2>1. number(c) \in Nat /\ number(y) \in Nat /\ number(d) \in Nat
    BY <1>n, <1>1, <1>2, <1>3
  <2>2. number(c) >= number(y) /\ number(y) > number(d)
    BY <1>2, <1>3
  <2> QED
    BY <2>1, <2>2
<1>5. Entry(fn) # d => Entry(fn) \in T
  <2>1. Entry(fn) \in Numbered
    BY <1>s, UpRoot, UpIs
  <2>2. number(Entry(fn)) < 2 /\ number(d) >= 1
    BY <1>n, <1>s, <1>1, <2>1, Numbers
  <2>3. ~(number(Entry(fn)) > number(d))
    BY <1>n, <1>1, <2>1, <2>2
  <2> HIDE DEF B
  <2> QED
    BY <1>4, <2>1, <2>3
<1>6. \A x \in T \cap Numbered : \A k \in successors(fn, x) : k # d => k \in T
  <2> SUFFICES ASSUME NEW x \in Numbered, x \notin B, x # d,
                      NEW k \in successors(fn, x), NEW y \in Y, k \in near(y)
               PROVE  FALSE
    <3>1. \A x \in Numbered : \A k \in successors(fn, x) : k \in Numbered
      BY Successors
    <3> QED
      BY <3>1
  <2>1. y \in Numbered /\ y \in near(y) /\ y \in up(b) /\ y # Entry(fn)
        /\ number(y) > number(d) /\ Semidominator(y) >= number(d)
    BY <1>2, <1>3 DEF Y
  <2>2. x # y
    BY <2>1
  <2>3. ~(number(x) > number(y))
    BY <1>s, <2>1, NearFacts
  <2>4. number(x) # number(y)
    BY <1>s, <2>1, <2>2, Numbers
  <2>5. number(x) < number(y)
    BY <1>n, <2>1, <2>3, <2>4
  <2>6. x \in sources(y)
    BY <1>s, <2>1, SourceFacts
  <2>7. x \in up(y)
    BY <1>s, <2>1, <2>5, <2>6, SourceAbove
  <2>8. x \in up(b)
    BY <1>s, <2>1, <2>7, UpTransitive
  <2>9. Semidominator(y) <= number(x)
    BY <1>s, <2>1, <2>6, SemiFacts
  <2>10. number(x) # number(d)
    BY <1>s, <1>1, Numbers
  <2>11. number(x) > number(d)
    <3>1. Semidominator(y) \in Nat /\ number(x) \in Nat /\ number(d) \in Nat
      BY <1>n, <1>s, <1>1, <2>1, SemiFacts
    <3> QED
      BY <2>1, <2>9, <2>10, <3>1
  <2>12. x \in Y
    BY <2>8, <2>11 DEF Y
  <2>13. x \in near(x)
    BY <1>s, NearFacts
  <2> QED
    BY <2>12, <2>13
<1>7. b \in B
  <2>1. b \in Y
    BY <1>n, <1>1 DEF Y
  <2> QED
    BY <1>3, <2>1
<1> HIDE DEF T
<1>8. avoids(d) \subseteq T
  BY <1>5, <1>6, AvoidingLeast
<1>9. b \notin avoids(d)
  BY <1>7, <1>8 DEF T
<1> QED
  BY <1>9 DEF dominates, avoids

\* d is the immediate dominator of b.
IsIdom(d, b) ==
  /\ d \in Reachable(fn) /\ d # b /\ dominates(fn, d, b)
  /\ \A a \in Reachable(fn) : dominates(fn, a, b) /\ a # b => dominates(fn, a, d)

\* The semidominator, if none between is lesser.
LEMMA IdomIsSemi ==
  ASSUME Complete, NEW b \in Numbered, b # Entry(fn),
         \A y \in up(b) : number(y) > Semidominator(b) => Semidominator(y) >= Semidominator(b)
  PROVE  IsIdom(semiOf(b), b)
<1>s. Span /\ Numbered = Reachable(fn) /\ Flow(fn)
  BY DEF Complete, Span
<1>n. \A e \in Numbered : number(e) \in Nat
  BY <1>s, Numbers
<1> DEFINE s == semiOf(b)
<1>1. s \in Numbered /\ number(s) = Semidominator(b) /\ s \in up(b) /\ s # b
  BY <1>s, SemiFacts, SemiAbove
<1> HIDE DEF s
<1>2. dominates(fn, s, b)
  BY <1>1, DominatesBySemi
<1>3. ASSUME NEW a \in Numbered, dominates(fn, a, b), a # b
      PROVE  dominates(fn, a, s)
  <2>1. CASE a = s
    BY <1>s, <2>1, DominatesReflexive
  <2>2. CASE a # s
    <3>1. a \in up(s)
      BY <1>3, DominatorAboveSemi DEF s
    <3>2. number(a) < number(s)
      BY <1>s, <1>1, <2>2, <3>1, UpNumber
    <3>3. s \notin avoids(a)
      BY <1>1, <1>3, <3>2, TreeDown DEF dominates, avoids
    <3> QED
      BY <3>3 DEF dominates, avoids
  <2> QED
    BY <2>1, <2>2
<1>4. IsIdom(s, b)
  BY <1>s, <1>1, <1>2, <1>3 DEF IsIdom
<1> QED
  BY <1>4 DEF s

\* Otherwise that of the block between whose semidominator is least.
LEMMA IdomIsRelative ==
  ASSUME Complete, NEW b \in Numbered, b # Entry(fn), NEW u \in up(b),
         number(u) > Semidominator(b),
         \A y \in up(b) : number(y) > Semidominator(b) => Semidominator(y) >= Semidominator(u),
         NEW d, IsIdom(d, u)
  PROVE  IsIdom(d, b)
<1>s. Span /\ Numbered = Reachable(fn) /\ Flow(fn)
  BY DEF Complete, Span
<1>n. \A e \in Numbered : number(e) \in Nat
  BY <1>s, Numbers
<1> DEFINE s == semiOf(b)
<1>1. s \in Numbered /\ number(s) = Semidominator(b) /\ s \in up(b) /\ s # b
  BY <1>s, SemiFacts, SemiAbove
<1>2. u \in Numbered /\ number(s) < number(u) /\ number(u) <= number(b)
  BY <1>n, <1>s, <1>1, UpNumber
<1> HIDE DEF s
<1>3. ASSUME NEW a \in Numbered, dominates(fn, a, b), a # b
      PROVE  dominates(fn, a, d)
  <2>1. a \in up(s)
    BY <1>3, DominatorAboveSemi DEF s
  <2>2. number(a) <= number(s)
    BY <1>s, <1>1, <2>1, UpNumber
  <2>3. number(a) < number(u)
    BY <1>n, <1>1, <1>2, <2>2
  <2>4. u \notin avoids(a)
    BY <1>3, <2>3, TreeDown DEF dominates, avoids
  <2>5. dominates(fn, a, u) /\ a # u
    BY <1>n, <1>2, <2>3, <2>4 DEF dominates, avoids
  <2> QED
    BY <1>s, <2>5 DEF IsIdom
<1>4. d \in Numbered /\ d # u /\ dominates(fn, d, u)
  BY <1>s DEF IsIdom
<1>5. d \in up(semiOf(u)) /\ u # Entry(fn) /\ number(d) <= Semidominator(u)
  BY <1>2, <1>4, DominatorAboveSemi
<1>6. d \in up(u) /\ d \in up(b)
  <2>1. d \in up(u)
    BY <1>2, <1>4, DominatorAbove
  <2> QED
    BY <1>s, <2>1, UpTransitive
<1>7. number(d) < number(u) /\ d # b
  <2>1. number(d) < number(u)
    BY <1>s, <1>2, <1>4, <1>6, UpNumber
  <2> QED
    BY <1>n, <1>2, <1>4, <2>1
<1>8. ASSUME NEW y \in up(b), number(y) > number(d)
      PROVE  Semidominator(y) >= number(d)
  <2>0. y \in Numbered /\ number(y) \in Nat /\ number(d) \in Nat /\ number(s) \in Nat
    BY <1>n, <1>s, <1>1, <1>4, UpNumber
  <2>1. y # Entry(fn)
    <3>1. number(d) >= 1
      BY <1>s, <1>4, Numbers
    <3> QED
      BY <1>8, <1>s, <2>0, <3>1, Numbers
  <2>2. Semidominator(y) \in Nat /\ Semidominator(u) \in Nat
    BY <1>s, <1>2, <1>5, <2>0, <2>1, SemiFacts
  <2>3. CASE number(y) > number(s)
    <3>1. Semidominator(y) >= Semidominator(u)
      BY <1>1, <2>3
    <3> QED
      BY <1>5, <2>0, <2>2, <3>1
  <2>4. CASE ~(number(y) > number(s))
    <3> SUFFICES ASSUME Semidominator(y) < number(d) PROVE FALSE
      BY <2>0, <2>2
    <3>1. y # d
      BY <1>8, <2>0
    <3>2. ~dominates(fn, d, y)
      <4> SUFFICES ASSUME dominates(fn, d, y) PROVE FALSE
        OBVIOUS
      <4>1. number(d) <= Semidominator(y)
        BY <1>4, <2>0, <3>1, DominatorAboveSemi
      <4> QED
        BY <2>0, <2>2, <4>1
    <3>3. y \in avoids(d)
      BY <3>2 DEF dominates, avoids
    <3>4. number(y) <= number(u)
      BY <1>n, <1>1, <1>2, <2>0, <2>4
    <3>5. y \in up(u)
      BY <1>s, <3>4, UpChain
    <3>6. number(d) < number(y)
      BY <1>8, <2>0
    <3>7. u \in avoids(d)
      BY <1>2, <1>4, <3>3, <3>5, <3>6, TreeDown
    <3> QED
      BY <1>4, <3>7 DEF dominates, avoids
  <2> QED
    BY <2>3, <2>4
<1>9. dominates(fn, d, b)
  BY <1>6, <1>7, <1>8, DominatesBySemi
<1> QED
  BY <1>s, <1>3, <1>4, <1>7, <1>9 DEF IsIdom

-----------------------------------------------------------------------------
(* The semidominator is the least number among the predecessors and the    *)
(* semidominators of their ancestors with greater numbers.                 *)

LEMMA SemiAtMost ==
  ASSUME Span, NEW b \in Numbered, b # Entry(fn), NEW v \in Numbered, b \in successors(fn, v)
  PROVE  /\ Semidominator(b) <= number(v)
         /\ \A u \in up(v) : number(u) > number(b) => Semidominator(b) <= Semidominator(u)
<1>n. \A e \in Numbered : number(e) \in Nat
  BY Numbers
<1>1. b \in near(b) /\ v \in sources(b)
  BY NearFacts, SourceFacts
<1>2. Semidominator(b) <= number(v)
  BY <1>1, SemiFacts
<1>3. ASSUME NEW u \in up(v), number(u) > number(b)
      PROVE  Semidominator(b) <= Semidominator(u)
  <2> DEFINE T == {x \in Numbered : number(x) > number(b) => x \in near(b)}
  <2>0. up(v) \subseteq Numbered /\ IsUp(up(v), parent, v)
    BY UpIs
  <2>1. v \in T
    BY <1>1, NearFacts
  <2>2. \A x \in T \cap up(v) : x \in DOMAIN parent => parent[x] \in T
    <3> SUFFICES ASSUME NEW x \in T, x \in DOMAIN parent, number(parent[x]) > number(b)
                 PROVE  parent[x] \in near(b)
      BY Numbers
    <3>1. x \in Numbered /\ parent[x] \in Numbered /\ x \in successors(fn, parent[x])
          /\ number(parent[x]) < number(x)
      BY Numbers
    <3>2. number(x) > number(b)
      BY <1>n, <3>1
    <3>3. x \in near(b)
      BY <3>2
    <3> QED
      BY <3>1, <3>3, NearFacts
  <2> HIDE DEF T
  <2>3. u \in T
    BY <2>0, <2>1, <2>2 DEF IsUp
  <2>4. u \in Numbered /\ u \in near(b)
    BY <1>3, <2>0, <2>3 DEF T
  <2>5. \A c \in near(b) \cap Numbered : \A d \in Numbered :
          c \in successors(fn, d) /\ number(d) > number(u) => d \in near(b)
    <3> SUFFICES ASSUME NEW c \in near(b), NEW d \in Numbered, c \in successors(fn, d),
                        number(d) > number(u)
                 PROVE  d \in near(b)
      OBVIOUS
    <3>1. number(d) > number(b)
      BY <1>3, <1>n, <2>4
    <3> QED
      BY <3>1, NearFacts
  <2>6. near(u) \subseteq near(b)
    BY <2>4, <2>5, NearLeast
  <2>7. u # Entry(fn)
    BY <1>3, <1>n, <2>4, Numbers
  <2>8. semiOf(u) \in sources(u) /\ number(semiOf(u)) = Semidominator(u)
    BY <2>4, <2>7, SemiFacts
  <2>9. semiOf(u) \in sources(b)
    BY <2>4, <2>6, <2>8, SourceFacts
  <2> QED
    BY <2>8, <2>9, SemiFacts
<1> QED
  BY <1>2, <1>3

\* No number below all of these is less than the semidominator.
LEMMA SemiAtLeast ==
  ASSUME Span, NEW b \in Numbered, b # Entry(fn), NEW n \in Nat,
         \A v \in Numbered : b \in successors(fn, v) =>
           /\ number(v) < number(b) => n <= number(v)
           /\ \A u \in up(v) : number(u) > number(b) => n <= Semidominator(u)
  PROVE  n <= Semidominator(b)
<1>n. \A e \in Numbered : number(e) \in Nat
  BY Numbers
<1> DEFINE U == {u \in Numbered : /\ number(u) > number(b)
                                  /\ \E v \in Numbered : b \in successors(fn, v) /\ u \in up(v)}
           T == {b} \cup UNION {near(u) : u \in U}
           s == semiOf(b)
<1>1. ASSUME NEW c \in T, NEW d \in Numbered, c \in successors(fn, d), number(d) > number(b)
      PROVE  d \in T
  <2>0. d \in near(d) /\ d \in up(d)
    BY NearFacts, UpSteps
  <2>1. CASE c = b
    <3>1. d \in U
      BY <1>1, <2>0, <2>1
    <3> QED
      BY <2>0, <3>1
  <2>2. CASE c # b
    <3>1. PICK u \in U : c \in near(u)
      BY <2>2
    <3>2. u \in Numbered /\ number(u) > number(b)
      OBVIOUS
    <3>3. PICK v \in Numbered : b \in successors(fn, v) /\ u \in up(v)
      OBVIOUS
    <3>4. CASE number(d) > number(u)
      BY <1>1, <3>1, <3>2, <3>4, NearFacts
    <3>5. CASE number(d) = number(u)
      <4>1. d = u
        BY <3>2, <3>5, Numbers
      <4> QED
        BY <2>0, <4>1
    <3>6. CASE number(d) < number(u)
      <4>1. d \in sources(u)
        BY <1>1, <3>1, <3>2, SourceFacts
      <4>2. d \in up(u)
        BY <3>2, <3>6, <4>1, SourceAbove
      <4>3. d \in up(v)
        BY <3>3, <4>2, UpTransitive
      <4>4. d \in U
        BY <1>1, <3>3, <4>3
      <4> QED
        BY <2>0, <4>4
    <3>7. number(d) \in Nat /\ number(u) \in Nat
      BY <1>n, <3>2
    <3> QED
      BY <3>4, <3>5, <3>6, <3>7
  <2> QED
    BY <2>1, <2>2
<1>2. near(b) \subseteq T
  <2>1. b \in T
    OBVIOUS
  <2>2. \A c \in T \cap Numbered : \A d \in Numbered :
          c \in successors(fn, d) /\ number(d) > number(b) => d \in T
    BY <1>1
  <2> HIDE DEF T
  <2> QED
    BY <2>1, <2>2, NearLeast
<1>3. s \in sources(b) /\ number(s) = Semidominator(b) /\ s \in Numbered
      /\ Semidominator(b) < number(b)
  BY SemiFacts
<1> HIDE DEF s
<1>4. PICK c \in near(b) : c \in successors(fn, s)
  BY <1>3, SourceFacts
<1>5. CASE c = b
  BY <1>3, <1>4, <1>5
<1>6. CASE c # b
  <2>1. PICK u \in U : c \in near(u)
    BY <1>2, <1>4, <1>6
  <2>2. u \in Numbered /\ number(u) > number(b)
    OBVIOUS
  <2>3. PICK v \in Numbered : b \in successors(fn, v) /\ u \in up(v)
    OBVIOUS
  <2>4. s \in sources(u)
    BY <1>3, <1>4, <2>1, <2>2, SourceFacts
  <2>5. u # Entry(fn)
    BY <1>n, <2>2, Numbers
  <2>6. Semidominator(u) <= number(s) /\ Semidominator(u) \in Nat
    BY <2>2, <2>4, <2>5, SemiFacts
  <2>7. n <= Semidominator(u)
    BY <2>2, <2>3
  <2>8. Semidominator(b) \in Nat
    BY <1>n, <1>3
  <2> QED
    BY <1>3, <2>6, <2>7, <2>8
<1> QED
  BY <1>5, <1>6

-----------------------------------------------------------------------------
(* The invariant of the search that numbers the blocks. *)

\* The edge from b to c is to be followed, or the call that it led to runs.
Pending(b, c) ==
  \/ \E k \in 1 .. Len(path) : path[k].block = b /\ c \in path[k].left
  \/ \E k \in 2 .. Len(path) : path[k].block = b /\ path[k - 1].block = c

Frames ==
  /\ path \in Seq([block : Numbered, left : SUBSET BlocksOf(fn)])
  /\ \A k \in 1 .. Len(path) : path[k].left \subseteq successors(fn, path[k].block)
  /\ \A k \in 2 .. Len(path) : path[k - 1].block \in successors(fn, path[k].block)
  /\ \A j, k \in 1 .. Len(path) : j <= k => path[k].block \in up(path[j].block)
  /\ path # <<>> => path[1].block \in up(vertex[Len(vertex)])

\* What a search has collected of the predecessors.
Collected ==
  /\ pred \in [BlocksOf(fn) -> Seq(Numbered)]
  /\ \A c \in BlocksOf(fn) : \A v \in Range(pred[c]) : c \in Numbered /\ c \in successors(fn, v)
  /\ \A b \in Numbered : \A c \in successors(fn, b) : Pending(b, c) \/ b \in Range(pred[c])
  /\ bucket = [b \in BlocksOf(fn) |-> <<>>]

Searching ==
  /\ Span /\ Numbered \subseteq Reachable(fn)
  /\ DOMAIN semi = Numbered /\ DOMAIN label = Numbered
  /\ \A b \in Numbered : semi[b] = number(b) /\ label[b] = b
  /\ DOMAIN ancestor = {} /\ DOMAIN idom = {}
  /\ Frames
  /\ path = <<>> <=> vertex = <<>>
  /\ vertex # <<>> => Collected

-----------------------------------------------------------------------------
(* The invariant of the loops that link the blocks to their parents. *)

Predecessors ==
  /\ pred \in [BlocksOf(fn) -> Seq(Numbered)]
  /\ \A c \in Numbered : \A v \in Numbered : v \in Range(pred[c]) <=> c \in successors(fn, v)

\* a is above x, what is between is linked, and l is one between with the least
\* semidominator.
IsLink(x, a, l) ==
  /\ a \in up(x) /\ a # x
  /\ \A y \in up(x) : number(y) > number(a) => y \in DOMAIN ancestor
  /\ l \in up(x) /\ number(l) > number(a)
  /\ \A y \in up(x) : number(y) > number(a) => Semidominator(l) <= Semidominator(y)

Forest ==
  /\ DOMAIN ancestor = {x \in Numbered : \/ number(x) > cursor
                                         \/ number(x) = cursor /\ dtStep = "bucket"}
  /\ \A x \in DOMAIN ancestor : IsLink(x, ancestor[x], label[x])

\* n takes account of the edge from v to b.
Counts(n, b, v) ==
  /\ number(v) < number(b) => n <= number(v)
  /\ \A u \in up(v) : number(u) > number(b) => n <= Semidominator(u)

Semis ==
  /\ DOMAIN semi = Numbered /\ DOMAIN label = Numbered
  /\ \A x \in DOMAIN ancestor : semi[x] = Semidominator(x)
  /\ \A x \in Numbered \ DOMAIN ancestor : label[x] = x /\ (x # w => semi[x] = number(x))

\* What semi[w] is while the predecessors of w are evaluated.
SemiSoFar ==
  /\ semi[w] \in Nat /\ Semidominator(w) <= semi[w] /\ semi[w] <= number(w)
  /\ Range(todo) \subseteq Range(pred[w])
  /\ \A v \in Range(pred[w]) : v \in Range(todo) \/ Counts(semi[w], w, v)

Buckets ==
  /\ bucket \in [BlocksOf(fn) -> Seq(Numbered)]
  /\ \A s \in BlocksOf(fn) : \A v \in Range(bucket[s]) : v \in DOMAIN ancestor /\ semiOf(v) = s
  /\ \A v \in DOMAIN ancestor : v \in Range(bucket[semiOf(v)])

\* d is the semidominator of v if that is the immediate dominator, or a block
\* that has the same immediate dominator.
IsRelative(d, v) ==
  \/ /\ d = semiOf(v)
     /\ \A y \in up(v) : number(y) > Semidominator(v) => Semidominator(y) >= Semidominator(v)
  \/ /\ d \in up(v) /\ number(d) > Semidominator(v) /\ Semidominator(d) < Semidominator(v)
     /\ \A y \in up(v) : number(y) > Semidominator(v) => Semidominator(y) >= Semidominator(d)

\* The bucket with v is still to be gone through for child c of the semidominator.
Waits(v, c) ==
  /\ c \in DOMAIN parent /\ parent[c] = semiOf(v)
  /\ \/ number(c) < cursor
     \/ number(c) = cursor /\ (dtStep = "semi" \/ v \in Range(todo))

Relatives ==
  /\ DOMAIN idom \subseteq DOMAIN ancestor
  /\ \A v \in DOMAIN idom : IsRelative(idom[v], v)
  /\ \A v \in DOMAIN ancestor : v \in DOMAIN idom \/ \E c \in up(v) : Waits(v, c)

Linking ==
  /\ Complete /\ Predecessors
  /\ cursor \in 2 .. Len(vertex)
  /\ todo \in Seq(Numbered)
  /\ Forest /\ Semis /\ Buckets /\ Relatives
  /\ dtStep = "semi" => SemiSoFar
  /\ dtStep = "bucket" => Range(todo) \subseteq Range(bucket[parent[w]])
  /\ DOMAIN discover = {} /\ DOMAIN finish = {}

Resolving ==
  /\ Complete
  /\ cursor \in 2 .. (Len(vertex) + 1)
  /\ DOMAIN idom = Numbered \ {Entry(fn)}
  /\ \A x \in DOMAIN idom : /\ semi[x] = Semidominator(x)
                            /\ number(x) >= cursor => IsRelative(idom[x], x)
                            /\ number(x) < cursor => IsIdom(idom[x], x)
  /\ DOMAIN discover = {} /\ DOMAIN finish = {}

-----------------------------------------------------------------------------
(* The invariant of the walk over the tree. *)

Times ==
  /\ IsFiniteSet(DOMAIN discover) /\ DOMAIN discover \subseteq Reachable(fn)
  /\ DOMAIN finish \subseteq DOMAIN discover
  /\ \A x \in DOMAIN discover : discover[x] \in Nat /\ discover[x] < time
  /\ \A x \in DOMAIN finish : finish[x] \in Nat /\ finish[x] < time /\ discover[x] < finish[x]

\* The intervals so far: nested if one block dominates the other, disjoint if not.
Intervals ==
  \A y \in DOMAIN discover : \A x \in Reachable(fn) :
    /\ dominates(fn, x, y) =>
         /\ x \in DOMAIN discover /\ discover[x] <= discover[y]
         /\ x \in DOMAIN finish => y \in DOMAIN finish /\ finish[y] <= finish[x]
    /\ ~dominates(fn, x, y) /\ x \in DOMAIN discover /\ discover[x] <= discover[y] =>
         x \in DOMAIN finish /\ finish[x] < discover[y]

Stack ==
  /\ path \in Seq([block : Reachable(fn), left : SUBSET Reachable(fn)])
  /\ \A k \in 1 .. Len(path) :
       /\ path[k].block \in DOMAIN discover \ DOMAIN finish
       /\ path[k].left = children(path[k].block) \ DOMAIN discover
  /\ \A j, k \in 1 .. Len(path) : j < k =>
       /\ dominates(fn, path[k].block, path[j].block)
       /\ discover[path[k].block] < discover[path[j].block]
  /\ \A x \in DOMAIN discover \ DOMAIN finish : \E k \in 1 .. Len(path) : path[k].block = x
  /\ \A x \in DOMAIN finish : children(x) \subseteq DOMAIN discover

Walking ==
  /\ Flow(fn)
  /\ \A b \in Reachable(fn) \ {Entry(fn)} : IsIdom(idom[b], b)
  /\ Entry(fn) \in DOMAIN discover
  /\ Times /\ Intervals /\ Stack

DTInv ==
  /\ Flow(fn)
  /\ dtStep \in {"number", "semi", "bucket", "resolve", "tree", "done"}
  /\ compressing # <<>> => dtStep \in {"semi", "bucket"} /\ todo # <<>>
  /\ dtStep = "number" => Searching /\ DOMAIN discover = {} /\ DOMAIN finish = {}
  /\ dtStep \in {"semi", "bucket"} => Linking
  /\ dtStep \in {"semi", "bucket", "resolve"} => path = <<>>
  /\ dtStep = "resolve" => Resolving
  /\ dtStep = "tree" => Walking /\ path # <<>>
  /\ dtStep = "done" => Walking /\ path = <<>>

-----------------------------------------------------------------------------
(* The search. *)

\* A block is found from p: the tree grows by it.
LEMMA SpanGrows ==
  ASSUME Span, vertex # <<>>, NEW x \in BlocksOf(fn) \ Numbered,
         NEW p \in up(vertex[Len(vertex)]), x \in successors(fn, p),
         \A a \in Numbered : x \in successors(fn, a) => a \in up(p),
         fn' = fn, vertex' = Append(vertex, x), parent' = Put(parent, x, p)
  PROVE  /\ Span' /\ Numbered' = Numbered \cup {x} /\ vertex' # <<>>
         /\ vertex[Len(vertex)]' = x
         /\ \A b \in Numbered : number(b)' = number(b)
         /\ number(x)' = Len(vertex) + 1
         /\ \A b \in Numbered : up(b)' = up(b)
         /\ up(x)' = {x} \cup up(p)
<1> DEFINE n == Len(vertex)
<1>1. /\ vertex \in Seq(BlocksOf(fn)) /\ IsInjective(vertex)
      /\ vertex[1] = Entry(fn) /\ DOMAIN parent = Numbered \ {Entry(fn)}
  BY DEF Span, Numbered
<1>2. n \in Nat /\ n >= 1 /\ DOMAIN vertex = 1 .. n
  BY <1>1
<1>3. vertex[n] \in Numbered /\ up(vertex[n]) \subseteq Numbered /\ p \in Numbered
  <2>1. vertex[n] \in Numbered
    BY <1>2, Numbers
  <2> QED
    BY <2>1, UpIs
<1>4. /\ vertex' \in Seq(BlocksOf(fn)) /\ DOMAIN vertex' = 1 .. (n + 1) /\ Len(vertex') = n + 1
      /\ \A k \in 1 .. n : vertex'[k] = vertex[k]
      /\ vertex'[n + 1] = x
  BY <1>1, <1>2
<1>5. Numbered' = Numbered \cup {x}
  BY <1>2, <1>4 DEF Numbered, Range
<1>6. \A k \in 1 .. n : vertex[k] \in Numbered
  BY <1>2, Numbers
<1>7. IsInjective(vertex')
  <2> SUFFICES ASSUME NEW i \in 1 .. (n + 1), NEW j \in 1 .. (n + 1), vertex'[i] = vertex'[j]
               PROVE  i = j
    BY <1>4 DEF IsInjective
  <2>1. CASE i \in 1 .. n /\ j \in 1 .. n
    BY <1>1, <1>2, <1>4, <2>1 DEF IsInjective
  <2>2. CASE i = n + 1 \/ j = n + 1
    BY <1>2, <1>4, <1>6, <2>2
  <2> QED
    BY <1>2, <2>1, <2>2
<1>8. /\ \A k \in 1 .. (n + 1) : \A b : b = vertex'[k] => number(b)' = k
      /\ \A k \in 1 .. n : number(vertex[k]) = k
  <2>1. \A k \in 1 .. Len(vertex') : (CHOOSE m \in DOMAIN vertex' : vertex'[m] = vertex'[k]) = k
    <3> DEFINE s == vertex'
    <3>1. s \in Seq(BlocksOf(fn)) /\ IsInjective(s)
      BY <1>4, <1>7
    <3> HIDE DEF s
    <3>2. \A k \in 1 .. Len(s) : (CHOOSE m \in DOMAIN s : s[m] = s[k]) = k
      BY <3>1, NumberFacts
    <3> QED
      BY <3>2 DEF s
  <2>2. \A k \in 1 .. n : number(vertex[k]) = k
    BY <1>2, Numbers
  <2> QED
    BY <1>4, <2>1, <2>2 DEF number
<1>9. /\ \A b \in Numbered : number(b)' = number(b)
      /\ number(x)' = n + 1
  <2>1. number(x)' = n + 1
    BY <1>2, <1>4, <1>8
  <2>2. ASSUME NEW b \in Numbered PROVE number(b)' = number(b)
    <3>1. number(b) \in 1 .. n /\ vertex[number(b)] = b
      BY Numbers
    <3> HIDE DEF n
    <3> QED
      BY <1>2, <1>4, <1>8, <3>1
  <2> QED
    BY <2>1, <2>2
<1>10. /\ DOMAIN parent' = DOMAIN parent \cup {x} /\ parent'[x] = p
       /\ \A b \in DOMAIN parent : parent'[b] = parent[b]
  BY <1>1 DEF Put
<1>e. Entry(fn) \in Numbered /\ x # Entry(fn)
  BY <1>1, <1>2, <1>6
<1>11. /\ DOMAIN parent' = (Numbered \cup {x}) \ {Entry(fn)}
       /\ \A b \in DOMAIN parent' : parent'[b] \in Numbered
  <2>1. \A b \in DOMAIN parent : parent[b] \in Numbered
    BY DEF Span, Numbered
  <2> QED
    BY <1>1, <1>3, <1>e, <1>10, <2>1
<1>12. ASSUME NEW b \in Numbered \cup {x}
       PROVE  IsUp(up(b)', parent', b)
  <2> DEFINE s == vertex'
             par == parent'
  <2>1. s \in Seq(BlocksOf(fn)) /\ Range(s) = Numbered \cup {x}
    BY <1>4, <1>5 DEF Numbered
  <2>2. \A c \in Range(s) : c \in DOMAIN par => par[c] \in Range(s)
    BY <1>11, <2>1
  <2> HIDE DEF s, par
  <2>3. IsUp(Up(s, par, b), par, b)
    BY <2>1, <2>2, UpLeast
  <2> QED
    BY <2>3 DEF s, par, up
<1>13. ASSUME NEW b \in Numbered PROVE up(b)' = up(b) /\ IsUp(up(b), parent', b)
  <2> DEFINE par == parent'
             U == up(b)
             W == up(b)'
  <2>1. U \subseteq Numbered /\ IsUp(U, parent, b)
    BY UpIs
  <2>2. \A c \in U : /\ c \in DOMAIN parent <=> c \in DOMAIN par
                     /\ c \in DOMAIN parent => par[c] = parent[c]
    BY <1>10, <2>1
  <2>3. IsUp(W, par, b)
    BY <1>12
  <2> HIDE DEF par, U, W
  <2>4. IsUp(U, par, b)
    BY <2>1, <2>2, UpKept
  <2>5. W = U
    BY <2>3, <2>4, UpUnique
  <2> QED
    BY <2>4, <2>5 DEF par, U, W
<1>14. up(x)' = {x} \cup up(p)
  <2> DEFINE par == parent'
             U == up(p)
             W == up(x)'
  <2>1. IsUp(U, par, p)
    BY <1>3, <1>13
  <2>2. IsUp(W, par, x)
    BY <1>12
  <2>3. x \in DOMAIN par /\ par[x] = p
    BY <1>10
  <2> HIDE DEF par, U, W
  <2>4. IsUp({x} \cup U, par, x)
    BY <2>1, <2>3, UpParent
  <2>5. W = {x} \cup U
    BY <2>2, <2>4, UpUnique
  <2> QED
    BY <2>5 DEF U, W
<1>15. Span'
  <2>1. /\ Flow(fn)' /\ vertex' \in Seq(BlocksOf(fn))' /\ IsInjective(vertex)'
        /\ vertex[1]' = Entry(fn)'
    <3>1. Flow(fn)
      BY DEF Span
    <3> QED
      BY <1>1, <1>2, <1>4, <1>7, <3>1
  <2>2. DOMAIN parent' = Range(vertex)' \ {Entry(fn)'}
    BY <1>5, <1>11 DEF Numbered
  <2>3. ASSUME NEW b \in DOMAIN parent'
        PROVE  /\ parent'[b] \in Numbered'
               /\ b \in successors(fn, parent'[b])
               /\ \A c : c = parent'[b] => number(c)' < number(b)'
    <3>1. CASE b = x
      <4>1. number(p) \in 1 .. n
        BY <1>3, Numbers
      <4> HIDE DEF n
      <4> QED
        BY <1>2, <1>3, <1>5, <1>9, <1>10, <3>1, <4>1
    <3>2. CASE b # x
      <4>1. b \in DOMAIN parent /\ b \in Numbered
        BY <1>1, <1>10, <3>2
      <4>2. parent[b] \in Numbered /\ b \in successors(fn, parent[b]) /\ number(parent[b]) < number(b)
        BY <4>1, Numbers
      <4> QED
        BY <1>5, <1>9, <1>10, <4>1, <4>2
    <3> QED
      BY <3>1, <3>2
  <2>4. ASSUME NEW k \in 2 .. (n + 1)
        PROVE  \A c : c = vertex'[k - 1] => parent'[vertex'[k]] \in up(c)'
    <3>1. CASE k = n + 1
      <4>1. vertex'[k] = x /\ vertex'[k - 1] = vertex[n]
        BY <1>2, <1>4, <3>1
      <4> QED
        BY <1>3, <1>10, <1>13, <4>1
    <3>2. CASE k \in 2 .. n
      <4>1. vertex'[k] = vertex[k] /\ vertex'[k - 1] = vertex[k - 1]
        BY <1>2, <1>4, <3>2
      <4>2. parent[vertex[k]] \in up(vertex[k - 1]) /\ vertex[k - 1] \in Numbered
        BY <1>2, <1>6, <3>2 DEF Span
      <4>3. vertex[k] \in DOMAIN parent
        <5>1. vertex[k] \in Numbered /\ number(vertex[k]) = k
          BY <1>2, <3>2, Numbers
        <5>2. number(vertex[k]) >= 2
          BY <3>2, <5>1
        <5> QED
          BY <5>1, <5>2, Numbers
      <4> QED
        BY <1>10, <1>13, <4>1, <4>2, <4>3
    <3> QED
      BY <1>2, <3>1, <3>2
  <2>5. ASSUME NEW k \in 2 .. (n + 1), NEW a \in Numbered',
               vertex'[k] \in successors(fn, a), number(a)' < k
        PROVE  \A c : c = vertex'[k] => a \in up(c)'
    <3>1. CASE k = n + 1
      <4>1. a # x
        BY <1>2, <1>9, <2>5, <3>1
      <4>2. a \in Numbered /\ a \in up(p)
        BY <1>4, <1>5, <2>5, <3>1, <4>1
      <4> QED
        BY <1>4, <1>14, <3>1, <4>2
    <3>2. CASE k \in 2 .. n
      <4>1. vertex'[k] = vertex[k] /\ vertex[k] \in Numbered
        BY <1>2, <1>4, <1>6, <3>2
      <4>2. a # x
        BY <1>2, <1>9, <2>5, <3>2
      <4>3. a \in Numbered /\ number(a) < k
        BY <1>5, <1>9, <2>5, <4>2
      <4>4. a \in up(vertex[k])
        BY <2>5, <3>2, <4>1, <4>3 DEF Span, Numbered
      <4> QED
        BY <1>13, <4>1, <4>4
    <3> QED
      BY <1>2, <3>1, <3>2
  <2>6. \A b \in DOMAIN parent' : /\ parent'[b] \in Range(vertex')
                                 /\ b \in successors(fn', parent'[b])
                                 /\ number(parent[b])' < number(b)'
    <3>1. \A b \in DOMAIN parent' : \A c : c = parent'[b] => number(c)' < number(b)'
      BY <2>3
    <3>2. \A b \in DOMAIN parent' : number(parent[b])' < number(b)'
      BY <3>1 DEF number
    <3> QED
      BY <2>3, <3>2 DEF Numbered
  <2>7. \A k \in 2 .. Len(vertex') : parent'[vertex'[k]] \in up(vertex[k - 1])'
    <3>1. \A k \in 2 .. Len(vertex') : \A c : c = vertex'[k - 1] => parent'[vertex'[k]] \in up(c)'
      BY <1>4, <2>4
    <3> QED
      BY <3>1 DEF up
  <2>8. \A k \in 2 .. Len(vertex') : \A a \in Range(vertex') :
          vertex'[k] \in successors(fn', a) /\ number(a)' < k => a \in up(vertex[k])'
    <3>1. \A k \in 2 .. Len(vertex') : \A a \in Range(vertex') :
            vertex'[k] \in successors(fn', a) /\ number(a)' < k =>
              \A c : c = vertex'[k] => a \in up(c)'
      BY <1>4, <2>5 DEF Numbered
    <3> QED
      BY <3>1 DEF up
  <2> QED
    BY <2>1, <2>2, <2>6, <2>7, <2>8 DEF Span
<1> QED
  BY <1>4, <1>5, <1>9, <1>13, <1>14, <1>15

\* A call is added to those that run, or the innermost one goes on or returns.
LEMMA CallFacts ==
  ASSUME NEW F, NEW s \in Seq(F), s # <<>>, NEW a \in F, NEW b \in F
  PROVE  /\ <<a, b>> \o Tail(s) \in Seq(F) /\ Len(<<a, b>> \o Tail(s)) = Len(s) + 1
         /\ (<<a, b>> \o Tail(s))[1] = a /\ (<<a, b>> \o Tail(s))[2] = b
         /\ \A k \in 3 .. (Len(s) + 1) : (<<a, b>> \o Tail(s))[k] = s[k - 1]
<1>1. Tail(s) \in Seq(F) /\ Len(Tail(s)) = Len(s) - 1 /\ Len(s) \in Nat /\ Len(s) >= 1
  OBVIOUS
<1>2. \A k \in 1 .. (Len(s) - 1) : Tail(s)[k] = s[k + 1]
  OBVIOUS
<1> DEFINE t == Tail(s)
<1>3. t \in Seq(F) /\ Len(t) = Len(s) - 1 /\ \A k \in 1 .. (Len(s) - 1) : t[k] = s[k + 1]
  BY <1>1, <1>2
<1> HIDE DEF t
<1>4. /\ <<a, b>> \o t \in Seq(F) /\ Len(<<a, b>> \o t) = Len(s) + 1
      /\ (<<a, b>> \o t)[1] = a /\ (<<a, b>> \o t)[2] = b
  BY <1>1, <1>3
<1>5. ASSUME NEW k \in 3 .. (Len(s) + 1) PROVE (<<a, b>> \o t)[k] = s[k - 1]
  <2>1. (<<a, b>> \o t)[k] = t[k - 2]
    BY <1>1, <1>3
  <2>2. k - 2 \in 1 .. (Len(s) - 1) /\ (k - 2) + 1 = k - 1
    BY <1>1
  <2> QED
    BY <1>3, <2>1, <2>2
<1> QED
  BY <1>4, <1>5 DEF t

LEMMA TopFacts ==
  ASSUME NEW F, NEW s \in Seq(F), s # <<>>, NEW a \in F
  PROVE  /\ <<a>> \o Tail(s) \in Seq(F) /\ Len(<<a>> \o Tail(s)) = Len(s)
         /\ (<<a>> \o Tail(s))[1] = a
         /\ \A k \in 2 .. Len(s) : (<<a>> \o Tail(s))[k] = s[k]
<1>1. Tail(s) \in Seq(F) /\ Len(Tail(s)) = Len(s) - 1 /\ Len(s) \in Nat /\ Len(s) >= 1
  OBVIOUS
<1>2. \A k \in 1 .. (Len(s) - 1) : Tail(s)[k] = s[k + 1]
  OBVIOUS
<1> DEFINE t == Tail(s)
<1>3. t \in Seq(F) /\ Len(t) = Len(s) - 1 /\ \A k \in 1 .. (Len(s) - 1) : t[k] = s[k + 1]
  BY <1>1, <1>2
<1> HIDE DEF t
<1>4. <<a>> \o t \in Seq(F) /\ Len(<<a>> \o t) = Len(s) /\ (<<a>> \o t)[1] = a
  <2>1. <<a>> \in Seq(F) /\ Len(<<a>>) = 1
    OBVIOUS
  <2>2. <<a>> \o t \in Seq(F) /\ Len(<<a>> \o t) = 1 + Len(t)
    BY <1>3, <2>1
  <2>3. (<<a>> \o t)[1] = a
    BY <1>1, <1>3
  <2>4. 1 + Len(t) = Len(s)
    BY <1>1, <1>3
  <2> DEFINE u == <<a>> \o t
  <2>5. u \in Seq(F) /\ Len(u) = 1 + Len(t) /\ u[1] = a
    BY <2>2, <2>3
  <2> HIDE DEF u
  <2>6. u \in Seq(F) /\ Len(u) = Len(s) /\ u[1] = a
    BY <2>4, <2>5
  <2> QED
    BY <2>6 DEF u
<1>5. ASSUME NEW k \in 2 .. Len(s) PROVE (<<a>> \o t)[k] = s[k]
  <2>1. (<<a>> \o t)[k] = t[k - 1]
    BY <1>1, <1>3
  <2>2. k - 1 \in 1 .. (Len(s) - 1) /\ (k - 1) + 1 = k
    BY <1>1
  <2> QED
    BY <1>3, <2>1, <2>2
<1> QED
  BY <1>4, <1>5 DEF t

LEMMA TailFacts ==
  ASSUME NEW F, NEW s \in Seq(F), s # <<>>
  PROVE  /\ Tail(s) \in Seq(F) /\ Len(Tail(s)) = Len(s) - 1 /\ Len(s) \in Nat /\ Len(s) >= 1
         /\ \A k \in 1 .. (Len(s) - 1) : Tail(s)[k] = s[k + 1]
         /\ Range(s) = {s[1]} \cup Range(Tail(s)) /\ Head(s) = s[1]
<1>1. /\ Tail(s) \in Seq(F) /\ Len(Tail(s)) = Len(s) - 1 /\ Len(s) \in Nat /\ Len(s) >= 1
      /\ \A k \in 1 .. (Len(s) - 1) : Tail(s)[k] = s[k + 1]
  OBVIOUS
<1> DEFINE t == Tail(s)
<1>2. /\ t \in Seq(F) /\ Len(t) = Len(s) - 1
      /\ \A k \in 1 .. (Len(s) - 1) : t[k] = s[k + 1]
  BY <1>1
<1> HIDE DEF t
<1>3. DOMAIN t = 1 .. (Len(s) - 1) /\ DOMAIN s = 1 .. Len(s)
  BY <1>2
<1>4. Range(t) \subseteq Range(s) /\ s[1] \in Range(s)
  <2>1. \A k \in 1 .. (Len(s) - 1) : k + 1 \in 1 .. Len(s)
    BY <1>1
  <2> QED
    BY <1>1, <1>2, <1>3, <2>1 DEF Range
<1>5. ASSUME NEW k \in 1 .. Len(s), k # 1 PROVE s[k] \in Range(t)
  <2>1. k - 1 \in 1 .. (Len(s) - 1) /\ (k - 1) + 1 = k
    BY <1>1, <1>5
  <2>2. t[k - 1] = s[k]
    BY <1>2, <2>1
  <2> QED
    BY <1>3, <2>1, <2>2 DEF Range
<1>6. Range(s) = {s[1]} \cup Range(t)
  BY <1>3, <1>4, <1>5 DEF Range
<1> QED
  BY <1>1, <1>6 DEF t

LEMMA FramesType ==
  ASSUME Searching, path # <<>>
  PROVE  /\ Span /\ vertex # <<>> /\ Len(path) \in Nat /\ Len(path) >= 1
         /\ path \in Seq([block : Numbered, left : SUBSET BlocksOf(fn)])
         /\ \A k \in 1 .. Len(path) :
              /\ path[k] = Frame(path[k].block, path[k].left)
              /\ path[k].block \in Numbered /\ path[k].left \subseteq BlocksOf(fn)
         /\ Visiting = path[1]
<1>1. path \in Seq([block : Numbered, left : SUBSET BlocksOf(fn)])
  BY DEF Searching, Frames
<1> DEFINE F == [block : Numbered, left : SUBSET BlocksOf(fn)]
<1>2. \A k \in 1 .. Len(path) : path[k] \in F
  <2> HIDE DEF F
  <2>1. path \in Seq(F)
    BY <1>1 DEF F
  <2> QED
    BY <2>1
<1> QED
  BY <1>1, <1>2 DEF Searching, Frame, Visiting

LEMMA VisitingLeft ==
  ASSUME NEW x, NEW p, NEW l, Visiting = Frame(p, l)
  PROVE  [Visiting EXCEPT !.left = @ \ {x}] = Frame(p, l \ {x})
BY DEF Frame

\* The search finds a block.
LEMMA SearchFinds ==
  ASSUME Searching, path # <<>>, NEW x \in Visiting.left, x \notin DOMAIN semi,
         parent' = Put(parent, x, Visiting.block), Number(x), Call(x, successors(fn, x)),
         UNCHANGED <<fn, pred, ancestor, idom, bucket>>
  PROVE  Searching'
<1> DEFINE p == path[1].block
           F == [block : Numbered, left : SUBSET BlocksOf(fn)]
           n == Len(path)
<1>1. /\ Span /\ vertex # <<>> /\ n \in Nat /\ n >= 1 /\ path \in Seq(F)
      /\ \A k \in 1 .. n : path[k].block \in Numbered
      /\ Visiting = path[1] /\ path[1] = Frame(p, path[1].left)
      /\ path[1].left \subseteq BlocksOf(fn)
  BY FramesType
<1>2. x \in BlocksOf(fn) \ Numbered /\ x \in successors(fn, p) /\ p \in Numbered
  BY <1>1 DEF Searching, Frames
<1>3. /\ p \in up(vertex[Len(vertex)])
      /\ \A j, k \in 1 .. n : j <= k => path[k].block \in up(path[j].block)
      /\ \A k \in 1 .. n : path[k].left \subseteq successors(fn, path[k].block)
      /\ \A k \in 2 .. n : path[k - 1].block \in successors(fn, path[k].block)
  BY <1>1 DEF Searching, Frames
<1>4. ASSUME NEW a \in Numbered, x \in successors(fn, a) PROVE a \in up(p)
  <2>1. Collected
    BY <1>1 DEF Searching
  <2>2. Pending(a, x) \/ a \in Range(pred[x])
    BY <1>4, <2>1 DEF Collected
  <2>3. a \notin Range(pred[x])
    BY <1>2, <2>1 DEF Collected
  <2>4. ASSUME NEW k \in 2 .. n PROVE path[k - 1].block # x
    <3>1. k - 1 \in 1 .. n
      BY <1>1
    <3> QED
      BY <1>1, <1>2, <3>1
  <2>5. PICK k \in 1 .. n : path[k].block = a
    BY <1>1, <2>2, <2>3, <2>4 DEF Pending
  <2> QED
    BY <1>1, <1>3, <2>5
<1>5. fn' = fn /\ vertex' = Append(vertex, x) /\ parent' = Put(parent, x, p)
  BY <1>1 DEF Number
<1>6. /\ Span' /\ Numbered' = Numbered \cup {x} /\ vertex' # <<>>
      /\ vertex[Len(vertex)]' = x
      /\ \A b \in Numbered : number(b)' = number(b)
      /\ number(x)' = Len(vertex) + 1
      /\ \A b \in Numbered : up(b)' = up(b)
      /\ up(x)' = {x} \cup up(p)
  <2> HIDE DEF p
  <2> QED
    BY <1>1, <1>2, <1>3, <1>4, <1>5, SpanGrows
<1>7. Numbered' \subseteq Reachable(fn)'
  <2>1. IsReached(fn, {}, Reachable(fn))
    BY <1>1, ReachedFacts DEF Span, Reachable
  <2>2. x \in Reachable(fn)
    BY <1>2, <2>1 DEF IsReached, Searching
  <2> QED
    BY <1>5, <1>6, <2>2 DEF Searching
<1>8. /\ DOMAIN semi' = Numbered' /\ DOMAIN label' = Numbered'
      /\ \A b \in Numbered' : semi'[b] = number(b)' /\ label'[b] = b
  BY <1>2, <1>6 DEF Searching, Number, Put
<1> DEFINE a == Frame(x, successors(fn, x))
           d == Frame(p, path[1].left \ {x})
           G == [block : Numbered \cup {x}, left : SUBSET BlocksOf(fn)]
<1>9. path' = <<a, d>> \o Tail(path)
  <2>1. [Visiting EXCEPT !.left = @ \ {x}] = d
    <3> DEFINE l == path[1].left
    <3>1. Visiting = Frame(p, l)
      BY <1>1
    <3> HIDE DEF l, p
    <3>2. [Visiting EXCEPT !.left = @ \ {x}] = Frame(p, l \ {x})
      BY <3>1, VisitingLeft
    <3> QED
      BY <3>2 DEF l
  <2> QED
    BY <2>1 DEF Call
<1>10. /\ path' \in Seq(G) /\ Len(path') = n + 1 /\ path'[1] = a /\ path'[2] = d
       /\ \A k \in 3 .. (n + 1) : path'[k] = path[k - 1]
  <2>1. path \in Seq(G)
    <3>0. F \subseteq G
      OBVIOUS
    <3> HIDE DEF F, G
    <3>1. \A k \in 1 .. n : path[k] \in F
      BY <1>1
    <3>2. \A k \in 1 .. n : path[k] \in G
      BY <3>0, <3>1
    <3>3. path \in Seq(F)
      BY <1>1
    <3> QED
      BY <3>2, <3>3
  <2>2. a \in G /\ d \in G
    BY <1>1, <1>2 DEF Frame, Span, Flow
  <2> HIDE DEF a, d, G
  <2> QED
    BY <1>1, <1>9, <2>1, <2>2, CallFacts
<1>11. /\ a.block = x /\ a.left = successors(fn, x)
       /\ d.block = p /\ d.left = path[1].left \ {x}
  BY DEF Frame
<1>12. \A k \in 2 .. (n + 1) : path'[k].block = path[k - 1].block
  <2> HIDE DEF a, d, p
  <2>1. \A k \in 2 .. (n + 1) : k = 2 \/ k \in 3 .. (n + 1)
    BY <1>1
  <2> QED
    BY <1>1, <1>10, <1>11, <2>1 DEF p
<1>13. Frames'
  <2> HIDE DEF a, d, p
  <2>1. path' \in Seq([block : Numbered', left : SUBSET BlocksOf(fn)'])
    BY <1>5, <1>6, <1>10
  <2>2. ASSUME NEW k \in 1 .. (n + 1) PROVE path'[k].left \subseteq successors(fn, path'[k].block)
    <3>1. CASE k = 1
      BY <1>10, <1>11, <3>1
    <3>2. CASE k = 2
      BY <1>1, <1>3, <1>10, <1>11, <3>2 DEF p
    <3>3. CASE k \in 3 .. (n + 1)
      <4>1. k - 1 \in 1 .. n /\ path'[k] = path[k - 1]
        BY <1>1, <1>10, <3>3
      <4> QED
        BY <1>3, <4>1
    <3> QED
      BY <1>1, <3>1, <3>2, <3>3
  <2>3. ASSUME NEW k \in 2 .. (n + 1)
        PROVE  path'[k - 1].block \in successors(fn, path'[k].block)
    <3>1. CASE k = 2
      BY <1>2, <1>10, <1>11, <3>1
    <3>2. CASE k \in 3 .. (n + 1)
      <4>1. k - 1 \in 2 .. n /\ k - 1 \in 2 .. (n + 1)
        BY <1>1, <3>2
      <4>2. path'[k - 1].block = path[(k - 1) - 1].block /\ path'[k].block = path[k - 1].block
        BY <1>12, <4>1
      <4> QED
        BY <1>3, <4>1, <4>2
    <3> QED
      BY <1>1, <3>1, <3>2
  <2>4. ASSUME NEW i \in 1 .. (n + 1), NEW k \in 1 .. (n + 1), i <= k,
               NEW b, b = path'[i].block
        PROVE  path'[k].block \in up(b)'
    <3>1. CASE i = 1 /\ k = 1
      BY <1>6, <1>10, <1>11, <2>4, <3>1
    <3>2. CASE i = 1 /\ k \in 2 .. (n + 1)
      <4>1. path'[k].block = path[k - 1].block /\ k - 1 \in 1 .. n
        BY <1>1, <1>12, <3>2
      <4>2. path[k - 1].block \in up(p)
        BY <1>1, <1>3, <4>1 DEF p
      <4> QED
        BY <1>6, <1>10, <1>11, <2>4, <3>2, <4>1, <4>2
    <3>3. CASE i \in 2 .. (n + 1) /\ k \in 2 .. (n + 1)
      <4>1. path'[k].block = path[k - 1].block /\ path'[i].block = path[i - 1].block
        BY <1>12, <3>3
      <4>2. k - 1 \in 1 .. n /\ i - 1 \in 1 .. n /\ i - 1 <= k - 1
        BY <1>1, <2>4, <3>3
      <4>3. path[k - 1].block \in up(path[i - 1].block) /\ path[i - 1].block \in Numbered
        BY <1>1, <1>3, <4>2
      <4>4. b \in Numbered /\ path'[k].block \in up(b)
        BY <2>4, <4>1, <4>3
      <4> QED
        BY <1>6, <4>4
    <3> QED
      BY <1>1, <2>4, <3>1, <3>2, <3>3
  <2>5. path'[1].block \in up(vertex[Len(vertex)])'
    BY <1>6, <1>10, <1>11
  <2> QED
    BY <1>5, <1>10, <2>1, <2>2, <2>3, <2>4, <2>5 DEF Frames, up
<1>14. Collected'
  <2> HIDE DEF a, d, p
  <2>0. Collected /\ pred' = pred /\ bucket' = bucket
    BY <1>1 DEF Searching
  <2>1. pred \in [BlocksOf(fn) -> Seq(Numbered \cup {x})]
    <3>1. pred \in [BlocksOf(fn) -> Seq(Numbered)]
      BY <2>0 DEF Collected
    <3>2. Seq(Numbered) \subseteq Seq(Numbered \cup {x})
      OBVIOUS
    <3> QED
      BY <3>1, <3>2
  <2>2. ASSUME NEW b \in Numbered', NEW c \in successors(fn, b), b \notin Range(pred[c])
        PROVE  Pending(b, c)'
    <3>1. CASE b = x
      <4>1. 1 \in 1 .. (n + 1) /\ path'[1].block = b /\ c \in path'[1].left
        BY <1>1, <1>10, <1>11, <2>2, <3>1
      <4> QED
        BY <1>10, <4>1 DEF Pending
    <3>2. CASE b \in Numbered /\ \E k \in 1 .. n : path[k].block = b /\ c \in path[k].left
      <4>1. PICK k \in 1 .. n : path[k].block = b /\ c \in path[k].left
        BY <3>2
      <4>2. k + 1 \in 1 .. (n + 1) /\ k + 1 \in 2 .. (n + 1) /\ (k + 1) - 1 = k
        BY <1>1
      <4>3. path'[k + 1].block = b
        BY <1>12, <4>1, <4>2
      <4>4. CASE k = 1 /\ c = x
        <5>1. path'[2].block = b /\ path'[1].block = c /\ 2 \in 2 .. (n + 1) /\ 2 - 1 = 1
          BY <1>1, <1>10, <1>11, <4>3, <4>4
        <5> QED
          BY <1>10, <5>1 DEF Pending
      <4>5. CASE k = 1 /\ c # x
        <5>1. c \in path'[2].left
          BY <1>10, <1>11, <4>1, <4>5
        <5> QED
          BY <1>10, <4>2, <4>3, <4>5, <5>1 DEF Pending
      <4>6. CASE k # 1
        <5>1. k + 1 \in 3 .. (n + 1)
          BY <1>1, <4>6
        <5>2. path'[k + 1] = path[k]
          BY <1>10, <4>2, <5>1
        <5> QED
          BY <1>10, <4>1, <4>2, <5>2 DEF Pending
      <4> QED
        BY <4>4, <4>5, <4>6
    <3>3. CASE b \in Numbered /\ \E k \in 2 .. n : path[k].block = b /\ path[k - 1].block = c
      <4>1. PICK k \in 2 .. n : path[k].block = b /\ path[k - 1].block = c
        BY <3>3
      <4> HIDE DEF n
      <4>2. k + 1 \in 2 .. (n + 1) /\ k \in 2 .. (n + 1) /\ (k + 1) - 1 = k
        BY <1>1, <4>1
      <4>3. path'[k + 1].block = b /\ path'[(k + 1) - 1].block = c
        BY <1>12, <4>1, <4>2
      <4> QED
        BY <1>10, <4>2, <4>3 DEF Pending
    <3>4. b \in Numbered => Pending(b, c)
      BY <2>0, <2>2 DEF Collected
    <3> QED
      BY <1>6, <3>1, <3>2, <3>3, <3>4 DEF Pending
  <2>3. \A c \in BlocksOf(fn) : \A v \in Range(pred[c]) : c \in Numbered' /\ c \in successors(fn, v)
    BY <1>6, <2>0 DEF Collected
  <2>4. bucket = [b \in BlocksOf(fn) |-> <<>>]
    BY <2>0 DEF Collected
  <2> QED
    BY <1>5, <1>6, <2>0, <2>1, <2>2, <2>3, <2>4 DEF Collected
<1>15. path' # <<>>
  BY <1>1, <1>10
<1> QED
  BY <1>6, <1>7, <1>8, <1>13, <1>14, <1>15 DEF Searching

LEMMA RangeAppended ==
  ASSUME NEW F, NEW s \in Seq(F), NEW x
  PROVE  Range(Append(s, x)) = Range(s) \cup {x}
<1>1. /\ DOMAIN s = 1 .. Len(s) /\ Len(s) \in Nat
      /\ DOMAIN Append(s, x) = 1 .. (Len(s) + 1)
      /\ Append(s, x)[Len(s) + 1] = x
      /\ \A k \in 1 .. Len(s) : Append(s, x)[k] = s[k]
  OBVIOUS
<1> QED
  BY <1>1 DEF Range

\* What is said of the tree stays true while it does not change.
LEMMA TreeKept ==
  ASSUME UNCHANGED <<fn, vertex, parent>>
  PROVE  /\ Numbered' = Numbered /\ Span' = Span /\ Complete' = Complete
         /\ \A b : /\ number(b)' = number(b) /\ up(b)' = up(b)
                   /\ Semidominator(b)' = Semidominator(b) /\ semiOf(b)' = semiOf(b)
BY DEF Numbered, Span, Complete, number, up, Semidominator, semiOf, sources

\* The search goes on from a block that is numbered.
LEMMA SearchSees ==
  ASSUME Searching, path # <<>>, NEW x \in Visiting.left, x \in DOMAIN semi,
         pred' = [pred EXCEPT ![x] = Append(@, Visiting.block)], Skip(x),
         UNCHANGED <<fn, vertex, parent, semi, label, ancestor, idom, bucket>>
  PROVE  Searching'
<1> DEFINE p == path[1].block
           F == [block : Numbered, left : SUBSET BlocksOf(fn)]
           n == Len(path)
           d == Frame(p, path[1].left \ {x})
<1>1. /\ Span /\ vertex # <<>> /\ n \in Nat /\ n >= 1 /\ path \in Seq(F)
      /\ \A k \in 1 .. n : path[k].block \in Numbered
      /\ Visiting = path[1] /\ path[1] = Frame(p, path[1].left)
      /\ path[1].left \subseteq BlocksOf(fn)
  BY FramesType
<1>2. Numbered' = Numbered /\ Span' /\ \A b : number(b)' = number(b) /\ up(b)' = up(b)
  BY <1>1, TreeKept
<1>3. path' = <<d>> \o Tail(path)
  <2>1. [Visiting EXCEPT !.left = @ \ {x}] = d
    <3> DEFINE l == path[1].left
    <3>1. Visiting = Frame(p, l)
      BY <1>1
    <3> HIDE DEF l, p
    <3>2. [Visiting EXCEPT !.left = @ \ {x}] = Frame(p, l \ {x})
      BY <3>1, VisitingLeft
    <3> QED
      BY <3>2 DEF l
  <2> QED
    BY <2>1 DEF Skip
<1>4. /\ path' \in Seq(F) /\ Len(path') = n /\ path'[1] = d
      /\ \A k \in 2 .. n : path'[k] = path[k]
  <2>1. d \in F
    BY <1>1 DEF Frame
  <2> HIDE DEF d, F
  <2> QED
    BY <1>1, <1>3, <2>1, TopFacts
<1>5. d.block = p /\ d.left = path[1].left \ {x}
  BY DEF Frame
<1>6. /\ \A k \in 1 .. n : path'[k].block = path[k].block
      /\ \A k \in 1 .. n : path'[k].left \subseteq path[k].left
      /\ \A k \in 1 .. n : path[k].left \subseteq path'[k].left \cup {x}
  <2>1. \A k \in 1 .. n : k = 1 \/ k \in 2 .. n
    BY <1>1
  <2> HIDE DEF d
  <2> QED
    BY <1>4, <1>5, <2>1
<1>7. Frames /\ Collected
  BY <1>1 DEF Searching
<1>8. Frames'
  <2>1. \A k \in 1 .. n : path'[k].left \subseteq successors(fn, path'[k].block)
    BY <1>6, <1>7 DEF Frames
  <2>2. ASSUME NEW k \in 2 .. n PROVE path'[k - 1].block \in successors(fn, path'[k].block)
    <3>1. k - 1 \in 1 .. n /\ k \in 1 .. n
      BY <1>1
    <3>2. path'[k - 1].block = path[k - 1].block /\ path'[k].block = path[k].block
      BY <1>6, <3>1
    <3> QED
      BY <1>7, <3>2 DEF Frames
  <2>3. ASSUME NEW j \in 1 .. n, NEW k \in 1 .. n, j <= k, NEW b, b = path'[j].block
        PROVE  path'[k].block \in up(b)'
    <3>1. path[k].block \in up(b)
      BY <1>6, <1>7, <2>3 DEF Frames
    <3> QED
      BY <1>2, <1>6, <3>1
  <2>4. ASSUME NEW b, b = vertex'[Len(vertex')] PROVE path'[1].block \in up(b)'
    <3>1. path[1].block \in up(b)
      BY <1>1, <1>7, <2>4 DEF Frames
    <3> QED
      BY <1>1, <1>2, <1>6, <3>1
  <2> QED
    BY <1>2, <1>4, <2>1, <2>2, <2>3, <2>4 DEF Frames, up
<1>9. x \in Numbered /\ x \in BlocksOf(fn) /\ p \in Numbered /\ x \in successors(fn, p)
  BY <1>1, <1>7 DEF Searching, Frames
<1>10. /\ pred \in [BlocksOf(fn) -> Seq(Numbered)]
       /\ pred[x] \in Seq(Numbered) /\ pred'[x] = Append(pred[x], p)
       /\ pred' \in [BlocksOf(fn) -> Seq(Numbered)]
       /\ \A c \in BlocksOf(fn) \ {x} : pred'[c] = pred[c]
  BY <1>1, <1>7, <1>9 DEF Collected
<1>11. Range(pred'[x]) = Range(pred[x]) \cup {p}
  BY <1>10, RangeAppended
<1>12. Collected'
  <2>1. ASSUME NEW b \in Numbered, NEW c \in successors(fn, b), b \notin Range(pred'[c])
        PROVE  Pending(b, c)'
    <3>1. c \in BlocksOf(fn)
      BY <1>1, Numbers DEF Span, Flow
    <3>2. Pending(b, c) /\ ~(c = x /\ b = p)
      BY <1>7, <1>10, <1>11, <2>1, <3>1 DEF Collected
    <3>3. CASE \E k \in 1 .. n : path[k].block = b /\ c \in path[k].left
      <4>1. PICK k \in 1 .. n : path[k].block = b /\ c \in path[k].left
        BY <3>3
      <4>2. CASE k = 1
        <5>1. c # x /\ 1 \in 1 .. n
          BY <1>1, <3>2, <4>1, <4>2
        <5>2. path'[1].block = b /\ c \in path'[1].left
          BY <1>4, <1>5, <4>1, <4>2, <5>1
        <5> QED
          BY <1>4, <5>1, <5>2 DEF Pending
      <4>3. CASE k # 1
        <5>1. k \in 2 .. n
          BY <1>1, <4>3
        <5>2. path'[k] = path[k]
          BY <1>4, <5>1
        <5> QED
          BY <1>4, <4>1, <5>2 DEF Pending
      <4> QED
        BY <4>2, <4>3
    <3>4. CASE \E k \in 2 .. n : path[k].block = b /\ path[k - 1].block = c
      <4>1. PICK k \in 2 .. n : path[k].block = b /\ path[k - 1].block = c
        BY <3>4
      <4>2. k - 1 \in 1 .. n /\ k \in 1 .. n
        BY <1>1
      <4>3. path'[k].block = b /\ path'[k - 1].block = c
        BY <1>6, <4>1, <4>2
      <4> QED
        BY <1>4, <4>3 DEF Pending
    <3> QED
      BY <3>2, <3>3, <3>4 DEF Pending
  <2>2. ASSUME NEW c \in BlocksOf(fn), NEW v \in Range(pred'[c])
        PROVE  c \in Numbered /\ c \in successors(fn, v)
    BY <1>7, <1>9, <1>10, <1>11 DEF Collected
  <2>3. bucket' = [b \in BlocksOf(fn)' |-> <<>>]
    BY <1>7 DEF Collected
  <2> QED
    BY <1>2, <1>10, <2>1, <2>2, <2>3 DEF Collected
<1>13. path' # <<>>
  BY <1>1, <1>4
<1>14. \A b \in Numbered' : semi'[b] = number(b)' /\ label'[b] = b
  BY <1>2 DEF Searching
<1> QED
  BY <1>1, <1>2, <1>8, <1>12, <1>13, <1>14 DEF Searching

\* A call of the search returns to another.
LEMMA SearchReturns ==
  ASSUME Searching, path # <<>>, Visiting.left = {}, Len(path) > 1, path' = Tail(path),
         pred' = [pred EXCEPT ![Visiting.block] = Append(@, path[2].block)],
         UNCHANGED <<fn, vertex, parent, semi, label, ancestor, idom, bucket>>
  PROVE  Searching'
<1> DEFINE x == path[1].block
           p == path[2].block
           F == [block : Numbered, left : SUBSET BlocksOf(fn)]
           n == Len(path)
<1>1. /\ Span /\ vertex # <<>> /\ n \in Nat /\ n >= 2 /\ path \in Seq(F)
      /\ \A k \in 1 .. n : path[k].block \in Numbered
      /\ Visiting = path[1] /\ path[1].left = {}
  <2> HIDE DEF F
  <2>1. /\ Span /\ vertex # <<>> /\ Len(path) \in Nat
        /\ path \in Seq([block : Numbered, left : SUBSET BlocksOf(fn)])
        /\ \A k \in 1 .. Len(path) : path[k].block \in Numbered
        /\ Visiting = path[1]
    BY FramesType
  <2> QED
    BY <2>1 DEF F
<1>2. Numbered' = Numbered /\ Span' /\ \A b : number(b)' = number(b) /\ up(b)' = up(b)
  BY <1>1, TreeKept
<1>3. path' \in Seq(F) /\ Len(path') = n - 1 /\ \A k \in 1 .. (n - 1) : path'[k] = path[k + 1]
  <2> HIDE DEF F
  <2> QED
    BY <1>1, TailFacts
<1>7. Frames /\ Collected
  BY <1>1 DEF Searching
<1>9. x \in Numbered /\ x \in BlocksOf(fn) /\ p \in Numbered /\ x \in successors(fn, p)
      /\ p \in up(x)
  <2>1. 1 \in 1 .. n /\ 2 \in 1 .. n /\ 2 \in 2 .. n /\ 2 - 1 = 1
    BY <1>1
  <2> QED
    BY <1>1, <1>7, <2>1, Numbers DEF Frames
<1>8. Frames'
  <2>0. \A k \in 1 .. (n - 1) : k + 1 \in 1 .. n /\ k + 1 \in 2 .. n /\ (k + 1) - 1 = k
    BY <1>1
  <2>1. \A k \in 1 .. (n - 1) : path'[k].left \subseteq successors(fn, path'[k].block)
    BY <1>3, <1>7, <2>0 DEF Frames
  <2>2. ASSUME NEW k \in 2 .. (n - 1)
        PROVE  path'[k - 1].block \in successors(fn, path'[k].block)
    <3> HIDE DEF n
    <3>1. k - 1 \in 1 .. (n - 1) /\ k \in 1 .. (n - 1) /\ (k - 1) + 1 = k
      BY <1>1, <2>2
    <3>2. path'[k - 1].block = path[k].block /\ path'[k].block = path[k + 1].block
      BY <1>3, <3>1
    <3> USE DEF n
    <3>3. path[(k + 1) - 1].block \in successors(fn, path[k + 1].block)
      BY <1>7, <2>0, <3>1 DEF Frames
    <3> QED
      BY <2>0, <3>1, <3>2, <3>3
  <2>3. ASSUME NEW j \in 1 .. (n - 1), NEW k \in 1 .. (n - 1), j <= k,
               NEW b, b = path'[j].block
        PROVE  path'[k].block \in up(b)'
    <3>0. j + 1 <= k + 1
      BY <2>3
    <3>1. path[k + 1].block \in up(b)
      BY <1>3, <1>7, <2>0, <2>3, <3>0 DEF Frames
    <3> QED
      BY <1>2, <1>3, <3>1
  <2>4. ASSUME NEW b, b = vertex'[Len(vertex')] PROVE path'[1].block \in up(b)'
    <3>1. b \in Numbered
      <4>1. Len(vertex) \in Nat /\ Len(vertex) >= 1
        BY <1>1 DEF Span
      <4> QED
        BY <1>1, <2>4, <4>1, Numbers
    <3>2. x \in up(b)
      BY <1>1, <1>7, <2>4 DEF Frames
    <3>3. p \in up(b)
      BY <1>1, <1>9, <3>1, <3>2, UpTransitive
    <3>4. 1 \in 1 .. (n - 1) /\ 1 + 1 = 2
      BY <1>1
    <3>5. path'[1].block = p
      BY <1>3, <3>4
    <3> QED
      BY <1>2, <3>3, <3>5
  <2> QED
    BY <1>2, <1>3, <2>1, <2>2, <2>3, <2>4 DEF Frames, up
<1>10. /\ pred \in [BlocksOf(fn) -> Seq(Numbered)]
       /\ pred[x] \in Seq(Numbered) /\ pred'[x] = Append(pred[x], p)
       /\ pred' \in [BlocksOf(fn) -> Seq(Numbered)]
       /\ \A c \in BlocksOf(fn) \ {x} : pred'[c] = pred[c]
  BY <1>1, <1>7, <1>9 DEF Collected
<1>11. Range(pred'[x]) = Range(pred[x]) \cup {p}
  BY <1>10, RangeAppended
<1>12. Collected'
  <2>1. ASSUME NEW b \in Numbered, NEW c \in successors(fn, b), b \notin Range(pred'[c])
        PROVE  Pending(b, c)'
    <3>1. c \in BlocksOf(fn)
      BY <1>1, Numbers DEF Span, Flow
    <3>2. Pending(b, c) /\ ~(c = x /\ b = p)
      BY <1>7, <1>10, <1>11, <2>1, <3>1 DEF Collected
    <3>3. CASE \E k \in 1 .. n : path[k].block = b /\ c \in path[k].left
      <4>1. PICK k \in 1 .. n : path[k].block = b /\ c \in path[k].left
        BY <3>3
      <4>2. k - 1 \in 1 .. (n - 1) /\ (k - 1) + 1 = k
        BY <1>1, <4>1
      <4>3. path'[k - 1] = path[k]
        BY <1>3, <4>2
      <4> QED
        BY <1>3, <4>1, <4>2, <4>3 DEF Pending
    <3>4. CASE \E k \in 2 .. n : path[k].block = b /\ path[k - 1].block = c
      <4>1. PICK k \in 2 .. n : path[k].block = b /\ path[k - 1].block = c
        BY <3>4
      <4>2. k # 2
        BY <3>2, <4>1
      <4>3. k - 1 \in 2 .. (n - 1) /\ k - 1 \in 1 .. (n - 1) /\ (k - 1) - 1 \in 1 .. (n - 1)
            /\ (k - 1) + 1 = k /\ ((k - 1) - 1) + 1 = k - 1
        BY <1>1, <4>2
      <4>4. path'[k - 1].block = b /\ path'[(k - 1) - 1].block = c
        BY <1>3, <4>1, <4>3
      <4> QED
        BY <1>3, <4>3, <4>4 DEF Pending
    <3> QED
      BY <3>2, <3>3, <3>4 DEF Pending
  <2>2. ASSUME NEW c \in BlocksOf(fn), NEW v \in Range(pred'[c])
        PROVE  c \in Numbered /\ c \in successors(fn, v)
    BY <1>7, <1>9, <1>10, <1>11 DEF Collected
  <2>3. bucket' = [b \in BlocksOf(fn)' |-> <<>>]
    BY <1>7 DEF Collected
  <2> QED
    BY <1>2, <1>10, <2>1, <2>2, <2>3 DEF Collected
<1>13. path' # <<>>
  <2> HIDE DEF n
  <2>1. n - 1 # 0
    BY <1>1
  <2>2. Len(path') # 0
    BY <1>3, <2>1
  <2> QED
    BY <2>2
<1>14. \A b \in Numbered' : semi'[b] = number(b)' /\ label'[b] = b
  BY <1>2 DEF Searching
<1>15. /\ Numbered' \subseteq Reachable(fn)'
       /\ DOMAIN semi' = Numbered' /\ DOMAIN label' = Numbered'
       /\ DOMAIN ancestor' = {} /\ DOMAIN idom' = {}
  BY <1>2 DEF Searching
<1>16. Span' /\ vertex' # <<>>
  BY <1>1, <1>2
<1> HIDE DEF n, F, x, p
<1> QED
  BY <1>8, <1>12, <1>13, <1>14, <1>15, <1>16 DEF Searching

\* The search has numbered all that can be reached, and found its predecessors.
LEMMA SearchEnds ==
  ASSUME Searching, path # <<>>, Visiting.left = {}, Len(path) <= 1
  PROVE  Complete /\ Predecessors
<1>1. /\ Span /\ vertex # <<>> /\ Len(path) = 1 /\ path[1].left = {}
      /\ Collected /\ Numbered \subseteq Reachable(fn)
  <2>1. Span /\ vertex # <<>> /\ Len(path) \in Nat /\ Len(path) >= 1 /\ Visiting = path[1]
    BY FramesType
  <2>2. Len(path) <= 1
    OBVIOUS
  <2>3. Len(path) = 1
    BY <2>1, <2>2, SMTT(30)
  <2> QED
    BY <2>1, <2>3 DEF Searching
<1>2. \A b \in Numbered : \A c \in successors(fn, b) : b \in Range(pred[c])
  <2>1. \A b, c : ~Pending(b, c)
    BY <1>1 DEF Pending
  <2> QED
    BY <1>1, <2>1 DEF Collected
<1>3. Flow(fn) /\ Numbered \subseteq BlocksOf(fn)
  BY <1>1, Numbers DEF Span
<1>4. \A b \in Numbered : \A c \in successors(fn, b) : c \in Numbered
  BY <1>1, <1>2, <1>3 DEF Collected, Flow
<1>5. Entry(fn) \in Numbered
  <2>1. Len(vertex) \in Nat /\ Len(vertex) >= 1 /\ vertex[1] = Entry(fn)
    BY <1>1 DEF Span
  <2> QED
    BY <1>1, <2>1, Numbers
<1>6. Reachable(fn) \subseteq Numbered
  <2>1. IsReached(fn, {}, Reachable(fn))
    BY <1>3, ReachedFacts DEF Reachable
  <2> QED
    BY <1>4, <1>5, <2>1 DEF IsReached
<1>7. pred \in [BlocksOf(fn) -> Seq(Numbered)]
  BY <1>1 DEF Collected
<1>8. ASSUME NEW c \in Numbered, NEW v \in Numbered
      PROVE  v \in Range(pred[c]) <=> c \in successors(fn, v)
  BY <1>1, <1>2, <1>3 DEF Collected
<1> QED
  BY <1>1, <1>6, <1>7, <1>8 DEF Complete, Predecessors

\* The search begins at the entry.
LEMMA SearchStarts ==
  ASSUME Searching, Flow(fn), path = <<>>, Number(Entry(fn)),
         pred' = [b \in BlocksOf(fn) |-> <<>>], bucket' = [b \in BlocksOf(fn) |-> <<>>],
         path' = <<Frame(Entry(fn), successors(fn, Entry(fn)))>>,
         UNCHANGED <<fn, parent, ancestor, idom>>
  PROVE  Searching'
<1> DEFINE x == Entry(fn)
           a == Frame(x, successors(fn, x))
<1>1. vertex = <<>> /\ Numbered = {} /\ DOMAIN parent = {} /\ x \in BlocksOf(fn)
  BY DEF Searching, Span, Numbered, Range, Flow
<1>2. vertex' = <<x>>
  BY <1>1 DEF Number
<1>3. /\ vertex' \in Seq(BlocksOf(fn)) /\ IsInjective(vertex') /\ Len(vertex') = 1
      /\ Range(vertex') = {x} /\ vertex'[1] = x
  BY <1>1, <1>2 DEF IsInjective, Range
<1>4. Numbered' = {x} /\ number(x)' = 1
  <2>1. (CHOOSE m \in DOMAIN vertex' : vertex'[m] = x) = 1
    BY <1>2
  <2> QED
    BY <1>3, <2>1 DEF Numbered, number
<1>5. up(x)' = {x}
  <2> DEFINE s == vertex'
             par == parent
             B == BlocksOf(fn)
             W == Up(s, par, x)
  <2>1. s \in Seq(B) /\ (\A c \in Range(s) : c \in DOMAIN par => par[c] \in Range(s)) /\ x \in Range(s)
    BY <1>1, <1>3
  <2>2. DOMAIN par = {}
    BY <1>1
  <2> HIDE DEF s, par, B, x
  <2>3. IsUp(W, par, x)
    BY <2>1, UpLeast
  <2>4. IsUp({x}, par, x)
    BY <2>2 DEF IsUp
  <2>5. W = {x}
    <3> HIDE DEF W
    <3> QED
      BY <2>3, <2>4, UpUnique
  <2> QED
    BY <2>5 DEF up, s, par, x
<1>6. Span'
  <2>1. vertex' # <<>>
    BY <1>2
  <2>2. Range(vertex') \ {Entry(fn)} = {} /\ DOMAIN parent' = {}
    BY <1>1, <1>3
  <2>3. 2 .. Len(vertex') = {}
    BY <1>3
  <2> QED
    BY <1>1, <1>3, <2>1, <2>2, <2>3 DEF Span
<1>7. x \in Reachable(fn)
  <2>1. IsReached(fn, {}, Reachable(fn))
    BY ReachedFacts DEF Reachable
  <2> QED
    BY <2>1 DEF IsReached
<1>8. /\ DOMAIN semi' = {x} /\ DOMAIN label' = {x} /\ semi'[x] = 1 /\ label'[x] = x
  BY <1>1, <1>2 DEF Number, Put, Searching
<1>9. /\ path' \in Seq([block : {x}, left : SUBSET BlocksOf(fn)]) /\ Len(path') = 1
      /\ path' # <<>> /\ path'[1] = a
  <2>1. a \in [block : {x}, left : SUBSET BlocksOf(fn)]
    BY DEF Frame, Flow
  <2> QED
    BY <2>1
<1>10. a.block = x /\ a.left = successors(fn, x)
  BY DEF Frame
<1>11. Frames'
  <2> HIDE DEF a
  <2>1. \A k \in 1 .. Len(path') : path'[k].left \subseteq successors(fn, path'[k].block)
    BY <1>9, <1>10
  <2>2. 2 .. Len(path') = {}
    BY <1>9
  <2>3. \A j, k \in 1 .. Len(path') : \A b : b = path'[j].block => path'[k].block \in up(b)'
    BY <1>5, <1>9, <1>10
  <2>4. \A b : b = vertex'[Len(vertex')] => path'[1].block \in up(b)'
    BY <1>3, <1>5, <1>9, <1>10
  <2> QED
    BY <1>4, <1>9, <2>1, <2>2, <2>3, <2>4 DEF Frames, up
<1>12. Collected'
  <2> HIDE DEF a
  <2>1. \A c \in BlocksOf(fn) : pred'[c] = <<>> /\ Range(pred'[c]) = {}
    BY DEF Range
  <2>2. pred' \in [BlocksOf(fn) -> Seq(Numbered')]
    OBVIOUS
  <2>3. ASSUME NEW c \in successors(fn, x) PROVE Pending(x, c)'
    <3>1. 1 \in 1 .. Len(path') /\ path'[1].block = x /\ c \in path'[1].left
      BY <1>9, <1>10
    <3> QED
      BY <3>1 DEF Pending
  <2> QED
    BY <1>4, <2>1, <2>2, <2>3 DEF Collected
<1>13. vertex' # <<>> /\ Numbered' \subseteq Reachable(fn)' /\ path' # <<>>
  BY <1>2, <1>4, <1>7, <1>9
<1>14. /\ DOMAIN semi' = Numbered' /\ DOMAIN label' = Numbered'
       /\ \A b \in Numbered' : semi'[b] = number(b)' /\ label'[b] = b
       /\ DOMAIN ancestor' = {} /\ DOMAIN idom' = {}
  BY <1>4, <1>8 DEF Searching
<1> QED
  BY <1>6, <1>11, <1>12, <1>13, <1>14 DEF Searching

-----------------------------------------------------------------------------
(* Semidominators and links. *)

LEMMA LinkKept ==
  ASSUME UNCHANGED <<fn, vertex, parent>>
  PROVE  /\ \A d, v : IsRelative(d, v)' = IsRelative(d, v)
         /\ \A n, b, v : Counts(n, b, v)' = Counts(n, b, v)
<1>1. ASSUME NEW d, NEW v PROVE IsRelative(d, v)' = IsRelative(d, v)
  BY TreeKept DEF IsRelative
<1>2. ASSUME NEW n, NEW b, NEW v PROVE Counts(n, b, v)' = Counts(n, b, v)
  BY TreeKept DEF Counts
<1> QED
  BY <1>1, <1>2

LEMMA LinkStays ==
  ASSUME UNCHANGED <<fn, vertex, parent>>, DOMAIN ancestor \subseteq DOMAIN ancestor',
         NEW x, NEW a, NEW l, IsLink(x, a, l)
  PROVE  /\ IsLink(x, a, l)'
         /\ a = ancestor'[x] /\ l = label'[x] => IsLink(x, ancestor[x], label[x])'
<1>1. /\ up(x)' = up(x) /\ number(a)' = number(a) /\ number(l)' = number(l)
      /\ Semidominator(l)' = Semidominator(l)
      /\ \A y : number(y)' = number(y) /\ Semidominator(y)' = Semidominator(y)
  BY TreeKept
<1>2. IsLink(x, a, l)'
  BY <1>1 DEF IsLink
<1>3. a = ancestor'[x] /\ l = label'[x] => IsLink(x, ancestor[x], label[x])'
  BY <1>2 DEF IsLink
<1> QED
  BY <1>2, <1>3

\* The loop over the predecessors of vertex[k] begins.
LEMMA SemiStarts ==
  ASSUME Complete, Predecessors, UNCHANGED <<fn, vertex, parent, pred, semi>>,
         cursor' \in 2 .. Len(vertex), NEW x, x = vertex[cursor'], semi[x] = number(x),
         todo' = pred[x]
  PROVE  /\ SemiSoFar' /\ todo' \in Seq(Numbered) /\ w' = x
         /\ x \in Numbered /\ x # Entry(fn) /\ number(x) = cursor'
<1>s. Span
  BY DEF Complete
<1>1. x \in Numbered /\ number(x) = cursor' /\ cursor' \in Nat
  BY <1>s, Numbers
<1>2. x # Entry(fn)
  BY <1>1, <1>s, Numbers
<1>3. w' = x
  BY DEF w
<1>4. /\ number(x)' = number(x) /\ Semidominator(x)' = Semidominator(x)
  BY TreeKept
<1>5. Semidominator(x) < number(x) /\ Semidominator(x) \in Nat
  BY <1>1, <1>2, <1>s, SemiFacts
<1>6. todo' \in Seq(Numbered)
  BY <1>1, <1>s, Numbers DEF Predecessors
<1>7. /\ semi'[x] \in Nat /\ Semidominator(x)' <= semi'[x] /\ semi'[x] <= number(x)'
  BY <1>1, <1>4, <1>5
<1>8. Range(todo') = Range(pred'[x])
  OBVIOUS
<1> QED
  BY <1>1, <1>2, <1>3, <1>6, <1>7, <1>8 DEF SemiSoFar

\* What v evaluates to, when v is compressed.
LEMMA EvalFacts ==
  ASSUME Linking, NEW v \in DOMAIN ancestor, isCompressed(v)
  PROVE  /\ v \in Numbered /\ ancestor[v] \in up(v) /\ ancestor[v] # v
         /\ ancestor[v] \notin DOMAIN ancestor
         /\ label[v] \in up(v) /\ label[v] \in DOMAIN ancestor
         /\ number(label[v]) > number(ancestor[v])
         /\ semi[label[v]] = Semidominator(label[v])
         /\ \A y \in up(v) : number(y) > number(ancestor[v]) =>
              y \in DOMAIN ancestor /\ Semidominator(label[v]) <= Semidominator(y)
<1>1. IsLink(v, ancestor[v], label[v]) /\ v \in Numbered
  BY DEF Linking, Forest
<1>2. ancestor[v] \notin DOMAIN ancestor
  BY DEF isCompressed
<1>3. label[v] \in up(v) /\ number(label[v]) > number(ancestor[v])
  BY <1>1 DEF IsLink
<1>4. label[v] \in DOMAIN ancestor
  BY <1>1, <1>3 DEF IsLink
<1>5. semi[label[v]] = Semidominator(label[v])
  BY <1>4 DEF Linking, Semis
<1> QED
  BY <1>1, <1>2, <1>3, <1>4, <1>5 DEF IsLink

LEMMA LinkingTypes ==
  ASSUME Linking
  PROVE  /\ Complete /\ Span /\ Predecessors /\ cursor \in Nat /\ cursor >= 2
         /\ w \in Numbered /\ number(w) = cursor /\ w # Entry(fn)
         /\ \A b \in Numbered : number(b) \in Nat
         /\ \A x \in DOMAIN ancestor : /\ x \in Numbered /\ number(x) >= cursor
                                       /\ x # Entry(fn)
                                       /\ Semidominator(x) \in Nat
                                       /\ dtStep = "semi" => number(x) > cursor
         /\ \A x \in Numbered : number(x) > cursor => x \in DOMAIN ancestor
<1>1. /\ Complete /\ Span /\ Predecessors /\ cursor \in 2 .. Len(vertex)
  BY DEF Linking, Complete
<1>2. /\ w \in Numbered /\ number(w) = cursor /\ \A b \in Numbered : number(b) \in Nat
  BY <1>1, Numbers DEF w
<1>3. w # Entry(fn)
  BY <1>1, <1>2, Numbers
<1>4. DOMAIN ancestor = {x \in Numbered : \/ number(x) > cursor
                                          \/ number(x) = cursor /\ dtStep = "bucket"}
  BY DEF Linking, Forest
<1>5. ASSUME NEW x \in DOMAIN ancestor
      PROVE  /\ x \in Numbered /\ number(x) >= cursor /\ x # Entry(fn)
             /\ Semidominator(x) \in Nat
             /\ dtStep = "semi" => number(x) > cursor
  <2>1. x \in Numbered /\ number(x) >= cursor /\ (dtStep = "semi" => number(x) > cursor)
    BY <1>2, <1>4
  <2>2. x # Entry(fn)
    BY <1>1, <1>2, <2>1, Numbers
  <2> QED
    BY <1>1, <2>1, <2>2, SemiFacts
<1> QED
  BY <1>1, <1>2, <1>3, <1>4, <1>5

\* A step of compress keeps the invariant.
LEMMA LinkingCompressed ==
  ASSUME Linking, CompressVertex, fn' = fn
  PROVE  Linking'
<1> DEFINE v == Head(compressing)
           a == ancestor[v]
           l == label[v]
           c == ancestor[a]
           m == label[a]
           new == IF semi[m] < semi[l] THEN m ELSE l
<1>1. v \in DOMAIN ancestor /\ a \in DOMAIN ancestor
  BY DEF CompressVertex, isCompressed
<1>2. /\ Complete /\ Span /\ \A b \in Numbered : number(b) \in Nat
      /\ \A x \in DOMAIN ancestor : x \in Numbered /\ Semidominator(x) \in Nat
  BY LinkingTypes
<1>3. IsLink(v, a, l) /\ IsLink(a, c, m)
  BY <1>1 DEF Linking, Forest
<1>4. \A x \in DOMAIN ancestor : semi[x] = Semidominator(x)
  BY DEF Linking, Semis
<1>5. /\ ancestor' = [ancestor EXCEPT ![v] = c]
      /\ label' = IF semi[m] < semi[l] THEN [label EXCEPT ![v] = m] ELSE label
      /\ UNCHANGED <<dtStep, path, vertex, semi, parent, idom, pred, bucket, cursor, todo,
                     discover, finish>>
  BY DEF CompressVertex
<1>6. DOMAIN label = Numbered
  BY DEF Linking, Semis
<1>7. /\ DOMAIN ancestor' = DOMAIN ancestor /\ DOMAIN label' = DOMAIN label
      /\ ancestor'[v] = c /\ label'[v] = new
      /\ \A x \in DOMAIN ancestor : x # v => ancestor'[x] = ancestor[x]
      /\ \A x : x # v => label'[x] = label[x]
  BY <1>1, <1>2, <1>5, <1>6
<1> HIDE DEF v, a, l, c, m, new
<1>8. l \in up(v) /\ m \in up(a) /\ a \in up(v) /\ c \in up(a) /\ c # a /\ a # v
      /\ number(l) > number(a) /\ number(m) > number(c)
  BY <1>3 DEF IsLink
<1>9. /\ v \in Numbered /\ a \in Numbered /\ c \in Numbered /\ l \in Numbered /\ m \in Numbered
      /\ number(c) < number(a) /\ number(a) < number(v)
      /\ c \in up(v) /\ m \in up(v)
  <2>1. v \in Numbered /\ a \in Numbered
    BY <1>1, <1>2
  <2> QED
    BY <1>2, <1>8, <2>1, UpNumber, UpTransitive
<1>10. number(c) < number(v) /\ c # v /\ number(l) > number(c)
  BY <1>2, <1>8, <1>9
<1>11. l \in DOMAIN ancestor /\ m \in DOMAIN ancestor
  BY <1>3, <1>8 DEF IsLink
<1>12. ASSUME NEW y \in up(v), number(y) > number(c)
       PROVE  /\ y \in DOMAIN ancestor
              /\ \/ Semidominator(l) <= Semidominator(y)
                 \/ Semidominator(m) <= Semidominator(y)
  <2>1. y \in Numbered
    BY <1>2, <1>9, UpNumber
  <2>2. CASE number(y) > number(a)
    BY <1>3, <2>2 DEF IsLink
  <2>3. CASE number(y) <= number(a)
    <3>1. y \in up(a)
      BY <1>2, <1>8, <1>9, <2>3, UpChain
    <3> QED
      BY <1>3, <1>12, <3>1 DEF IsLink
  <2> QED
    BY <1>2, <1>9, <2>1, <2>2, <2>3
<1>13. IsLink(v, c, new)
  <2>1. /\ new \in {l, m}
        /\ Semidominator(new) <= Semidominator(l) /\ Semidominator(new) <= Semidominator(m)
    BY <1>2, <1>4, <1>11 DEF new
  <2>2. new \in up(v) /\ number(new) > number(c)
    BY <1>8, <1>9, <1>10, <2>1
  <2>3. ASSUME NEW y \in up(v), number(y) > number(c)
        PROVE  Semidominator(new) <= Semidominator(y)
    <3>1. Semidominator(y) \in Nat /\ Semidominator(l) \in Nat /\ Semidominator(m) \in Nat
          /\ Semidominator(new) \in Nat
      BY <1>2, <1>11, <1>12, <2>1, <2>3
    <3> QED
      BY <1>12, <2>1, <2>3, <3>1
  <2> QED
    BY <1>9, <1>10, <1>12, <2>2, <2>3 DEF IsLink
<1>14. ASSUME NEW x \in DOMAIN ancestor PROVE IsLink(x, ancestor[x], label[x])'
  <2>0. PICK p, q : p = ancestor'[x] /\ q = label'[x]
    OBVIOUS
  <2>1. IsLink(x, p, q)
    <3>1. CASE x = v
      BY <1>7, <1>13, <2>0, <3>1
    <3>2. CASE x # v
      BY <1>7, <2>0, <3>2 DEF Linking, Forest
    <3> QED
      BY <3>1, <3>2
  <2> QED
    BY <1>5, <1>7, <2>0, <2>1, LinkStays
<1>15. /\ Numbered' = Numbered /\ Complete' /\ w' = w
       /\ \A b : /\ number(b)' = number(b) /\ up(b)' = up(b)
                 /\ Semidominator(b)' = Semidominator(b) /\ semiOf(b)' = semiOf(b)
  BY <1>2, <1>5, TreeKept DEF w
<1>16. Forest'
  <2>1. DOMAIN ancestor' = {x \in Numbered : \/ number(x)' > cursor'
                                             \/ number(x)' = cursor' /\ dtStep' = "bucket"}
    BY <1>5, <1>7, <1>15 DEF Linking, Forest
  <2> QED
    BY <1>7, <1>14, <1>15, <2>1 DEF Forest
<1>17. Semis'
  <2>1. \A x \in Numbered \ DOMAIN ancestor : label'[x] = x
    BY <1>1, <1>7 DEF Linking, Semis
  <2> QED
    BY <1>5, <1>7, <1>15, <2>1 DEF Linking, Semis
<1>18. Buckets' /\ Relatives' /\ Predecessors'
  <2>1. Buckets'
    BY <1>5, <1>7, <1>15 DEF Linking, Buckets
  <2>2. Relatives'
    <3>1. \A d, x : IsRelative(d, x)' = IsRelative(d, x)
      BY <1>5, LinkKept
    <3>2. \A x, y : Waits(x, y)' = Waits(x, y)
      BY <1>5, <1>15 DEF Waits
    <3> QED
      BY <1>5, <1>7, <1>15, <3>1, <3>2 DEF Linking, Relatives
  <2>3. Predecessors'
    BY <1>5, <1>15 DEF Linking, Predecessors
  <2> QED
    BY <2>1, <2>2, <2>3
<1>19. dtStep' = "semi" => SemiSoFar'
  <2>1. \A n, b, x : Counts(n, b, x)' = Counts(n, b, x)
    BY <1>5, LinkKept
  <2>2. dtStep = "semi" => SemiSoFar
    BY DEF Linking
  <2> QED
    BY <1>5, <1>15, <2>1, <2>2 DEF SemiSoFar
<1> QED
  BY <1>5, <1>15, <1>16, <1>17, <1>18, <1>19 DEF Linking

\* The inner loop takes account of a predecessor.
LEMMA LinkingEvaluated ==
  ASSUME Linking, EvalPredecessor, fn' = fn
  PROVE  Linking'
<1>0. PICK v, u, x : v = Head(todo) /\ u = eval(v) /\ x = w
  OBVIOUS
<1>1. /\ Complete /\ Span /\ Predecessors /\ cursor \in Nat
      /\ x \in Numbered /\ number(x) = cursor /\ x # Entry(fn)
      /\ \A b \in Numbered : number(b) \in Nat
      /\ \A y \in DOMAIN ancestor : y \in Numbered /\ Semidominator(y) \in Nat
                                    /\ number(y) > cursor
      /\ \A y \in Numbered : number(y) > cursor => y \in DOMAIN ancestor
  BY <1>0, LinkingTypes DEF EvalPredecessor
<1>2. /\ dtStep = "semi" /\ todo # <<>> /\ isCompressed(v)
      /\ semi' = IF semi[u] < semi[x] THEN [semi EXCEPT ![x] = semi[u]] ELSE semi
      /\ todo' = Tail(todo)
      /\ UNCHANGED <<dtStep, path, vertex, parent, label, ancestor, idom, pred, bucket, cursor,
                     compressing, discover, finish>>
  BY <1>0 DEF EvalPredecessor
<1>3. /\ semi[x] \in Nat /\ Semidominator(x) <= semi[x] /\ semi[x] <= number(x)
      /\ Range(todo) \subseteq Range(pred[x])
      /\ \A y \in Range(pred[x]) : y \in Range(todo) \/ Counts(semi[x], x, y)
  BY <1>0, <1>2 DEF Linking, SemiSoFar
<1>4. /\ todo \in Seq(Numbered) /\ todo' \in Seq(Numbered)
      /\ Range(todo) = {v} \cup Range(todo')
  BY <1>0, <1>2, TailFacts DEF Linking
<1>5. /\ v \in Range(pred[x]) /\ v \in Numbered /\ x \in successors(fn, v)
  <2>1. v \in Range(pred[x])
    BY <1>3, <1>4
  <2>2. v \in Numbered
    BY <1>4, RangeFacts
  <2> QED
    BY <1>1, <2>1, <2>2 DEF Predecessors
<1>6. /\ DOMAIN semi = Numbered
      /\ \A y \in DOMAIN ancestor : semi[y] = Semidominator(y)
      /\ \A y \in Numbered \ DOMAIN ancestor : label[y] = y /\ (y # x => semi[y] = number(y))
  BY <1>0 DEF Linking, Semis
<1>7. /\ Semidominator(x) \in Nat /\ Semidominator(x) <= number(v)
      /\ \A y \in up(v) : number(y) > number(x) => Semidominator(x) <= Semidominator(y)
  BY <1>1, <1>5, SemiAtMost, SemiFacts
<1> DEFINE Good(k) == /\ k \in Nat /\ Semidominator(x) <= k
                      /\ \A n \in Nat : n <= k => Counts(n, x, v)
<1>8. ASSUME v \in DOMAIN ancestor PROVE Good(semi[u])
  <2>1. /\ ancestor[v] \in up(v) /\ ancestor[v] \notin DOMAIN ancestor
        /\ label[v] \in up(v) /\ label[v] \in DOMAIN ancestor
        /\ semi[label[v]] = Semidominator(label[v])
        /\ \A y \in up(v) : number(y) > number(ancestor[v]) =>
              y \in DOMAIN ancestor /\ Semidominator(label[v]) <= Semidominator(y)
    BY <1>2, <1>8, EvalFacts
  <2>2. u = label[v] /\ semi[u] = Semidominator(u) /\ semi[u] \in Nat
    BY <1>0, <1>1, <1>8, <2>1 DEF eval
  <2>3. ancestor[v] \in Numbered /\ number(ancestor[v]) <= cursor
    <3>1. ancestor[v] \in Numbered
      BY <1>1, <1>5, <2>1, UpNumber
    <3> QED
      BY <1>1, <2>1, <3>1
  <2>4. Semidominator(x) <= semi[u]
    BY <1>1, <1>7, <2>1, <2>2
  <2>5. ASSUME NEW y \in up(v), number(y) > number(x)
        PROVE  semi[u] <= Semidominator(y) /\ Semidominator(y) \in Nat
    <3>1. y \in Numbered
      BY <1>1, <1>5, UpNumber
    <3>2. number(y) > number(ancestor[v])
      BY <1>1, <2>3, <2>5, <3>1
    <3> QED
      BY <1>1, <2>1, <2>2, <3>2
  <2>6. number(v) > number(x)
    BY <1>1, <1>8
  <2>7. \A n \in Nat : n <= semi[u] => Counts(n, x, v)
    BY <1>1, <1>5, <2>2, <2>5, <2>6 DEF Counts
  <2> QED
    BY <2>2, <2>4, <2>7
<1>9. ASSUME v \notin DOMAIN ancestor PROVE Good(semi[u])
  <2>1. u = v
    BY <1>0, <1>9 DEF eval
  <2>2. number(v) <= number(x)
    BY <1>1, <1>5, <1>9
  <2>3. \A y \in up(v) : ~(number(y) > number(x))
    <3> SUFFICES ASSUME NEW y \in up(v) PROVE ~(number(y) > number(x))
      OBVIOUS
    <3>1. y \in Numbered /\ number(y) <= number(v)
      BY <1>1, <1>5, UpNumber
    <3> QED
      BY <1>1, <1>5, <2>2, <3>1
  <2>4. CASE v = x
    <3>1. \A n \in Nat : Counts(n, x, v)
      BY <1>1, <2>3, <2>4 DEF Counts
    <3> QED
      BY <1>3, <2>1, <2>4, <3>1
  <2>5. CASE v # x
    <3>1. semi[v] = number(v)
      BY <1>5, <1>6, <1>9, <2>5
    <3>2. \A n \in Nat : n <= number(v) => Counts(n, x, v)
      BY <2>3 DEF Counts
    <3> QED
      BY <1>1, <1>5, <1>7, <2>1, <3>1, <3>2
  <2> QED
    BY <2>4, <2>5
<1>10. semi[u] \in Nat /\ Semidominator(x) <= semi[u]
       /\ \A n \in Nat : n <= semi[u] => Counts(n, x, v)
  BY <1>8, <1>9
<1>11. PICK n : n = IF semi[u] < semi[x] THEN semi[u] ELSE semi[x]
  OBVIOUS
<1>12. /\ n \in Nat /\ Semidominator(x) <= n /\ n <= semi[x] /\ n <= semi[u] /\ n <= number(x)
  BY <1>1, <1>3, <1>7, <1>10, <1>11
<1>13. /\ DOMAIN semi' = Numbered /\ semi'[x] = n
       /\ \A y : y # x => semi'[y] = semi[y]
  BY <1>1, <1>2, <1>6, <1>11
<1>14. ASSUME NEW y \in Range(pred[x]) PROVE y \in Range(todo') \/ Counts(n, x, y)
  <2>1. CASE y = v
    BY <1>10, <1>12, <2>1
  <2>2. CASE y # v /\ y \in Range(todo)
    BY <1>4, <2>2
  <2>3. CASE Counts(semi[x], x, y)
    <3>1. y \in Numbered
      <4>1. pred[x] \in Seq(Numbered)
        BY <1>1, Numbers DEF Predecessors
      <4> QED
        BY <4>1, RangeFacts
    <3>2. ASSUME NEW z \in up(y), number(z) > number(x) PROVE n <= Semidominator(z)
      <4>1. z \in Numbered
        BY <1>1, <3>1, UpNumber
      <4>2. Semidominator(z) \in Nat
        BY <1>1, <3>2, <4>1
      <4>3. semi[x] <= Semidominator(z)
        BY <2>3, <3>2 DEF Counts
      <4> QED
        BY <1>3, <1>12, <4>2, <4>3
    <3>3. number(y) < number(x) => n <= number(y)
      BY <1>1, <1>3, <1>12, <2>3, <3>1 DEF Counts
    <3> QED
      BY <3>2, <3>3 DEF Counts
  <2> QED
    BY <1>3, <2>1, <2>2, <2>3
<1>15. /\ Numbered' = Numbered /\ Complete' /\ w' = x
       /\ \A b : /\ number(b)' = number(b) /\ up(b)' = up(b)
                 /\ Semidominator(b)' = Semidominator(b) /\ semiOf(b)' = semiOf(b)
  BY <1>0, <1>1, <1>2, TreeKept DEF w
<1>16. Forest'
  <2>1. DOMAIN ancestor' = {y \in Numbered : \/ number(y)' > cursor'
                                             \/ number(y)' = cursor' /\ dtStep' = "bucket"}
    BY <1>2, <1>15 DEF Linking, Forest
  <2>2. ASSUME NEW y \in DOMAIN ancestor PROVE IsLink(y, ancestor[y], label[y])'
    <3>1. PICK p, q : p = ancestor[y] /\ q = label[y]
      OBVIOUS
    <3>2. IsLink(y, p, q)
      BY <3>1 DEF Linking, Forest
    <3> QED
      BY <1>2, <3>1, <3>2, LinkStays
  <2> QED
    BY <1>2, <1>15, <2>1, <2>2 DEF Forest
<1>17. Semis'
  <2>1. x \notin DOMAIN ancestor
    BY <1>1
  <2>2. DOMAIN label = Numbered
    BY DEF Linking, Semis
  <2> QED
    BY <1>2, <1>6, <1>13, <1>15, <2>1, <2>2 DEF Semis
<1>18. Buckets' /\ Relatives' /\ Predecessors'
  <2>1. Buckets'
    BY <1>2, <1>15 DEF Linking, Buckets
  <2>2. Relatives'
    <3>1. \A d, y : IsRelative(d, y)' = IsRelative(d, y)
      BY <1>2, LinkKept
    <3>2. \A y, z : Waits(y, z) => Waits(y, z)'
      BY <1>2, <1>15 DEF Waits
    <3> QED
      BY <1>2, <1>15, <3>1, <3>2 DEF Linking, Relatives
  <2>3. Predecessors'
    BY <1>2, <1>15 DEF Linking, Predecessors
  <2> QED
    BY <2>1, <2>2, <2>3
<1>19. SemiSoFar'
  <2>1. \A k, b, y : Counts(k, b, y)' = Counts(k, b, y)
    BY <1>2, LinkKept
  <2>2. Range(todo') \subseteq Range(pred[x])
    BY <1>3, <1>4
  <2>3. /\ semi'[x] = n /\ w' = x /\ pred' = pred
        /\ number(x)' = number(x) /\ Semidominator(x)' = Semidominator(x)
    BY <1>2, <1>13, <1>15
  <2>4. \A y \in Range(pred[x]) : y \in Range(todo') \/ Counts(n, x, y)'
    BY <1>14, <2>1
  <2>5. \A y : Counts(n, x, y)' => Counts(semi[w], w, y)'
    BY <2>3 DEF Counts
  <2> QED
    BY <1>12, <2>2, <2>3, <2>4, <2>5 DEF SemiSoFar
<1> QED
  BY <1>2, <1>4, <1>15, <1>16, <1>17, <1>18, <1>19 DEF Linking

\* The loop over the predecessors of w has found its semidominator: w is linked.
LEMMA LinkingLinked ==
  ASSUME Linking, LinkVertex, fn' = fn
  PROVE  Linking'
<1>0. PICK x, s, p : x = w /\ s = semiOf(x) /\ p = parent[x]
  OBVIOUS
<1>1. /\ Complete /\ Span /\ Predecessors /\ cursor \in Nat
      /\ x \in Numbered /\ number(x) = cursor /\ x # Entry(fn)
      /\ \A b \in Numbered : number(b) \in Nat
      /\ \A y \in DOMAIN ancestor : y \in Numbered /\ number(y) > cursor
      /\ \A y \in Numbered : number(y) > cursor => y \in DOMAIN ancestor
  BY <1>0, LinkingTypes DEF LinkVertex
<1>2. /\ dtStep = "semi" /\ todo = <<>> /\ dtStep' = "bucket"
      /\ bucket' = [bucket EXCEPT ![vertex[semi[x]]] = Append(@, x)]
      /\ ancestor' = Put(ancestor, x, p)
      /\ todo' = bucket'[p]
      /\ UNCHANGED <<path, vertex, semi, parent, label, idom, pred, cursor,
                     discover, finish, compressing>>
  BY <1>0 DEF LinkVertex
<1>3. /\ semi[x] \in Nat /\ Semidominator(x) <= semi[x] /\ semi[x] <= number(x)
      /\ \A y \in Range(pred[x]) : y \in Range(todo) \/ Counts(semi[x], x, y)
  BY <1>0, <1>2 DEF Linking, SemiSoFar
<1>4. semi[x] = Semidominator(x)
  <2>1. Range(todo) = {}
    BY <1>2 DEF Range
  <2>2. ASSUME NEW v \in Numbered, x \in successors(fn, v)
        PROVE  Counts(semi[x], x, v)
    <3>1. v \in Range(pred[x])
      BY <1>1, <2>2 DEF Predecessors
    <3> QED
      BY <1>3, <2>1, <3>1
  <2>3. PICK n : n = semi[x]
    OBVIOUS
  <2>4. \A v \in Numbered : x \in successors(fn, v) =>
          /\ number(v) < number(x) => n <= number(v)
          /\ \A u \in up(v) : number(u) > number(x) => n <= Semidominator(u)
    BY <2>2, <2>3 DEF Counts
  <2>5. n <= Semidominator(x) /\ n \in Nat
    BY <1>1, <1>3, <2>3, <2>4, SemiAtLeast
  <2>6. Semidominator(x) \in Nat
    BY <1>1, SemiFacts
  <2> QED
    BY <1>3, <2>3, <2>5, <2>6
<1>5. /\ s \in Numbered /\ number(s) = Semidominator(x) /\ s \in up(x) /\ s # x
      /\ vertex[semi[x]] = s /\ s \in BlocksOf(fn)
  <2>1. s \in Numbered /\ number(s) = Semidominator(x) /\ s \in up(x) /\ s # x
    BY <1>0, <1>1, SemiFacts, SemiAbove
  <2> QED
    BY <1>0, <1>1, <1>4, <2>1, Numbers DEF semiOf
<1>6. /\ p \in Numbered /\ x \in DOMAIN parent /\ number(p) < number(x) /\ p # x
      /\ p \in up(x) /\ up(x) = {x} \cup up(p) /\ p \in BlocksOf(fn)
  <2>1. p \in Numbered /\ x \in DOMAIN parent /\ number(p) < number(x)
    BY <1>0, <1>1, Numbers
  <2> QED
    BY <1>0, <1>1, <2>1, UpSteps, Numbers
<1>7. /\ DOMAIN ancestor' = DOMAIN ancestor \cup {x} /\ ancestor'[x] = p
      /\ \A y \in DOMAIN ancestor : ancestor'[y] = ancestor[y]
      /\ x \notin DOMAIN ancestor
  BY <1>1, <1>2 DEF Put
<1>8. /\ bucket \in [BlocksOf(fn) -> Seq(Numbered)]
      /\ \A b \in BlocksOf(fn) : \A v \in Range(bucket[b]) : v \in DOMAIN ancestor /\ semiOf(v) = b
      /\ \A v \in DOMAIN ancestor : v \in Range(bucket[semiOf(v)])
  BY DEF Linking, Buckets
<1>9. /\ bucket' = [bucket EXCEPT ![s] = Append(@, x)]
      /\ bucket' \in [BlocksOf(fn) -> Seq(Numbered)]
      /\ Range(bucket'[s]) = Range(bucket[s]) \cup {x}
      /\ \A b \in BlocksOf(fn) \ {s} : bucket'[b] = bucket[b]
  <2>1. bucket' = [bucket EXCEPT ![s] = Append(@, x)]
    BY <1>2, <1>5
  <2>2. bucket[s] \in Seq(Numbered) /\ Append(bucket[s], x) \in Seq(Numbered)
        /\ Range(Append(bucket[s], x)) = Range(bucket[s]) \cup {x}
    BY <1>1, <1>5, <1>8, RangeAppended
  <2>3. bucket'[s] = Append(bucket[s], x) /\ \A b \in BlocksOf(fn) \ {s} : bucket'[b] = bucket[b]
    BY <1>5, <1>8, <2>1
  <2> QED
    BY <1>5, <1>8, <2>1, <2>2, <2>3
<1>10. /\ Numbered' = Numbered /\ Complete' /\ w' = x
       /\ \A b : /\ number(b)' = number(b) /\ up(b)' = up(b)
                 /\ Semidominator(b)' = Semidominator(b) /\ semiOf(b)' = semiOf(b)
  BY <1>0, <1>1, <1>2, TreeKept DEF w
<1>11. Forest'
  <2>1. DOMAIN ancestor' = {y \in Numbered : \/ number(y)' > cursor'
                                             \/ number(y)' = cursor' /\ dtStep' = "bucket"}
    <3>1. \A y \in Numbered : number(y) = cursor <=> y = x
      BY <1>1, Numbers
    <3> QED
      BY <1>1, <1>2, <1>7, <1>10, <3>1
  <2>2. ASSUME NEW y \in DOMAIN ancestor' PROVE IsLink(y, ancestor[y], label[y])'
    <3>0. PICK a, l : a = ancestor'[y] /\ l = label'[y]
      OBVIOUS
    <3>1. CASE y \in DOMAIN ancestor
      <4>1. IsLink(y, a, l)
        BY <1>2, <1>7, <3>0, <3>1 DEF Linking, Forest
      <4> QED
        BY <1>2, <1>7, <3>0, <4>1, LinkStays
    <3>2. CASE y = x
      <4>1. a = p /\ l = x
        BY <1>0, <1>1, <1>2, <1>7, <3>0, <3>2 DEF Linking, Semis
      <4>2. \A z \in up(x) : number(z) > number(p) => z = x
        <5> SUFFICES ASSUME NEW z \in up(p), number(z) > number(p) PROVE FALSE
          BY <1>6
        <5>1. z \in Numbered /\ number(z) <= number(p)
          BY <1>1, <1>6, UpNumber
        <5> QED
          BY <1>1, <1>6, <5>1
      <4>3. Semidominator(x) <= Semidominator(x)
        BY <1>1, SemiFacts
      <4>4. IsLink(x, p, x)'
        <5>1. /\ up(x)' = up(x) /\ number(p)' = number(p) /\ number(x)' = number(x)
              /\ \A z : /\ number(z)' = number(z)
                        /\ Semidominator(z)' = Semidominator(z)
          BY <1>10
        <5> QED
          BY <1>1, <1>6, <1>7, <4>2, <4>3, <5>1, UpSteps DEF IsLink
      <4> QED
        BY <3>0, <3>2, <4>1, <4>4 DEF IsLink
    <3> QED
      BY <1>7, <3>1, <3>2
  <2> QED
    BY <1>2, <1>7, <1>10, <2>1, <2>2 DEF Forest
<1>12. Semis'
  BY <1>0, <1>2, <1>4, <1>7, <1>10 DEF Linking, Semis
<1>13. Buckets'
  <2>1. ASSUME NEW b \in BlocksOf(fn), NEW v \in Range(bucket'[b])
        PROVE  v \in DOMAIN ancestor' /\ semiOf(v) = b
    BY <1>0, <1>7, <1>8, <1>9
  <2>2. ASSUME NEW v \in DOMAIN ancestor', NEW b, b = semiOf(v) PROVE v \in Range(bucket'[b])
    <3>1. CASE v = x
      BY <1>0, <1>9, <2>2, <3>1
    <3>2. CASE v \in DOMAIN ancestor
      <4>1. v \in Range(bucket[b])
        BY <1>8, <2>2, <3>2
      <4>2. b \in BlocksOf(fn)
        <5>1. v \in Numbered /\ v # Entry(fn)
          BY <3>2, LinkingTypes
        <5> QED
          BY <1>1, <2>2, <5>1, SemiFacts, Numbers
      <4> QED
        BY <1>9, <4>1, <4>2
    <3> QED
      BY <1>7, <3>1, <3>2
  <2>3. \A v : semiOf(v)' = semiOf(v)
    BY <1>10
  <2> QED
    BY <1>2, <1>9, <1>10, <2>1, <2>2, <2>3 DEF Buckets
<1>14. /\ todo' \in Seq(Numbered)' /\ Range(todo') \subseteq Range(bucket'[p])
       /\ parent'[w'] = p
  BY <1>0, <1>2, <1>6, <1>9, <1>10
<1>15. Relatives'
  <2>1. \A d, v : IsRelative(d, v)' = IsRelative(d, v)
    BY <1>2, LinkKept
  <2>2. /\ DOMAIN idom \subseteq DOMAIN ancestor
        /\ \A v \in DOMAIN idom : IsRelative(idom[v], v)
    BY DEF Linking, Relatives
  <2>3. ASSUME NEW v \in DOMAIN ancestor', v \notin DOMAIN idom
        PROVE  \E c \in up(v) : Waits(v, c)'
    <3>0. /\ semiOf(v)' = semiOf(v) /\ \A c : number(c)' = number(c)
          /\ v \in Range(bucket'[semiOf(v)])
      BY <1>10, <1>13 DEF Buckets
    <3>1. PICK c \in up(v) : c \in DOMAIN parent /\ parent[c] = semiOf(v) /\ number(c) <= cursor
      <4>1. CASE v = x
        <5>1. PICK c \in up(x) : c \in DOMAIN parent /\ parent[c] = s
          BY <1>1, <1>5, UpChild
        <5>2. number(c) <= number(x)
          BY <1>1, <5>1, UpNumber
        <5> QED
          BY <1>0, <1>1, <4>1, <5>1, <5>2
      <4>2. CASE v \in DOMAIN ancestor
        <5>1. PICK c \in up(v) : Waits(v, c)
          BY <2>3, <4>2 DEF Linking, Relatives
        <5>2. c \in Numbered /\ number(c) \in Nat
          BY <1>1, Numbers, <5>1 DEF Waits
        <5> QED
          BY <1>1, <5>1, <5>2 DEF Waits
      <4> QED
        BY <1>7, <4>1, <4>2
    <3>2. c \in Numbered /\ number(c) \in Nat
      BY <1>1, <3>1, Numbers
    <3>3. number(c) < cursor \/ (number(c) = cursor /\ c = x)
      BY <1>1, <3>1, <3>2, Numbers
    <3>4. c = x => v \in Range(todo')
      BY <1>0, <1>2, <3>0, <3>1
    <3>5. Waits(v, c)'
      BY <1>2, <3>0, <3>1, <3>3, <3>4 DEF Waits
    <3> QED
      BY <3>5
  <2> QED
    BY <1>2, <1>7, <1>10, <2>1, <2>2, <2>3 DEF Relatives
<1>16. Predecessors'
  BY <1>2, <1>10 DEF Linking, Predecessors
<1>17. /\ cursor' \in (2 .. Len(vertex))' /\ DOMAIN discover' = {} /\ DOMAIN finish' = {}
       /\ dtStep' # "semi"
  BY <1>2 DEF Linking
<1> QED
  BY <1>10, <1>11, <1>12, <1>13, <1>14, <1>15, <1>16, <1>17 DEF Linking

\* A block of the bucket gets its immediate dominator or a relative.
LEMMA LinkingRelated ==
  ASSUME Linking, EvalBucket, fn' = fn
  PROVE  Linking'
<1>0. PICK x, v, u, s, a, d :
        /\ x = w /\ v = Head(todo) /\ u = eval(v) /\ s = parent[x] /\ a = ancestor[v]
        /\ d = IF semi[u] < semi[v] THEN u ELSE s
  OBVIOUS
<1>1. /\ Complete /\ Span /\ Predecessors /\ cursor \in Nat
      /\ x \in Numbered /\ number(x) = cursor /\ x # Entry(fn)
      /\ \A b \in Numbered : number(b) \in Nat
      /\ \A y \in DOMAIN ancestor : /\ y \in Numbered /\ Semidominator(y) \in Nat
                                    /\ number(y) >= cursor /\ y # Entry(fn)
      /\ \A y \in Numbered : number(y) > cursor => y \in DOMAIN ancestor
  BY <1>0, LinkingTypes
<1>2. /\ dtStep = "bucket" /\ todo # <<>> /\ isCompressed(v)
      /\ idom' = Put(idom, v, d) /\ todo' = Tail(todo)
      /\ UNCHANGED <<dtStep, path, vertex, semi, parent, label, ancestor, pred, bucket, cursor,
                     compressing, discover, finish>>
  BY <1>0 DEF EvalBucket
<1>3. /\ todo \in Seq(Numbered) /\ todo' \in Seq(Numbered)
      /\ Range(todo) = {v} \cup Range(todo')
      /\ Range(todo) \subseteq Range(bucket[s])
  BY <1>0, <1>2, TailFacts DEF Linking
<1>4. /\ s \in Numbered /\ s \in BlocksOf(fn) /\ number(s) < cursor /\ s # x
      /\ up(x) = {x} \cup up(s)
  BY <1>0, <1>1, Numbers, UpSteps
<1>5. v \in DOMAIN ancestor /\ semiOf(v) = s
  BY <1>3, <1>4 DEF Linking, Buckets
<1>6. /\ v \in Numbered /\ v # Entry(fn) /\ Semidominator(v) \in Nat /\ number(v) >= cursor
      /\ s \in up(v) /\ s # v /\ number(s) = Semidominator(v)
  BY <1>1, <1>5, SemiFacts, SemiAbove
<1>7. /\ a \in up(v) /\ a # v /\ a \notin DOMAIN ancestor /\ u = label[v]
      /\ u \in up(v) /\ u \in DOMAIN ancestor /\ number(u) > number(a)
      /\ semi[u] = Semidominator(u) /\ semi[v] = Semidominator(v)
      /\ \A y \in up(v) : number(y) > number(a) =>
              y \in DOMAIN ancestor /\ Semidominator(u) <= Semidominator(y)
  <2>1. semi[v] = Semidominator(v) /\ u = label[v]
    BY <1>0, <1>5 DEF Linking, Semis, eval
  <2> QED
    BY <1>0, <1>2, <1>5, <2>1, EvalFacts
<1>8. a = s
  <2>1. a \in Numbered /\ number(a) \in Nat /\ number(s) \in Nat
    BY <1>1, <1>4, <1>6, <1>7, UpNumber
  <2>2. number(a) < cursor
    <3>1. number(a) <= cursor
      BY <1>1, <1>7, <2>1
    <3>2. a # x
      <4>1. x \in DOMAIN ancestor
        BY <1>1, <1>2 DEF Linking, Forest
      <4> QED
        BY <1>7, <4>1
    <3>3. number(a) # number(x)
      BY <1>1, <2>1, <3>2, Numbers
    <3> QED
      BY <1>1, <2>1, <3>1, <3>3
  <2>3. a \in up(x)
    <3>1. number(a) <= number(x) /\ number(x) <= number(v)
      BY <1>1, <1>6, <2>1, <2>2
    <3> QED
      BY <1>1, <1>6, <1>7, <3>1, UpBetween
  <2>4. a \in up(s)
    BY <1>1, <1>4, <2>1, <2>2, <2>3
  <2>5. number(a) <= number(s)
    BY <1>1, <1>4, <2>4, UpNumber
  <2>6. ~(number(s) > number(a))
    <3>1. s \notin DOMAIN ancestor
      BY <1>1, <1>4, <2>1
    <3> QED
      BY <1>6, <1>7, <3>1
  <2>7. number(a) = number(s)
    BY <2>1, <2>5, <2>6
  <2> QED
    BY <1>1, <1>4, <2>1, <2>7, Numbers
<1>9. IsRelative(d, v)
  <2>1. /\ Semidominator(u) \in Nat /\ u \in up(v) /\ number(u) > Semidominator(v)
        /\ \A y \in up(v) : number(y) > Semidominator(v) => Semidominator(u) <= Semidominator(y)
    BY <1>1, <1>6, <1>7, <1>8
  <2>2. ASSUME NEW y \in up(v), number(y) > Semidominator(v)
        PROVE  Semidominator(y) \in Nat /\ Semidominator(u) <= Semidominator(y)
    BY <1>1, <1>6, <1>7, <1>8, <2>2
  <2>3. CASE semi[u] < semi[v]
    <3>1. d = u /\ Semidominator(u) < Semidominator(v)
      BY <1>0, <1>7, <2>3
    <3>2. \A y \in up(v) : number(y) > Semidominator(v) => Semidominator(y) >= Semidominator(u)
      BY <2>1, <2>2
    <3> QED
      BY <2>1, <3>1, <3>2 DEF IsRelative
  <2>4. CASE ~(semi[u] < semi[v])
    <3>1. d = semiOf(v)
      BY <1>0, <1>5, <2>4
    <3>2. Semidominator(u) >= Semidominator(v)
      BY <1>6, <1>7, <2>1, <2>4
    <3>3. \A y \in up(v) : number(y) > Semidominator(v) => Semidominator(y) >= Semidominator(v)
      BY <1>6, <2>1, <2>2, <3>2
    <3> QED
      BY <3>1, <3>3 DEF IsRelative
  <2> QED
    BY <2>3, <2>4
<1>10. /\ Numbered' = Numbered /\ Complete' /\ w' = x
       /\ \A b : /\ number(b)' = number(b) /\ up(b)' = up(b)
                 /\ Semidominator(b)' = Semidominator(b) /\ semiOf(b)' = semiOf(b)
  BY <1>0, <1>1, <1>2, TreeKept DEF w
<1>11. Forest'
  <2>1. DOMAIN ancestor' = {y \in Numbered : \/ number(y)' > cursor'
                                             \/ number(y)' = cursor' /\ dtStep' = "bucket"}
    BY <1>2, <1>10 DEF Linking, Forest
  <2>2. ASSUME NEW y \in DOMAIN ancestor PROVE IsLink(y, ancestor[y], label[y])'
    <3>1. PICK p, q : p = ancestor[y] /\ q = label[y]
      OBVIOUS
    <3>2. IsLink(y, p, q)
      BY <3>1 DEF Linking, Forest
    <3> QED
      BY <1>2, <3>1, <3>2, LinkStays
  <2> QED
    BY <1>2, <1>10, <2>1, <2>2 DEF Forest
<1>12. Semis' /\ Buckets' /\ Predecessors'
  <2>1. Semis'
    BY <1>0, <1>2, <1>10 DEF Linking, Semis
  <2>2. Buckets'
    BY <1>2, <1>10 DEF Linking, Buckets
  <2>3. Predecessors'
    BY <1>2, <1>10 DEF Linking, Predecessors
  <2> QED
    BY <2>1, <2>2, <2>3
<1>13. Relatives'
  <2>1. \A e, y : IsRelative(e, y)' = IsRelative(e, y)
    BY <1>2, LinkKept
  <2>2. /\ DOMAIN idom' = DOMAIN idom \cup {v} /\ idom'[v] = d
        /\ \A y \in DOMAIN idom : y # v => idom'[y] = idom[y]
    BY <1>2 DEF Put
  <2>3. /\ DOMAIN idom \subseteq DOMAIN ancestor
        /\ \A y \in DOMAIN idom : IsRelative(idom[y], y)
    BY DEF Linking, Relatives
  <2>4. ASSUME NEW y \in DOMAIN idom' PROVE IsRelative(idom'[y], y)
    BY <1>9, <2>2, <2>3
  <2>5. ASSUME NEW y \in DOMAIN ancestor, y \notin DOMAIN idom'
        PROVE  \E c \in up(y) : Waits(y, c)'
    <3>1. PICK c \in up(y) : Waits(y, c)
      BY <2>2, <2>5 DEF Linking, Relatives
    <3>2. /\ semiOf(y)' = semiOf(y) /\ number(c)' = number(c)
      BY <1>10
    <3>3. y \in Range(todo) => y \in Range(todo')
      BY <1>3, <2>2, <2>5
    <3>4. Waits(y, c)'
      BY <1>2, <3>1, <3>2, <3>3 DEF Waits
    <3> QED
      BY <3>4
  <2>6. DOMAIN idom' \subseteq DOMAIN ancestor'
    BY <1>2, <1>5, <2>2, <2>3
  <2>7. \A y \in DOMAIN idom' : IsRelative(idom[y], y)'
    <3> SUFFICES ASSUME NEW y \in DOMAIN idom', NEW e, e = idom'[y]
                 PROVE  IsRelative(idom[y], y)'
      OBVIOUS
    <3>1. IsRelative(e, y)'
      BY <2>1, <2>4
    <3> QED
      BY <3>1 DEF IsRelative
  <2> QED
    BY <1>2, <1>10, <2>5, <2>6, <2>7 DEF Relatives
<1>14. /\ Range(todo') \subseteq Range(bucket'[parent'[w']])
       /\ cursor' \in (2 .. Len(vertex))' /\ DOMAIN discover' = {} /\ DOMAIN finish' = {}
       /\ dtStep' # "semi"
  BY <1>0, <1>2, <1>3, <1>10 DEF Linking
<1> QED
  BY <1>3, <1>10, <1>11, <1>12, <1>13, <1>14 DEF Linking

\* The loops go on with the next vertex, or are over.
LEMMA LinkingNext ==
  ASSUME Linking, NextVertex, fn' = fn
  PROVE  \/ dtStep' = "semi" /\ Linking'
         \/ dtStep' = "resolve" /\ Resolving'
<1>1. /\ Complete /\ Span /\ Predecessors /\ cursor \in Nat /\ cursor >= 2
      /\ \A b \in Numbered : number(b) \in Nat
      /\ DOMAIN ancestor = {y \in Numbered : number(y) >= cursor}
      /\ cursor <= Len(vertex) /\ Len(vertex) \in Nat
  <2>1. dtStep = "bucket"
    BY DEF NextVertex
  <2>2. /\ Complete /\ Span /\ Predecessors /\ cursor \in Nat /\ cursor >= 2
        /\ \A b \in Numbered : number(b) \in Nat
    BY LinkingTypes
  <2>3. \A y \in Numbered : number(y) >= cursor <=> (number(y) > cursor \/ number(y) = cursor)
    BY <2>2
  <2>4. DOMAIN ancestor = {x \in Numbered : \/ number(x) > cursor
                                            \/ number(x) = cursor /\ dtStep = "bucket"}
    BY DEF Linking, Forest
  <2>5. cursor <= Len(vertex) /\ Len(vertex) \in Nat
    BY <2>2, Numbers DEF Linking
  <2> QED
    BY <2>1, <2>2, <2>3, <2>4, <2>5
<1>2. /\ dtStep = "bucket" /\ todo = <<>> /\ StartVertex(cursor - 1)
      /\ todo' = pred[vertex[cursor - 1]]
      /\ UNCHANGED <<path, vertex, semi, parent, label, ancestor, idom, pred, bucket,
                     discover, finish, compressing>>
  BY DEF NextVertex
<1>3. /\ Numbered' = Numbered /\ Complete'
      /\ \A b : /\ number(b)' = number(b) /\ up(b)' = up(b)
                /\ Semidominator(b)' = Semidominator(b) /\ semiOf(b)' = semiOf(b)
  BY <1>1, <1>2, TreeKept
<1>4. /\ \A e, y : IsRelative(e, y)' = IsRelative(e, y)
      /\ DOMAIN idom \subseteq DOMAIN ancestor
      /\ \A y \in DOMAIN idom : IsRelative(idom[y], y)
  BY <1>2, LinkKept DEF Linking, Relatives
<1>5. ASSUME NEW y \in DOMAIN ancestor, y \notin DOMAIN idom
      PROVE  \E c \in up(y) : /\ c \in DOMAIN parent /\ parent[c] = semiOf(y)
                              /\ c \in Numbered /\ number(c) >= 2 /\ number(c) < cursor
  <2>1. PICK c \in up(y) : Waits(y, c)
    BY <1>5 DEF Linking, Relatives
  <2>2. Range(todo) = {}
    BY <1>2 DEF Range
  <2>3. c \in DOMAIN parent /\ parent[c] = semiOf(y) /\ number(c) < cursor
    BY <1>2, <2>1, <2>2 DEF Waits
  <2>4. c \in Numbered /\ number(c) >= 2
    BY <1>1, <2>3, Numbers
  <2> QED
    BY <2>3, <2>4
<1>6. CASE cursor - 1 >= 2
  <2>1. dtStep' = "semi" /\ cursor' = cursor - 1 /\ cursor' \in 2 .. Len(vertex)
        /\ cursor' \in 1 .. Len(vertex)
    BY <1>1, <1>2, <1>6 DEF StartVertex
  <2>2. PICK x : x = vertex[cursor']
    OBVIOUS
  <2>3. x \in Numbered /\ number(x) = cursor'
    BY <1>1, <2>1, <2>2, Numbers
  <2>4. x \notin DOMAIN ancestor /\ x # w
    <3>1. number(w) = cursor
      BY LinkingTypes
    <3> QED
      BY <1>1, <2>1, <2>3, <3>1
  <2>5. semi[x] = number(x)
    BY <2>3, <2>4 DEF Linking, Semis
  <2>6. /\ SemiSoFar' /\ todo' \in Seq(Numbered) /\ w' = x
    BY <1>1, <1>2, <2>1, <2>2, <2>5, SemiStarts
  <2>7. Forest'
    <3>1. \A y \in Numbered : number(y) >= cursor <=> number(y) > cursor'
      BY <1>1, <2>1
    <3>2. DOMAIN ancestor' = {y \in Numbered : \/ number(y)' > cursor'
                                               \/ number(y)' = cursor' /\ dtStep' = "bucket"}
      BY <1>1, <1>2, <1>3, <2>1, <3>1
    <3>3. ASSUME NEW y \in DOMAIN ancestor PROVE IsLink(y, ancestor[y], label[y])'
      <4>1. PICK p, q : p = ancestor[y] /\ q = label[y]
        OBVIOUS
      <4>2. IsLink(y, p, q)
        BY <4>1 DEF Linking, Forest
      <4> QED
        BY <1>2, <4>1, <4>2, LinkStays
    <3> QED
      BY <1>2, <1>3, <3>2, <3>3 DEF Forest
  <2>8. Semis'
    <3>1. \A y \in Numbered \ DOMAIN ancestor : semi[y] = number(y)
      <4>1. w \in DOMAIN ancestor
        BY <1>1, LinkingTypes
      <4> QED
        BY <4>1 DEF Linking, Semis
    <3> QED
      BY <1>2, <1>3, <3>1 DEF Linking, Semis
  <2>9. Buckets' /\ Predecessors'
    <3>1. Buckets'
      BY <1>2, <1>3 DEF Linking, Buckets
    <3>2. Predecessors'
      BY <1>2, <1>3 DEF Linking, Predecessors
    <3> QED
      BY <3>1, <3>2
  <2>10. Relatives'
    <3>1. ASSUME NEW y \in DOMAIN ancestor, y \notin DOMAIN idom
          PROVE  \E c \in up(y) : Waits(y, c)'
      <4>1. PICK c \in up(y) : /\ c \in DOMAIN parent /\ parent[c] = semiOf(y)
                               /\ c \in Numbered /\ number(c) >= 2 /\ number(c) < cursor
        BY <1>5, <3>1
      <4>2. /\ semiOf(y)' = semiOf(y) /\ number(c)' = number(c)
            /\ number(c) < cursor' \/ number(c) = cursor'
        BY <1>1, <1>3, <2>1, <4>1
      <4>3. Waits(y, c)'
        BY <1>2, <2>1, <4>1, <4>2 DEF Waits
      <4> QED
        BY <4>3
    <3> QED
      BY <1>2, <1>3, <1>4, <3>1 DEF Relatives
  <2> QED
    BY <1>2, <1>3, <2>1, <2>6, <2>7, <2>8, <2>9, <2>10 DEF Linking
<1>7. CASE ~(cursor - 1 >= 2)
  <2>1. dtStep' = "resolve" /\ cursor' = 2 /\ cursor = 2 /\ cursor' \in 2 .. (Len(vertex) + 1)
    BY <1>1, <1>2, <1>7 DEF StartVertex
  <2>2. DOMAIN ancestor = Numbered \ {Entry(fn)}
    BY <1>1, <2>1, Numbers
  <2>3. DOMAIN idom = Numbered \ {Entry(fn)}
    <3>1. \A y \in DOMAIN ancestor : y \in DOMAIN idom
      <4> SUFFICES ASSUME NEW y \in DOMAIN ancestor, y \notin DOMAIN idom PROVE FALSE
        OBVIOUS
      <4>1. PICK c \in Numbered : number(c) >= 2 /\ number(c) < cursor
        BY <1>5
      <4> QED
        BY <1>1, <2>1, <4>1
    <3> QED
      BY <1>4, <2>2, <3>1
  <2>4. ASSUME NEW x \in DOMAIN idom
        PROVE  /\ semi[x] = Semidominator(x) /\ ~(number(x) < 2) /\ IsRelative(idom[x], x)
    <3>1. x \in DOMAIN ancestor /\ x \in Numbered
      BY <1>1, <1>4
    <3> QED
      BY <1>1, <1>4, <2>1, <3>1 DEF Linking, Semis
  <2>5. \A x \in DOMAIN idom : IsRelative(idom[x], x)'
    <3> SUFFICES ASSUME NEW y \in DOMAIN idom, NEW e, e = idom[y]
                 PROVE  IsRelative(idom[y], y)'
      OBVIOUS
    <3>1. IsRelative(e, y)'
      BY <1>4
    <3> QED
      BY <1>2, <3>1 DEF IsRelative
  <2> QED
    BY <1>2, <1>3, <2>1, <2>3, <2>4, <2>5 DEF Resolving, Linking
<1> QED
  BY <1>6, <1>7

\* From the search to the loops.
LEMMA LinkingStarts ==
  ASSUME Searching, path # <<>>, Len(path) <= 1, LeaveNumbered, fn' = fn,
         DOMAIN discover = {}, DOMAIN finish = {}
  PROVE  \/ dtStep' = "semi" /\ Linking'
         \/ dtStep' = "resolve" /\ Resolving'
<1>1. Span /\ vertex # <<>> /\ Collected /\ Len(vertex) \in Nat /\ Len(vertex) >= 1
  BY FramesType DEF Searching, Span
<1>2. Complete /\ Predecessors
  BY SearchEnds DEF LeaveNumbered
<1>3. /\ StartVertex(Len(vertex)) /\ todo' = pred[Last(vertex)] /\ pred' = pred
      /\ UNCHANGED <<vertex, semi, parent, label, ancestor, idom, bucket,
                     discover, finish, compressing>>
  <2>1. ~(Len(path) > 1)
    BY FramesType
  <2> QED
    BY <2>1 DEF LeaveNumbered
<1>4. /\ Numbered' = Numbered /\ Complete' /\ \A b \in Numbered : number(b) \in 1 .. Len(vertex)
      /\ \A b : /\ number(b)' = number(b) /\ up(b)' = up(b)
                /\ Semidominator(b)' = Semidominator(b) /\ semiOf(b)' = semiOf(b)
  BY <1>1, <1>2, <1>3, TreeKept, Numbers
<1>5. /\ DOMAIN semi = Numbered /\ DOMAIN label = Numbered
      /\ \A b \in Numbered : semi[b] = number(b) /\ label[b] = b
      /\ DOMAIN ancestor = {} /\ DOMAIN idom = {}
  BY DEF Searching
<1>6. CASE Len(vertex) >= 2
  <2>1. dtStep' = "semi" /\ cursor' = Len(vertex) /\ cursor' \in 2 .. Len(vertex)
        /\ cursor' \in 1 .. Len(vertex)
    BY <1>1, <1>3, <1>6 DEF StartVertex
  <2>2. PICK x : x = vertex[cursor']
    OBVIOUS
  <2>3. x \in Numbered /\ semi[x] = number(x) /\ todo' = pred[x]
    BY <1>1, <1>3, <1>5, <2>1, <2>2, Numbers DEF Last
  <2>4. SemiSoFar' /\ todo' \in Seq(Numbered)
    BY <1>2, <1>3, <2>1, <2>2, <2>3, SemiStarts
  <2>5. Forest'
    <3>1. {y \in Numbered : \/ number(y)' > cursor'
                            \/ number(y)' = cursor' /\ dtStep' = "bucket"} = {}
      BY <1>1, <1>4, <2>1
    <3> QED
      BY <1>3, <1>4, <1>5, <3>1 DEF Forest
  <2>6. Semis'
    BY <1>3, <1>4, <1>5 DEF Semis
  <2>7. Buckets'
    <3>1. /\ bucket = [b \in BlocksOf(fn) |-> <<>>]
          /\ \A b \in BlocksOf(fn) : Range(bucket[b]) = {}
      BY <1>1 DEF Collected, Range
    <3>2. bucket \in [BlocksOf(fn) -> Seq(Numbered)]
      BY <3>1
    <3> QED
      BY <1>3, <1>4, <1>5, <3>1, <3>2 DEF Buckets
  <2>8. Relatives' /\ Predecessors'
    BY <1>2, <1>3, <1>4, <1>5 DEF Relatives, Predecessors
  <2> QED
    BY <1>3, <1>4, <2>1, <2>4, <2>5, <2>6, <2>7, <2>8 DEF Linking
<1>7. CASE ~(Len(vertex) >= 2)
  <2>1. dtStep' = "resolve" /\ cursor' = 2 /\ cursor' \in 2 .. (Len(vertex) + 1)
    BY <1>1, <1>3, <1>7 DEF StartVertex
  <2>2. Numbered \ {Entry(fn)} = {}
    <3>1. \A b \in Numbered : b = Entry(fn)
      BY <1>1, <1>4, <1>7, Numbers
    <3> QED
      BY <3>1
  <2> QED
    BY <1>3, <1>4, <1>5, <2>1, <2>2 DEF Resolving
<1> QED
  BY <1>6, <1>7

-----------------------------------------------------------------------------
(* Immediate dominators. *)

LEMMA Resolved ==
  ASSUME Resolving, dtStep = "resolve", Resolve, fn' = fn
  PROVE  Resolving'
<1>0. PICK x, d, e : x = w /\ d = idom[x] /\ e = IF d # vertex[semi[x]] THEN idom[d] ELSE d
  OBVIOUS
<1>1. /\ Complete /\ Span /\ cursor \in 2 .. Len(vertex) /\ cursor \in 1 .. Len(vertex)
      /\ Len(vertex) \in Nat
  BY Numbers DEF Resolving, Resolve, Complete
<1>2. /\ idom' = IF d # vertex[semi[x]] THEN [idom EXCEPT ![x] = e] ELSE idom
      /\ cursor' = cursor + 1
      /\ UNCHANGED <<dtStep, vertex, semi, parent, discover, finish>>
  BY <1>0 DEF Resolve
<1>3. /\ x \in Numbered /\ number(x) = cursor /\ x # Entry(fn)
      /\ \A b \in Numbered : number(b) \in Nat
  <2>1. x \in Numbered /\ number(x) = cursor
    BY <1>0, <1>1, Numbers DEF w
  <2> QED
    BY <1>1, <2>1, Numbers
<1>4. /\ DOMAIN idom = Numbered \ {Entry(fn)}
      /\ \A y \in DOMAIN idom : /\ semi[y] = Semidominator(y)
                                /\ number(y) >= cursor => IsRelative(idom[y], y)
                                /\ number(y) < cursor => IsIdom(idom[y], y)
  BY DEF Resolving
<1>5. /\ DOMAIN idom' = DOMAIN idom /\ idom'[x] = e
      /\ \A y \in DOMAIN idom : y # x => idom'[y] = idom[y]
  BY <1>0, <1>2, <1>3, <1>4
<1>6. /\ IsRelative(d, x) /\ vertex[semi[x]] = semiOf(x)
      /\ semiOf(x) \in Numbered /\ number(semiOf(x)) = Semidominator(x)
      /\ Semidominator(x) \in Nat /\ Semidominator(x) >= 1
  <2>1. IsRelative(d, x) /\ vertex[semi[x]] = semiOf(x)
    BY <1>0, <1>1, <1>3, <1>4 DEF semiOf
  <2> QED
    BY <1>1, <1>3, <2>1, SemiFacts
<1>7. IsIdom(e, x)
  <2>1. CASE d = semiOf(x)
    <3>1. ~(number(d) > Semidominator(x))
      BY <1>6, <2>1
    <3>2. \A y \in up(x) : number(y) > Semidominator(x) => Semidominator(y) >= Semidominator(x)
      BY <1>6, <3>1 DEF IsRelative
    <3>3. IsIdom(semiOf(x), x)
      BY <1>1, <1>3, <3>2, IdomIsSemi
    <3> QED
      BY <1>0, <1>6, <2>1, <3>3
  <2>2. CASE d # semiOf(x)
    <3>1. /\ d \in up(x) /\ number(d) > Semidominator(x) /\ Semidominator(d) < Semidominator(x)
          /\ \A y \in up(x) : number(y) > Semidominator(x) => Semidominator(y) >= Semidominator(d)
      BY <1>6, <2>2 DEF IsRelative
    <3>2. d \in Numbered /\ number(d) <= number(x) /\ (d # x => number(d) < number(x))
      BY <1>1, <1>3, <3>1, UpNumber
    <3>3. d # x
      BY <1>6, <3>1
    <3>4. d # Entry(fn)
      <4>1. number(d) >= 2
        BY <1>3, <1>6, <3>1, <3>2
      <4> QED
        BY <1>1, <3>2, <4>1, Numbers
    <3>5. IsIdom(idom[d], d)
      BY <1>3, <1>4, <3>2, <3>3, <3>4
    <3>6. e = idom[d]
      BY <1>0, <1>6, <2>2
    <3>7. IsIdom(e, d)
      BY <3>5, <3>6
    <3> QED
      BY <1>1, <1>3, <3>1, <3>7, IdomIsRelative
  <2> QED
    BY <2>1, <2>2
<1>8. ASSUME NEW y \in DOMAIN idom, number(y) < cursor'
      PROVE  IsIdom(idom'[y], y)
  <2>1. CASE y = x
    BY <1>5, <1>7, <2>1
  <2>2. CASE y # x
    <3>1. y \in Numbered /\ number(y) # number(x)
      BY <1>1, <1>3, <1>4, <2>2, Numbers
    <3>2. number(y) < cursor
      BY <1>1, <1>2, <1>3, <1>8, <3>1
    <3> QED
      BY <1>4, <1>5, <2>2, <3>2
  <2> QED
    BY <2>1, <2>2
<1>9. ASSUME NEW y \in DOMAIN idom, number(y) >= cursor'
      PROVE  IsRelative(idom'[y], y)
  <2>1. y \in Numbered /\ number(y) > cursor
    BY <1>1, <1>2, <1>3, <1>4, <1>9
  <2> QED
    BY <1>1, <1>3, <1>4, <1>5, <2>1
<1>10. /\ Numbered' = Numbered /\ Complete'
       /\ \A b : /\ number(b)' = number(b) /\ up(b)' = up(b)
                 /\ Semidominator(b)' = Semidominator(b)
       /\ \A a, y : IsRelative(a, y)' = IsRelative(a, y)
       /\ \A a, y : IsIdom(a, y)' = IsIdom(a, y)
  BY <1>1, <1>2, TreeKept, LinkKept DEF IsIdom
<1>11. ASSUME NEW y \in DOMAIN idom, NEW a, a = idom'[y]
       PROVE  /\ number(y)' >= cursor' => IsRelative(idom[y], y)'
              /\ number(y)' < cursor' => IsIdom(idom[y], y)'
  <2>1. number(y)' >= cursor' => IsRelative(a, y)'
    BY <1>9, <1>10, <1>11
  <2>2. number(y)' < cursor' => IsIdom(a, y)'
    BY <1>8, <1>10, <1>11
  <2> QED
    BY <1>11, <2>1, <2>2 DEF IsRelative, IsIdom
<1> QED
  BY <1>1, <1>2, <1>4, <1>5, <1>10, <1>11 DEF Resolving


-----------------------------------------------------------------------------
(* The walk over the tree. *)

\* Nothing else dominates the entry, and a dominator of a successor dominates
\* the block.
LEMMA EntryFacts ==
  ASSUME NEW G, Flow(G)
  PROVE  /\ Entry(G) \in Reachable(G) /\ Reachable(G) \subseteq BlocksOf(G)
         /\ \A x : dominates(G, x, Entry(G)) => x = Entry(G)
         /\ \A b \in Reachable(G) : \A c \in successors(G, b) :
              /\ c \in Reachable(G)
              /\ \A x : dominates(G, x, c) /\ x # c => dominates(G, x, b)
         /\ \A T : /\ Entry(G) \in T
                   /\ \A b \in T \cap Reachable(G) : \A c \in successors(G, b) : c \in T
                   => Reachable(G) \subseteq T
<1>1. IsReached(G, {}, Reachable(G))
  BY ReachedFacts DEF Reachable
<1>2. ASSUME NEW x
      PROVE  /\ dominates(G, x, Entry(G)) => x = Entry(G)
             /\ \A b \in Reachable(G) : \A c \in successors(G, b) :
                  dominates(G, x, c) /\ x # c => dominates(G, x, b)
  <2>1. IsReached(G, {x}, ReachableAvoiding(G, {x}))
    BY ReachedFacts
  <2> QED
    BY <2>1 DEF IsReached, dominates
<1> QED
  BY <1>1, <1>2 DEF IsReached

\* The clock goes on with every time that is noted.
LEMMA TimeDiscovers ==
  ASSUME Times, NEW x \in Reachable(fn), x \notin DOMAIN discover,
         discover' = Put(discover, x, time), UNCHANGED <<fn, finish>>
  PROVE  /\ Times' /\ time \in Nat
         /\ DOMAIN discover' = DOMAIN discover \cup {x} /\ discover'[x] = time
         /\ \A y \in DOMAIN discover : discover'[y] = discover[y]
<1> DEFINE D == DOMAIN discover
           F == DOMAIN finish
<1>1. IsFiniteSet(D) /\ IsFiniteSet(F) /\ Cardinality(D) \in Nat /\ Cardinality(F) \in Nat
  BY FS_Subset, FS_CardinalityType DEF Times
<1>2. /\ DOMAIN discover' = D \cup {x} /\ discover'[x] = time
      /\ \A y \in D : discover'[y] = discover[y]
  BY DEF Put
<1>3. IsFiniteSet(D \cup {x}) /\ Cardinality(D \cup {x}) = Cardinality(D) + 1
  BY <1>1, FS_AddElement
<1>4. PICK t : t = time
  OBVIOUS
<1>5. t \in Nat /\ time' = t + 1
  BY <1>1, <1>2, <1>3, <1>4 DEF time
<1>6. /\ D \subseteq Reachable(fn) /\ F \subseteq D
      /\ \A y \in D : discover[y] \in Nat /\ discover[y] < t
      /\ \A y \in F : finish[y] \in Nat /\ finish[y] < t /\ discover[y] < finish[y]
  BY <1>4 DEF Times
<1>7. \A y \in D \cup {x} : discover'[y] \in Nat /\ discover'[y] < t + 1
  BY <1>2, <1>4, <1>5, <1>6
<1>8. \A y \in F : finish[y] \in Nat /\ finish[y] < t + 1 /\ discover'[y] < finish[y]
  BY <1>2, <1>5, <1>6
<1> QED
  BY <1>2, <1>3, <1>4, <1>5, <1>6, <1>7, <1>8 DEF Times

LEMMA TimeFinishes ==
  ASSUME Times, NEW x \in DOMAIN discover \ DOMAIN finish,
         finish' = Put(finish, x, time), UNCHANGED <<fn, discover>>
  PROVE  /\ Times' /\ time \in Nat
         /\ DOMAIN finish' = DOMAIN finish \cup {x} /\ finish'[x] = time
         /\ \A y \in DOMAIN finish : finish'[y] = finish[y]
<1> DEFINE D == DOMAIN discover
           F == DOMAIN finish
<1>1. IsFiniteSet(D) /\ IsFiniteSet(F) /\ Cardinality(D) \in Nat /\ Cardinality(F) \in Nat
  BY FS_Subset, FS_CardinalityType DEF Times
<1>2. /\ DOMAIN finish' = F \cup {x} /\ finish'[x] = time
      /\ \A y \in F : finish'[y] = finish[y]
  BY DEF Put
<1>3. IsFiniteSet(F \cup {x}) /\ Cardinality(F \cup {x}) = Cardinality(F) + 1
  BY <1>1, FS_AddElement
<1>4. PICK t : t = time
  OBVIOUS
<1>5. t \in Nat /\ time' = t + 1
  BY <1>1, <1>2, <1>3, <1>4 DEF time
<1>6. /\ D \subseteq Reachable(fn) /\ F \subseteq D
      /\ \A y \in D : discover[y] \in Nat /\ discover[y] < t
      /\ \A y \in F : finish[y] \in Nat /\ finish[y] < t /\ discover[y] < finish[y]
  BY <1>4 DEF Times
<1>7. \A y \in D : discover[y] \in Nat /\ discover[y] < t + 1
  BY <1>5, <1>6
<1>8. \A y \in F \cup {x} : finish'[y] \in Nat /\ finish'[y] < t + 1 /\ discover[y] < finish'[y]
  BY <1>2, <1>4, <1>5, <1>6
<1> QED
  BY <1>1, <1>2, <1>4, <1>5, <1>6, <1>7, <1>8 DEF Times

LEMMA StackType ==
  ASSUME Walking, path # <<>>
  PROVE  /\ Len(path) \in Nat /\ Len(path) >= 1 /\ Visiting = path[1]
         /\ path \in Seq([block : Reachable(fn), left : SUBSET Reachable(fn)])
         /\ \A k \in 1 .. Len(path) :
              /\ path[k] = Frame(path[k].block, path[k].left)
              /\ path[k].block \in Reachable(fn) /\ path[k].left \subseteq Reachable(fn)
<1>1. path \in Seq([block : Reachable(fn), left : SUBSET Reachable(fn)])
  BY DEF Walking, Stack
<1> DEFINE F == [block : Reachable(fn), left : SUBSET Reachable(fn)]
<1>2. /\ \A k \in 1 .. Len(path) : path[k] \in F
      /\ Len(path) \in Nat /\ Len(path) >= 1 /\ Head(path) = path[1]
  <2> HIDE DEF F
  <2>1. path \in Seq(F)
    BY <1>1 DEF F
  <2> QED
    BY <2>1, TailFacts
<1> QED
  BY <1>1, <1>2 DEF Frame, Visiting

\* The interval of a block whose immediate dominator is on top of the stack.
LEMMA WalkVisits ==
  ASSUME Walking, path # <<>>, NEW v \in Visiting.left,
         discover' = Put(discover, v, time), Call(v, children(v)),
         UNCHANGED <<fn, idom, finish>>
  PROVE  Walking' /\ path' # <<>>
<1> DEFINE b == path[1].block
           R == Reachable(fn)
           D == DOMAIN discover
           F == [block : R, left : SUBSET R]
           n == Len(path)
<1>0. PICK t : t = time
  OBVIOUS
<1>1. /\ n \in Nat /\ n >= 1 /\ Visiting = path[1] /\ path \in Seq(F)
      /\ \A k \in 1 .. n : path[k].block \in R
      /\ path[1] = Frame(b, path[1].left)
  BY StackType
<1>2. /\ \A x \in R \ {Entry(fn)} : IsIdom(idom[x], x)
      /\ Entry(fn) \in D /\ Times /\ Intervals /\ Flow(fn)
      /\ \A k \in 1 .. n : /\ path[k].block \in D \ DOMAIN finish
                           /\ path[k].left = children(path[k].block) \ D
      /\ \A j, k \in 1 .. n : j < k =>
           /\ dominates(fn, path[k].block, path[j].block)
           /\ discover[path[k].block] < discover[path[j].block]
      /\ \A x \in D \ DOMAIN finish : \E k \in 1 .. n : path[k].block = x
      /\ \A x \in DOMAIN finish : children(x) \subseteq D
  BY DEF Walking, Stack
<1>3. v \in children(b) /\ v \notin D /\ b \in D \ DOMAIN finish
  BY <1>1, <1>2
<1>4. v \in R /\ v # Entry(fn) /\ idom[v] = b /\ IsIdom(b, v)
  BY <1>2, <1>3 DEF children
<1>5. /\ b \in R /\ b # v /\ dominates(fn, b, v)
      /\ \A x \in R : dominates(fn, x, v) /\ x # v => dominates(fn, x, b)
  BY <1>4 DEF IsIdom
<1>6. /\ Times' /\ t \in Nat /\ DOMAIN discover' = D \cup {v} /\ discover'[v] = t
      /\ \A y \in D : discover'[y] = discover[y]
  BY <1>0, <1>2, <1>3, <1>4, TimeDiscovers
<1>7. /\ \A y \in D : discover[y] \in Nat /\ discover[y] < t
      /\ \A y \in DOMAIN finish : finish[y] \in Nat /\ finish[y] < t
      /\ DOMAIN finish \subseteq D /\ D \subseteq R
  BY <1>0, <1>2 DEF Times
<1>8. \A y \in D : ~dominates(fn, v, y)
  BY <1>2, <1>3, <1>4 DEF Intervals
<1>9. dominates(fn, v, v)
  BY <1>2, DominatesReflexive
<1>10. ASSUME NEW k \in 1 .. n PROVE dominates(fn, path[k].block, v)
  <2>1. CASE k = 1
    BY <1>5, <2>1
  <2>2. CASE k # 1
    <3>1. 1 \in 1 .. n /\ 1 < k
      BY <1>1, <2>2
    <3>2. dominates(fn, path[k].block, b)
      BY <1>2, <3>1
    <3> QED
      BY <1>2, <1>5, <3>2, DominatesTransitive
  <2> QED
    BY <2>1, <2>2
<1> DEFINE a == Frame(v, children(v))
           d == Frame(b, path[1].left \ {v})
<1>11. path' = <<a, d>> \o Tail(path)
  <2>1. [Visiting EXCEPT !.left = @ \ {v}] = d
    <3> DEFINE l == path[1].left
    <3>1. Visiting = Frame(b, l)
      BY <1>1
    <3> HIDE DEF l, b
    <3>2. [Visiting EXCEPT !.left = @ \ {v}] = Frame(b, l \ {v})
      BY <3>1, VisitingLeft
    <3> QED
      BY <3>2 DEF l
  <2> QED
    BY <2>1 DEF Call
<1>12. a.block = v /\ a.left = children(v) /\ d.block = b /\ d.left = path[1].left \ {v}
  BY DEF Frame
<1>13. children(v) \subseteq R /\ children(v) \cap (D \cup {v}) = {}
  <2>1. children(v) \subseteq R
    BY DEF children
  <2>2. ASSUME NEW c \in children(v), c \in D \cup {v} PROVE FALSE
    <3>1. IsIdom(v, c)
      BY <1>2, <2>2 DEF children
    <3>2. c # v /\ dominates(fn, v, c)
      BY <3>1 DEF IsIdom
    <3> QED
      BY <1>8, <2>2, <3>2
  <2> QED
    BY <2>1, <2>2
<1>14. /\ path' \in Seq(F) /\ Len(path') = n + 1 /\ path'[1] = a /\ path'[2] = d
       /\ \A k \in 3 .. (n + 1) : path'[k] = path[k - 1]
  <2>1. a \in F /\ d \in F
    <3>1. path[1].left \subseteq R
      BY <1>1, StackType
    <3> QED
      BY <1>4, <1>5, <1>13, <3>1 DEF Frame
  <2> HIDE DEF a, d, F
  <2> QED
    BY <1>1, <1>11, <2>1, CallFacts
<1> HIDE DEF a, d
<1>15. \A k \in 2 .. (n + 1) : path'[k].block = path[k - 1].block /\ k - 1 \in 1 .. n
  <2>1. \A k \in 2 .. (n + 1) : k = 2 \/ k \in 3 .. (n + 1)
    BY <1>1
  <2> HIDE DEF b
  <2> QED
    BY <1>1, <1>12, <1>14, <2>1 DEF b
<1>16. \A x : children(x)' = children(x)
  BY DEF children
<1>17. ASSUME NEW y \in D \cup {v}, NEW x \in R, dominates(fn, x, y)
       PROVE  /\ x \in D \cup {v} /\ discover'[x] <= discover'[y]
              /\ x \in DOMAIN finish => y \in DOMAIN finish /\ finish[y] <= finish[x]
  <2>1. CASE y \in D
    <3>1. x # v
      BY <1>8, <1>17, <2>1
    <3>2. /\ x \in D /\ discover[x] <= discover[y]
          /\ x \in DOMAIN finish => y \in DOMAIN finish /\ finish[y] <= finish[x]
      BY <1>2, <1>17, <2>1 DEF Intervals
    <3> QED
      BY <1>6, <2>1, <3>2
  <2>2. CASE y = v /\ x = v
    BY <1>3, <1>6, <1>7, <2>2
  <2>3. CASE y = v /\ x # v
    <3>1. dominates(fn, x, b)
      BY <1>5, <1>17, <2>3
    <3>2. /\ x \in D /\ discover[x] <= discover[b]
          /\ x \in DOMAIN finish => b \in DOMAIN finish
      BY <1>2, <1>3, <3>1 DEF Intervals
    <3>3. x \notin DOMAIN finish /\ discover[x] < t /\ discover'[x] = discover[x]
      BY <1>3, <1>6, <1>7, <3>2
    <3>4. discover'[y] = t /\ discover[x] \in Nat
      BY <1>6, <1>7, <2>3, <3>2
    <3> QED
      BY <1>6, <3>2, <3>3, <3>4
  <2> QED
    BY <1>17, <2>1, <2>2, <2>3
<1>18. ASSUME NEW y \in D \cup {v}, NEW x \in R, ~dominates(fn, x, y), x \in D \cup {v},
              discover'[x] <= discover'[y]
       PROVE  x \in DOMAIN finish /\ finish[x] < discover'[y]
  <2>1. CASE y \in D
    <3>1. x # v
      <4>1. discover'[y] < t /\ discover'[y] \in Nat
        BY <1>6, <1>7, <2>1
      <4> QED
        BY <1>6, <1>18, <4>1
    <3>2. x \in D /\ discover[x] <= discover[y]
      BY <1>6, <1>18, <2>1, <3>1
    <3> QED
      BY <1>2, <1>6, <1>18, <2>1, <3>2 DEF Intervals
  <2>2. CASE y = v
    <3>1. x \in D
      BY <1>9, <1>18, <2>2
    <3>2. x \in DOMAIN finish
      BY <1>2, <1>10, <1>18, <2>2, <3>1
    <3> QED
      BY <1>6, <1>7, <2>2, <3>2
  <2> QED
    BY <1>18, <2>1, <2>2
<1>19. Intervals'
  BY <1>6, <1>17, <1>18 DEF Intervals
<1>20. ASSUME NEW k \in 1 .. (n + 1)
       PROVE  /\ path'[k].block \in (D \cup {v}) \ DOMAIN finish
              /\ path'[k].left = children(path'[k].block) \ (D \cup {v})
  <2>1. CASE k = 1
    <3>1. path'[k].block = v /\ path'[k].left = children(v)
      BY <1>12, <1>14, <2>1
    <3> QED
      BY <1>3, <1>7, <1>13, <3>1
  <2>2. CASE k = 2
    <3>1. path'[k].block = b /\ path'[k].left = path[1].left \ {v}
      BY <1>12, <1>14, <2>2
    <3>2. path[1].left = children(b) \ D /\ b \in D \ DOMAIN finish
      BY <1>1, <1>2
    <3> QED
      BY <3>1, <3>2
  <2>3. CASE k \in 3 .. (n + 1)
    <3>1. path'[k] = path[k - 1] /\ k - 1 \in 1 .. n /\ 1 < k - 1 /\ 1 \in 1 .. n
      BY <1>1, <1>14, <2>3
    <3>2. /\ path[k - 1].block \in D \ DOMAIN finish
          /\ path[k - 1].left = children(path[k - 1].block) \ D
          /\ discover[path[k - 1].block] < discover[b]
      BY <1>2, <3>1
    <3>3. v \notin children(path[k - 1].block)
      <4>1. path[k - 1].block # b
        BY <1>3, <1>7, <3>2
      <4> QED
        BY <1>4, <4>1 DEF children
    <3> QED
      BY <3>1, <3>2, <3>3
  <2> QED
    BY <1>1, <2>1, <2>2, <2>3
<1>21. ASSUME NEW i \in 1 .. (n + 1), NEW k \in 1 .. (n + 1), i < k
       PROVE  /\ dominates(fn, path'[k].block, path'[i].block)
              /\ discover'[path'[k].block] < discover'[path'[i].block]
  <2>1. k \in 2 .. (n + 1) /\ path'[k].block = path[k - 1].block /\ k - 1 \in 1 .. n
    BY <1>1, <1>15, <1>21
  <2>2. CASE i = 1
    <3>1. path'[i].block = v
      BY <1>12, <1>14, <2>2
    <3>2. path[k - 1].block \in D /\ dominates(fn, path[k - 1].block, v)
      BY <1>2, <1>10, <2>1
    <3> QED
      BY <1>6, <1>7, <2>1, <3>1, <3>2
  <2>3. CASE i # 1
    <3>1. i \in 2 .. (n + 1) /\ i - 1 < k - 1
      BY <1>1, <1>21, <2>3
    <3>2. path'[i].block = path[i - 1].block /\ i - 1 \in 1 .. n
      BY <1>15, <3>1
    <3>3. path[k - 1].block \in D /\ path[i - 1].block \in D
      BY <1>2, <2>1, <3>2
    <3>4. /\ dominates(fn, path[k - 1].block, path[i - 1].block)
          /\ discover[path[k - 1].block] < discover[path[i - 1].block]
      BY <1>2, <2>1, <3>1, <3>2
    <3> QED
      BY <1>6, <2>1, <3>2, <3>3, <3>4
  <2> QED
    BY <2>2, <2>3
<1>22. ASSUME NEW x \in (D \cup {v}) \ DOMAIN finish
       PROVE  \E k \in 1 .. (n + 1) : path'[k].block = x
  <2>1. CASE x = v
    BY <1>1, <1>12, <1>14, <2>1
  <2>2. CASE x # v
    <3>1. PICK k \in 1 .. n : path[k].block = x
      BY <1>2, <1>22, <2>2
    <3>2. k + 1 \in 2 .. (n + 1) /\ k + 1 \in 1 .. (n + 1) /\ (k + 1) - 1 = k
      BY <1>1
    <3>3. path'[k + 1].block = x
      BY <1>15, <3>1, <3>2
    <3> QED
      BY <3>2, <3>3
  <2> QED
    BY <2>1, <2>2
<1>23. Stack'
  <2>1. path' \in Seq([block : Reachable(fn)', left : SUBSET Reachable(fn)'])
    BY <1>14
  <2>2. \A x \in DOMAIN finish : children(x) \subseteq D \cup {v}
    BY <1>2
  <2> QED
    BY <1>6, <1>14, <1>16, <1>20, <1>21, <1>22, <2>1, <2>2 DEF Stack
<1>24. path' # <<>>
  BY <1>1, <1>14
<1>25. \A x \in Reachable(fn)' \ {Entry(fn)'} : IsIdom(idom[x], x)'
  BY <1>2 DEF IsIdom
<1> QED
  BY <1>2, <1>6, <1>19, <1>23, <1>24, <1>25 DEF Walking


\* The interval of the block on top of the stack is closed.
LEMMA WalkLeaves ==
  ASSUME Walking, path # <<>>, Visiting.left = {},
         finish' = Put(finish, Visiting.block, time), path' = Tail(path),
         UNCHANGED <<fn, idom, discover>>
  PROVE  Walking'
<1> DEFINE b == path[1].block
           R == Reachable(fn)
           D == DOMAIN discover
           F == [block : R, left : SUBSET R]
           n == Len(path)
<1>0. PICK t : t = time
  OBVIOUS
<1>1. /\ n \in Nat /\ n >= 1 /\ Visiting = path[1] /\ path \in Seq(F)
      /\ \A k \in 1 .. n : path[k].block \in R
  BY StackType
<1>2. /\ \A x \in R \ {Entry(fn)} : IsIdom(idom[x], x)
      /\ Entry(fn) \in D /\ Times /\ Intervals /\ Flow(fn)
      /\ \A k \in 1 .. n : /\ path[k].block \in D \ DOMAIN finish
                           /\ path[k].left = children(path[k].block) \ D
      /\ \A j, k \in 1 .. n : j < k =>
           /\ dominates(fn, path[k].block, path[j].block)
           /\ discover[path[k].block] < discover[path[j].block]
      /\ \A x \in D \ DOMAIN finish : \E k \in 1 .. n : path[k].block = x
      /\ \A x \in DOMAIN finish : children(x) \subseteq D
  BY DEF Walking, Stack
<1>3. b \in D \ DOMAIN finish /\ children(b) \subseteq D /\ b \in R
  BY <1>1, <1>2
<1>4. /\ Times' /\ t \in Nat /\ DOMAIN finish' = DOMAIN finish \cup {b} /\ finish'[b] = t
      /\ \A y \in DOMAIN finish : finish'[y] = finish[y]
  BY <1>0, <1>1, <1>2, <1>3, TimeFinishes
<1>5. /\ \A y \in D : discover[y] \in Nat /\ discover[y] < t
      /\ \A y \in DOMAIN finish : finish[y] \in Nat /\ finish[y] < t
      /\ DOMAIN finish \subseteq D /\ D \subseteq R
  BY <1>0, <1>2 DEF Times
<1>6. ASSUME NEW y \in D, dominates(fn, b, y), y # b
      PROVE  y \in DOMAIN finish
  <2>1. SUFFICES ASSUME y \notin DOMAIN finish PROVE FALSE
    OBVIOUS
  <2>2. PICK k \in 1 .. n : path[k].block = y
    BY <1>2, <2>1
  <2>3. 1 \in 1 .. n /\ 1 < k
    BY <1>1, <1>6, <2>2
  <2>4. discover[y] < discover[b]
    BY <1>2, <2>2, <2>3
  <2>5. discover[b] <= discover[y]
    BY <1>2, <1>3, <1>6 DEF Intervals
  <2> QED
    BY <1>3, <1>5, <2>4, <2>5
<1>7. ASSUME NEW y \in D, NEW x \in R, dominates(fn, x, y)
      PROVE  /\ x \in D /\ discover[x] <= discover[y]
             /\ x \in DOMAIN finish' => y \in DOMAIN finish' /\ finish'[y] <= finish'[x]
  <2>1. /\ x \in D /\ discover[x] <= discover[y]
        /\ x \in DOMAIN finish => y \in DOMAIN finish /\ finish[y] <= finish[x]
    BY <1>2, <1>7 DEF Intervals
  <2>2. CASE x \in DOMAIN finish
    BY <1>4, <2>1, <2>2
  <2>3. CASE x = b
    <3>1. CASE y = b
      BY <1>4, <2>1, <2>3, <3>1
    <3>2. CASE y # b
      <4>1. y \in DOMAIN finish
        BY <1>6, <1>7, <2>3, <3>2
      <4> QED
        BY <1>4, <1>5, <2>1, <2>3, <4>1
    <3> QED
      BY <3>1, <3>2
  <2>4. CASE x \notin DOMAIN finish'
    BY <2>1, <2>4
  <2> QED
    BY <1>4, <2>2, <2>3, <2>4
<1>8. ASSUME NEW y \in D, NEW x \in R, ~dominates(fn, x, y), x \in D, discover[x] <= discover[y]
      PROVE  x \in DOMAIN finish' /\ finish'[x] < discover[y]
  BY <1>2, <1>4, <1>8 DEF Intervals
<1>9. Intervals'
  BY <1>7, <1>8 DEF Intervals
<1>10. /\ path' \in Seq(F) /\ Len(path') = n - 1
       /\ \A k \in 1 .. (n - 1) : path'[k] = path[k + 1]
  <2> HIDE DEF F
  <2> QED
    BY <1>1, TailFacts
<1>11. \A x : children(x)' = children(x)
  BY DEF children
<1>12. ASSUME NEW k \in 1 .. (n - 1)
       PROVE  /\ path'[k].block \in D \ DOMAIN finish'
              /\ path'[k].left = children(path'[k].block) \ D
  <2>1. k + 1 \in 1 .. n /\ path'[k] = path[k + 1] /\ 1 \in 1 .. n /\ 1 < k + 1
    BY <1>1, <1>10
  <2>2. /\ path[k + 1].block \in D \ DOMAIN finish
        /\ path[k + 1].left = children(path[k + 1].block) \ D
        /\ discover[path[k + 1].block] < discover[b]
    BY <1>2, <2>1
  <2>3. path[k + 1].block # b
    BY <1>3, <1>5, <2>2
  <2> QED
    BY <1>4, <2>1, <2>2, <2>3
<1>13. ASSUME NEW i \in 1 .. (n - 1), NEW k \in 1 .. (n - 1), i < k
       PROVE  /\ dominates(fn, path'[k].block, path'[i].block)
              /\ discover[path'[k].block] < discover[path'[i].block]
  <2>1. /\ i + 1 \in 1 .. n /\ path'[i] = path[i + 1]
        /\ k + 1 \in 1 .. n /\ path'[k] = path[k + 1] /\ i + 1 < k + 1
    BY <1>1, <1>10, <1>13
  <2> QED
    BY <1>2, <2>1
<1>14. ASSUME NEW x \in D \ DOMAIN finish'
       PROVE  \E k \in 1 .. (n - 1) : path'[k].block = x
  <2>1. x \in D \ DOMAIN finish /\ x # b
    BY <1>4, <1>14
  <2>2. PICK k \in 1 .. n : path[k].block = x
    BY <1>2, <2>1
  <2>3. k - 1 \in 1 .. (n - 1) /\ (k - 1) + 1 = k
    BY <1>1, <2>1, <2>2
  <2> QED
    BY <1>10, <2>2, <2>3
<1>15. Stack'
  <2>1. path' \in Seq([block : Reachable(fn)', left : SUBSET Reachable(fn)'])
    BY <1>10
  <2>2. \A x \in DOMAIN finish' : children(x) \subseteq D
    BY <1>2, <1>3, <1>4
  <2> HIDE DEF F
  <2> QED
    BY <1>10, <1>11, <1>12, <1>13, <1>14, <2>1, <2>2 DEF Stack
<1>16. \A x \in Reachable(fn)' \ {Entry(fn)'} : IsIdom(idom[x], x)'
  BY <1>2 DEF IsIdom
<1> QED
  BY <1>2, <1>4, <1>9, <1>15, <1>16 DEF Walking

\* When no interval is open, the intervals mean dominance.
LEMMA WalkEnds ==
  ASSUME Walking, path = <<>>
  PROVE  /\ Reachable(fn) \subseteq DOMAIN discover
         /\ \A u, v \in Reachable(fn) : treeDominates(u, v) <=> dominates(fn, u, v)
<1> DEFINE R == Reachable(fn)
           D == DOMAIN discover
<1>1. /\ \A x \in R \ {Entry(fn)} : IsIdom(idom[x], x)
      /\ Entry(fn) \in D /\ Times /\ Intervals /\ Flow(fn)
      /\ \A x \in DOMAIN finish : children(x) \subseteq D
      /\ D \subseteq DOMAIN finish
  BY DEF Walking, Stack
<1>2. /\ \A b \in R : \A c \in successors(fn, b) :
           c \in R /\ \A x : dominates(fn, x, c) /\ x # c => dominates(fn, x, b)
      /\ \A T : Entry(fn) \in T /\ (\A b \in T \cap R : \A c \in successors(fn, b) : c \in T)
                => R \subseteq T
  BY <1>1, EntryFacts
<1>3. ASSUME NEW b \in D \cap R, NEW c \in successors(fn, b)
      PROVE  c \in D
  <2>1. CASE c = Entry(fn)
    BY <1>1, <2>1
  <2>2. CASE c # Entry(fn)
    <3>1. c \in R /\ IsIdom(idom[c], c)
      BY <1>1, <1>2, <1>3, <2>2
    <3>2. idom[c] \in R /\ dominates(fn, idom[c], b)
      BY <1>2, <1>3, <3>1 DEF IsIdom
    <3>3. idom[c] \in D
      BY <1>1, <1>3, <3>2 DEF Intervals
    <3>4. c \in children(idom[c])
      BY <2>2, <3>1 DEF children
    <3> QED
      BY <1>1, <3>3, <3>4
  <2> QED
    BY <2>1, <2>2
<1>4. R \subseteq D
  BY <1>1, <1>2, <1>3
<1>5. ASSUME NEW u \in R, NEW v \in R
      PROVE  treeDominates(u, v) <=> dominates(fn, u, v)
  <2>1. u \in D /\ v \in D /\ u \in DOMAIN finish /\ v \in DOMAIN finish
    BY <1>1, <1>4
  <2>2. /\ discover[u] \in Nat /\ discover[v] \in Nat /\ finish[u] \in Nat /\ finish[v] \in Nat
        /\ discover[v] < finish[v]
    BY <1>1, <2>1 DEF Times
  <2>3. CASE dominates(fn, u, v)
    BY <1>1, <2>1, <2>2, <2>3 DEF Intervals, treeDominates
  <2>4. CASE ~dominates(fn, u, v)
    <3>1. discover[u] <= discover[v] => finish[u] < discover[v]
      BY <1>1, <2>1, <2>4 DEF Intervals
    <3> QED
      BY <2>2, <2>4, <3>1 DEF treeDominates
  <2> QED
    BY <2>3, <2>4
<1> QED
  BY <1>4, <1>5

\* The walk starts with the interval of the entry.
LEMMA WalkStarts ==
  ASSUME Resolving, cursor > Len(vertex), discover' = Put(discover, Entry(fn), time),
         path' = <<Frame(Entry(fn), children(Entry(fn)))>>, UNCHANGED <<fn, idom, finish>>
  PROVE  Walking' /\ path' # <<>>
<1> DEFINE e == Entry(fn)
           R == Reachable(fn)
           a == Frame(e, children(e))
<1>0. PICK t : t = time
  OBVIOUS
<1>1. /\ Complete /\ Span /\ Flow(fn) /\ Numbered = R /\ DOMAIN discover = {} /\ DOMAIN finish = {}
      /\ cursor \in Nat /\ Len(vertex) \in Nat /\ \A b \in R : number(b) \in 1 .. Len(vertex)
  BY Numbers DEF Resolving, Complete, Span
<1>2. \A x \in R \ {e} : IsIdom(idom[x], x)
  BY <1>1 DEF Resolving
<1>3. e \in R /\ \A x : dominates(fn, x, e) => x = e
  BY <1>1, EntryFacts
<1>4. Times
  <2>1. IsFiniteSet({})
    BY FS_EmptySet
  <2> QED
    BY <1>1, <2>1 DEF Times
<1>5. Times' /\ t \in Nat /\ DOMAIN discover' = {e} /\ discover'[e] = t
  BY <1>0, <1>1, <1>3, <1>4, TimeDiscovers
<1>6. dominates(fn, e, e)
  BY <1>1, DominatesReflexive
<1>7. Intervals'
  BY <1>1, <1>3, <1>5, <1>6 DEF Intervals
<1>8. children(e) \subseteq R \ {e} /\ \A x : children(x)' = children(x)
  BY DEF children
<1>9. a.block = e /\ a.left = children(e) /\ a \in [block : R, left : SUBSET R]
  BY <1>3, <1>8 DEF Frame
<1> HIDE DEF a
<1>10. /\ path' = <<a>> /\ Len(path') = 1 /\ path'[1] = a /\ path' # <<>>
       /\ path' \in Seq([block : R, left : SUBSET R])
  BY <1>9 DEF a
<1>11. Stack'
  <2>1. path' \in Seq([block : Reachable(fn)', left : SUBSET Reachable(fn)'])
    BY <1>10
  <2>2. \A k \in 1 .. 1 : k = 1
    OBVIOUS
  <2>3. \A k \in 1 .. 1 : /\ path'[k].block \in {e} \ DOMAIN finish
                          /\ path'[k].left = children(path'[k].block) \ {e}
    BY <1>1, <1>8, <1>9, <1>10, <2>2
  <2>4. \A j, k \in 1 .. 1 : ~(j < k)
    BY <2>2
  <2>5. \A x \in {e} \ DOMAIN finish : \E k \in 1 .. 1 : path'[k].block = x
    BY <1>9, <1>10
  <2> QED
    BY <1>1, <1>5, <1>8, <1>10, <2>1, <2>3, <2>4, <2>5 DEF Stack
<1>12. \A x \in Reachable(fn)' \ {Entry(fn)'} : IsIdom(idom[x], x)'
  BY <1>2 DEF IsIdom
<1> QED
  BY <1>1, <1>5, <1>7, <1>10, <1>11, <1>12 DEF Walking


-----------------------------------------------------------------------------
(* The analysis, step by step. *)

LEMMA LinkingIdle ==
  ASSUME UNCHANGED <<fn, dtStep, vertex, parent, semi, label, ancestor, idom, pred, bucket,
                     cursor, todo, discover, finish>>
  PROVE  Linking' = Linking
<1>1. /\ Numbered' = Numbered /\ Complete' = Complete /\ w' = w
      /\ \A b : /\ number(b)' = number(b) /\ up(b)' = up(b)
                /\ Semidominator(b)' = Semidominator(b) /\ semiOf(b)' = semiOf(b)
  BY TreeKept DEF w
<1>2. Predecessors' = Predecessors /\ Forest' = Forest
  BY <1>1 DEF Predecessors, Forest, IsLink, Numbered, number, up, Semidominator, sources
<1>3. Semis' = Semis /\ SemiSoFar' = SemiSoFar /\ Buckets' = Buckets
  BY <1>1 DEF Semis, SemiSoFar, Buckets, Counts, semiOf, w, Numbered, number, up,
              Semidominator, sources
<1>4. Relatives' = Relatives
  BY <1>1 DEF Relatives, IsRelative, Waits, semiOf, number, up, Semidominator, sources
<1> QED
  BY <1>1, <1>2, <1>3, <1>4 DEF Linking, w

LEMMA AnalysisIdle ==
  ASSUME UNCHANGED <<fn, dtVars>>
  PROVE  DTInv' = DTInv
<1>1. Linking' = Linking
  BY LinkingIdle DEF dtVars
<1>2. Searching' = Searching
  BY DEF dtVars, Searching, Span, Numbered, number, up, Frames, Collected, Pending
<1>3. Resolving' = Resolving
  BY DEF dtVars, Resolving, Complete, Span, Numbered, number, up, IsRelative, IsIdom,
         Semidominator, sources, semiOf
<1>4. Walking' = Walking
  BY DEF dtVars, Walking, Times, Intervals, Stack, IsIdom, children, time
<1> QED
  BY <1>1, <1>2, <1>3, <1>4 DEF DTInv, dtVars

\* The search for blocks.
LEMMA SearchStep ==
  ASSUME DTInv, fn' = fn, NumberEntry \/ VisitSuccessor \/ LeaveNumbered
  PROVE  DTInv'
<1>1. /\ dtStep = "number" /\ Searching /\ Flow(fn) /\ DOMAIN discover = {} /\ DOMAIN finish = {}
      /\ compressing = <<>>
  BY DEF DTInv, NumberEntry, VisitSuccessor, LeaveNumbered
<1>2. discover' = discover /\ finish' = finish /\ compressing' = compressing
  BY DEF NumberEntry, VisitSuccessor, LeaveNumbered
<1>3. CASE NumberEntry
  <2>1. Searching' /\ dtStep' = "number"
    BY <1>1, <1>3, SearchStarts DEF NumberEntry
  <2> QED
    BY <1>1, <1>2, <2>1 DEF DTInv
<1>4. CASE VisitSuccessor
  <2>1. PICK x \in Visiting.left :
          \/ /\ x \notin DOMAIN semi
             /\ parent' = Put(parent, x, Visiting.block)
             /\ Number(x)
             /\ Call(x, successors(fn, x))
             /\ UNCHANGED pred
          \/ /\ x \in DOMAIN semi
             /\ pred' = [pred EXCEPT ![x] = Append(@, Visiting.block)]
             /\ Skip(x)
             /\ UNCHANGED <<parent, vertex, semi, label>>
    BY <1>4 DEF VisitSuccessor
  <2>2. path # <<>> /\ UNCHANGED <<dtStep, ancestor, idom, bucket>>
    BY <1>4 DEF VisitSuccessor
  <2>3. Searching'
    BY <1>1, <2>1, <2>2, SearchFinds, SearchSees
  <2> QED
    BY <1>1, <1>2, <2>2, <2>3 DEF DTInv
<1>5. CASE LeaveNumbered
  <2>1. CASE Len(path) > 1
    <3>1. /\ path # <<>> /\ Visiting.left = {} /\ path' = Tail(path) /\ dtStep' = dtStep
          /\ pred' = [pred EXCEPT ![Visiting.block] = Append(@, path[2].block)]
          /\ UNCHANGED <<vertex, parent, semi, label, ancestor, idom, bucket>>
      BY <1>5, <2>1 DEF LeaveNumbered
    <3>2. Searching'
      BY <1>1, <2>1, <3>1, SearchReturns
    <3> QED
      BY <1>1, <1>2, <3>1, <3>2 DEF DTInv
  <2>2. CASE ~(Len(path) > 1)
    <3>1. path # <<>> /\ Len(path) <= 1
      BY <1>1, <1>5, <2>2, FramesType DEF LeaveNumbered
    <3>2. \/ dtStep' = "semi" /\ Linking'
          \/ dtStep' = "resolve" /\ Resolving'
      BY <1>1, <1>5, <3>1, LinkingStarts
    <3>3. path' = <<>>
      <4> DEFINE F == [block : Numbered, left : SUBSET BlocksOf(fn)]
      <4>0. path \in Seq(F) /\ Len(path) \in Nat /\ Len(path) >= 1
        BY <1>1, <3>1, FramesType
      <4>1. Len(path) = 1
        <5>1. \A n \in Nat : n >= 1 /\ n <= 1 => n = 1
          OBVIOUS
        <5> HIDE DEF F
        <5> QED
          BY <3>1, <4>0, <5>1
      <4>2. path' = Tail(path)
        BY <1>5 DEF LeaveNumbered
      <4> HIDE DEF F
      <4>3. path' \in Seq(F) /\ Len(path') = 0
        BY <3>1, <4>0, <4>1, <4>2, TailFacts
      <4> QED
        BY <4>3
    <3> QED
      BY <1>1, <1>2, <3>2, <3>3 DEF DTInv
  <2> QED
    BY <2>1, <2>2
<1> QED
  BY <1>3, <1>4, <1>5

\* The loops.
LEMMA LinkStep ==
  ASSUME DTInv, fn' = fn,
         \/ EvalCompress \/ CompressAncestor \/ CompressVertex
         \/ EvalPredecessor \/ LinkVertex \/ EvalBucket \/ NextVertex
  PROVE  DTInv'
<1>1. dtStep \in {"semi", "bucket"} /\ Linking /\ Flow(fn) /\ path = <<>> /\ path' = <<>>
  BY DEF DTInv, EvalCompress, CompressAncestor, CompressVertex, EvalPredecessor, LinkVertex,
         EvalBucket, NextVertex
<1>2. CASE EvalCompress \/ CompressAncestor
  <2>1. /\ UNCHANGED <<fn, dtStep, vertex, parent, semi, label, ancestor, idom, pred, bucket,
                       cursor, todo, discover, finish>>
        /\ todo # <<>>
    BY <1>2 DEF DTInv, EvalCompress, CompressAncestor
  <2>2. Linking'
    BY <1>1, <2>1, LinkingIdle
  <2> QED
    BY <1>1, <2>1, <2>2 DEF DTInv
<1>3. CASE CompressVertex
  <2>1. dtStep' = dtStep /\ todo' = todo /\ todo # <<>>
    BY <1>3 DEF DTInv, CompressVertex
  <2>2. Linking'
    BY <1>1, <1>3, LinkingCompressed
  <2> QED
    BY <1>1, <2>1, <2>2 DEF DTInv
<1>4. CASE EvalPredecessor
  <2>1. dtStep' = dtStep /\ compressing' = <<>>
    BY <1>4 DEF EvalPredecessor
  <2>2. Linking'
    BY <1>1, <1>4, LinkingEvaluated
  <2> QED
    BY <1>1, <2>1, <2>2 DEF DTInv
<1>5. CASE LinkVertex
  <2>1. dtStep' = "bucket" /\ compressing' = <<>>
    BY <1>5 DEF LinkVertex, DTInv
  <2>2. Linking'
    BY <1>1, <1>5, LinkingLinked
  <2> QED
    BY <1>1, <2>1, <2>2 DEF DTInv
<1>6. CASE EvalBucket
  <2>1. dtStep' = dtStep /\ compressing' = <<>>
    BY <1>6 DEF EvalBucket
  <2>2. Linking'
    BY <1>1, <1>6, LinkingRelated
  <2> QED
    BY <1>1, <2>1, <2>2 DEF DTInv
<1>7. CASE NextVertex
  <2>1. compressing' = <<>>
    BY <1>7 DEF NextVertex, DTInv
  <2>2. \/ dtStep' = "semi" /\ Linking'
        \/ dtStep' = "resolve" /\ Resolving'
    BY <1>1, <1>7, LinkingNext
  <2> QED
    BY <1>1, <2>1, <2>2 DEF DTInv
<1> QED
  BY <1>2, <1>3, <1>4, <1>5, <1>6, <1>7

\* The tree.
LEMMA TreeStep ==
  ASSUME DTInv, fn' = fn, Resolve \/ DiscoverEntry \/ VisitChild \/ LeaveChild
  PROVE  DTInv'
<1>1. dtStep \in {"resolve", "tree"} /\ Flow(fn) /\ compressing = <<>> /\ compressing' = <<>>
  BY DEF DTInv, Resolve, DiscoverEntry, VisitChild, LeaveChild
<1>2. CASE Resolve
  <2>1. dtStep = "resolve" /\ Resolving /\ dtStep' = "resolve" /\ path' = <<>>
    BY <1>2 DEF DTInv, Resolve
  <2>2. Resolving'
    BY <1>2, <2>1, Resolved
  <2> QED
    BY <1>1, <2>1, <2>2 DEF DTInv
<1>3. CASE DiscoverEntry
  <2>1. Resolving /\ dtStep' = "tree"
    BY <1>3 DEF DTInv, DiscoverEntry
  <2>2. Walking' /\ path' # <<>>
    BY <1>3, <2>1, WalkStarts DEF DiscoverEntry
  <2> QED
    BY <1>1, <2>1, <2>2 DEF DTInv
<1>4. CASE VisitChild
  <2>1. Walking /\ path # <<>> /\ dtStep' = "tree"
    BY <1>4 DEF DTInv, VisitChild
  <2>2. PICK v \in Visiting.left : discover' = Put(discover, v, time) /\ Call(v, children(v))
    BY <1>4 DEF VisitChild
  <2>3. Walking' /\ path' # <<>>
    BY <1>4, <2>1, <2>2, WalkVisits DEF VisitChild
  <2> QED
    BY <1>1, <2>1, <2>3 DEF DTInv
<1>5. CASE LeaveChild
  <2>1. /\ Walking /\ path # <<>> /\ path' = Tail(path)
        /\ dtStep' = IF Len(path) = 1 THEN "done" ELSE "tree"
    BY <1>5 DEF DTInv, LeaveChild
  <2>2. Walking'
    BY <1>5, <2>1, WalkLeaves DEF LeaveChild
  <2>3. path' = <<>> <=> Len(path) = 1
    <3> DEFINE F == [block : Reachable(fn), left : SUBSET Reachable(fn)]
    <3>1. path \in Seq(F)
      BY <2>1, StackType
    <3> HIDE DEF F
    <3>2. path' \in Seq(F) /\ Len(path') = Len(path) - 1 /\ Len(path) \in Nat
      BY <2>1, <3>1, TailFacts
    <3>3. path' = <<>> <=> Len(path') = 0
      BY <3>2
    <3> QED
      BY <3>2, <3>3
  <2> QED
    BY <1>1, <2>1, <2>2, <2>3 DEF DTInv
<1> QED
  BY <1>2, <1>3, <1>4, <1>5

LEMMA AnalysisStep ==
  ASSUME DTInv, fn' = fn, DTNext
  PROVE  DTInv'
<1>1. CASE NumberEntry \/ VisitSuccessor \/ LeaveNumbered
  BY <1>1, SearchStep
<1>2. CASE \/ EvalCompress \/ CompressAncestor \/ CompressVertex
           \/ EvalPredecessor \/ LinkVertex \/ EvalBucket \/ NextVertex
  BY <1>2, LinkStep
<1>3. CASE Resolve \/ DiscoverEntry \/ VisitChild \/ LeaveChild
  BY <1>3, TreeStep
<1> QED
  BY <1>1, <1>2, <1>3 DEF DTNext

LEMMA AnalysisStarts ==
  ASSUME Flow(fn), DTInit
  PROVE  DTInv
<1>1. /\ DOMAIN vertex = {} /\ Range(vertex) = {} /\ vertex \in Seq(BlocksOf(fn))
      /\ Len(vertex) = 0
      /\ DOMAIN semi = {} /\ DOMAIN label = {} /\ DOMAIN parent = {} /\ DOMAIN ancestor = {}
      /\ DOMAIN idom = {} /\ DOMAIN discover = {} /\ DOMAIN finish = {}
  BY DEF DTInit, Range
<1>2. Span
  BY <1>1 DEF Span, IsInjective, DTInit
<1>3. Frames
  BY DEF Frames, DTInit
<1>4. Searching
  BY <1>1, <1>2, <1>3 DEF Searching, Numbered, DTInit
<1> QED
  BY <1>1, <1>4 DEF DTInv, DTInit

\* When the walk has ended, its intervals mean dominance.
LEMMA InvDominance ==
  ASSUME DTInv
  PROVE  TreeMeansDominance
BY WalkEnds DEF DTInv, TreeMeansDominance

\* What the labels have found, for the blocks that are linked.
LEMMA InvSemidominators ==
  ASSUME DTInv
  PROVE  SemidominatorsFound
<1> SUFFICES ASSUME dtStep \in {"semi", "bucket", "resolve"}, NEW n \in 2 .. Len(vertex),
                    dtStep = "semi" => n > cursor, dtStep = "bucket" => n >= cursor
             PROVE  semi[vertex[n]] = Semidominator(vertex[n])
  BY DEF SemidominatorsFound
<1>1. Complete /\ cursor \in Nat
  BY DEF DTInv, Linking, Resolving
<1>2. vertex[n] \in Numbered /\ number(vertex[n]) = n /\ vertex[n] # Entry(fn)
  <2>1. Len(vertex) \in Nat
    BY <1>1, Numbers DEF Complete
  <2>2. vertex[n] \in Numbered /\ number(vertex[n]) = n
    BY <1>1, <2>1, Numbers DEF Complete
  <2> QED
    BY <1>1, <2>2, Numbers DEF Complete
<1>3. CASE dtStep = "resolve"
  BY <1>2, <1>3 DEF DTInv, Resolving
<1>4. CASE dtStep \in {"semi", "bucket"}
  <2>1. Linking /\ n \in Nat
    BY <1>4 DEF DTInv
  <2>2. vertex[n] \in DOMAIN ancestor
    BY <1>1, <1>2, <1>4, <2>1 DEF Linking, Forest
  <2> QED
    BY <2>1, <2>2 DEF Linking, Semis
<1> QED
  BY <1>3, <1>4


-----------------------------------------------------------------------------
(* Rewriting a function without touching its control flow. *)

\* A block: instructions, of which the last, and no other, is a terminator.
IsCode(s) ==
  /\ s \in Seq(Range(s)) /\ s # <<>>
  /\ \A k \in DOMAIN s : /\ {"op", "dests"} \subseteq DOMAIN s[k]
                         /\ s[k].op \in Terminators <=> k = Len(s)

Shape(G) ==
  /\ G = [layout |-> G.layout, code |-> G.code]
  /\ Flow(G)
  /\ \A b \in BlocksOf(G) : IsCode(G.code[b])

SameFlow(G, H) ==
  /\ H.layout = G.layout /\ BlocksOf(H) = BlocksOf(G)
  /\ \A b \in BlocksOf(G) : H.code[b] # <<>> /\ successors(H, b) = successors(G, b)

LEMMA FlowKept ==
  ASSUME NEW G, NEW H, Flow(G), SameFlow(G, H)
  PROVE  /\ Flow(H) /\ Entry(H) = Entry(G) /\ Reachable(H) = Reachable(G)
         /\ \A b, c : dominates(H, b, c) <=> dominates(G, b, c)
<1>1. Entry(H) = Entry(G)
  BY DEF Entry, SameFlow
<1>2. Flow(H)
  BY <1>1 DEF Flow, SameFlow
<1>3. ASSUME NEW A PROVE ReachableAvoiding(H, A) = ReachableAvoiding(G, A)
  <2>1. [b \in BlocksOf(H) |-> successors(H, b) \ A] = [b \in BlocksOf(G) |-> successors(G, b) \ A]
    BY DEF SameFlow
  <2>2. Len(H.layout) = Len(G.layout)
    BY DEF SameFlow
  <2> QED
    BY <1>1, <2>1, <2>2 DEF ReachableAvoiding
<1> QED
  BY <1>1, <1>2, <1>3 DEF Reachable, dominates

LEMMA CodeFacts ==
  ASSUME NEW s, IsCode(s)
  PROVE  /\ Len(s) \in Nat /\ Len(s) >= 1 /\ DOMAIN s = 1 .. Len(s)
         /\ Last(s) = s[Len(s)] /\ s[Len(s)].op \in Terminators
         /\ \A k \in DOMAIN s : s[k] \in Range(s)
<1> DEFINE R == Range(s)
<1>1. s \in Seq(R) /\ s # <<>>
  BY DEF IsCode
<1> HIDE DEF R
<1>2. Len(s) \in Nat /\ DOMAIN s = 1 .. Len(s) /\ Len(s) # 0
  BY <1>1
<1>3. Len(s) >= 1 /\ Len(s) \in DOMAIN s
  BY <1>2
<1> QED
  BY <1>2, <1>3 DEF IsCode, Last, Range

\* An instruction is put before the others.
LEMMA CodePrefixed ==
  ASSUME NEW s, IsCode(s), NEW I, {"op", "dests"} \subseteq DOMAIN I, I.op \notin Terminators
  PROVE  IsCode(<<I>> \o s) /\ Last(<<I>> \o s) = Last(s)
<1> DEFINE n == Len(s)
           R == Range(s) \cup {I}
<1>1. /\ n \in Nat /\ n >= 1 /\ DOMAIN s = 1 .. n /\ Last(s) = s[n]
      /\ \A k \in DOMAIN s : s[k] \in Range(s)
  BY CodeFacts
<1>2. s \in Seq(R) /\ <<I>> \in Seq(R) /\ Len(<<I>>) = 1
  <2>1. s \in Seq(Range(s)) /\ Range(s) \subseteq R
    BY DEF IsCode
  <2> HIDE DEF R
  <2> QED
    <3>1. I \in R
      BY DEF R
    <3> QED
      BY <1>1, <2>1, <3>1
<1>0. PICK t : t = <<I>> \o s
  OBVIOUS
<1>3. /\ t \in Seq(R) /\ Len(t) = n + 1 /\ t[1] = I
      /\ \A k \in 2 .. (n + 1) : t[k] = s[k - 1]
  <2> HIDE DEF R, n
  <2>1. t \in Seq(R) /\ Len(t) = n + 1 /\ t[1] = I
    BY <1>0, <1>1, <1>2 DEF n
  <2>2. ASSUME NEW k \in 2 .. (n + 1) PROVE t[k] = s[k - 1]
    BY <1>0, <1>1, <1>2 DEF n
  <2> QED
    BY <2>1, <2>2
<1>4. DOMAIN t = 1 .. (n + 1) /\ t # <<>>
  <2> HIDE DEF R, n
  <2> QED
    BY <1>1, <1>3
<1>5. t \in Seq(Range(t))
  <2> DEFINE Q == Range(t)
  <2>1. \A k \in 1 .. (n + 1) : t[k] \in Q
    BY <1>4 DEF Range
  <2> HIDE DEF n, R, Q
  <2> PICK m : m = n + 1
    OBVIOUS
  <2>2. m \in Nat /\ t = [k \in 1 .. m |-> t[k]]
    BY <1>1, <1>3
  <2>3. t \in [1 .. m -> Q]
    BY <2>1, <2>2
  <2>4. t \in Seq(Q)
    BY <2>2, <2>3
  <2> QED
    BY <2>4 DEF Q
<1>6. ASSUME NEW k \in 1 .. (n + 1)
      PROVE  /\ {"op", "dests"} \subseteq DOMAIN t[k]
             /\ t[k].op \in Terminators <=> k = n + 1
  <2>1. CASE k = 1
    BY <1>1, <1>3, <2>1
  <2>2. CASE k # 1
    <3>1. k \in 2 .. (n + 1) /\ k - 1 \in DOMAIN s /\ (k - 1 = n <=> k = n + 1)
      BY <1>1, <2>2
    <3>2. t[k] = s[k - 1]
      BY <1>3, <3>1
    <3> QED
      BY <3>1, <3>2 DEF IsCode
  <2> QED
    BY <2>1, <2>2
<1>7. Last(t) = s[n]
  <2>1. n + 1 \in 2 .. (n + 1) /\ (n + 1) - 1 = n
    BY <1>1
  <2> QED
    BY <1>3, <2>1 DEF Last
<1> QED
  BY <1>0, <1>1, <1>3, <1>4, <1>5, <1>6, <1>7 DEF IsCode

\* The instructions are rewritten, each by itself.
LEMMA CodeRewritten ==
  ASSUME NEW s, IsCode(s), NEW t, t = [k \in DOMAIN s |-> t[k]],
         \A k \in DOMAIN s : {"op", "dests"} \subseteq DOMAIN t[k] /\ t[k].op = s[k].op,
         t[Len(s)].dests = s[Len(s)].dests
  PROVE  IsCode(t) /\ Last(t).dests = Last(s).dests
<1>1. /\ Len(s) \in Nat /\ Len(s) >= 1 /\ DOMAIN s = 1 .. Len(s) /\ Last(s) = s[Len(s)]
  BY CodeFacts
<1> PICK n : n = Len(s)
  OBVIOUS
<1>2. n \in Nat /\ n >= 1 /\ DOMAIN s = 1 .. n /\ DOMAIN t = 1 .. n
  BY <1>1
<1>3. t \in Seq(Range(t)) /\ Len(t) = n
  <2>1. \A k \in 1 .. n : t[k] \in Range(t)
    BY <1>2 DEF Range
  <2> DEFINE R == Range(t)
  <2> HIDE DEF R
  <2>2. \A k \in 1 .. n : t[k] \in R
    BY <2>1 DEF R
  <2>3. t \in [1 .. n -> R]
    BY <1>2, <2>2
  <2>4. t \in Seq(R)
    BY <1>2, <2>3
  <2>5. Len(t) = n
    BY <1>2, <2>4
  <2> QED
    BY <2>4, <2>5 DEF R
<1>4. t # <<>>
  BY <1>2, <1>3
<1> QED
  BY <1>1, <1>2, <1>3, <1>4 DEF IsCode, Last

\* What is kept of a sequence.
LEMMA KeptDef ==
  ASSUME NEW s, NEW S, NEW n \in Nat, n = Len(s)
  PROVE  \E r : /\ Kept(s, S) = r[n]
                /\ r[0] = <<>>
                /\ \A k \in 1 .. n : r[k] = IF s[k] \in S THEN Append(r[k - 1], s[k])
                                                       ELSE r[k - 1]
<1> DEFINE More(t, k) == IF s[k] \in S THEN Append(t, s[k]) ELSE t
           Upto(g, m) == g = [k \in 0 .. m |-> IF k = 0 THEN <<>> ELSE More(g[k - 1], k)]
           T == {m \in Nat : \E g : Upto(g, m)}
<1>1. 0 \in T
  <2> DEFINE g == [k \in 0 .. 0 |-> <<>>]
  <2>1. Upto(g, 0)
    OBVIOUS
  <2> QED
    BY <2>1
<1>2. \A m \in Nat : m \in T => m + 1 \in T
  <2> SUFFICES ASSUME NEW m \in Nat, m \in T PROVE m + 1 \in T
    OBVIOUS
  <2>1. PICK g : Upto(g, m)
    OBVIOUS
  <2> HIDE DEF More
  <2> DEFINE h == [k \in 0 .. (m + 1) |-> IF k <= m THEN g[k] ELSE More(g[m], m + 1)]
  <2>2. ASSUME NEW k \in 0 .. (m + 1)
        PROVE  h[k] = IF k = 0 THEN <<>> ELSE More(h[k - 1], k)
    <3>1. CASE k = 0
      BY <2>1, <3>1
    <3>2. CASE k \in 1 .. m
      BY <2>1, <3>2
    <3>3. CASE k = m + 1
      BY <3>3
    <3> QED
      BY <3>1, <3>2, <3>3
  <2>3. Upto(h, m + 1)
    BY <2>2, Zenon
  <2>4. m + 1 \in Nat
    OBVIOUS
  <2> HIDE DEF h, Upto
  <2> QED
    BY <2>3, <2>4
<1>3. n \in T
  <2> HIDE DEF T
  <2> QED
    BY <1>1, <1>2, NatInd
<1> DEFINE kept == CHOOSE g : Upto(g, n)
<1>4. Upto(kept, n)
  BY <1>3
<1>5. Kept(s, S) = kept[n]
  BY DEF Kept
<1>6. kept[0] = <<>> /\ \A k \in 1 .. n : kept[k] = More(kept[k - 1], k)
  <2> HIDE DEF kept, More
  <2> QED
    BY <1>4
<1> HIDE DEF kept
<1> QED
  BY <1>5, <1>6

LEMMA AppendFacts ==
  ASSUME NEW B, NEW s \in Seq(B), NEW x \in B
  PROVE  /\ Append(s, x) \in Seq(B) /\ Append(s, x) # <<>> /\ Last(Append(s, x)) = x
         /\ Range(Append(s, x)) = Range(s) \cup {x}
         /\ IsInjective(s) /\ x \notin Range(s) => IsInjective(Append(s, x))
<1>1. Len(s) \in Nat /\ DOMAIN s = 1 .. Len(s)
  OBVIOUS
<1> PICK t, n : t = Append(s, x) /\ n = Len(s)
  OBVIOUS
<1>2. /\ t \in Seq(B) /\ DOMAIN t = 1 .. (n + 1) /\ Len(t) = n + 1 /\ t[n + 1] = x
      /\ \A k \in 1 .. n : t[k] = s[k]
  OBVIOUS
<1>3. t # <<>> /\ Last(t) = x
  BY <1>1, <1>2 DEF Last
<1>4. ASSUME IsInjective(s), x \notin Range(s), NEW i \in 1 .. (n + 1), NEW j \in 1 .. (n + 1),
             t[i] = t[j]
      PROVE  i = j
  <2>1. \A k \in 1 .. (n + 1) : k \in 1 .. n \/ k = n + 1
    BY <1>1
  <2>2. \A k \in 1 .. n : s[k] # x
    BY <1>1, <1>4 DEF Range
  <2>3. CASE i = n + 1 \/ j = n + 1
    BY <1>2, <1>4, <2>1, <2>2, <2>3
  <2>4. CASE i \in 1 .. n /\ j \in 1 .. n
    BY <1>1, <1>2, <1>4, <2>4 DEF IsInjective
  <2> QED
    BY <2>1, <2>3, <2>4
<1>5. IsInjective(s) /\ x \notin Range(s) => IsInjective(t)
  BY <1>2, <1>4 DEF IsInjective
<1>6. Range(t) = Range(s) \cup {x}
  BY RangeAppended
<1> QED
  BY <1>2, <1>3, <1>5, <1>6

LEMMA KeptFacts ==
  ASSUME NEW B, NEW s \in Seq(B), NEW S
  PROVE  /\ Kept(s, S) \in Seq(B) /\ Range(Kept(s, S)) = Range(s) \cap S
         /\ IsInjective(s) => IsInjective(Kept(s, S))
         /\ s # <<>> /\ s[Len(s)] \in S =>
              Kept(s, S) # <<>> /\ Last(Kept(s, S)) = s[Len(s)]
<1> PICK n : n = Len(s)
  OBVIOUS
<1>1. n = Len(s) /\ n \in Nat /\ DOMAIN s = 1 .. n /\ \A k \in 1 .. n : s[k] \in B
  OBVIOUS
<1>2. PICK r : /\ Kept(s, S) = r[n]
               /\ r[0] = <<>>
               /\ \A k \in 1 .. n : r[k] = IF s[k] \in S THEN Append(r[k - 1], s[k])
                                                      ELSE r[k - 1]
  BY <1>1, KeptDef
<1> DEFINE upto(k) == {s[j] : j \in 1 .. k} \cap S
           P(k) == /\ r[k] \in Seq(B) /\ Range(r[k]) = upto(k)
                   /\ IsInjective(s) => IsInjective(r[k])
           T == {k \in Nat : k <= n => P(k)}
<1>3. 0 \in T
  <2>1. r[0] \in Seq(B) /\ Range(r[0]) = {} /\ IsInjective(r[0])
    BY <1>2 DEF Range, IsInjective
  <2>2. upto(0) = {}
    OBVIOUS
  <2> QED
    BY <2>1, <2>2
<1>4. ASSUME NEW k \in Nat, k \in T PROVE k + 1 \in T
  <2>1. SUFFICES ASSUME k + 1 <= n PROVE P(k + 1)
    OBVIOUS
  <2>2. P(k) /\ k + 1 \in 1 .. n /\ (k + 1) - 1 = k
    BY <1>1, <1>4, <2>1
  <2>3. r[k + 1] = IF s[k + 1] \in S THEN Append(r[k], s[k + 1]) ELSE r[k]
    BY <1>2, <2>2
  <2>4. upto(k + 1) = IF s[k + 1] \in S THEN upto(k) \cup {s[k + 1]} ELSE upto(k)
    <3>1. 1 .. (k + 1) = 1 .. k \cup {k + 1}
      BY <1>4
    <3> QED
      BY <3>1
  <2>5. IsInjective(s) => s[k + 1] \notin upto(k)
    <3>1. \A j \in 1 .. k : j \in 1 .. n /\ j # k + 1
      BY <1>1, <1>4, <2>1
    <3> QED
      BY <1>1, <2>2, <3>1 DEF IsInjective
  <2>6. r[k] \in Seq(B) /\ Range(r[k]) = upto(k) /\ (IsInjective(s) => IsInjective(r[k]))
    BY <2>2
  <2>7. s[k + 1] \in B
    BY <1>1, <2>2
  <2> HIDE DEF upto
  <2>8. CASE s[k + 1] \in S
    <3>1. r[k + 1] = Append(r[k], s[k + 1]) /\ upto(k + 1) = upto(k) \cup {s[k + 1]}
      BY <2>3, <2>4, <2>8
    <3>2. /\ Append(r[k], s[k + 1]) \in Seq(B)
          /\ Range(Append(r[k], s[k + 1])) = Range(r[k]) \cup {s[k + 1]}
          /\ IsInjective(r[k]) /\ s[k + 1] \notin Range(r[k]) =>
               IsInjective(Append(r[k], s[k + 1]))
      BY <2>6, <2>7, AppendFacts
    <3> QED
      BY <2>5, <2>6, <3>1, <3>2
  <2>9. CASE s[k + 1] \notin S
    BY <2>3, <2>4, <2>6, <2>9
  <2> QED
    BY <2>8, <2>9
<1>5. \A k \in 0 .. n : P(k)
  <2> HIDE DEF P
  <2>1. Nat \subseteq T
    <3> HIDE DEF T
    <3> QED
      BY <1>3, <1>4, NatInd
  <2> QED
    BY <2>1
<1>6. P(n) /\ upto(n) = Range(s) \cap S
  <2>1. {s[j] : j \in 1 .. n} = Range(s)
    BY <1>1 DEF Range
  <2>2. n \in 0 .. n
    BY <1>1
  <2> QED
    BY <1>5, <2>1, <2>2
<1>7. ASSUME s # <<>>, s[n] \in S PROVE Kept(s, S) # <<>> /\ Last(Kept(s, S)) = s[n]
  <2>1. n \in 1 .. n /\ n - 1 \in 0 .. n
    BY <1>1, <1>7
  <2>2. r[n] = Append(r[n - 1], s[n]) /\ r[n - 1] \in Seq(B) /\ s[n] \in B
    BY <1>1, <1>2, <1>5, <1>7, <2>1
  <2> QED
    BY <1>2, <2>2, AppendFacts
<1> QED
  BY <1>2, <1>6, <1>7


\* Where what is kept was.
LEMMA KeptPositions ==
  ASSUME NEW B, NEW s \in Seq(B), NEW S
  PROVE  /\ Len(Kept(s, S)) \in Nat /\ DOMAIN Kept(s, S) = 1 .. Len(Kept(s, S))
         /\ \E pos \in [1 .. Len(Kept(s, S)) -> 1 .. Len(s)] :
              /\ \A m \in 1 .. Len(Kept(s, S)) : Kept(s, S)[m] = s[pos[m]] /\ s[pos[m]] \in S
              /\ \A m, p \in 1 .. Len(Kept(s, S)) : m < p => pos[m] < pos[p]
              /\ \A i \in 1 .. Len(s) : s[i] \in S =>
                   \E m \in 1 .. Len(Kept(s, S)) : pos[m] = i
<1>0. PICK n : n = Len(s)
  OBVIOUS
<1>1. n = Len(s) /\ n \in Nat /\ DOMAIN s = 1 .. n /\ \A k \in 1 .. n : s[k] \in B
  BY <1>0
<1>2. PICK r : /\ Kept(s, S) = r[n]
               /\ r[0] = <<>>
               /\ \A k \in 1 .. n : r[k] = IF s[k] \in S THEN Append(r[k - 1], s[k])
                                                      ELSE r[k - 1]
  <2>1. n = Len(s) /\ n \in Nat
    BY <1>1
  <2> QED
    BY <2>1, KeptDef, SMTT(30)
<1> DEFINE Good(t, k, pos) ==
             /\ pos \in [1 .. Len(t) -> 1 .. k]
             /\ \A m \in 1 .. Len(t) : t[m] = s[pos[m]] /\ s[pos[m]] \in S
             /\ \A m, p \in 1 .. Len(t) : m < p => pos[m] < pos[p]
             /\ \A i \in 1 .. k : s[i] \in S => \E m \in 1 .. Len(t) : pos[m] = i
           P(k) == r[k] \in Seq(B) /\ \E pos : Good(r[k], k, pos)
           T == {k \in Nat : k <= n => P(k)}
<1>3. 0 \in T
  <2>1. r[0] \in Seq(B) /\ Len(r[0]) = 0
    BY <1>2
  <2> DEFINE pos == [m \in 1 .. 0 |-> 1]
  <2>2. 1 .. 0 = {}
    OBVIOUS
  <2>3. 1 .. Len(r[0]) = {} /\ pos \in [1 .. Len(r[0]) -> 1 .. 0]
    BY <2>1, <2>2
  <2>4. Good(r[0], 0, pos)
    BY <2>2, <2>3
  <2> QED
    BY <2>1, <2>4
<1>4. ASSUME NEW k \in Nat, k \in T PROVE k + 1 \in T
  <2>1. SUFFICES ASSUME k + 1 <= n PROVE P(k + 1)
    OBVIOUS
  <2>a. k <= n /\ k + 1 \in 1 .. n /\ (k + 1) - 1 = k
    BY <1>1, <1>4, <2>1
  <2>2. P(k) /\ k + 1 \in 1 .. n /\ (k + 1) - 1 = k
    <3> HIDE DEF P
    <3> QED
      BY <1>4, <2>a
  <2>3. PICK t, u, pos : t = r[k] /\ u = r[k + 1] /\ Good(t, k, pos)
    BY <2>2
  <2>4. u = IF s[k + 1] \in S THEN Append(t, s[k + 1]) ELSE t
    BY <1>2, <2>2, <2>3
  <2>5. t \in Seq(B) /\ s[k + 1] \in B /\ Len(t) \in Nat
    BY <1>1, <2>2, <2>3
  <2>6. /\ pos \in [1 .. Len(t) -> 1 .. k]
        /\ \A m \in 1 .. Len(t) : t[m] = s[pos[m]] /\ s[pos[m]] \in S
        /\ \A m, p \in 1 .. Len(t) : m < p => pos[m] < pos[p]
        /\ \A i \in 1 .. k : s[i] \in S => \E m \in 1 .. Len(t) : pos[m] = i
    BY <2>3
  <2>7. \A i \in 1 .. (k + 1) : i \in 1 .. k \/ i = k + 1
    BY <1>4
  <2> HIDE DEF T
  <2>8. CASE s[k + 1] \in S
    <3> DEFINE l == Len(t)
               q == [m \in 1 .. (l + 1) |-> IF m <= l THEN pos[m] ELSE k + 1]
    <3>1. /\ u \in Seq(B) /\ Len(u) = l + 1 /\ u[l + 1] = s[k + 1]
          /\ \A m \in 1 .. l : u[m] = t[m]
      BY <2>4, <2>5, <2>8
    <3>2. \A m \in 1 .. (l + 1) : m \in 1 .. l \/ m = l + 1
      BY <2>5
    <3>3. /\ \A m \in 1 .. l : m \in 1 .. (l + 1) /\ m <= l
          /\ l + 1 \in 1 .. (l + 1) /\ ~(l + 1 <= l)
      BY <2>5
    <3>4. (\A m \in 1 .. l : q[m] = pos[m]) /\ q[l + 1] = k + 1
      BY <3>3
    <3>5. \A i \in 1 .. k : i \in 1 .. (k + 1) /\ i < k + 1
      BY <1>4
    <3>6. q \in [1 .. (l + 1) -> 1 .. (k + 1)]
      <4>1. \A m \in 1 .. (l + 1) : q[m] \in 1 .. (k + 1)
        BY <2>2, <2>6, <3>2, <3>4, <3>5
      <4> QED
        BY <4>1
    <3> HIDE DEF q, l
    <3>7. \A m \in 1 .. (l + 1) : u[m] = s[q[m]] /\ s[q[m]] \in S
      BY <2>6, <2>8, <3>1, <3>2, <3>4 DEF l
    <3>8. ASSUME NEW m \in 1 .. (l + 1), NEW p \in 1 .. (l + 1), m < p PROVE q[m] < q[p]
      <4>1. m \in 1 .. l
        BY <2>5, <3>2, <3>8 DEF l
      <4>2. CASE p \in 1 .. l
        BY <2>6, <3>4, <3>8, <4>1, <4>2 DEF l
      <4>3. CASE p = l + 1
        BY <2>6, <3>4, <3>5, <4>1, <4>3 DEF l
      <4> QED
        BY <3>2, <4>2, <4>3
    <3>9. ASSUME NEW i \in 1 .. (k + 1), s[i] \in S PROVE \E m \in 1 .. (l + 1) : q[m] = i
      BY <2>6, <2>7, <3>3, <3>4, <3>9 DEF l
    <3>10. Good(u, k + 1, q)
      BY <3>1, <3>6, <3>7, <3>8, <3>9
    <3> HIDE DEF Good
    <3> QED
      BY <2>3, <3>1, <3>10
  <2>9. CASE s[k + 1] \notin S
    <3>1. u = t
      BY <2>4, <2>9
    <3>2. \A i \in 1 .. k : i \in 1 .. (k + 1)
      BY <1>4
    <3>3. pos \in [1 .. Len(t) -> 1 .. (k + 1)]
      BY <2>6, <3>2
    <3>4. \A i \in 1 .. (k + 1) : s[i] \in S => \E m \in 1 .. Len(t) : pos[m] = i
      BY <2>6, <2>7, <2>9
    <3>5. Good(t, k + 1, pos)
      BY <2>6, <3>3, <3>4
    <3> HIDE DEF Good
    <3> QED
      BY <2>3, <2>5, <3>1, <3>5
  <2> QED
    BY <2>8, <2>9
<1>5. P(n)
  <2> HIDE DEF P
  <2>1. Nat \subseteq T
    <3> HIDE DEF T
    <3> QED
      BY <1>3, <1>4, NatInd
  <2> QED
    BY <1>1, <2>1
<1>6. PICK t, pos : t = Kept(s, S) /\ t \in Seq(B) /\ Good(t, n, pos)
  BY <1>2, <1>5
<1>7. Len(t) \in Nat /\ DOMAIN t = 1 .. Len(t)
  BY <1>6
<1> QED
  BY <1>1, <1>6, <1>7

LEMMA KeptFirst ==
  ASSUME NEW B, NEW s \in Seq(B), NEW S, s # <<>>, s[1] \in S
  PROVE  Kept(s, S)[1] = s[1]
<1>0. PICK t : t = Kept(s, S)
  OBVIOUS
<1>1. Len(s) \in Nat /\ Len(s) >= 1 /\ Len(t) \in Nat
  BY <1>0, KeptPositions
<1>2. PICK pos \in [1 .. Len(t) -> 1 .. Len(s)] :
        /\ \A m \in 1 .. Len(t) : t[m] = s[pos[m]] /\ s[pos[m]] \in S
        /\ \A m, p \in 1 .. Len(t) : m < p => pos[m] < pos[p]
        /\ \A i \in 1 .. Len(s) : s[i] \in S => \E m \in 1 .. Len(t) : pos[m] = i
  BY <1>0, KeptPositions
<1>3. 1 \in 1 .. Len(s)
  BY <1>1
<1>4. PICK m \in 1 .. Len(t) : pos[m] = 1
  BY <1>2, <1>3
<1>5. m = 1
  <2>1. SUFFICES ASSUME m # 1 PROVE FALSE
    OBVIOUS
  <2>2. 1 \in 1 .. Len(t) /\ 1 < m
    BY <1>1, <2>1
  <2>3. pos[1] < 1 /\ pos[1] \in 1 .. Len(s)
    BY <1>2, <1>4, <2>2
  <2> QED
    BY <1>1, <2>3
<1> QED
  BY <1>0, <1>2, <1>4, <1>5

\* The code of a function is replaced, control flow stays.
LEMMA CodeReplaced ==
  ASSUME NEW G, Shape(G), NEW H, NEW X, H = [G EXCEPT !.code = X], DOMAIN X = BlocksOf(G),
         \A b \in BlocksOf(G) : X[b] # <<>> /\ Last(X[b]).dests = Last(G.code[b]).dests
  PROVE  /\ SameFlow(G, H) /\ H.code = X /\ H.layout = G.layout
         /\ (\A b \in BlocksOf(G) : IsCode(X[b])) => Shape(H)
<1>1. G = [layout |-> G.layout, code |-> G.code] /\ Flow(G)
  BY DEF Shape
<1>2. H = [layout |-> G.layout, code |-> X]
  BY <1>1
<1>3. H.layout = G.layout /\ H.code = X /\ H = [layout |-> H.layout, code |-> H.code]
  BY <1>2
<1>4. SameFlow(G, H)
  BY <1>3 DEF SameFlow, BlocksOf, successors, Terminator
<1>5. Flow(H)
  BY <1>1, <1>4, FlowKept
<1> QED
  BY <1>3, <1>4, <1>5 DEF Shape, BlocksOf

LEMMA FunctionShape ==
  ASSUME NEW G, IsFunction(G), BlocksWellFormed(G)
  PROVE  Shape(G) /\ IsInjective(G.layout) /\ Range(G.layout) = BlocksOf(G)
         /\ G.layout \in Seq(BlocksOf(G))
<1> DEFINE B == BlocksOf(G)
           F == [op : Ops, id : STRING, args : Seq(STRING), dests : Seq(B)]
<1>1. /\ G = [layout |-> G.layout, code |-> G.code]
      /\ G.layout \in Seq(B) /\ G.layout # <<>>
      /\ IsInjective(G.layout) /\ Range(G.layout) = B
      /\ \A b \in B : G.code[b] \in Seq(F)
  BY DEF IsFunction
<1>2. IsFiniteSet(B) /\ Cardinality(B) <= Len(G.layout) /\ Len(G.layout) \in Nat
  BY <1>1, RangeFacts
<1>3. Entry(G) \in B
  <2> HIDE DEF B
  <2> QED
    BY <1>1 DEF Entry
<1>4. ASSUME NEW b \in B
      PROVE  IsCode(G.code[b]) /\ successors(G, b) \subseteq B
  <2>1. PICK s : s = G.code[b]
    OBVIOUS
  <2>2. s \in Seq(F) /\ s # <<>> /\ \A k \in DOMAIN s : s[k].op \in Terminators <=> k = Len(s)
    BY <1>1, <2>1 DEF BlocksWellFormed
  <2>3. /\ Len(s) \in Nat /\ DOMAIN s = 1 .. Len(s) /\ Len(s) \in DOMAIN s
        /\ \A k \in DOMAIN s : s[k] \in F
    <3> HIDE DEF F
    <3>1. Len(s) \in Nat /\ DOMAIN s = 1 .. Len(s) /\ Len(s) # 0 /\ \A k \in DOMAIN s : s[k] \in F
      BY <2>2
    <3> QED
      BY <3>1
  <2>4. s \in Seq(Range(s))
    <3> DEFINE Q == Range(s)
    <3>1. \A k \in DOMAIN s : s[k] \in Q
      BY DEF Range
    <3> HIDE DEF Q, F
    <3> QED
      BY <2>2, <2>3, <3>1 DEF Q
  <2>5. \A k \in DOMAIN s : {"op", "dests"} \subseteq DOMAIN s[k] /\ s[k].dests \in Seq(B)
    <3> HIDE DEF B
    <3> QED
      BY <2>3
  <2>6. \A d \in Seq(B) : Range(d) \subseteq B
    <3> HIDE DEF B
    <3> QED
      BY DEF Range
  <2> HIDE DEF F, B
  <2> QED
    BY <2>1, <2>2, <2>3, <2>4, <2>5, <2>6 DEF IsCode, successors, Terminator, Last
<1> QED
  BY <1>1, <1>2, <1>3, <1>4 DEF Shape, Flow, IsCode


\* What is left of a function has the blocks that were reached, as they were but
\* for their phis.
LEMMA UnreachableGone ==
  ASSUME NEW G, IsFunction(G), BlocksWellFormed(G), NEW H, H = WithoutUnreachable(G)
  PROVE  /\ Shape(H) /\ BlocksOf(H) = Reachable(G)
         /\ H.layout \in Seq(BlocksOf(H)) /\ IsInjective(H.layout) /\ Range(H.layout) = BlocksOf(H)
         /\ Entry(H) = Entry(G)
         /\ \A b \in Reachable(G) : successors(H, b) = successors(G, b)
         /\ \A b \in Reachable(G) : H.code[b] =
              [k \in DOMAIN G.code[b] |->
                 IF IsPhi(G.code[b][k]) THEN RestrictIncoming(G.code[b][k], Reachable(G))
                                        ELSE G.code[b][k]]
<1> DEFINE B == BlocksOf(G)
           R == Reachable(G)
           X == [c \in B |-> [k \in DOMAIN G.code[c] |->
                  IF IsPhi(G.code[c][k]) THEN RestrictIncoming(G.code[c][k], R)
                                         ELSE G.code[c][k]]]
           K == [G EXCEPT !.code = X]
<1>1. /\ Shape(G) /\ Flow(G) /\ IsInjective(G.layout) /\ Range(G.layout) = B
      /\ G.layout \in Seq(B) /\ R \subseteq B /\ Entry(G) \in R
      /\ \A b \in R : successors(G, b) \subseteq R
  BY FunctionShape, EntryFacts DEF Shape
<1>2. ASSUME NEW c \in B
      PROVE  IsCode(X[c]) /\ Last(X[c]).dests = Last(G.code[c]).dests
  <2>1. PICK s, t : s = G.code[c] /\ t = X[c]
    OBVIOUS
  <2>2. /\ IsCode(s) /\ Len(s) \in DOMAIN s
        /\ s[Len(s)].op \in Terminators
    BY <1>1, <2>1, CodeFacts DEF Shape
  <2>3. t = [k \in DOMAIN s |-> IF IsPhi(s[k]) THEN RestrictIncoming(s[k], R) ELSE s[k]]
    BY <2>1
  <2>4. t = [k \in DOMAIN s |-> t[k]]
    BY <2>3
  <2>5. ASSUME NEW I, {"op", "dests"} \subseteq DOMAIN I
        PROVE  {"op", "dests"} \subseteq DOMAIN RestrictIncoming(I, R) /\ RestrictIncoming(I, R).op = I.op
    BY <2>5 DEF RestrictIncoming
  <2>6. \A k \in DOMAIN s : {"op", "dests"} \subseteq DOMAIN t[k] /\ t[k].op = s[k].op
    BY <2>2, <2>3, <2>5 DEF IsCode
  <2>7. t[Len(s)].dests = s[Len(s)].dests
    BY <2>2, <2>3 DEF IsPhi, Terminators
  <2> HIDE DEF X, B, R
  <2> QED
    BY <2>1, <2>2, <2>4, <2>6, <2>7, CodeRewritten
<1>2a. \A b \in R : X[b] = [k \in DOMAIN G.code[b] |->
                               IF IsPhi(G.code[b][k]) THEN RestrictIncoming(G.code[b][k], R)
                                                      ELSE G.code[b][k]]
  BY <1>1
<1>3. /\ SameFlow(G, K) /\ K.code = X /\ K.layout = G.layout /\ Shape(K)
      /\ BlocksOf(K) = B
  <2>1. \A b \in B : X[b] # <<>>
    BY <1>2 DEF IsCode
  <2>2. DOMAIN X = B
    OBVIOUS
  <2>3. PICK L : L = K
    OBVIOUS
  <2> HIDE DEF X
  <2>4. SameFlow(G, L) /\ L.code = X /\ L.layout = G.layout /\ Shape(L)
    BY <1>1, <1>2, <2>1, <2>2, <2>3, CodeReplaced
  <2> QED
    BY <2>3, <2>4 DEF SameFlow
<1> HIDE DEF X
<1>4. K = [layout |-> G.layout, code |-> X]
  <2> HIDE DEF K
  <2> QED
    BY <1>3 DEF Shape
<1>5. H = RemoveBlocks(K, B \ R)
  BY DEF WithoutUnreachable, X
<1> HIDE DEF K
<1>6. H = [layout |-> Kept(G.layout, B \ (B \ R)), code |-> [c \in B \ (B \ R) |-> X[c]]]
  BY <1>3, <1>4, <1>5 DEF RemoveBlocks
<1>7. B \ (B \ R) = R
  BY <1>1
<1>8. H = [layout |-> Kept(G.layout, R), code |-> [c \in R |-> X[c]]]
  <2> HIDE DEF B, R
  <2> QED
    BY <1>6, <1>7
<1>9. /\ H = [layout |-> H.layout, code |-> H.code] /\ H.layout = Kept(G.layout, R)
      /\ BlocksOf(H) = R /\ \A b \in R : H.code[b] = X[b]
  BY <1>8 DEF BlocksOf
<1> HIDE DEF B, R
<1>10. /\ H.layout \in Seq(B) /\ IsInjective(H.layout) /\ Range(H.layout) = R
  <2>1. Range(G.layout) \cap R = R
    BY <1>1
  <2>2. PICK s : s = G.layout
    OBVIOUS
  <2>3. s \in Seq(B) /\ IsInjective(s) /\ Range(s) = B
    BY <1>1, <2>2
  <2>4. Kept(s, R) \in Seq(B) /\ IsInjective(Kept(s, R)) /\ Range(Kept(s, R)) = Range(s) \cap R
    BY <2>3, KeptFacts
  <2> QED
    BY <1>9, <2>1, <2>2, <2>4
<1>11. H.layout \in Seq(R) /\ H.layout # <<>>
  <2>1. DOMAIN H.layout = 1 .. Len(H.layout) /\ Len(H.layout) \in Nat
    BY <1>10
  <2>2. \A k \in DOMAIN H.layout : H.layout[k] \in R
    BY <1>10 DEF Range
  <2>3. H.layout # <<>>
    BY <1>1, <1>10 DEF Range
  <2> QED
    BY <1>10, <2>1, <2>2, <2>3
<1>12. IsFiniteSet(R) /\ Cardinality(R) <= Len(H.layout) /\ Len(H.layout) \in Nat
  BY <1>10, <1>11, RangeFacts
<1>13. Entry(H) \in R /\ Entry(H) = Entry(G)
  <2>1. PICK s : s = G.layout
    OBVIOUS
  <2>2. s \in Seq(B) /\ Entry(G) = s[1] /\ s # <<>>
    BY <1>1, <2>1 DEF Entry, Shape, Flow, Range
  <2>3. Kept(s, R)[1] = s[1]
    BY <1>1, <2>2, KeptFirst
  <2> QED
    BY <1>1, <1>9, <2>1, <2>2, <2>3 DEF Entry
<1>14. \A b \in R : IsCode(H.code[b]) /\ successors(H, b) = successors(G, b)
  BY <1>1, <1>2, <1>9 DEF successors, Terminator
<1>15. \A b \in R : H.code[b] = [k \in DOMAIN G.code[b] |->
                                  IF IsPhi(G.code[b][k]) THEN RestrictIncoming(G.code[b][k], R)
                                                         ELSE G.code[b][k]]
  <2> TAKE b \in R
  <2>1. H.code[b] = X[b]
    BY <1>9
  <2> QED
    BY <1>2a, <2>1
<1>16. Shape(H)
  BY <1>1, <1>9, <1>10, <1>11, <1>12, <1>13, <1>14 DEF Shape, Flow, IsCode
<1> QED
  BY <1>9, <1>10, <1>11, <1>13, <1>14, <1>15, <1>16 DEF R


-----------------------------------------------------------------------------
(* The invariant of the pass. *)

\* An instruction has the operands of its class.
IsInstruction(I, B) ==
  /\ I = [op |-> I.op, id |-> I.id, args |-> I.args, dests |-> I.dests]
  /\ I.op \in Ops /\ I.dests \in Seq(B) /\ I.args \in Seq(Range(I.args))
  /\ IsPhi(I) => Len(I.args) = Len(I.dests)
  /\ I.op = "load" => Len(I.args) = 1
  /\ I.op = "store" => Len(I.args) = 2

\* What defines val has been executed before instruction n of block b.
Available(G, val, b, n) ==
  \A c \in BlocksOf(G) : \A i \in DOMAIN G.code[c] :
    G.code[c][i].id = val => IF c = b THEN i < n ELSE dominates(G, c, b)

\* ... at the end of b.
AtEnd(G, val, b) ==
  \A c \in BlocksOf(G) : \A i \in DOMAIN G.code[c] :
    G.code[c][i].id = val => dominates(G, c, b)

Fits(G, b, k) ==
  /\ IsInstruction(G.code[b][k], BlocksOf(G))
  /\ ~IsPhi(G.code[b][k]) => \A val \in Range(G.code[b][k].args) : Available(G, val, b, k)
  /\ IsPhi(G.code[b][k]) =>
       \A j \in DOMAIN G.code[b][k].dests :
         AtEnd(G, G.code[b][k].args[j], G.code[b][k].dests[j])

\* Well formed but for the blocks the phis have values from.
Sound(G) ==
  /\ Shape(G) /\ BlocksOf(G) = Reachable(G)
  /\ IsInjective(G.layout) /\ Range(G.layout) = BlocksOf(G)
  /\ predecessors(G, Entry(G)) = {} /\ AllocasInEntry(G)
  /\ \A b \in BlocksOf(G) : \A k \in DOMAIN G.code[b] : Fits(G, b, k)

\* Phis have one value from each predecessor; those of placed, not from S.
PhisLack(G, placed, S) ==
  \A b \in BlocksOf(G) : \A k \in DOMAIN G.code[b] : IsPhi(G.code[b][k]) =>
    /\ IsInjective(G.code[b][k].dests)
    /\ Range(G.code[b][k].dests) =
         IF G.code[b][k].id \in placed THEN predecessors(G, b) \ S ELSE predecessors(G, b)

\* The phis are new, and each is in one place.
Unplaced == IF stage = "dominators" THEN vars ELSE left

Named ==
  /\ \A v \in vars, b \in BlocksOf(fn) :
       /\ PhiId(v, b) # Poison
       /\ \A u \in vars, c \in BlocksOf(fn) : PhiId(u, c) = PhiId(v, b) => u = v /\ c = b
  /\ \A id \in DOMAIN phis : \E v \in vars \ Unplaced, b \in BlocksOf(fn) : id = PhiId(v, b)
  /\ \A b \in BlocksOf(fn) : \A k \in DOMAIN fn.code[b] :
       /\ fn.code[b][k].id # Poison
       /\ \A v \in Unplaced, c \in BlocksOf(fn) :
            PhiId(v, c) # fn.code[b][k].id /\ PhiId(v, c) \notin Range(fn.code[b][k].args)
       /\ fn.code[b][k].id \in DOMAIN phis =>
            \A c \in BlocksOf(fn) : \A j \in DOMAIN fn.code[c] :
              fn.code[c][j].id = fn.code[b][k].id => c = b /\ j = k

IsCallRecord(c) ==
  c = [block |-> c.block, next |-> c.next, defs |-> c.defs, left |-> c.left]

\* A call of Rename::dfs: what it takes for the values of the variables is available.
IsCall(c) ==
  /\ IsCallRecord(c)
  /\ c.block \in BlocksOf(fn) /\ c.next \in Nat \ {0} /\ c.left \subseteq children(c.block)
  /\ DOMAIN c.defs = vars
  /\ \A v \in vars : Available(fn, c.defs[v], c.block, c.next)

\* Calls but the innermost are past the end of their blocks, and the children
\* they have left have not been called.
Calls ==
  /\ calls \in Seq(Range(calls))
  /\ \A k \in 1 .. Len(calls) : IsCall(calls[k])
  /\ \A k \in 2 .. Len(calls) : calls[k].next > Len(fn.code[calls[k].block]) + 1
  /\ calls # <<>> /\ calls[1].next <= Len(fn.code[calls[1].block]) + 1 =>
       calls[1].left = children(calls[1].block)
  /\ \A j, k \in 1 .. Len(calls) : j # k => calls[j].block # calls[k].block
  /\ \A j, k \in 1 .. Len(calls) : \A c \in calls[k].left :
       ~dominates(fn, c, calls[j].block)

\* The blocks whose successors have not got their values.
Unended ==
  {x \in BlocksOf(fn) :
     \/ \E k \in 1 .. Len(calls) : \E c \in calls[k].left : dominates(fn, c, x)
     \/ /\ calls # <<>> /\ x = calls[1].block
        /\ calls[1].next <= Len(fn.code[calls[1].block]) + 1}

Awaited == CASE stage = "rename" -> Unended
             [] stage = "done" -> {}
             [] OTHER -> BlocksOf(fn)

PassTypes ==
  /\ stage \in {"start", "dominators", "phis", "rename", "done"}
  /\ stage \in {"phis", "rename"} => dtStep = "done"
  /\ stage = "done" => dtStep \in {"number", "done"}
  /\ left \subseteq vars /\ \A id \in DOMAIN phis : phis[id] \in vars
  /\ \A b \in DOMAIN DF : DF[b] \subseteq BlocksOf(fn)
  /\ stage = "phis" => DF \in [BlocksOf(fn) -> SUBSET BlocksOf(fn)]
  /\ stage # "rename" => calls = <<>>

MRInv ==
  /\ PassTypes /\ DTInv
  /\ stage = "start" => fn \in Funcs /\ DTInit
  /\ stage \in {"start", "dominators"} => DOMAIN phis = {} /\ DOMAIN DF = {} /\ left = {}
  /\ stage # "start" => Sound(fn) /\ PhisLack(fn, DOMAIN phis, Awaited)
  /\ stage \in {"dominators", "phis", "rename"} => Named
  /\ stage = "rename" => Calls /\ left = {}


-----------------------------------------------------------------------------
(* Values that are available. *)

LEMMA DominatesAntisymmetric ==
  ASSUME NEW G, Flow(G), NEW a \in Reachable(G), NEW b,
         dominates(G, a, b), dominates(G, b, a)
  PROVE  a = b
<1> SUFFICES ASSUME a # b PROVE FALSE
  OBVIOUS
<1> DEFINE T == ReachableAvoiding(G, {a})
           U == ReachableAvoiding(G, {b})
<1>1. IsReached(G, {a}, T) /\ IsReached(G, {b}, U) /\ IsReached(G, {}, Reachable(G))
  BY ReachedFacts DEF Reachable
<1>2. a \notin U /\ b \notin T
  BY DEF dominates
<1>3. Entry(G) # a /\ Entry(G) # b
  BY EntryFacts
<1> HIDE DEF T, U
<1>4. Entry(G) \in T \cap U
  BY <1>1, <1>3 DEF IsReached
<1>5. \A x \in (T \cap U) \cap Reachable(G) : \A c \in successors(G, x) : c \in T \cap U
  BY <1>1, <1>2 DEF IsReached
<1>6. Reachable(G) \subseteq T \cap U
  BY <1>1, <1>4, <1>5 DEF IsReached
<1>7. a \notin T
  BY <1>1 DEF IsReached
<1> QED
  BY <1>6, <1>7

LEMMA ShapeFacts ==
  ASSUME NEW G, Shape(G), NEW b \in BlocksOf(G)
  PROVE  /\ Flow(G) /\ IsCode(G.code[b])
         /\ Len(G.code[b]) \in Nat /\ Len(G.code[b]) >= 1
         /\ DOMAIN G.code[b] = 1 .. Len(G.code[b])
         /\ Last(G.code[b]) = G.code[b][Len(G.code[b])]
         /\ G.code[b][Len(G.code[b])].op \in Terminators
<1> PICK s : s = G.code[b]
  OBVIOUS
<1>1. Flow(G) /\ IsCode(s)
  BY DEF Shape
<1> QED
  BY <1>1, CodeFacts

LEMMA AvailableEnds ==
  ASSUME NEW G, Flow(G), NEW val, NEW b, NEW n, Available(G, val, b, n)
  PROVE  AtEnd(G, val, b)
BY DominatesReflexive DEF Available, AtEnd

LEMMA AvailableLater ==
  ASSUME NEW G, Shape(G), NEW val, NEW b, NEW n \in Nat, NEW m \in Nat, n <= m,
         Available(G, val, b, n)
  PROVE  Available(G, val, b, m)
<1> SUFFICES ASSUME NEW c \in BlocksOf(G), NEW i \in DOMAIN G.code[c], G.code[c][i].id = val
             PROVE  IF c = b THEN i < m ELSE dominates(G, c, b)
  BY DEF Available
<1>1. i \in Nat
  BY ShapeFacts
<1>2. IF c = b THEN i < n ELSE dominates(G, c, b)
  BY DEF Available
<1> QED
  BY <1>1, <1>2

LEMMA AvailableBelow ==
  ASSUME NEW G, Flow(G), NEW val, NEW b \in Reachable(G), NEW c, NEW n,
         dominates(G, b, c), b # c, AtEnd(G, val, b)
  PROVE  Available(G, val, c, n)
<1> SUFFICES ASSUME NEW d \in BlocksOf(G), NEW i \in DOMAIN G.code[d], G.code[d][i].id = val
             PROVE  IF d = c THEN i < n ELSE dominates(G, d, c)
  BY DEF Available
<1>1. dominates(G, d, b)
  BY DEF AtEnd
<1>2. dominates(G, d, c)
  BY <1>1, DominatesTransitive
<1>3. d # c
  BY <1>1, DominatesAntisymmetric
<1> QED
  BY <1>2, <1>3

\* What is available where x is defined is available where x is.
LEMMA AvailableVia ==
  ASSUME NEW G, Shape(G), BlocksOf(G) = Reachable(G),
         NEW b \in BlocksOf(G), NEW k \in DOMAIN G.code[b], NEW x, G.code[b][k].id = x,
         NEW val, Available(G, val, b, k), NEW c \in BlocksOf(G)
  PROVE  /\ \A j \in DOMAIN G.code[c] : Available(G, x, c, j) => Available(G, val, c, j)
         /\ AtEnd(G, x, c) => AtEnd(G, val, c)
<1>1. Flow(G) /\ k \in Nat /\ \A j \in DOMAIN G.code[c] : j \in Nat
  BY ShapeFacts
<1>2. AtEnd(G, val, b)
  BY <1>1, AvailableEnds
<1>3. ASSUME NEW j \in DOMAIN G.code[c], Available(G, x, c, j)
      PROVE  Available(G, val, c, j)
  <2>1. IF b = c THEN k < j ELSE dominates(G, b, c)
    BY <1>3 DEF Available
  <2>2. CASE b = c
    <3>1. k <= j
      BY <1>1, <2>1, <2>2
    <3> QED
      BY <1>1, <2>2, <3>1, AvailableLater
  <2>3. CASE b # c
    BY <1>1, <1>2, <2>1, <2>3, AvailableBelow
  <2> QED
    BY <2>2, <2>3
<1>4. ASSUME AtEnd(G, x, c) PROVE AtEnd(G, val, c)
  <2>1. dominates(G, b, c)
    BY <1>4 DEF AtEnd
  <2> QED
    BY <1>1, <1>2, <2>1, DominatesTransitive DEF AtEnd
<1> QED
  BY <1>3, <1>4

\* The instructions are where they were, and define what they defined.
SameIds(G, H) ==
  /\ SameFlow(G, H)
  /\ \A b \in BlocksOf(G) :
       /\ DOMAIN H.code[b] = DOMAIN G.code[b]
       /\ \A k \in DOMAIN G.code[b] : /\ H.code[b][k].id = G.code[b][k].id
                                      /\ H.code[b][k].op = G.code[b][k].op

LEMMA AvailableKept ==
  ASSUME NEW G, NEW H, Flow(G), SameIds(G, H)
  PROVE  /\ \A val, b, n : Available(H, val, b, n) <=> Available(G, val, b, n)
         /\ \A val, b : AtEnd(H, val, b) <=> AtEnd(G, val, b)
         /\ \A b : predecessors(H, b) = predecessors(G, b)
<1>1. /\ BlocksOf(H) = BlocksOf(G) /\ SameFlow(G, H) /\ Flow(H)
      /\ \A b, c : dominates(H, b, c) <=> dominates(G, b, c)
  BY FlowKept DEF SameIds, SameFlow
<1>2. \A b \in BlocksOf(G) :
        /\ DOMAIN H.code[b] = DOMAIN G.code[b]
        /\ \A k \in DOMAIN G.code[b] : H.code[b][k].id = G.code[b][k].id
  BY DEF SameIds
<1>3. ASSUME NEW b PROVE predecessors(H, b) = predecessors(G, b)
  BY <1>1 DEF predecessors, SameFlow, Flow
<1>4. ASSUME NEW val, NEW b, NEW n
      PROVE  Available(H, val, b, n) <=> Available(G, val, b, n)
  BY <1>1, <1>2 DEF Available
<1>5. ASSUME NEW val, NEW b PROVE AtEnd(H, val, b) <=> AtEnd(G, val, b)
  BY <1>1, <1>2 DEF AtEnd
<1> QED
  BY <1>3, <1>4, <1>5

LEMMA InstructionFields ==
  ASSUME NEW I, NEW B, IsInstruction(I, B)
  PROVE  {"op", "dests"} \subseteq DOMAIN I
BY DEF IsInstruction

\* The operands of instructions are replaced by others that are available.
Rewrites(G, b, k, J) ==
  /\ IsInstruction(J, BlocksOf(G))
  /\ J.op = G.code[b][k].op /\ J.id = G.code[b][k].id
  /\ ~IsPhi(G.code[b][k]) =>
       /\ J.dests = G.code[b][k].dests
       /\ \A val \in Range(J.args) : Available(G, val, b, k)
  /\ IsPhi(G.code[b][k]) => \A j \in DOMAIN J.dests : AtEnd(G, J.args[j], J.dests[j])

IsRewriting(G, X) ==
  /\ DOMAIN X = BlocksOf(G)
  /\ \A b \in BlocksOf(G) : X[b] = [k \in DOMAIN G.code[b] |-> X[b][k]]
  /\ \A b \in BlocksOf(G) : \A k \in DOMAIN G.code[b] : Rewrites(G, b, k, X[b][k])

LEMMA SoundRewritten ==
  ASSUME NEW G, Sound(G), NEW H, NEW X, H = [G EXCEPT !.code = X], IsRewriting(G, X)
  PROVE  Sound(H) /\ SameIds(G, H) /\ H.code = X
<1>0. /\ DOMAIN X = BlocksOf(G)
      /\ \A b \in BlocksOf(G) : X[b] = [k \in DOMAIN G.code[b] |-> X[b][k]]
      /\ \A b \in BlocksOf(G) : \A k \in DOMAIN G.code[b] : Rewrites(G, b, k, X[b][k])
  BY DEF IsRewriting
<1>1. Shape(G) /\ Flow(G)
  BY DEF Sound, Shape
<1>2. ASSUME NEW b \in BlocksOf(G)
      PROVE  IsCode(X[b]) /\ X[b] # <<>> /\ Last(X[b]).dests = Last(G.code[b]).dests
  <2>1. PICK s, t : s = G.code[b] /\ t = X[b]
    OBVIOUS
  <2>2. IsCode(s) /\ Len(s) \in DOMAIN s /\ s[Len(s)].op \in Terminators
    BY <1>1, <2>1, ShapeFacts
  <2>3. \A k \in DOMAIN s : /\ {"op", "dests"} \subseteq DOMAIN t[k] /\ t[k].op = s[k].op
                            /\ ~IsPhi(s[k]) => t[k].dests = s[k].dests
    <3> TAKE k \in DOMAIN s
    <3>1. Rewrites(G, b, k, t[k])
      BY <1>0, <2>1
    <3> QED
      BY <2>1, <3>1, InstructionFields DEF Rewrites
  <2>4. t[Len(s)].dests = s[Len(s)].dests
    BY <2>2, <2>3 DEF IsPhi, Terminators
  <2>5. t = [k \in DOMAIN s |-> t[k]]
    BY <1>0, <2>1
  <2>6. IsCode(t) /\ Last(t).dests = Last(s).dests
    BY <2>2, <2>3, <2>4, <2>5, CodeRewritten
  <2> QED
    BY <2>1, <2>6 DEF IsCode
<1>3. SameFlow(G, H) /\ H.code = X /\ H.layout = G.layout /\ Shape(H)
  BY <1>0, <1>1, <1>2, CodeReplaced
<1>4. BlocksOf(H) = BlocksOf(G) /\ \A b \in BlocksOf(G) : DOMAIN X[b] = DOMAIN G.code[b]
  BY <1>0, <1>3 DEF SameFlow
<1>5. SameIds(G, H)
  BY <1>0, <1>3, <1>4 DEF SameIds, Rewrites
<1>6. /\ \A val, b, n : Available(H, val, b, n) <=> Available(G, val, b, n)
      /\ \A val, b : AtEnd(H, val, b) <=> AtEnd(G, val, b)
      /\ \A b : predecessors(H, b) = predecessors(G, b)
  BY <1>1, <1>5, AvailableKept
<1>7. Reachable(H) = Reachable(G) /\ Entry(H) = Entry(G)
  BY <1>1, <1>3, FlowKept
<1>8. AllocasInEntry(H)
  <2>1. ASSUME NEW b \in BlocksOf(G) \ {Entry(G)}, NEW k \in DOMAIN X[b]
        PROVE  X[b][k].op # "alloca"
    <3>1. G.code[b][k] \in Range(G.code[b]) /\ k \in DOMAIN G.code[b]
      BY <1>4 DEF Range
    <3> QED
      BY <1>0, <3>1 DEF Sound, AllocasInEntry, Rewrites
  <2> QED
    BY <1>3, <1>4, <1>7, <2>1 DEF AllocasInEntry, Range
<1>9. ASSUME NEW b \in BlocksOf(G), NEW k \in DOMAIN G.code[b] PROVE Fits(H, b, k)
  <2>1. PICK I, J : I = G.code[b][k] /\ J = X[b][k]
    OBVIOUS
  <2>2. /\ IsInstruction(J, BlocksOf(G)) /\ J.op = I.op
        /\ ~IsPhi(I) => \A val \in Range(J.args) : Available(G, val, b, k)
        /\ IsPhi(I) => \A j \in DOMAIN J.dests : AtEnd(G, J.args[j], J.dests[j])
    BY <1>0, <2>1 DEF Rewrites
  <2>3. H.code[b][k] = J /\ (IsPhi(J) <=> IsPhi(I))
    BY <1>3, <2>1, <2>2 DEF IsPhi
  <2> QED
    BY <1>4, <1>6, <2>2, <2>3 DEF Fits
<1> QED
  BY <1>3, <1>4, <1>5, <1>6, <1>7, <1>8, <1>9 DEF Sound

\* A phi keeps the values from the blocks of S.
LEMMA IncomingRestricted ==
  ASSUME NEW B, NEW I, IsInstruction(I, B), IsPhi(I), IsInjective(I.dests), NEW S,
         NEW J, J = RestrictIncoming(I, S)
  PROVE  /\ IsInstruction(J, S) /\ J.op = I.op /\ J.id = I.id
         /\ IsInjective(J.dests) /\ Range(J.dests) = Range(I.dests) \cap S
         /\ \A j \in DOMAIN J.dests : \E k \in DOMAIN I.dests :
              J.args[j] = I.args[k] /\ J.dests[j] = I.dests[k] /\ I.dests[k] \in S
         /\ Range(J.args) \subseteq Range(I.args)
<1>0. PICK d, a, n : d = I.dests /\ a = I.args /\ n = Len(d)
  OBVIOUS
<1>1. /\ I = [op |-> I.op, id |-> I.id, args |-> a, dests |-> d]
      /\ I.op \in Ops /\ d \in Seq(B) /\ a \in Seq(Range(a)) /\ Len(a) = Len(d)
      /\ IsInjective(d) /\ I.op = "phi"
  BY <1>0 DEF IsInstruction, IsPhi
<1>2. n \in Nat /\ DOMAIN d = 1 .. n /\ DOMAIN a = 1 .. n /\ Len(d) = n
  <2>1. n \in Nat /\ DOMAIN d = 1 .. n /\ Len(d) = n
    BY <1>0, <1>1
  <2> DEFINE Q == Range(a)
  <2>2. a \in Seq(Q) /\ Len(a) = n
    BY <1>1, <2>1
  <2> HIDE DEF Q
  <2> QED
    BY <2>1, <2>2
<1> DEFINE all == [k \in DOMAIN d |-> k]
           W == {k \in DOMAIN d : d[k] \in S}
<1>3. PICK kept : kept = Kept(all, W)
  OBVIOUS
<1>4. J = [op |-> I.op, id |-> I.id, args |-> [j \in DOMAIN kept |-> a[kept[j]]],
           dests |-> [j \in DOMAIN kept |-> d[kept[j]]]]
  BY <1>0, <1>1, <1>3 DEF RestrictIncoming
<1>5. PICK e, f : /\ e = [j \in DOMAIN kept |-> d[kept[j]]] /\ f = [j \in DOMAIN kept |-> a[kept[j]]]
                  /\ J.dests = e /\ J.args = f
  BY <1>4
<1>6. J = [op |-> J.op, id |-> J.id, args |-> f, dests |-> e] /\ J.op = I.op /\ J.id = I.id
  BY <1>4, <1>5
<1>7. all \in Seq(1 .. n) /\ IsInjective(all) /\ Range(all) = 1 .. n
  <2>1. all = [k \in 1 .. n |-> k]
    BY <1>2
  <2> HIDE DEF all
  <2>2. all \in [1 .. n -> 1 .. n]
    BY <2>1
  <2> QED
    BY <1>2, <2>1, <2>2 DEF IsInjective, Range
<1>8. /\ kept \in Seq(1 .. n) /\ IsInjective(kept) /\ Range(kept) = W
  <2>1. Range(all) \cap W = W
    BY <1>2, <1>7
  <2> HIDE DEF all, W
  <2> QED
    BY <1>3, <1>7, <2>1, KeptFacts
<1>9. PICK l : /\ l \in Nat /\ l = Len(kept) /\ DOMAIN kept = 1 .. l
               /\ \A j \in 1 .. l : kept[j] \in 1 .. n /\ d[kept[j]] \in S
               /\ \A k \in 1 .. n : d[k] \in S => \E j \in 1 .. l : kept[j] = k
  <2>1. Len(kept) \in Nat /\ DOMAIN kept = 1 .. Len(kept)
    BY <1>8
  <2>2. \A j \in DOMAIN kept : kept[j] \in W
    BY <1>8 DEF Range
  <2>3. \A k \in W : \E j \in DOMAIN kept : kept[j] = k
    BY <1>8 DEF Range
  <2> QED
    BY <1>2, <2>1, <2>2, <2>3
<1>10. /\ e = [j \in 1 .. l |-> d[kept[j]]] /\ f = [j \in 1 .. l |-> a[kept[j]]]
  BY <1>5, <1>9
<1>11. e \in Seq(S) /\ Len(e) = l
  <2>1. e \in [1 .. l -> S]
    BY <1>9, <1>10
  <2>2. e \in Seq(S)
    BY <1>9, <2>1
  <2> QED
    BY <1>9, <1>10, <2>2
<1>12. f \in Seq(Range(f)) /\ Len(f) = l /\ Range(f) \subseteq Range(a)
  <2> DEFINE Q == Range(f)
  <2>1. DOMAIN f = 1 .. l /\ \A j \in 1 .. l : f[j] \in Q
    BY <1>10 DEF Range
  <2>2. Q \subseteq Range(a)
    BY <1>2, <1>9, <1>10 DEF Range
  <2> HIDE DEF Q
  <2>3. f \in [1 .. l -> Q]
    BY <1>10, <2>1
  <2>4. f \in Seq(Q)
    BY <1>9, <2>3
  <2>5. Len(f) = l
    BY <1>9, <2>1, <2>4
  <2> QED
    BY <2>2, <2>4, <2>5 DEF Q
<1>13. IsInstruction(J, S)
  BY <1>1, <1>5, <1>6, <1>11, <1>12 DEF IsInstruction, IsPhi
<1>14. IsInjective(e)
  <2>1. \A i, j \in 1 .. l : kept[i] = kept[j] => i = j
    BY <1>8, <1>9 DEF IsInjective
  <2>2. \A i, j \in 1 .. n : d[i] = d[j] => i = j
    BY <1>1, <1>2 DEF IsInjective
  <2> QED
    BY <1>9, <1>10, <2>1, <2>2 DEF IsInjective
<1>15. Range(e) = Range(d) \cap S
  BY <1>2, <1>9, <1>10 DEF Range
<1>16. \A j \in DOMAIN e : \E k \in DOMAIN d : f[j] = a[k] /\ e[j] = d[k] /\ d[k] \in S
  BY <1>2, <1>9, <1>10
<1> QED
  BY <1>0, <1>5, <1>6, <1>12, <1>13, <1>14, <1>15, <1>16

\* What a function is made of.
LEMMA FunctionInstructions ==
  ASSUME NEW G, IsFunction(G), NEW b \in BlocksOf(G), NEW k \in DOMAIN G.code[b]
  PROVE  /\ IsInstruction(G.code[b][k], BlocksOf(G))
         /\ G.code[b][k].op \notin Terminators \cup {"phi"} => G.code[b][k].dests = <<>>
         /\ G.code[b][k] \in Range(G.code[b])
<1> DEFINE B == BlocksOf(G)
           F == [op : Ops, id : STRING, args : Seq(STRING), dests : Seq(B)]
<1>0. PICK s, I : s = G.code[b] /\ I = s[k]
  OBVIOUS
<1>1. /\ s \in Seq(F)
      /\ \A J \in Range(s) : /\ IsPhi(J) => Len(J.args) = Len(J.dests)
                             /\ J.op = "load" => Len(J.args) = 1
                             /\ J.op = "store" => Len(J.args) = 2
                             /\ J.op \notin Terminators \cup {"phi"} => J.dests = <<>>
  BY <1>0 DEF IsFunction
<1>2. I \in F /\ I \in Range(s)
  <2> HIDE DEF F
  <2> QED
    BY <1>0, <1>1 DEF Range
<1>3. /\ I = [op |-> I.op, id |-> I.id, args |-> I.args, dests |-> I.dests]
      /\ I.op \in Ops /\ I.args \in Seq(STRING) /\ I.dests \in Seq(B)
  <2> HIDE DEF B
  <2> QED
    BY <1>2
<1>4. I.args \in Seq(Range(I.args))
  <2>1. PICK a : a = I.args
    OBVIOUS
  <2> DEFINE Q == Range(a)
  <2>2. \A j \in DOMAIN a : a[j] \in Q
    BY DEF Range
  <2>3. a \in Seq(STRING)
    BY <1>3, <2>1
  <2> HIDE DEF Q
  <2>4. a \in Seq(Q)
    BY <2>2, <2>3
  <2> QED
    BY <2>1, <2>4 DEF Q
<1> QED
  BY <1>0, <1>1, <1>2, <1>3, <1>4 DEF IsInstruction

\* Dominance is what it was.
LEMMA UnreachableAvoided ==
  ASSUME NEW G, Flow(G), NEW H, Flow(H), BlocksOf(H) = Reachable(G), Entry(H) = Entry(G),
         \A b \in Reachable(G) : successors(H, b) = successors(G, b)
  PROVE  /\ \A A : ReachableAvoiding(H, A) = ReachableAvoiding(G, A)
         /\ \A c : predecessors(H, c) = predecessors(G, c) \cap Reachable(G)
<1>1. ASSUME NEW A
      PROVE  ReachableAvoiding(H, A) = ReachableAvoiding(G, A)
  <2>1. PICK R, U, V : R = Reachable(G) /\ U = ReachableAvoiding(H, A) /\ V = ReachableAvoiding(G, A)
    OBVIOUS
  <2>2. IsReached(H, A, U) /\ IsReached(G, A, V)
    BY <2>1, ReachedFacts
  <2>3. /\ U \subseteq R /\ Entry(G) \in R
        /\ \A b \in R : \A c \in successors(G, b) : c \in R
    BY <2>1, <2>2, EntryFacts DEF IsReached
  <2>4. V \subseteq R
    BY <2>2, <2>3 DEF IsReached
  <2>5. U \subseteq V
    BY <2>1, <2>2, <2>3 DEF IsReached
  <2>6. V \subseteq U
    BY <2>1, <2>2, <2>3 DEF IsReached
  <2> QED
    BY <2>1, <2>5, <2>6
<1>2. Reachable(G) \subseteq BlocksOf(G)
  BY EntryFacts
<1> QED
  BY <1>1, <1>2, PredecessorFacts

\* A function the pass is given, without the blocks that cannot be reached.
LEMMA UnreachableSound ==
  ASSUME NEW G, IsFunction(G), isWellFormed(G), NEW H, H = WithoutUnreachable(G)
  PROVE  /\ Sound(H) /\ \A S : PhisLack(H, {}, S)
         /\ BlocksOf(H) \subseteq BlocksOf(G)
         /\ \A b \in BlocksOf(H) : \A k \in DOMAIN H.code[b] :
              /\ k \in DOMAIN G.code[b] /\ H.code[b][k].id = G.code[b][k].id
              /\ Range(H.code[b][k].args) \subseteq Range(G.code[b][k].args)
<1>1. /\ BlocksWellFormed(G) /\ predecessors(G, Entry(G)) = {} /\ PhisMatchPredecessors(G)
      /\ DefinitionsDominateUses(G) /\ IncomingAvailable(G) /\ AllocasInEntry(G)
  BY DEF isWellFormed
<1>2. PICK R : R = Reachable(G)
  OBVIOUS
<1>3. /\ Shape(H) /\ BlocksOf(H) = R /\ Entry(H) = Entry(G)
      /\ IsInjective(H.layout) /\ Range(H.layout) = R
      /\ \A b \in R : successors(H, b) = successors(G, b)
      /\ \A b \in R : H.code[b] =
           [k \in DOMAIN G.code[b] |->
              IF IsPhi(G.code[b][k]) THEN RestrictIncoming(G.code[b][k], R) ELSE G.code[b][k]]
  BY <1>1, <1>2, UnreachableGone
<1>4. /\ Shape(G) /\ Flow(G) /\ Flow(H) /\ R \subseteq BlocksOf(G) /\ Entry(G) \in R
      /\ \A b \in R : successors(G, b) \subseteq R
  BY <1>1, <1>2, <1>3, FunctionShape, EntryFacts DEF Shape
<1>5. /\ \A c : predecessors(H, c) = predecessors(G, c) \cap R
      /\ \A a, c : dominates(H, a, c) <=> dominates(G, a, c)
      /\ Reachable(H) = R
  <2>1. /\ \A A : ReachableAvoiding(H, A) = ReachableAvoiding(G, A)
        /\ \A c : predecessors(H, c) = predecessors(G, c) \cap R
    BY <1>2, <1>3, <1>4, UnreachableAvoided
  <2> QED
    BY <1>2, <2>1 DEF dominates, Reachable
<1>6. ASSUME NEW b \in R, NEW k \in DOMAIN G.code[b], NEW I, I = G.code[b][k],
             NEW J, J = H.code[b][k]
      PROVE  /\ J.op = I.op /\ J.id = I.id /\ Range(J.args) \subseteq Range(I.args)
             /\ IsInstruction(J, R)
             /\ IsPhi(I) => /\ IsInjective(J.dests) /\ Range(J.dests) = predecessors(H, b)
                            /\ \A j \in DOMAIN J.dests : \E i \in DOMAIN I.dests :
                                 J.args[j] = I.args[i] /\ J.dests[j] = I.dests[i]
                                 /\ I.dests[i] \in R
             /\ ~IsPhi(I) => J = I
  <2>1. /\ IsInstruction(I, BlocksOf(G)) /\ I \in Range(G.code[b])
        /\ I.op \notin Terminators \cup {"phi"} => I.dests = <<>>
    BY <1>4, <1>6, FunctionInstructions
  <2>2. J = IF IsPhi(I) THEN RestrictIncoming(I, R) ELSE I
    BY <1>3, <1>6, ZenonT(60)
  <2>3. CASE IsPhi(I)
    <3>1. IsInjective(I.dests) /\ Range(I.dests) = predecessors(G, b)
      BY <1>1, <1>4, <2>1, <2>3 DEF PhisMatchPredecessors, phisOf
    <3>2. J = RestrictIncoming(I, R)
      BY <2>2, <2>3
    <3>3. /\ IsInstruction(J, R) /\ J.op = I.op /\ J.id = I.id
          /\ IsInjective(J.dests) /\ Range(J.dests) = Range(I.dests) \cap R
          /\ \A j \in DOMAIN J.dests : \E i \in DOMAIN I.dests :
               J.args[j] = I.args[i] /\ J.dests[j] = I.dests[i] /\ I.dests[i] \in R
          /\ Range(J.args) \subseteq Range(I.args)
      BY <2>1, <2>3, <3>1, <3>2, IncomingRestricted
    <3> QED
      BY <1>5, <2>3, <3>1, <3>3
  <2>4. CASE ~IsPhi(I)
    <3>1. J = I
      BY <2>2, <2>4
    <3>2. I.dests \in Seq(R)
      <4>1. CASE I.op \in Terminators
        <5>1. I = Last(G.code[b])
          BY <1>1, <1>4, <1>6, <4>1 DEF BlocksWellFormed, Last
        <5>2. Range(I.dests) \subseteq R
          BY <1>4, <5>1 DEF successors, Terminator
        <5>3. PICK d, B : d = I.dests /\ B = BlocksOf(G)
          OBVIOUS
        <5>4. d \in Seq(B) /\ \A j \in DOMAIN d : d[j] \in R
          BY <2>1, <5>2, <5>3 DEF IsInstruction, Range
        <5> QED
          BY <5>3, <5>4
      <4>2. CASE I.op \notin Terminators
        <5>1. I.dests = <<>>
          BY <2>1, <2>4, <4>2 DEF IsPhi
        <5> QED
          BY <5>1
      <4> QED
        BY <4>1, <4>2
    <3> QED
      BY <2>1, <2>4, <3>1, <3>2 DEF IsInstruction
  <2> QED
    BY <2>3, <2>4
<1>7. \A b \in R : DOMAIN H.code[b] = DOMAIN G.code[b]
  BY <1>3
<1>8. \A b \in R : \A k \in DOMAIN H.code[b] :
        /\ k \in DOMAIN G.code[b] /\ H.code[b][k].id = G.code[b][k].id
        /\ H.code[b][k].op = G.code[b][k].op
        /\ Range(H.code[b][k].args) \subseteq Range(G.code[b][k].args)
  <2> TAKE b \in R
  <2> TAKE k \in DOMAIN H.code[b]
  <2>1. PICK I, J : I = G.code[b][k] /\ J = H.code[b][k]
    OBVIOUS
  <2>2. k \in DOMAIN G.code[b]
    BY <1>7
  <2>3. J.op = I.op /\ J.id = I.id /\ Range(J.args) \subseteq Range(I.args)
    BY <1>6, <2>1, <2>2
  <2> QED
    BY <2>1, <2>2, <2>3
<1>9. \A S : PhisLack(H, {}, S)
  <2>1. \A b \in R : \A k \in DOMAIN H.code[b] : IsPhi(H.code[b][k]) =>
          IsInjective(H.code[b][k].dests) /\ Range(H.code[b][k].dests) = predecessors(H, b)
    BY <1>6, <1>7 DEF IsPhi
  <2> QED
    BY <1>3, <2>1 DEF PhisLack
<1>10. ASSUME NEW b \in R, NEW k \in DOMAIN H.code[b]
       PROVE  Fits(H, b, k)
  <2>1. PICK I, J : I = G.code[b][k] /\ J = H.code[b][k]
    OBVIOUS
  <2>2. k \in DOMAIN G.code[b] /\ b \in BlocksOf(G)
    BY <1>4, <1>7
  <2>3. /\ J.op = I.op /\ IsInstruction(J, R)
        /\ IsPhi(I) => \A j \in DOMAIN J.dests : \E i \in DOMAIN I.dests :
             J.args[j] = I.args[i] /\ J.dests[j] = I.dests[i] /\ I.dests[i] \in R
        /\ ~IsPhi(I) => J = I
    BY <1>6, <2>1, <2>2
  <2>4. ASSUME ~IsPhi(J), NEW val \in Range(J.args)
        PROVE  Available(H, val, b, k)
    <3>1. ~IsPhi(I) /\ J = I
      BY <2>3, <2>4 DEF IsPhi
    <3>2. \A c \in BlocksOf(G) : \A i \in DOMAIN G.code[c] : G.code[c][i].id = val =>
            IF c = b THEN i < k ELSE dominates(G, c, b)
      BY <1>1, <1>2, <2>1, <2>2, <2>4, <3>1 DEF DefinitionsDominateUses
    <3> QED
      BY <1>3, <1>4, <1>5, <1>8, <3>2 DEF Available
  <2>5. ASSUME IsPhi(J), NEW j \in DOMAIN J.dests
        PROVE  AtEnd(H, J.args[j], J.dests[j])
    <3>1. IsPhi(I) /\ I \in phisOf(G, b)
      BY <2>1, <2>2, <2>3, <2>5 DEF IsPhi, phisOf, Range
    <3>2. PICK i \in DOMAIN I.dests : J.args[j] = I.args[i] /\ J.dests[j] = I.dests[i] /\ I.dests[i] \in R
      BY <2>3, <2>5, <3>1
    <3>3. \A c \in BlocksOf(G) : (\E K \in Range(G.code[c]) : K.id = I.args[i]) =>
            dominates(G, c, I.dests[i])
      BY <1>1, <1>2, <3>1, <3>2 DEF IncomingAvailable
    <3>4. ASSUME NEW c \in R, NEW n \in DOMAIN H.code[c], H.code[c][n].id = J.args[j]
          PROVE  dominates(H, c, J.dests[j])
      <4>1. G.code[c][n] \in Range(G.code[c]) /\ G.code[c][n].id = I.args[i] /\ c \in BlocksOf(G)
        BY <1>4, <1>8, <3>2, <3>4 DEF Range
      <4> QED
        BY <1>5, <3>2, <3>3, <4>1
    <3> QED
      BY <1>3, <3>4 DEF AtEnd
  <2> QED
    BY <1>3, <2>1, <2>3, <2>4, <2>5 DEF Fits
<1>11. AllocasInEntry(H)
  <2>1. ASSUME NEW b \in R \ {Entry(H)}, NEW J \in Range(H.code[b])
        PROVE  J.op # "alloca"
    <3>1. PICK k \in DOMAIN H.code[b] : J = H.code[b][k]
      BY DEF Range
    <3>2. G.code[b][k] \in Range(G.code[b]) /\ J.op = G.code[b][k].op
      BY <1>8, <3>1 DEF Range
    <3> QED
      BY <1>1, <1>3, <1>4, <3>2 DEF AllocasInEntry
  <2> QED
    BY <1>3, <2>1 DEF AllocasInEntry
<1>12. predecessors(H, Entry(H)) = {}
  BY <1>1, <1>3, <1>5
<1>13. Sound(H)
  BY <1>3, <1>5, <1>10, <1>11, <1>12 DEF Sound
<1> QED
  BY <1>3, <1>4, <1>8, <1>9, <1>13

\* With a value from each predecessor in each phi, nothing is missing.
LEMMA SoundWellFormed ==
  ASSUME NEW G, Sound(G), NEW P, PhisLack(G, P, {})
  PROVE  isWellFormed(G)
<1>1. /\ Shape(G) /\ BlocksOf(G) = Reachable(G)
      /\ predecessors(G, Entry(G)) = {} /\ AllocasInEntry(G)
      /\ \A b \in BlocksOf(G) : \A k \in DOMAIN G.code[b] : Fits(G, b, k)
  BY DEF Sound
<1>2. BlocksWellFormed(G)
  BY <1>1 DEF BlocksWellFormed, Shape, IsCode
<1>3. PhisMatchPredecessors(G)
  <2>1. ASSUME NEW b \in BlocksOf(G), NEW I \in phisOf(G, b)
        PROVE  IsInjective(I.dests) /\ Range(I.dests) = predecessors(G, b)
    <3>1. PICK k \in DOMAIN G.code[b] : G.code[b][k] = I /\ IsPhi(I)
      BY DEF phisOf, Range
    <3>2. predecessors(G, b) \ {} = predecessors(G, b)
      OBVIOUS
    <3> QED
      BY <3>1, <3>2 DEF PhisLack
  <2> QED
    BY <2>1 DEF PhisMatchPredecessors
<1>4. DefinitionsDominateUses(G)
  <2>1. ASSUME NEW c \in BlocksOf(G), NEW j \in DOMAIN G.code[c], ~IsPhi(G.code[c][j]),
               NEW b \in BlocksOf(G), NEW i \in DOMAIN G.code[b],
               G.code[b][i].id \in Range(G.code[c][j].args)
        PROVE  IF b = c THEN i < j ELSE dominates(G, b, c)
    <3>1. Available(G, G.code[b][i].id, c, j)
      BY <1>1, <2>1 DEF Fits
    <3> QED
      BY <3>1 DEF Available
  <2> QED
    BY <1>1, <2>1 DEF DefinitionsDominateUses
<1>5. IncomingAvailable(G)
  <2>1. ASSUME NEW c \in BlocksOf(G), NEW I \in phisOf(G, c), NEW k \in DOMAIN I.dests,
               NEW b \in BlocksOf(G), NEW J \in Range(G.code[b]), J.id = I.args[k]
        PROVE  dominates(G, b, I.dests[k])
    <3>1. PICK n \in DOMAIN G.code[c] : G.code[c][n] = I /\ IsPhi(I)
      BY DEF phisOf, Range
    <3>2. AtEnd(G, I.args[k], I.dests[k])
      BY <1>1, <3>1 DEF Fits
    <3>3. PICK i \in DOMAIN G.code[b] : G.code[b][i] = J
      BY DEF Range
    <3> QED
      BY <2>1, <3>2, <3>3 DEF AtEnd
  <2> QED
    BY <1>1, <2>1 DEF IncomingAvailable
<1> QED
  BY <1>1, <1>2, <1>3, <1>4, <1>5 DEF isWellFormed

-----------------------------------------------------------------------------
(* The pass, step by step. *)

\* The analysis is over, and has nothing to do with what the instructions compute.
LEMMA WalkingKept ==
  ASSUME DTInv, dtStep = "done", UNCHANGED dtVars, SameFlow(fn, fn')
  PROVE  DTInv'
<1>1. Flow(fn) /\ Walking /\ path = <<>> /\ compressing = <<>>
  BY DEF DTInv
<1>2. /\ Flow(fn)' /\ Entry(fn)' = Entry(fn) /\ Reachable(fn)' = Reachable(fn)
      /\ \A b, c : dominates(fn, b, c)' = dominates(fn, b, c)
  <2>1. PICK H : H = fn'
    OBVIOUS
  <2>2. /\ Flow(H) /\ Entry(H) = Entry(fn) /\ Reachable(H) = Reachable(fn)
        /\ \A b, c : dominates(H, b, c) <=> dominates(fn, b, c)
    BY <1>1, <2>1, FlowKept
  <2>3. /\ \A b, c : dominates(H, b, c) = dominates(fn, b, c)
    BY <2>2 DEF dominates
  <2> QED
    BY <2>1, <2>2, <2>3 DEF dominates, Flow, successors, Terminator, BlocksOf, Entry
<1>3. UNCHANGED <<dtStep, path, compressing, discover, finish, idom>>
  BY DEF dtVars
<1>4. \A b : children(b)' = children(b)
  BY <1>2, <1>3 DEF children
<1>5. \A d, b : IsIdom(d, b)' = IsIdom(d, b)
  BY <1>2, <1>3 DEF IsIdom
<1>6. Times' /\ Intervals' /\ Stack'
  BY <1>1, <1>2, <1>3, <1>4 DEF Walking, Times, Intervals, Stack, time
<1>7. Walking'
  BY <1>1, <1>2, <1>3, <1>5, <1>6 DEF Walking
<1> QED
  BY <1>1, <1>2, <1>3, <1>7 DEF DTInv

\* The analysis has not begun when the function it is for is ready.
LEMMA AnalysisAwaits ==
  ASSUME Flow(fn)', DTInit, UNCHANGED dtVars
  PROVE  DTInv'
<1>0. DTInit'
  BY DEF DTInit, dtVars
<1>1. /\ DOMAIN vertex' = {} /\ Range(vertex') = {} /\ vertex' \in Seq(BlocksOf(fn'))
      /\ Len(vertex') = 0
      /\ DOMAIN semi' = {} /\ DOMAIN label' = {} /\ DOMAIN parent' = {} /\ DOMAIN ancestor' = {}
      /\ DOMAIN idom' = {} /\ DOMAIN discover' = {} /\ DOMAIN finish' = {}
  BY <1>0 DEF DTInit, Range
<1>2. Span'
  BY <1>0, <1>1 DEF Span, IsInjective, DTInit
<1>3. Frames'
  BY <1>0 DEF Frames, DTInit
<1>4. Searching'
  BY <1>0, <1>1, <1>2, <1>3 DEF Searching, Numbered, DTInit
<1>5. dtStep' = "number" /\ compressing' = <<>> /\ path' = <<>>
  BY <1>0 DEF DTInit
<1> QED
  BY <1>1, <1>4, <1>5 DEF DTInv

\* The pass has found the variables to promote.
LEMMA StepFindVars ==
  ASSUME MRInv, FindVars
  PROVE  MRInv'
<1>1. /\ stage = "start" /\ fn \in Funcs /\ DTInit /\ PassTypes
      /\ DOMAIN phis = {} /\ DOMAIN DF = {} /\ left = {}
  BY DEF MRInv, FindVars
<1>2. PICK G, H, V : G = fn /\ H = fn' /\ V = vars'
  OBVIOUS
<1>3. IsFunction(G) /\ isWellFormed(G) /\ G \in Funcs
  BY <1>1, <1>2, FuncsAssumption
<1>4. /\ H = WithoutUnreachable(G)
      /\ V \subseteq {I.id : I \in instructions(H)}
      /\ stage' \in {"done", "dominators"}
      /\ UNCHANGED <<left, DF, phis, calls>> /\ UNCHANGED dtVars
  BY <1>2 DEF FindVars
<1>5. /\ Sound(H) /\ \A S : PhisLack(H, {}, S)
      /\ BlocksOf(H) \subseteq BlocksOf(G)
      /\ \A b \in BlocksOf(H) : \A k \in DOMAIN H.code[b] :
           /\ k \in DOMAIN G.code[b] /\ H.code[b][k].id = G.code[b][k].id
           /\ Range(H.code[b][k].args) \subseteq Range(G.code[b][k].args)
  BY <1>3, <1>4, UnreachableSound, SMTT(30)
<1>6. DTInv'
  <2>1. Flow(H)
    BY <1>5 DEF Sound, Shape
  <2>2. Flow(fn)'
    BY <1>2, <2>1
  <2> QED
    BY <1>1, <1>4, <2>2, AnalysisAwaits
<1>7. PassTypes'
  <2>1. dtStep' = "number" /\ calls' = <<>> /\ DF' = DF /\ phis' = phis /\ left' = left
    BY <1>1, <1>4 DEF PassTypes, DTInit, dtVars
  <2> QED
    BY <1>1, <1>4, <2>1 DEF PassTypes
<1>8. Sound(fn)' /\ PhisLack(fn, DOMAIN phis, Awaited)'
  <2>1. DOMAIN phis' = {}
    BY <1>1, <1>4
  <2> QED
    BY <1>2, <1>5, <2>1
<1>9. ASSUME stage' = "dominators"
      PROVE  Named'
  <2>1. PICK ids : ids = {I.id : I \in instructions(G)}
    OBVIOUS
  <2>2. PICK values : values = ids \cup {Poison} \cup UNION {Range(I.args) : I \in instructions(G)}
    OBVIOUS
  <2>3. /\ Poison \notin ids
        /\ \A v \in ids, b \in BlocksOf(G) :
             /\ PhiId(v, b) \notin values
             /\ \A u \in ids, c \in BlocksOf(G) : PhiId(u, c) = PhiId(v, b) => u = v /\ c = b
    BY <1>3, <2>1, <2>2, NamesAssumption
  <2>4. \A b \in BlocksOf(H) : \A k \in DOMAIN H.code[b] :
          /\ G.code[b][k] \in instructions(G)
          /\ H.code[b][k].id \in ids /\ Range(H.code[b][k].args) \subseteq values
    <3> TAKE b \in BlocksOf(H)
    <3> TAKE k \in DOMAIN H.code[b]
    <3>1. /\ k \in DOMAIN G.code[b] /\ H.code[b][k].id = G.code[b][k].id
          /\ Range(H.code[b][k].args) \subseteq Range(G.code[b][k].args) /\ b \in BlocksOf(G)
      BY <1>5
    <3>2. G.code[b][k] \in instructions(G)
      BY <3>1 DEF instructions, Range
    <3>3. G.code[b][k].id \in ids
      BY <2>1, <3>2
    <3>4. Range(G.code[b][k].args) \subseteq values
      BY <2>2, <3>2
    <3> QED
      BY <3>1, <3>2, <3>3, <3>4
  <2>5. V \subseteq ids
    <3>1. ASSUME NEW I \in instructions(H)
          PROVE  I.id \in ids
      <4>1. PICK b \in BlocksOf(H) : \E k \in DOMAIN H.code[b] : I = H.code[b][k]
        BY <3>1 DEF instructions, Range
      <4> QED
        BY <2>4, <4>1
    <3> QED
      BY <1>4, <3>1
  <2>6. DOMAIN phis' = {} /\ Unplaced' = V /\ ids \subseteq values /\ Poison \in values
    BY <1>1, <1>2, <1>4, <1>9, <2>2 DEF Unplaced
  <2>7. \A v \in V, b \in BlocksOf(H) :
          /\ PhiId(v, b) # Poison
          /\ \A u \in V, c \in BlocksOf(H) : PhiId(u, c) = PhiId(v, b) => u = v /\ c = b
    BY <1>5, <2>3, <2>5, <2>6
  <2>8. \A b \in BlocksOf(H) : \A k \in DOMAIN H.code[b] :
          /\ H.code[b][k].id # Poison
          /\ \A v \in V, c \in BlocksOf(H) :
               PhiId(v, c) # H.code[b][k].id /\ PhiId(v, c) \notin Range(H.code[b][k].args)
    BY <1>5, <2>3, <2>4, <2>5, <2>6
  <2> QED
    BY <1>2, <2>6, <2>7, <2>8 DEF Named
<1> QED
  BY <1>1, <1>4, <1>6, <1>7, <1>8, <1>9 DEF MRInv

LEMMA PassStarts ==
  ASSUME MRInit
  PROVE  MRInv
<1>1. /\ fn \in Funcs /\ stage = "start" /\ DTInit
      /\ vars = {} /\ left = {} /\ DF = <<>> /\ phis = <<>> /\ calls = <<>>
  BY DEF MRInit
<1>2. Flow(fn)
  <2>1. IsFunction(fn) /\ BlocksWellFormed(fn)
    BY <1>1, FuncsAssumption DEF isWellFormed
  <2> QED
    BY <2>1, FunctionShape DEF Shape
<1>3. DTInv
  BY <1>1, <1>2, AnalysisStarts
<1>4. PassTypes
  BY <1>1 DEF PassTypes
<1> QED
  BY <1>1, <1>3, <1>4 DEF MRInv

\* What is said of the code and of the calls, while they do not change.
LEMMA PassIdle ==
  ASSUME UNCHANGED <<fn, vars, phis>>
  PROVE  /\ Sound(fn)' = Sound(fn)
         /\ \A S : PhisLack(fn, DOMAIN phis, S)' = PhisLack(fn, DOMAIN phis, S)
         /\ Unplaced' = Unplaced => Named' = Named
BY DEF Named

LEMMA StepAnalyse ==
  ASSUME MRInv, Analyse
  PROVE  MRInv'
<1>1. stage = "dominators" /\ DTNext /\ UNCHANGED <<fn, m2rVars>>
  BY DEF Analyse
<1>2. UNCHANGED <<fn, stage, vars, left, DF, phis, calls>>
  BY <1>1 DEF m2rVars
<1>3. DTInv'
  BY <1>1, AnalysisStep DEF MRInv
<1>4. Unplaced' = Unplaced /\ Awaited = BlocksOf(fn) /\ Awaited' = BlocksOf(fn)
  BY <1>1, <1>2 DEF Unplaced, Awaited
<1>5. Sound(fn)' /\ PhisLack(fn, DOMAIN phis, BlocksOf(fn))' /\ Named'
  BY <1>1, <1>2, <1>4, PassIdle DEF MRInv
<1>6. PassTypes'
  BY <1>1, <1>2 DEF PassTypes, MRInv
<1> QED
  BY <1>1, <1>2, <1>3, <1>4, <1>5, <1>6 DEF MRInv

LEMMA StepComputeFrontiers ==
  ASSUME MRInv, ComputeFrontiers
  PROVE  MRInv'
<1>1. /\ stage = "dominators" /\ stage' = "phis" /\ dtStep = "done" /\ left' = vars
      /\ UNCHANGED <<fn, vars, phis, calls>> /\ UNCHANGED dtVars
      /\ DF' \in [BlocksOf(fn) -> SUBSET BlocksOf(fn)]
  BY DEF ComputeFrontiers
<1>2. DTInv'
  BY <1>1, AnalysisIdle DEF MRInv
<1>3. Unplaced' = Unplaced /\ Awaited = BlocksOf(fn) /\ Awaited' = BlocksOf(fn)
  BY <1>1 DEF Unplaced, Awaited
<1>4. Sound(fn)' /\ PhisLack(fn, DOMAIN phis, BlocksOf(fn))' /\ Named'
  BY <1>1, <1>3, PassIdle DEF MRInv
<1>5. PassTypes'
  BY <1>1 DEF PassTypes, MRInv, dtVars
<1> QED
  BY <1>1, <1>2, <1>3, <1>4, <1>5 DEF MRInv

LEMMA JoinsAreBlocks ==
  ASSUME Flow(fn), DF \in [BlocksOf(fn) -> SUBSET BlocksOf(fn)], NEW v
  PROVE  joins(v) \subseteq BlocksOf(fn)
<1>1. PICK B, n, T : /\ B = BlocksOf(fn) /\ n = Cardinality(B)
                     /\ T = {c \in B : \E I \in Range(fn.code[c]) : IsStoreTo(I, {v})}
  OBVIOUS
<1>2. PICK U : U = UNION {DF[b] : b \in T}
  OBVIOUS
<1>3. IsFiniteSet(B) /\ n \in Nat /\ n <= n
  BY <1>1, FS_CardinalityType DEF Flow
<1>4. T \subseteq B /\ DF \in [B -> SUBSET B]
  BY <1>1
<1>5. U \in SUBSET B
  BY <1>2, <1>4
<1>6. Closure(U, DF, n) \subseteq B
  BY <1>1, <1>3, <1>4, <1>5, ClosureFacts
<1> QED
  BY <1>1, <1>2, <1>6 DEF joins

\* Where an instruction was before phis were put before those of the blocks J.
Before(J, b, k) == IF b \in J THEN k - 1 ELSE k

\* Phis for v are put into the blocks J.
WithPhis(G, J, v) ==
  [G EXCEPT !.code =
     [b \in BlocksOf(G) |-> IF b \in J THEN <<Phi(v, b)>> \o G.code[b] ELSE G.code[b]]]

\* What H has at b, k is new, or was in G.
IsPrefixed(G, J, v, H, b, k) ==
  /\ k \in Nat
  /\ \/ b \in J /\ k = 1 /\ H.code[b][k] = Phi(v, b)
     \/ /\ Before(J, b, k) \in DOMAIN G.code[b] /\ Before(J, b, k) \in Nat
        /\ H.code[b][k] = G.code[b][Before(J, b, k)]

LEMMA CodeWithPhis ==
  ASSUME NEW s, IsCode(s), NEW I, {"op", "dests"} \subseteq DOMAIN I, I.op \notin Terminators
  PROVE  \A k \in DOMAIN (<<I>> \o s) :
           /\ k \in Nat
           /\ \/ k = 1 /\ (<<I>> \o s)[k] = I
              \/ k - 1 \in DOMAIN s /\ k - 1 \in Nat /\ (<<I>> \o s)[k] = s[k - 1]
<1> DEFINE Q == Range(s) \cup {I}
<1>1. s \in Seq(Range(s)) /\ Len(s) \in Nat /\ DOMAIN s = 1 .. Len(s)
  BY CodeFacts DEF IsCode
<1>2. s \in Seq(Q) /\ <<I>> \in Seq(Q)
  <2>1. \A k \in DOMAIN s : s[k] \in Q
    BY DEF Range
  <2>2. I \in Q
    OBVIOUS
  <2> HIDE DEF Q
  <2> QED
    BY <1>1, <2>1, <2>2
<1> HIDE DEF Q
<1> QED
  BY <1>1, <1>2

LEMMA ShapeWithPhis ==
  ASSUME NEW G, Shape(G), NEW J, NEW v, NEW H, H = WithPhis(G, J, v)
  PROVE  /\ Shape(H) /\ SameFlow(G, H) /\ H.layout = G.layout
         /\ \A c : predecessors(H, c) = predecessors(G, c)
         /\ \A b \in BlocksOf(G) : \A k \in DOMAIN H.code[b] : IsPrefixed(G, J, v, H, b, k)
<1> DEFINE B == BlocksOf(G)
           X == [b \in B |-> IF b \in J THEN <<Phi(v, b)>> \o G.code[b] ELSE G.code[b]]
<1>1. DOMAIN X = B /\ \A b \in B : X[b] = IF b \in J THEN <<Phi(v, b)>> \o G.code[b] ELSE G.code[b]
  OBVIOUS
<1>2. H = [G EXCEPT !.code = X]
  BY DEF WithPhis
<1> HIDE DEF X
<1>3. ASSUME NEW b \in B
      PROVE  /\ IsCode(X[b]) /\ Last(X[b]) = Last(G.code[b])
             /\ \A k \in DOMAIN X[b] :
                  /\ k \in Nat
                  /\ \/ b \in J /\ k = 1 /\ X[b][k] = Phi(v, b)
                     \/ /\ Before(J, b, k) \in DOMAIN G.code[b] /\ Before(J, b, k) \in Nat
                        /\ X[b][k] = G.code[b][Before(J, b, k)]
  <2>1. PICK s, I : s = G.code[b] /\ I = Phi(v, b)
    OBVIOUS
  <2>2. IsCode(s) /\ Len(s) \in Nat /\ DOMAIN s = 1 .. Len(s)
    BY <2>1, ShapeFacts
  <2>3. {"op", "dests"} \subseteq DOMAIN I /\ I.op \notin Terminators
    BY <2>1 DEF Phi, Terminators
  <2>4. CASE b \in J
    <3>1. PICK t : t = <<I>> \o s
      OBVIOUS
    <3>2. X[b] = t
      BY <1>1, <2>1, <2>4, <3>1
    <3>3. IsCode(t) /\ Last(t) = Last(s)
      BY <2>2, <2>3, <3>1, CodePrefixed
    <3>4. \A k \in DOMAIN t : /\ k \in Nat
                              /\ \/ k = 1 /\ t[k] = I
                                 \/ k - 1 \in DOMAIN s /\ k - 1 \in Nat /\ t[k] = s[k - 1]
      BY <2>2, <2>3, <3>1, CodeWithPhis
    <3>5. \A k : Before(J, b, k) = k - 1
      BY <2>4 DEF Before
    <3> QED
      BY <2>1, <2>4, <3>2, <3>3, <3>4, <3>5
  <2>5. CASE b \notin J
    <3>1. X[b] = s
      BY <1>1, <2>1, <2>5
    <3>2. \A k : Before(J, b, k) = k
      BY <2>5 DEF Before
    <3> QED
      BY <2>1, <2>2, <3>1, <3>2
  <2> QED
    BY <2>4, <2>5
<1>4. SameFlow(G, H) /\ H.code = X /\ H.layout = G.layout /\ Shape(H)
  <2>1. \A b \in B : X[b] # <<>> /\ Last(X[b]).dests = Last(G.code[b]).dests
    BY <1>3 DEF IsCode
  <2> QED
    BY <1>1, <1>2, <1>3, <2>1, CodeReplaced
<1>5. \A c : predecessors(H, c) = predecessors(G, c)
  <2>1. Flow(G) /\ Flow(H) /\ BlocksOf(H) = B /\ \A b \in B : successors(H, b) = successors(G, b)
    BY <1>4 DEF SameFlow, Shape
  <2>2. \A b \in B : G.code[b] # <<>> /\ H.code[b] # <<>>
    BY <2>1 DEF Flow
  <2> QED
    BY <2>1, <2>2 DEF predecessors
<1> QED
  BY <1>3, <1>4, <1>5 DEF IsPrefixed

\* Nothing uses the phis.
Fresh(G, v) ==
  \A c \in BlocksOf(G) : \A b \in BlocksOf(G) : \A k \in DOMAIN G.code[b] :
    PhiId(v, c) \notin Range(G.code[b][k].args)

LEMMA SoundWithPhis ==
  ASSUME NEW G, Sound(G), NEW J, NEW v, Fresh(G, v), NEW H, H = WithPhis(G, J, v)
  PROVE  Sound(H)
<1>1. PICK B : B = BlocksOf(G)
  OBVIOUS
<1>2. /\ Shape(G) /\ Flow(G) /\ B = Reachable(G)
      /\ IsInjective(G.layout) /\ Range(G.layout) = B
      /\ predecessors(G, Entry(G)) = {} /\ AllocasInEntry(G)
      /\ \A b \in B : \A k \in DOMAIN G.code[b] : Fits(G, b, k)
  BY <1>1 DEF Sound, Shape
<1>5. SameFlow(G, H) /\ H.layout = G.layout /\ Shape(H)
  BY <1>2, ShapeWithPhis
<1>6. /\ BlocksOf(H) = B /\ Flow(H) /\ Entry(H) = Entry(G) /\ Reachable(H) = B
      /\ \A b, c : dominates(H, b, c) <=> dominates(G, b, c)
  BY <1>1, <1>2, <1>5, FlowKept DEF SameFlow
<1>7. \A c : predecessors(H, c) = predecessors(G, c)
  BY <1>2, ShapeWithPhis
<1>8. \A b \in B : \A k \in DOMAIN H.code[b] :
        /\ k \in Nat
        /\ \/ b \in J /\ k = 1 /\ H.code[b][k] = Phi(v, b)
           \/ /\ Before(J, b, k) \in DOMAIN G.code[b] /\ Before(J, b, k) \in Nat
              /\ H.code[b][k] = G.code[b][Before(J, b, k)]
  <2> TAKE b \in B
  <2> TAKE k \in DOMAIN H.code[b]
  <2>1. IsPrefixed(G, J, v, H, b, k)
    BY <1>1, <1>2, ShapeWithPhis
  <2> QED
    BY <2>1 DEF IsPrefixed
\* What is used is defined where it was.
<1>10. ASSUME NEW b \in B, NEW k \in DOMAIN G.code[b], NEW val \in Range(G.code[b][k].args),
              NEW c \in B, NEW i \in DOMAIN H.code[c], H.code[c][i].id = val
       PROVE  /\ Before(J, c, i) \in DOMAIN G.code[c] /\ Before(J, c, i) \in Nat
              /\ G.code[c][Before(J, c, i)].id = val /\ i \in Nat
  <2>1. val # PhiId(v, c)
    BY <1>1, <1>10 DEF Fresh
  <2>2. Phi(v, c).id = PhiId(v, c)
    BY DEF Phi
  <2> QED
    BY <1>8, <1>10, <2>1, <2>2
<1>11. ASSUME NEW b \in B, NEW k \in DOMAIN H.code[b]
       PROVE  Fits(H, b, k)
  <2>1. CASE H.code[b][k] = Phi(v, b)
    <3>1. IsInstruction(Phi(v, b), B)
      <4>1. Range(<<>>) = {}
        BY DEF Range
      <4> QED
        BY <4>1 DEF IsInstruction, Phi, IsPhi, Ops, Pure
    <3>2. IsPhi(Phi(v, b)) /\ DOMAIN Phi(v, b).dests = {}
      BY DEF IsPhi, Phi
    <3> QED
      BY <1>6, <2>1, <3>1, <3>2 DEF Fits
  <2>2. CASE /\ Before(J, b, k) \in DOMAIN G.code[b] /\ Before(J, b, k) \in Nat /\ k \in Nat
             /\ H.code[b][k] = G.code[b][Before(J, b, k)]
    <3>1. PICK m, I : m = Before(J, b, k) /\ I = G.code[b][m]
      OBVIOUS
    <3>2. /\ m \in DOMAIN G.code[b] /\ m \in Nat /\ k \in Nat /\ H.code[b][k] = I /\ Fits(G, b, m)
      BY <1>2, <2>2, <3>1
    <3>3. IsInstruction(I, B)
      BY <1>1, <3>1, <3>2 DEF Fits
    <3>4. ASSUME ~IsPhi(I), NEW val \in Range(I.args)
          PROVE  Available(H, val, b, k)
      <4>1. Available(G, val, b, m)
        BY <3>1, <3>2, <3>4 DEF Fits
      <4>2. ASSUME NEW c \in B, NEW i \in DOMAIN H.code[c], H.code[c][i].id = val
            PROVE  IF c = b THEN i < k ELSE dominates(H, c, b)
        <5>1. PICK n : n = Before(J, c, i)
          OBVIOUS
        <5>2. n \in DOMAIN G.code[c] /\ G.code[c][n].id = val /\ i \in Nat /\ n \in Nat
          BY <1>10, <3>1, <3>2, <3>4, <4>2, <5>1
        <5>3. IF c = b THEN n < m ELSE dominates(G, c, b)
          BY <1>1, <4>1, <5>2 DEF Available
        <5> QED
          BY <1>6, <3>1, <3>2, <5>1, <5>2, <5>3 DEF Before
      <4> QED
        BY <1>6, <4>2 DEF Available
    <3>5. ASSUME IsPhi(I), NEW j \in DOMAIN I.dests
          PROVE  AtEnd(H, I.args[j], I.dests[j])
      <4>1. AtEnd(G, I.args[j], I.dests[j])
        BY <3>1, <3>2, <3>5 DEF Fits
      <4>2. I.args[j] \in Range(I.args)
        <5>1. PICK a, d, R : a = I.args /\ d = I.dests /\ R = Range(I.args)
          OBVIOUS
        <5>2. a \in Seq(R) /\ d \in Seq(B) /\ Len(a) = Len(d)
          BY <3>3, <3>5, <5>1 DEF IsInstruction
        <5>3. DOMAIN a = DOMAIN d
          BY <5>2
        <5> QED
          BY <3>5, <5>1, <5>3 DEF Range
      <4>3. ASSUME NEW c \in B, NEW i \in DOMAIN H.code[c], H.code[c][i].id = I.args[j]
            PROVE  dominates(H, c, I.dests[j])
        <5>1. /\ Before(J, c, i) \in DOMAIN G.code[c]
              /\ G.code[c][Before(J, c, i)].id = I.args[j]
          BY <1>10, <3>1, <3>2, <4>2, <4>3
        <5> QED
          BY <1>1, <1>6, <4>1, <5>1 DEF AtEnd
      <4> QED
        BY <1>6, <4>3 DEF AtEnd
    <3> QED
      BY <1>6, <3>2, <3>3, <3>4, <3>5 DEF Fits
  <2> QED
    BY <1>8, <2>1, <2>2
<1>12. AllocasInEntry(H)
  <2>1. ASSUME NEW b \in B \ {Entry(G)}, NEW I \in Range(H.code[b])
        PROVE  I.op # "alloca"
    <3>1. PICK k \in DOMAIN H.code[b] : I = H.code[b][k]
      BY DEF Range
    <3>2. CASE I = Phi(v, b)
      BY <3>2 DEF Phi
    <3>3. CASE I \in Range(G.code[b])
      BY <1>1, <1>2, <3>3 DEF AllocasInEntry
    <3> QED
      BY <1>8, <3>1, <3>2, <3>3 DEF Range
  <2> QED
    BY <1>6, <2>1 DEF AllocasInEntry
<1>13. Sound(H)
  BY <1>2, <1>5, <1>6, <1>7, <1>11, <1>12 DEF Sound
<1> QED
  BY <1>13

\* The phis of a variable are placed.
LEMMA StepPlacePhis ==
  ASSUME MRInv, PlacePhis
  PROVE  MRInv'
<1>1. /\ stage = "phis" /\ stage' = "phis" /\ dtStep = "done" /\ DTInv /\ PassTypes
      /\ Sound(fn) /\ PhisLack(fn, DOMAIN phis, BlocksOf(fn)) /\ Named
      /\ UNCHANGED <<original, stage, vars, DF, calls>> /\ UNCHANGED dtVars
  BY DEF MRInv, PlacePhis, PassTypes, Awaited
<1>2. PICK v \in left :
        /\ fn' = WithPhis(fn, joins(v), v)
        /\ phis' = [id \in DOMAIN phis \cup {PhiId(v, b) : b \in joins(v)} |->
                      IF id \in DOMAIN phis THEN phis[id] ELSE v]
        /\ left' = left \ {v}
  BY DEF PlacePhis, WithPhis
<1>3. PICK G, H, B, J, D, L, W : /\ G = fn /\ H = fn' /\ B = BlocksOf(fn) /\ J = joins(v)
                                 /\ D = DOMAIN phis /\ L = left /\ W = vars
  OBVIOUS
<1>4. PICK E : E = D \cup {PhiId(v, b) : b \in J}
  OBVIOUS
<1>5. J \subseteq B
  BY <1>1, <1>3, JoinsAreBlocks DEF PassTypes, Sound, Shape
<1>6. v \in W /\ v \in L /\ L \subseteq W /\ left' = L \ {v} /\ vars' = W /\ DOMAIN phis' = E
  BY <1>1, <1>2, <1>3, <1>4 DEF PassTypes
<1>7. /\ \A u \in W, b \in B :
           /\ PhiId(u, b) # Poison
           /\ \A x \in W, c \in B : PhiId(x, c) = PhiId(u, b) => x = u /\ c = b
      /\ \A id \in D : \E u \in W \ L, b \in B : id = PhiId(u, b)
      /\ \A b \in B : \A k \in DOMAIN G.code[b] :
           /\ G.code[b][k].id # Poison
           /\ \A u \in L, c \in B :
                PhiId(u, c) # G.code[b][k].id /\ PhiId(u, c) \notin Range(G.code[b][k].args)
           /\ G.code[b][k].id \in D =>
                \A c \in B : \A j \in DOMAIN G.code[c] :
                  G.code[c][j].id = G.code[b][k].id => c = b /\ j = k
  BY <1>1, <1>3 DEF Named, Unplaced
<1>8. Fresh(G, v)
  BY <1>3, <1>6, <1>7 DEF Fresh
<1>9. /\ Sound(G) /\ Sound(H) /\ SameFlow(G, H) /\ BlocksOf(H) = B
      /\ \A c : predecessors(H, c) = predecessors(G, c)
      /\ \A b \in B : \A k \in DOMAIN H.code[b] : IsPrefixed(G, J, v, H, b, k)
  <2>1. Sound(G) /\ Shape(G) /\ B = BlocksOf(G) /\ H = WithPhis(G, J, v)
    BY <1>1, <1>2, <1>3 DEF Sound
  <2> QED
    BY <1>8, <2>1, SoundWithPhis, ShapeWithPhis DEF SameFlow
<1>10. DTInv'
  BY <1>1, <1>3, <1>9, WalkingKept
<1>11. PassTypes'
  <2>1. \A id \in DOMAIN phis' : phis'[id] \in W
    BY <1>1, <1>2, <1>3, <1>6 DEF PassTypes
  <2>2. BlocksOf(fn)' = B
    BY <1>3, <1>9
  <2> QED
    BY <1>1, <1>3, <1>6, <2>1, <2>2 DEF PassTypes, dtVars
\* An instruction of the new code is one of the phis, or is not.
<1>12. ASSUME NEW b \in B, NEW k \in DOMAIN H.code[b], NEW I, I = H.code[b][k]
       PROVE  /\ k \in Nat
              /\ \/ b \in J /\ k = 1 /\ I = Phi(v, b) /\ I.id = PhiId(v, b)
                 \/ /\ Before(J, b, k) \in DOMAIN G.code[b] /\ Before(J, b, k) \in Nat
                    /\ I = G.code[b][Before(J, b, k)]
                    /\ \A c \in B : I.id # PhiId(v, c)
  <2>1. Phi(v, b).id = PhiId(v, b)
    BY DEF Phi
  <2> QED
    BY <1>6, <1>7, <1>9, <1>12, <2>1 DEF IsPrefixed
<1>13. PhisLack(H, E, B)
  <2>1. ASSUME NEW b \in B, NEW k \in DOMAIN H.code[b], NEW I, I = H.code[b][k], IsPhi(I)
        PROVE  /\ IsInjective(I.dests)
               /\ Range(I.dests) = IF I.id \in E THEN predecessors(H, b) \ B ELSE predecessors(H, b)
    <3>1. CASE b \in J /\ I = Phi(v, b) /\ I.id = PhiId(v, b)
      <4>1. I.id \in E /\ I.dests = <<>>
        BY <1>4, <3>1 DEF Phi
      <4>2. predecessors(H, b) \ B = {}
        BY <1>9 DEF predecessors
      <4> QED
        BY <4>1, <4>2 DEF IsInjective, Range
    <3>2. ASSUME NEW m \in DOMAIN G.code[b], I = G.code[b][m], \A c \in B : I.id # PhiId(v, c)
          PROVE  /\ IsInjective(I.dests)
                 /\ Range(I.dests) = IF I.id \in E THEN predecessors(H, b) \ B ELSE predecessors(H, b)
      <4>1. I.id \in E <=> I.id \in D
        BY <1>4, <1>5, <3>2
      <4>2. /\ IsInjective(I.dests)
            /\ Range(I.dests) = IF I.id \in D THEN predecessors(G, b) \ B ELSE predecessors(G, b)
        BY <1>1, <1>3, <2>1, <3>2 DEF PhisLack
      <4> QED
        BY <1>9, <4>1, <4>2
    <3>3. \/ b \in J /\ I = Phi(v, b) /\ I.id = PhiId(v, b)
          \/ \E m \in DOMAIN G.code[b] : I = G.code[b][m] /\ \A c \in B : I.id # PhiId(v, c)
      BY <1>12, <2>1
    <3> QED
      BY <3>1, <3>2, <3>3
  <2> QED
    BY <1>9, <2>1 DEF PhisLack
<1>14. \A id \in E : \E u \in W \ (L \ {v}), b \in B : id = PhiId(u, b)
  BY <1>4, <1>5, <1>6, <1>7
<1>15. ASSUME NEW b \in B, NEW k \in DOMAIN H.code[b], NEW I, I = H.code[b][k]
       PROVE  /\ I.id # Poison
              /\ \A u \in L \ {v}, c \in B : PhiId(u, c) # I.id /\ PhiId(u, c) \notin Range(I.args)
              /\ I.id \in E => \A c \in B : \A j \in DOMAIN H.code[c] :
                                 H.code[c][j].id = I.id => c = b /\ j = k
  <2>1. CASE b \in J /\ k = 1 /\ I = Phi(v, b) /\ I.id = PhiId(v, b)
    <3>1. Range(I.args) = {}
      BY <2>1 DEF Phi, Range
    <3>2. ASSUME NEW c \in B, NEW j \in DOMAIN H.code[c], H.code[c][j].id = I.id
          PROVE  c = b /\ j = k
      <4>1. PICK K : K = H.code[c][j]
        OBVIOUS
      <4>2. c \in J /\ j = 1 /\ K.id = PhiId(v, c)
        BY <1>12, <2>1, <3>2, <4>1
      <4>3. PhiId(v, c) = PhiId(v, b)
        BY <2>1, <3>2, <4>1, <4>2
      <4>4. \A x \in B : PhiId(v, x) = PhiId(v, b) => x = b
        BY <1>6, <1>7
      <4> QED
        BY <2>1, <4>2, <4>3, <4>4
    <3> QED
      BY <1>6, <1>7, <2>1, <3>1, <3>2
  <2>2. ASSUME NEW m \in Nat, m = Before(J, b, k), m \in DOMAIN G.code[b], I = G.code[b][m], k \in Nat,
               \A c \in B : I.id # PhiId(v, c)
        PROVE  /\ I.id # Poison
               /\ \A u \in L \ {v}, c \in B : PhiId(u, c) # I.id /\ PhiId(u, c) \notin Range(I.args)
               /\ I.id \in E => \A c \in B : \A j \in DOMAIN H.code[c] :
                                  H.code[c][j].id = I.id => c = b /\ j = k
    <3>1. I.id \in E <=> I.id \in D
      BY <1>4, <1>5, <2>2
    <3>2. ASSUME I.id \in D, NEW c \in B, NEW j \in DOMAIN H.code[c], H.code[c][j].id = I.id
          PROVE  c = b /\ j = k
      <4>1. PICK K, n : K = H.code[c][j] /\ n = Before(J, c, j)
        OBVIOUS
      <4>2. n \in DOMAIN G.code[c] /\ n \in Nat /\ j \in Nat /\ K = G.code[c][n]
        BY <1>12, <2>2, <3>2, <4>1
      <4>3. c = b /\ n = m
        BY <1>7, <2>2, <3>2, <4>1, <4>2
      <4> QED
        BY <2>2, <4>1, <4>2, <4>3 DEF Before
    <3> QED
      BY <1>7, <2>2, <3>1, <3>2
  <2> QED
    BY <1>12, <1>15, <2>1, <2>2
<1>16. Named'
  <2>1. BlocksOf(fn)' = B /\ fn' = H /\ vars' = W /\ Unplaced' = L \ {v} /\ DOMAIN phis' = E
    BY <1>1, <1>3, <1>6, <1>9 DEF Unplaced
  <2>2. \A b \in B : \A k \in DOMAIN H.code[b] :
          /\ H.code[b][k].id # Poison
          /\ \A u \in L \ {v}, c \in B :
               PhiId(u, c) # H.code[b][k].id /\ PhiId(u, c) \notin Range(H.code[b][k].args)
          /\ H.code[b][k].id \in E =>
               \A c \in B : \A j \in DOMAIN H.code[c] :
                 H.code[c][j].id = H.code[b][k].id => c = b /\ j = k
    BY <1>15
  <2> QED
    BY <1>7, <1>14, <2>1, <2>2 DEF Named
<1>17. Sound(fn)' /\ PhisLack(fn, DOMAIN phis, Awaited)'
  <2>1. Awaited' = B
    BY <1>1, <1>3, <1>9 DEF Awaited
  <2> QED
    BY <1>3, <1>6, <1>9, <1>13, <2>1
<1> QED
  BY <1>1, <1>10, <1>11, <1>16, <1>17 DEF MRInv

\* Children in the tree: below their parent, and not below each other.
LEMMA ChildFacts ==
  ASSUME DTInv, dtStep = "done", NEW b, NEW c \in children(b)
  PROVE  /\ c \in Reachable(fn) /\ b \in Reachable(fn) /\ c # b /\ c # Entry(fn)
         /\ dominates(fn, b, c) /\ ~dominates(fn, c, b)
         /\ \A a \in Reachable(fn) : dominates(fn, a, c) /\ a # c => dominates(fn, a, b)
         /\ \A d \in children(b) : dominates(fn, d, c) => d = c
<1>1. Flow(fn) /\ \A x \in Reachable(fn) \ {Entry(fn)} : IsIdom(idom[x], x)
  BY DEF DTInv, Walking
<1>2. ASSUME NEW x \in children(b)
      PROVE  /\ x \in Reachable(fn) /\ b \in Reachable(fn) /\ x # b /\ x # Entry(fn)
             /\ dominates(fn, b, x)
             /\ \A a \in Reachable(fn) : dominates(fn, a, x) /\ a # x => dominates(fn, a, b)
  <2>1. x \in Reachable(fn) \ {Entry(fn)} /\ idom[x] = b
    BY <1>2 DEF children
  <2> QED
    BY <1>1, <2>1 DEF IsIdom
<1>3. ~dominates(fn, c, b)
  BY <1>1, <1>2, DominatesAntisymmetric
<1>4. \A d \in children(b) : dominates(fn, d, c) => d = c
  <2>1. ASSUME NEW d \in children(b), dominates(fn, d, c), d # c
        PROVE  FALSE
    <3>1. dominates(fn, d, b) /\ dominates(fn, b, d) /\ d # b /\ d \in Reachable(fn)
      BY <1>2, <2>1
    <3> QED
      BY <1>1, <3>1, DominatesAntisymmetric
  <2> QED
    BY <2>1
<1> QED
  BY <1>2, <1>3, <1>4

\* Between a block and another that it dominates there is a child of the first.
LEMMA ChildBetween ==
  ASSUME DTInv, dtStep = "done", NEW a \in Reachable(fn), NEW x \in Reachable(fn),
         dominates(fn, a, x), x # a
  PROVE  \E d \in children(a) : dominates(fn, d, x)
<1>1. /\ Flow(fn) /\ \A y \in Reachable(fn) \ {Entry(fn)} : IsIdom(idom[y], y)
      /\ Walking /\ path = <<>>
  BY DEF DTInv, Walking
<1>2. Reachable(fn) \subseteq DOMAIN discover
  BY <1>1, WalkEnds
<1>3. PICK R, rk : R = Reachable(fn) /\ rk = [y \in R |-> discover[y]]
  OBVIOUS
<1>4. rk \in [R -> Nat]
  BY <1>1, <1>2, <1>3 DEF Walking, Times
<1>5. ASSUME NEW y \in R, y # Entry(fn)
      PROVE  idom[y] \in R /\ rk[idom[y]] < rk[y]
  <2>1. PICK e : e = idom[y]
    OBVIOUS
  <2>2. e \in R /\ e # y /\ dominates(fn, e, y)
    BY <1>1, <1>3, <1>5, <2>1 DEF IsIdom
  <2>3. ~dominates(fn, y, e)
    BY <1>1, <1>3, <2>2, DominatesAntisymmetric
  <2>4. e \in DOMAIN discover /\ y \in DOMAIN discover /\ discover[e] \in Nat /\ discover[y] \in Nat
    BY <1>1, <1>2, <1>3, <2>2 DEF Walking, Times
  <2>5. ~(discover[y] <= discover[e])
    <3>1. ASSUME discover[y] <= discover[e]
          PROVE  FALSE
      <4>1. y \in DOMAIN finish /\ finish[y] < discover[e]
        BY <1>1, <1>3, <2>3, <2>4, <3>1 DEF Walking, Intervals
      <4>2. discover[y] < finish[y] /\ finish[y] \in Nat
        BY <1>1, <4>1 DEF Walking, Times
      <4>3. discover[e] <= discover[y]
        BY <1>1, <1>3, <2>2, <2>4 DEF Walking, Intervals
      <4> QED
        BY <2>4, <4>1, <4>2, <4>3
    <3> QED
      BY <3>1
  <2> QED
    BY <1>3, <2>1, <2>2, <2>4, <2>5
<1> DEFINE T == {y \in R : dominates(fn, a, y) /\ y # a => \E d \in children(a) : dominates(fn, d, y)}
<1>6. ASSUME NEW y \in R, \A z \in R : rk[z] < rk[y] => z \in T
      PROVE  y \in T
  <2>1. SUFFICES ASSUME dominates(fn, a, y), y # a
                 PROVE  \E d \in children(a) : dominates(fn, d, y)
    OBVIOUS
  <2>2. y # Entry(fn)
    BY <1>1, <2>1, EntryFacts
  <2>3. PICK e : e = idom[y]
    OBVIOUS
  <2>4. /\ e \in R /\ e \in T /\ dominates(fn, e, y) /\ dominates(fn, a, e)
    <3>1. e \in R /\ e \in T
      BY <1>5, <1>6, <2>2, <2>3
    <3>2. IsIdom(e, y)
      BY <1>1, <1>3, <2>2, <2>3
    <3> QED
      BY <2>1, <3>1, <3>2 DEF IsIdom
  <2>5. CASE e = a
    <3>1. y \in children(a)
      BY <1>3, <2>2, <2>3, <2>5 DEF children
    <3> QED
      BY <1>1, <3>1, DominatesReflexive
  <2>6. CASE e # a
    <3>1. PICK d \in children(a) : dominates(fn, d, e)
      BY <2>4, <2>6
    <3> QED
      BY <1>1, <2>4, <3>1, DominatesTransitive
  <2> QED
    BY <2>5, <2>6
<1>7. R \subseteq T
  <2> HIDE DEF T
  <2> QED
    BY <1>4, <1>6, RankInd
<1> QED
  BY <1>3, <1>7

LEMMA EntryDominates ==
  ASSUME NEW G, Flow(G), NEW x
  PROVE  dominates(G, Entry(G), x)
<1>1. IsReached(G, {Entry(G)}, ReachableAvoiding(G, {Entry(G)}))
  BY ReachedFacts
<1>2. ReachableAvoiding(G, {Entry(G)}) \subseteq {}
  BY <1>1 DEF IsReached
<1> QED
  BY <1>2 DEF dominates

\* The first call of Rename::dfs.
LEMMA StepRenameEntry ==
  ASSUME MRInv, RenameEntry
  PROVE  MRInv'
<1>1. /\ stage = "phis" /\ stage' = "rename" /\ left = {} /\ dtStep = "done"
      /\ DTInv /\ PassTypes
      /\ Sound(fn) /\ PhisLack(fn, DOMAIN phis, BlocksOf(fn)) /\ Named
      /\ UNCHANGED <<fn, original, vars, left, DF, phis>> /\ UNCHANGED dtVars
  BY DEF MRInv, RenameEntry, PassTypes, Awaited
<1>2. PICK c : c = RenameCall(Entry(fn), [v \in vars |-> Poison]) /\ calls' = <<c>>
  BY DEF RenameEntry
<1>3. /\ IsCallRecord(c)
      /\ c.block = Entry(fn) /\ c.next = 1 /\ c.left = children(Entry(fn))
      /\ DOMAIN c.defs = vars /\ \A v \in vars : c.defs[v] = Poison
  BY <1>2 DEF RenameCall, IsCallRecord
<1>4. /\ Shape(fn) /\ Flow(fn) /\ BlocksOf(fn) = Reachable(fn) /\ Entry(fn) \in BlocksOf(fn)
  BY <1>1 DEF Sound, Shape, Flow
<1>5. DTInv'
  BY <1>1, AnalysisIdle
<1>6. PassTypes'
  BY <1>1 DEF PassTypes, dtVars
<1>7. Unplaced' = Unplaced
  BY <1>1 DEF Unplaced
<1>8. Sound(fn)' /\ PhisLack(fn, DOMAIN phis, BlocksOf(fn))' /\ Named'
  BY <1>1, <1>7, PassIdle
<1>9. /\ \A b : children(b)' = children(b)
      /\ Len(calls') = 1 /\ calls'[1] = c /\ calls' # <<>>
  BY <1>1, <1>2 DEF children, dtVars
<1>10. IsCall(c)'
  <2>1. \A v \in vars : Available(fn, Poison, c.block, 1)
    BY <1>1 DEF Named, Available
  <2> QED
    BY <1>1, <1>3, <1>4, <1>9, <2>1 DEF IsCall
<1>11. Calls'
  <2>1. calls' \in Seq(Range(calls'))
    <3>1. c \in Range(calls')
      BY <1>2 DEF Range
    <3> QED
      BY <1>2, <3>1
  <2>2. \A d \in c.left : ~dominates(fn, d, c.block)
    BY <1>1, <1>3, ChildFacts
  <2>3. \A k \in 1 .. 1 : k = 1
    OBVIOUS
  <2>4. \A k \in 2 .. 1 : FALSE
    OBVIOUS
  <2> QED
    BY <1>1, <1>3, <1>9, <1>10, <2>1, <2>2, <2>3, <2>4 DEF Calls
<1>12. Unended' = BlocksOf(fn)
  <2>1. ASSUME NEW x \in BlocksOf(fn)
        PROVE  x = c.block \/ \E d \in c.left : dominates(fn, d, x)
    BY <1>1, <1>3, <1>4, EntryDominates, ChildBetween
  <2>2. c.next <= Len(fn.code[c.block]) + 1
    BY <1>3, <1>4, ShapeFacts
  <2>3. 1 \in 1 .. 1
    OBVIOUS
  <2> QED
    BY <1>1, <1>9, <2>1, <2>2, <2>3 DEF Unended
<1>13. PhisLack(fn, DOMAIN phis, Awaited)'
  BY <1>1, <1>8, <1>12 DEF Awaited
<1> QED
  BY <1>1, <1>5, <1>6, <1>8, <1>11, <1>13 DEF MRInv

\* While definitions stay where they are, so does what is said of them.
LEMMA RenameKept ==
  ASSUME MRInv, stage = "rename", UNCHANGED <<original, stage, vars, left, DF, phis>>,
         UNCHANGED dtVars, SameIds(fn, fn'), Sound(fn'), Calls',
         PhisLack(fn', DOMAIN phis, Unended')
  PROVE  MRInv'
<1>1. /\ DTInv /\ PassTypes /\ Sound(fn) /\ Named /\ left = {} /\ dtStep = "done"
  BY DEF MRInv, PassTypes
<1>2. PICK G, H, B : G = fn /\ H = fn' /\ B = BlocksOf(fn)
  OBVIOUS
<1>3. /\ SameFlow(G, H) /\ BlocksOf(H) = B
      /\ \A b \in B : /\ DOMAIN H.code[b] = DOMAIN G.code[b]
                      /\ \A k \in DOMAIN G.code[b] : H.code[b][k].id = G.code[b][k].id
  BY <1>2 DEF SameIds, SameFlow
<1>4. DTInv'
  BY <1>1, <1>2, <1>3, WalkingKept
<1>5. PassTypes'
  BY <1>1, <1>2, <1>3 DEF PassTypes, dtVars
<1>6. Named'
  <2>1. PICK W, D : W = vars /\ D = DOMAIN phis
    OBVIOUS
  <2>2. /\ \A v \in W, b \in B :
             /\ PhiId(v, b) # Poison
             /\ \A u \in W, c \in B : PhiId(u, c) = PhiId(v, b) => u = v /\ c = b
        /\ \A id \in D : \E v \in W, b \in B : id = PhiId(v, b)
        /\ \A b \in B : \A k \in DOMAIN G.code[b] :
             /\ G.code[b][k].id # Poison
             /\ G.code[b][k].id \in D =>
                  \A c \in B : \A j \in DOMAIN G.code[c] :
                    G.code[c][j].id = G.code[b][k].id => c = b /\ j = k
    BY <1>1, <1>2, <2>1 DEF Named
  <2>3. Unplaced' = {} /\ fn' = H /\ BlocksOf(fn)' = B /\ vars' = W /\ DOMAIN phis' = D
    BY <1>1, <1>2, <1>3, <2>1 DEF Unplaced
  <2>4. \A b \in B : \A k \in DOMAIN H.code[b] :
          /\ H.code[b][k].id # Poison
          /\ H.code[b][k].id \in D =>
               \A c \in B : \A j \in DOMAIN H.code[c] :
                 H.code[c][j].id = H.code[b][k].id => c = b /\ j = k
    BY <1>3, <2>2
  <2> QED
    BY <2>2, <2>3, <2>4 DEF Named
<1>7. PhisLack(fn, DOMAIN phis, Awaited)'
  BY DEF Awaited
<1> QED
  BY <1>1, <1>4, <1>5, <1>6, <1>7 DEF MRInv

LEMMA SameIdsReflexive ==
  ASSUME NEW G, Flow(G)
  PROVE  SameIds(G, G)
BY DEF SameIds, SameFlow, Flow

LEMMA OfRange ==
  ASSUME NEW F, NEW t \in Seq(F)
  PROVE  t \in Seq(Range(t))
<1> DEFINE Q == Range(t)
<1>1. \A k \in DOMAIN t : t[k] \in Q
  BY DEF Range
<1> HIDE DEF Q
<1>2. t \in Seq(Q)
  BY <1>1
<1> QED
  BY <1>2 DEF Q

\* The innermost call changes.
IsUpdated(s, t, c) ==
  /\ t \in Seq(Range(t)) /\ Len(t) = Len(s) /\ Len(s) \in Nat /\ Len(s) >= 1
  /\ t # <<>> /\ t[1] = c /\ Head(s) = s[1]
  /\ \A k \in 2 .. Len(s) : t[k] = s[k]

LEMMA UpdateFacts ==
  ASSUME NEW s, s \in Seq(Range(s)), s # <<>>, NEW c, NEW t, t = <<c>> \o Tail(s)
  PROVE  IsUpdated(s, t, c)
<1> DEFINE F == Range(s) \cup {c}
<1>1. s \in Seq(F) /\ c \in F
  <2>1. DOMAIN s = 1 .. Len(s) /\ Len(s) \in Nat
    OBVIOUS
  <2>2. \A k \in DOMAIN s : s[k] \in F
    BY DEF Range
  <2> HIDE DEF F
  <2>3. s \in Seq(F)
    BY <2>1, <2>2
  <2> QED
    BY <2>3 DEF F
<1>2. Head(s) = s[1] /\ Len(s) \in Nat /\ Len(s) >= 1
  <2> HIDE DEF F
  <2> QED
    BY <1>1
<1> HIDE DEF F
<1>3. /\ t \in Seq(F) /\ Len(t) = Len(s) /\ t[1] = c
      /\ \A k \in 2 .. Len(s) : t[k] = s[k]
  BY <1>1, TopFacts
<1>4. t \in Seq(Range(t))
  BY <1>3, OfRange
<1> QED
  BY <1>2, <1>3, <1>4 DEF IsUpdated

\* A call goes on.
LEMMA CallsUpdated ==
  ASSUME MRInv, stage = "rename", calls # <<>>, UNCHANGED vars, UNCHANGED dtVars,
         SameIds(fn, fn'), Shape(fn'), NEW c, Update(c),
         IsCallRecord(c), c.block = Running.block, c.left = Running.left,
         c.next = Running.next + 1, Running.next <= Len(fn.code[c.block]) + 1,
         DOMAIN c.defs = vars,
         \A v \in vars : Available(fn, c.defs[v], c.block, c.next)
  PROVE  /\ Calls'
         /\ Unended' = {x \in Unended : x = c.block => c.next <= Len(fn.code[c.block]) + 1}
<1>1. /\ Calls /\ DTInv /\ Sound(fn) /\ dtStep = "done"
  BY DEF MRInv, PassTypes
<1>2. PICK G, H, B, s, t, W : /\ G = fn /\ H = fn' /\ B = BlocksOf(fn) /\ s = calls /\ t = calls'
                              /\ W = vars
  OBVIOUS
<1>3. /\ s \in Seq(Range(s)) /\ t \in Seq(Range(t)) /\ Len(t) = Len(s)
      /\ Len(s) \in Nat /\ Len(s) >= 1
      /\ t # <<>> /\ t[1] = c /\ Running = s[1] /\ 1 \in 1 .. Len(s)
      /\ \A k \in 2 .. Len(s) : t[k] = s[k]
  <2>1. s \in Seq(Range(s)) /\ s # <<>> /\ t = <<c>> \o Tail(s)
    BY <1>1, <1>2 DEF Calls, Update
  <2>2. /\ t \in Seq(Range(t)) /\ Len(t) = Len(s) /\ Len(s) \in Nat /\ Len(s) >= 1
        /\ t # <<>> /\ t[1] = c /\ Head(s) = s[1]
        /\ \A k \in 2 .. Len(s) : t[k] = s[k]
    <3>1. IsUpdated(s, t, c)
      BY <2>1, UpdateFacts
    <3> QED
      BY <3>1 DEF IsUpdated
  <2>3. Running = Head(s)
    BY <1>2 DEF Running
  <2>4. 1 \in 1 .. Len(s)
    BY <2>2
  <2> QED
    BY <2>1, <2>2, <2>3, <2>4
<1>4. /\ Shape(G) /\ Flow(G) /\ SameFlow(G, H) /\ BlocksOf(H) = B /\ Shape(H)
      /\ Reachable(H) = Reachable(G) /\ Entry(H) = Entry(G)
      /\ \A x, y : dominates(H, x, y) <=> dominates(G, x, y)
      /\ \A val, b, n : Available(H, val, b, n) <=> Available(G, val, b, n)
  <2>1. Flow(G) /\ SameFlow(G, H) /\ Shape(G) /\ Shape(H) /\ BlocksOf(H) = B
    BY <1>1, <1>2 DEF Sound, Shape, SameIds, SameFlow
  <2>2. SameIds(G, H)
    BY <1>2
  <2> QED
    BY <2>1, <2>2, FlowKept, AvailableKept
<1>5. \A b : children(b)' = children(b)
  BY <1>2, <1>4 DEF children, dtVars
<1>6. \A b \in B : Len(H.code[b]) = Len(G.code[b]) /\ Len(G.code[b]) \in Nat
  <2> TAKE b \in B
  <2>1. DOMAIN H.code[b] = DOMAIN G.code[b]
    BY <1>2 DEF SameIds
  <2>2. PICK m, n : m = Len(G.code[b]) /\ n = Len(H.code[b])
    OBVIOUS
  <2>3. /\ m \in Nat /\ m >= 1 /\ DOMAIN G.code[b] = 1 .. m
        /\ n \in Nat /\ n >= 1 /\ DOMAIN H.code[b] = 1 .. n
    BY <1>2, <1>4, <2>2, ShapeFacts
  <2>4. 1 .. m = 1 .. n
    BY <2>1, <2>3
  <2>5. m = n
    BY <2>3, <2>4
  <2> QED
    BY <2>2, <2>3, <2>5
<1>7. /\ \A k \in 1 .. Len(s) : IsCall(s[k])
      /\ \A k \in 2 .. Len(s) : s[k].next > Len(G.code[s[k].block]) + 1
      /\ s[1].next <= Len(G.code[s[1].block]) + 1 => s[1].left = children(s[1].block)
      /\ \A j, k \in 1 .. Len(s) : j # k => s[j].block # s[k].block
      /\ \A j, k \in 1 .. Len(s) : \A d \in s[k].left : ~dominates(G, d, s[j].block)
  BY <1>1, <1>2 DEF Calls
<1>8. /\ c.block = s[1].block /\ c.left = s[1].left /\ c.next = s[1].next + 1
      /\ s[1].next \in Nat /\ s[1].next # 0 /\ c.next \in Nat \ {0}
      /\ c.block \in B /\ c.left \subseteq children(c.block)
  <2>1. PICK r : r = s[1]
    OBVIOUS
  <2>2. r.next \in Nat \ {0} /\ r.block \in B /\ r.left \subseteq children(r.block)
    BY <1>2, <1>3, <1>7, <2>1 DEF IsCall
  <2>3. c.block = r.block /\ c.left = r.left /\ c.next = r.next + 1
    BY <1>3, <2>1
  <2> QED
    BY <2>1, <2>2, <2>3
<1>9. \A k \in 1 .. Len(s) : t[k].left = s[k].left /\ t[k].block = s[k].block /\ (k = 1 \/ t[k] = s[k])
  <2> TAKE k \in 1 .. Len(s)
  <2>1. CASE k = 1
    BY <1>3, <1>8, <2>1
  <2>2. CASE k # 1
    <3>1. k \in 2 .. Len(s)
      BY <1>3, <2>2
    <3> QED
      BY <1>3, <3>1
  <2> QED
    BY <2>1, <2>2
<1>10. IsCall(c)'
  BY <1>2, <1>4, <1>5, <1>8 DEF IsCall
<1>11. \A d : IsCall(d) => IsCall(d)'
  BY <1>2, <1>4, <1>5 DEF IsCall
<1>12. Calls'
  <2>1. \A k \in 1 .. Len(t) : IsCall(t[k])'
    BY <1>3, <1>7, <1>9, <1>10, <1>11
  <2>2. \A k \in 2 .. Len(t) : t[k].next > Len(H.code[t[k].block]) + 1
    <3> TAKE k \in 2 .. Len(t)
    <3>1. t[k] = s[k] /\ k \in 1 .. Len(s) /\ k \in 2 .. Len(s)
      BY <1>3
    <3>2. s[k].block \in B
      BY <1>2, <1>7, <3>1 DEF IsCall
    <3> QED
      BY <1>6, <1>7, <3>1, <3>2
  <2>3. t[1].next <= Len(H.code[t[1].block]) + 1 => t[1].left = children(t[1].block)
    BY <1>2, <1>3, <1>6, <1>7, <1>8
  <2>4. \A j, k \in 1 .. Len(t) : \A d \in t[k].left : ~dominates(H, d, t[j].block)
    BY <1>3, <1>4, <1>7, <1>9
  <2>5. \A j, k \in 1 .. Len(t) : j # k => t[j].block # t[k].block
    BY <1>3, <1>7, <1>9
  <2> QED
    BY <1>2, <1>3, <1>5, <2>1, <2>2, <2>3, <2>4, <2>5 DEF Calls
<1>13. ASSUME NEW x \in B
       PROVE  x \in Unended' <=> x \in Unended /\ (x = c.block => c.next <= Len(G.code[c.block]) + 1)
  <2> DEFINE below == \E k \in 1 .. Len(s) : \E d \in s[k].left : dominates(G, d, x)
  <2>1. x \in Unended <=> below \/ (x = s[1].block /\ s[1].next <= Len(G.code[s[1].block]) + 1)
    BY <1>2, <1>13 DEF Unended
  <2>2. x \in Unended' <=> below \/ (x = c.block /\ c.next <= Len(G.code[c.block]) + 1)
    <3>1. x \in Unended' <=>
            \/ \E k \in 1 .. Len(t) : \E d \in t[k].left : dominates(H, d, x)
            \/ x = t[1].block /\ t[1].next <= Len(H.code[t[1].block]) + 1
      BY <1>2, <1>3, <1>4, <1>13 DEF Unended
    <3>2. (\E k \in 1 .. Len(t) : \E d \in t[k].left : dominates(H, d, x)) <=> below
      BY <1>3, <1>4, <1>9
    <3> QED
      BY <1>3, <1>6, <1>8, <3>1, <3>2
  <2>3. below => x # s[1].block
    BY <1>3, <1>7
  <2>4. c.next <= Len(G.code[c.block]) + 1 => s[1].next <= Len(G.code[c.block]) + 1
    BY <1>6, <1>8
  <2> QED
    BY <1>8, <2>1, <2>2, <2>3, <2>4
<1>14. Unended' \subseteq B /\ Unended \subseteq B
  BY <1>2, <1>4 DEF Unended
<1> QED
  BY <1>2, <1>12, <1>13, <1>14

\* Operands are replaced.
Reusing(I, x, val) ==
  [I EXCEPT !.args = [j \in DOMAIN @ |-> IF @[j] = x THEN val ELSE @[j]]]

LEMMA ArgsReplaced ==
  ASSUME NEW I, NEW B, IsInstruction(I, B), NEW x, NEW val, NEW J, J = Reusing(I, x, val)
  PROVE  /\ IsInstruction(J, B) /\ J.op = I.op /\ J.id = I.id /\ J.dests = I.dests
         /\ \A j \in DOMAIN I.args : J.args[j] = IF I.args[j] = x THEN val ELSE I.args[j]
         /\ DOMAIN J.args = DOMAIN I.args
         /\ IsPhi(I) => DOMAIN I.args = DOMAIN I.dests
<1>1. PICK a, d, e, n : /\ a = I.args /\ d = I.dests /\ n = Len(a)
                        /\ e = [j \in DOMAIN a |-> IF a[j] = x THEN val ELSE a[j]]
  OBVIOUS
<1>2. /\ I = [op |-> I.op, id |-> I.id, args |-> a, dests |-> d]
      /\ I.op \in Ops /\ d \in Seq(B) /\ a \in Seq(Range(a))
      /\ IsPhi(I) => Len(a) = Len(d)
      /\ I.op = "load" => Len(a) = 1
      /\ I.op = "store" => Len(a) = 2
  BY <1>1 DEF IsInstruction
<1>3. J = [op |-> I.op, id |-> I.id, args |-> e, dests |-> d]
  BY <1>1, <1>2 DEF Reusing
<1>4. n \in Nat /\ DOMAIN a = 1 .. n /\ Len(a) = n
  <2> DEFINE Q == Range(a)
  <2>1. a \in Seq(Q)
    BY <1>2
  <2> HIDE DEF Q
  <2> QED
    BY <1>1, <2>1
<1>5. e \in Seq(Range(e)) /\ Len(e) = n /\ DOMAIN e = 1 .. n
  <2>1. e = [j \in 1 .. n |-> IF a[j] = x THEN val ELSE a[j]]
    BY <1>1, <1>4
  <2> DEFINE Q == Range(e)
  <2>2. \A j \in DOMAIN e : e[j] \in Q
    BY DEF Range
  <2> HIDE DEF Q
  <2>3. e \in [1 .. n -> Q]
    BY <2>1, <2>2
  <2>4. e \in Seq(Q)
    BY <1>4, <2>3
  <2>5. Len(e) = n
    BY <1>4, <2>1, <2>4
  <2> QED
    BY <2>1, <2>4, <2>5 DEF Q
<1>6. J.op = I.op /\ J.id = I.id /\ J.args = e /\ J.dests = d
  BY <1>3
<1>7. IsInstruction(J, B)
  BY <1>2, <1>3, <1>4, <1>5, <1>6 DEF IsInstruction, IsPhi
<1>8. IsPhi(I) => DOMAIN a = DOMAIN d
  BY <1>2, <1>4
<1> QED
  BY <1>1, <1>4, <1>5, <1>6, <1>7, <1>8

\* The uses of x become uses of what is available where x is defined.
LEMMA UsesReplaced ==
  ASSUME NEW G, Sound(G), NEW b \in BlocksOf(G), NEW n \in DOMAIN G.code[b],
         NEW x, x = G.code[b][n].id, NEW val, Available(G, val, b, n),
         NEW H, H = ReplaceUses(G, x, val)
  PROVE  /\ Sound(H) /\ SameIds(G, H)
         /\ \A c \in BlocksOf(G) : \A k \in DOMAIN G.code[c] :
              H.code[c][k].dests = G.code[c][k].dests
<1> DEFINE B == BlocksOf(G)
           X == [c \in B |-> [k \in DOMAIN G.code[c] |-> Reusing(G.code[c][k], x, val)]]
<1>1. H = [G EXCEPT !.code = X]
  BY DEF ReplaceUses, Reusing
<1>2. /\ DOMAIN X = B
      /\ \A c \in B : X[c] = [k \in DOMAIN G.code[c] |-> X[c][k]]
      /\ \A c \in B : \A k \in DOMAIN G.code[c] : X[c][k] = Reusing(G.code[c][k], x, val)
  OBVIOUS
<1> HIDE DEF X
<1>3. /\ Shape(G) /\ BlocksOf(G) = Reachable(G)
      /\ \A c \in B : \A k \in DOMAIN G.code[c] : Fits(G, c, k)
  BY DEF Sound
<1>4. ASSUME NEW c \in B
      PROVE  /\ \A j \in DOMAIN G.code[c] : Available(G, x, c, j) => Available(G, val, c, j)
             /\ AtEnd(G, x, c) => AtEnd(G, val, c)
  BY <1>3, AvailableVia
<1>5. ASSUME NEW c \in B, NEW k \in DOMAIN G.code[c], NEW I, I = G.code[c][k], NEW J, J = X[c][k]
      PROVE  Rewrites(G, c, k, J) /\ J.dests = I.dests
  <2>1. /\ IsInstruction(I, B)
        /\ ~IsPhi(I) => \A v \in Range(I.args) : Available(G, v, c, k)
        /\ IsPhi(I) => \A j \in DOMAIN I.dests : AtEnd(G, I.args[j], I.dests[j])
    BY <1>3, <1>5 DEF Fits
  <2>2. J = Reusing(I, x, val)
    BY <1>2, <1>5
  <2>3. /\ IsInstruction(J, B) /\ J.op = I.op /\ J.id = I.id /\ J.dests = I.dests
        /\ \A j \in DOMAIN I.args : J.args[j] = IF I.args[j] = x THEN val ELSE I.args[j]
        /\ DOMAIN J.args = DOMAIN I.args
        /\ IsPhi(I) => DOMAIN I.args = DOMAIN I.dests
    BY <2>1, <2>2, ArgsReplaced
  <2>4. ASSUME ~IsPhi(I), NEW v \in Range(J.args)
        PROVE  Available(G, v, c, k)
    <3>1. PICK j \in DOMAIN I.args : v = IF I.args[j] = x THEN val ELSE I.args[j]
      BY <2>3, <2>4 DEF Range
    <3>2. Available(G, I.args[j], c, k)
      BY <2>1, <2>4, <3>1 DEF Range
    <3> QED
      BY <1>4, <1>5, <3>1, <3>2
  <2>5. ASSUME IsPhi(I), NEW j \in DOMAIN J.dests
        PROVE  AtEnd(G, J.args[j], J.dests[j])
    <3>1. AtEnd(G, I.args[j], I.dests[j]) /\ J.args[j] = IF I.args[j] = x THEN val ELSE I.args[j]
      BY <2>1, <2>3, <2>5
    <3>2. I.dests[j] \in B
      <4>1. PICK d : d = I.dests
        OBVIOUS
      <4>2. d \in Seq(B) /\ j \in DOMAIN d
        BY <2>1, <2>3, <2>5, <4>1 DEF IsInstruction
      <4>3. d[j] \in B
        <5> HIDE DEF B
        <5> QED
          BY <4>2
      <4> QED
        BY <4>1, <4>3
    <3> QED
      BY <1>4, <2>3, <3>1, <3>2
  <2> QED
    BY <1>5, <2>3, <2>4, <2>5 DEF Rewrites
<1>6. \A c \in B : \A k \in DOMAIN G.code[c] : Rewrites(G, c, k, X[c][k])
  <2> TAKE c \in B
  <2> TAKE k \in DOMAIN G.code[c]
  <2>1. PICK J : J = X[c][k]
    OBVIOUS
  <2>2. Rewrites(G, c, k, J)
    BY <1>5, <2>1
  <2> QED
    BY <2>1, <2>2
<1>7. Sound(H) /\ SameIds(G, H) /\ H.code = X
  <2>1. IsRewriting(G, X)
    BY <1>2, <1>6 DEF IsRewriting
  <2> QED
    BY <1>1, <2>1, SoundRewritten
<1>8. \A c \in B : \A k \in DOMAIN G.code[c] : X[c][k].dests = G.code[c][k].dests
  <2> TAKE c \in B
  <2> TAKE k \in DOMAIN G.code[c]
  <2>1. PICK I, J : I = G.code[c][k] /\ J = X[c][k]
    OBVIOUS
  <2>2. J.dests = I.dests
    BY <1>5, <2>1
  <2> QED
    BY <2>1, <2>2
<1> QED
  BY <1>7, <1>8

\* What a step of the innermost call finds.
LEMMA RunningFacts ==
  ASSUME MRInv, stage = "rename", calls # <<>>
  PROVE  /\ DTInv /\ dtStep = "done" /\ left = {} /\ PassTypes /\ Named /\ Calls
         /\ Sound(fn) /\ Shape(fn) /\ Flow(fn) /\ BlocksOf(fn) = Reachable(fn)
         /\ PhisLack(fn, DOMAIN phis, Unended)
         /\ IsCall(Running) /\ Running = calls[1] /\ 1 \in 1 .. Len(calls) /\ Len(calls) \in Nat
<1>1. /\ DTInv /\ dtStep = "done" /\ left = {} /\ PassTypes /\ Named /\ Calls
      /\ Sound(fn) /\ PhisLack(fn, DOMAIN phis, Unended)
  BY DEF MRInv, PassTypes, Awaited
<1>2. PICK s, Q : s = calls /\ Q = Range(calls)
  OBVIOUS
<1>3. s \in Seq(Q) /\ s # <<>>
  BY <1>1, <1>2 DEF Calls
<1>4. Head(s) = s[1] /\ 1 \in 1 .. Len(s) /\ Len(s) \in Nat
  BY <1>3
<1>5. IsCall(s[1])
  BY <1>1, <1>2, <1>4 DEF Calls
<1> QED
  BY <1>1, <1>2, <1>4, <1>5 DEF Sound, Shape, Running

LEMMA LackKept ==
  ASSUME NEW G, Flow(G), NEW H, SameIds(G, H),
         \A c \in BlocksOf(G) : \A k \in DOMAIN G.code[c] : H.code[c][k].dests = G.code[c][k].dests,
         NEW P, NEW S, PhisLack(G, P, S)
  PROVE  PhisLack(H, P, S)
<1>1. \A c : predecessors(H, c) = predecessors(G, c)
  BY AvailableKept
<1>2. /\ BlocksOf(H) = BlocksOf(G)
      /\ \A c \in BlocksOf(G) : DOMAIN H.code[c] = DOMAIN G.code[c]
  BY DEF SameIds, SameFlow
<1>3. ASSUME NEW b \in BlocksOf(G), NEW k \in DOMAIN G.code[b], NEW I, I = G.code[b][k],
             NEW J, J = H.code[b][k], IsPhi(J)
      PROVE  /\ IsInjective(J.dests)
             /\ Range(J.dests) = IF J.id \in P THEN predecessors(H, b) \ S ELSE predecessors(H, b)
  <2>1. J.id = I.id /\ J.op = I.op /\ J.dests = I.dests
    BY <1>3 DEF SameIds
  <2>2. IsPhi(I)
    BY <1>3, <2>1 DEF IsPhi
  <2>3. /\ IsInjective(I.dests)
        /\ Range(I.dests) = IF I.id \in P THEN predecessors(G, b) \ S ELSE predecessors(G, b)
    BY <1>3, <2>2 DEF PhisLack
  <2> QED
    BY <1>1, <2>1, <2>3
<1> QED
  BY <1>2, <1>3 DEF PhisLack

\* The innermost call goes past an instruction.
LEMMA InstructionPassed ==
  ASSUME MRInv, stage = "rename", calls # <<>>,
         Running.next <= Len(fn.code[Running.block]),
         UNCHANGED <<original, stage, vars, left, DF, phis>>, UNCHANGED dtVars,
         SameIds(fn, fn'), Sound(fn'), PhisLack(fn', DOMAIN phis, Unended),
         NEW c, Update(c), IsCallRecord(c), c.block = Running.block, c.left = Running.left,
         c.next = Running.next + 1, DOMAIN c.defs = vars,
         \A v \in vars : Available(fn, c.defs[v], c.block, c.next)
  PROVE  MRInv'
<1>1. Shape(fn) /\ Running.block \in BlocksOf(fn) /\ Running.next \in Nat
  BY RunningFacts DEF IsCall
<1>2. Len(fn.code[Running.block]) \in Nat
  BY <1>1, ShapeFacts
<1>3. Running.next <= Len(fn.code[c.block]) + 1 /\ c.next <= Len(fn.code[c.block]) + 1
  BY <1>1, <1>2
<1>4. Shape(fn')
  BY DEF Sound
<1>5. /\ Calls'
      /\ Unended' = {x \in Unended : x = c.block => c.next <= Len(fn.code[c.block]) + 1}
  BY <1>3, <1>4, CallsUpdated
<1>6. Unended' = Unended
  BY <1>3, <1>5
<1>7. PhisLack(fn', DOMAIN phis, Unended')
  BY <1>6
<1> QED
  BY <1>5, <1>7, RenameKept

\* What the call has found is available later.
LEMMA DefinitionsLater ==
  ASSUME NEW G, Shape(G), NEW d, NEW W, NEW b, NEW n \in Nat,
         \A v \in W : Available(G, d[v], b, n)
  PROVE  \A v \in W : Available(G, d[v], b, n + 1)
<1>1. n + 1 \in Nat /\ n <= n + 1
  OBVIOUS
<1> QED
  BY <1>1, AvailableLater

LEMMA StepRenameInstruction ==
  ASSUME MRInv, RenameInstruction
  PROVE  MRInv'
<1>1. /\ stage = "rename" /\ calls # <<>> /\ Running.next <= Len(fn.code[Running.block])
      /\ UNCHANGED <<original, stage, vars, left, DF, phis>> /\ UNCHANGED dtVars
  BY DEF RenameInstruction
<1>2. PICK r, b, n, I : r = Running /\ b = r.block /\ n = r.next /\ I = fn.code[b][n]
  OBVIOUS
<1>3. /\ Sound(fn) /\ Shape(fn) /\ Flow(fn) /\ Named /\ left = {}
      /\ PhisLack(fn, DOMAIN phis, Unended)
      /\ IsCall(r)
  BY <1>1, <1>2, RunningFacts
<1>4. /\ r = [block |-> b, next |-> n, defs |-> r.defs, left |-> r.left]
      /\ b \in BlocksOf(fn) /\ n \in Nat \ {0} /\ DOMAIN r.defs = vars
      /\ \A v \in vars : Available(fn, r.defs[v], b, n)
  BY <1>2, <1>3 DEF IsCall, IsCallRecord
<1>5. n \in DOMAIN fn.code[b] /\ n \in Nat
  BY <1>1, <1>2, <1>3, <1>4, ShapeFacts
<1>6. \A v \in vars : Available(fn, r.defs[v], b, n + 1)
  BY <1>3, <1>4, <1>5, DefinitionsLater
<1>7. Fits(fn, b, n)
  BY <1>3, <1>4, <1>5 DEF Sound
<1>8. PICK go : go = [r EXCEPT !.next = @ + 1]
  OBVIOUS
<1>9. go = [block |-> b, next |-> n + 1, defs |-> r.defs, left |-> r.left]
  BY <1>4, <1>8
<1>10. /\ IsCallRecord(go) /\ go.block = b /\ go.left = r.left /\ go.next = n + 1
       /\ go.defs = r.defs
  BY <1>9 DEF IsCallRecord
<1>11. SameIds(fn, fn)
  BY <1>3, SameIdsReflexive
\* A definition of x is found.
<1>12. ASSUME NEW x \in vars, NEW val, Available(fn, val, b, n + 1),
              Update([go EXCEPT !.defs[x] = val]), fn' = fn
       PROVE  MRInv'
  <2>1. PICK c, d : c = [go EXCEPT !.defs[x] = val] /\ d = [r.defs EXCEPT ![x] = val]
    OBVIOUS
  <2>2. c = [block |-> b, next |-> n + 1, defs |-> d, left |-> r.left]
    BY <1>9, <2>1
  <2>3. /\ IsCallRecord(c) /\ c.block = b /\ c.left = r.left /\ c.next = n + 1 /\ c.defs = d
    BY <2>2 DEF IsCallRecord
  <2>4. DOMAIN d = vars /\ \A v \in vars : Available(fn, d[v], b, n + 1)
    BY <1>4, <1>6, <1>12, <2>1
  <2>5. Sound(fn') /\ SameIds(fn, fn') /\ PhisLack(fn', DOMAIN phis, Unended)
    BY <1>3, <1>11, <1>12
  <2>6. Update(c)
    BY <1>12, <2>1
  <2> QED
    BY <1>1, <1>2, <2>3, <2>4, <2>5, <2>6, InstructionPassed
\* The call goes on with the definitions it has.
<1>13. ASSUME Update(go), SameIds(fn, fn'), Sound(fn'), PhisLack(fn', DOMAIN phis, Unended)
       PROVE  MRInv'
  BY <1>1, <1>2, <1>4, <1>6, <1>10, <1>13, InstructionPassed
<1>14. CASE isPlaced(I) /\ Update([go EXCEPT !.defs[phis[I.id]] = I.id]) /\ fn' = fn
  <2>1. I.id \in DOMAIN phis
    BY <1>14 DEF isPlaced
  <2>2. phis[I.id] \in vars
    BY <1>1, <2>1, RunningFacts DEF PassTypes
  <2>3. Available(fn, I.id, b, n + 1)
    <3>1. \A c \in BlocksOf(fn) : \A j \in DOMAIN fn.code[c] :
            fn.code[c][j].id = I.id => c = b /\ j = n
      BY <1>2, <1>3, <1>4, <1>5, <2>1 DEF Named
    <3> QED
      BY <1>5, <3>1 DEF Available
  <2> QED
    BY <1>12, <1>14, <2>2, <2>3
<1>15. CASE IsStoreTo(I, vars) /\ Update([go EXCEPT !.defs[I.args[2]] = I.args[1]]) /\ fn' = fn
  <2>1. I.op = "store" /\ I.args[2] \in vars /\ ~IsPhi(I)
    BY <1>15 DEF IsStoreTo, IsPhi
  <2>2. I.args[1] \in Range(I.args)
    <3>1. PICK a, Q : a = I.args /\ Q = Range(I.args)
      OBVIOUS
    <3>2. a \in Seq(Q) /\ Len(a) = 2
      BY <1>2, <1>7, <2>1, <3>1 DEF Fits, IsInstruction
    <3>3. a[1] \in Q
      BY <3>2
    <3> QED
      BY <3>1, <3>3
  <2>3. Available(fn, I.args[1], b, n)
    BY <1>2, <1>7, <2>1, <2>2 DEF Fits
  <2>4. Available(fn, I.args[1], b, n + 1)
    BY <1>3, <1>5, <2>3, AvailableLater
  <2> QED
    BY <1>12, <1>15, <2>1, <2>4
<1>16. CASE IsLoadOf(I, vars) /\ fn' = ReplaceUses(fn, I.id, r.defs[I.args[1]]) /\ Update(go)
  <2>1. PICK x, val, G, H : x = I.id /\ val = r.defs[I.args[1]] /\ G = fn /\ H = fn'
    OBVIOUS
  <2>2. Available(G, val, b, n)
    BY <1>4, <1>16, <2>1 DEF IsLoadOf
  <2>3. /\ Sound(H) /\ SameIds(G, H)
        /\ \A c \in BlocksOf(G) : \A k \in DOMAIN G.code[c] :
             H.code[c][k].dests = G.code[c][k].dests
    <3>1. /\ Sound(G) /\ b \in BlocksOf(G) /\ n \in DOMAIN G.code[b] /\ x = G.code[b][n].id
          /\ H = ReplaceUses(G, x, val)
      BY <1>2, <1>3, <1>4, <1>5, <1>16, <2>1
    <3> QED
      BY <2>2, <3>1, UsesReplaced
  <2>4. PhisLack(G, DOMAIN phis, Unended) /\ Flow(G)
    BY <1>3, <2>1
  <2>5. PhisLack(H, DOMAIN phis, Unended)
    BY <2>3, <2>4, LackKept
  <2> QED
    BY <1>13, <1>16, <2>1, <2>3, <2>5
<1>17. CASE Update(go) /\ fn' = fn
  BY <1>3, <1>11, <1>13, <1>17
<1> QED
  <2>1. \/ isPlaced(I) /\ Update([go EXCEPT !.defs[phis[I.id]] = I.id]) /\ fn' = fn
        \/ IsStoreTo(I, vars) /\ Update([go EXCEPT !.defs[I.args[2]] = I.args[1]]) /\ fn' = fn
        \/ IsLoadOf(I, vars) /\ fn' = ReplaceUses(fn, I.id, r.defs[I.args[1]]) /\ Update(go)
        \/ Update(go) /\ fn' = fn
    BY <1>2, <1>8 DEF RenameInstruction
  <2> QED
    BY <1>14, <1>15, <1>16, <1>17, <2>1

\* J is the phi I that has got the value v from block b.
IsAdded(I, J, B, b, v) ==
  /\ IsInstruction(J, B) /\ J.op = I.op /\ J.id = I.id
  /\ Range(J.dests) = Range(I.dests) \cup {b}
  /\ IsInjective(I.dests) /\ b \notin Range(I.dests) => IsInjective(J.dests)
  /\ \A j \in DOMAIN J.dests :
       \/ j \in DOMAIN I.dests /\ J.args[j] = I.args[j] /\ J.dests[j] = I.dests[j]
       \/ J.args[j] = v /\ J.dests[j] = b

LEMMA IncomingAdded ==
  ASSUME NEW I, NEW B, IsInstruction(I, B), IsPhi(I), NEW b \in B, NEW v
  PROVE  IsAdded(I, addIncoming(I, b, v), B, b, v)
<1>1. PICK a, d, e, f, n, J : /\ a = I.args /\ d = I.dests /\ n = Len(d)
                              /\ e = Append(a, v) /\ f = Append(d, b)
                              /\ J = addIncoming(I, b, v)
  OBVIOUS
<1>2. /\ I = [op |-> I.op, id |-> I.id, args |-> a, dests |-> d]
      /\ I.op = "phi" /\ d \in Seq(B) /\ a \in Seq(Range(a)) /\ Len(a) = Len(d)
  BY <1>1 DEF IsInstruction, IsPhi
<1>3. J = [op |-> I.op, id |-> I.id, args |-> e, dests |-> f]
  BY <1>1, <1>2 DEF addIncoming
<1>4. J.op = I.op /\ J.id = I.id /\ J.args = e /\ J.dests = f
  BY <1>3
<1>5. n \in Nat /\ DOMAIN d = 1 .. n /\ Len(d) = n /\ f \in Seq(B) /\ Len(f) = n + 1
      /\ DOMAIN f = 1 .. (n + 1)
      /\ f[n + 1] = b /\ \A j \in 1 .. n : f[j] = d[j]
  BY <1>1, <1>2
<1>6. /\ e \in Seq(Range(e)) /\ Len(e) = n + 1
      /\ e[n + 1] = v /\ \A j \in 1 .. n : e[j] = a[j]
  <2> DEFINE Q == Range(a) \cup {v}
             R == Range(a)
  <2>1. a \in Seq(R) /\ R \subseteq Q /\ v \in Q /\ Len(a) = n
    BY <1>1, <1>2
  <2> HIDE DEF Q, R
  <2>2. a \in Seq(Q)
    BY <2>1
  <2>3. e \in Seq(Q) /\ Len(e) = n + 1 /\ e[n + 1] = v /\ \A j \in 1 .. n : e[j] = a[j]
    BY <1>1, <1>5, <2>1, <2>2
  <2> QED
    BY <2>3, OfRange
<1>7. Range(f) = Range(d) \cup {b} /\ (IsInjective(d) /\ b \notin Range(d) => IsInjective(f))
  BY <1>1, <1>2, AppendFacts
<1>8. IsInstruction(J, B)
  BY <1>2, <1>3, <1>4, <1>5, <1>6 DEF IsInstruction, IsPhi, Ops, Pure
<1>9. \A j \in 1 .. (n + 1) : j \in 1 .. n \/ j = n + 1
  BY <1>5
<1>10. IsAdded(I, J, B, b, v)
  BY <1>1, <1>4, <1>5, <1>6, <1>7, <1>8, <1>9 DEF IsAdded
<1> QED
  BY <1>1, <1>10

\* The phis of b's successors, when f are the phis and d what b defines.
Filled(G, f, d, b, c, k) ==
  IF c \in successors(G, b) /\ IsPhi(G.code[c][k]) /\ G.code[c][k].id \in DOMAIN f
  THEN addIncoming(G.code[c][k], b, d[f[G.code[c][k].id]]) ELSE G.code[c][k]

LEMMA PhisFilled ==
  ASSUME NEW G, Sound(G), NEW f, NEW d, NEW b \in BlocksOf(G), NEW S, b \in S,
         PhisLack(G, DOMAIN f, S), \A id \in DOMAIN f : AtEnd(G, d[f[id]], b),
         NEW H, H = [G EXCEPT !.code =
                       [c \in BlocksOf(G) |-> [k \in DOMAIN G.code[c] |-> Filled(G, f, d, b, c, k)]]]
  PROVE  Sound(H) /\ SameIds(G, H) /\ PhisLack(H, DOMAIN f, S \ {b})
<1> DEFINE B == BlocksOf(G)
           X == [c \in B |-> [k \in DOMAIN G.code[c] |-> Filled(G, f, d, b, c, k)]]
<1>1. /\ H = [G EXCEPT !.code = X] /\ DOMAIN X = B
      /\ \A c \in B : X[c] = [k \in DOMAIN G.code[c] |-> X[c][k]]
      /\ \A c \in B : \A k \in DOMAIN G.code[c] : X[c][k] = Filled(G, f, d, b, c, k)
  OBVIOUS
<1> HIDE DEF X
<1>2. /\ Shape(G) /\ Flow(G) /\ BlocksOf(G) = Reachable(G)
      /\ \A c \in B : \A k \in DOMAIN G.code[c] : Fits(G, c, k)
  BY DEF Sound, Shape
<1>3. ASSUME NEW c \in B, NEW k \in DOMAIN G.code[c], NEW I, I = G.code[c][k],
             NEW J, J = Filled(G, f, d, b, c, k)
      PROVE  /\ Rewrites(G, c, k, J)
             /\ IsPhi(I) => /\ IsInjective(J.dests)
                            /\ Range(J.dests) = IF I.id \in DOMAIN f THEN predecessors(G, c) \ (S \ {b})
                                                                     ELSE predecessors(G, c)
  <2>1. /\ IsInstruction(I, B)
        /\ ~IsPhi(I) => \A v \in Range(I.args) : Available(G, v, c, k)
        /\ IsPhi(I) => \A j \in DOMAIN I.dests : AtEnd(G, I.args[j], I.dests[j])
    BY <1>2, <1>3 DEF Fits
  <2>2. IsPhi(I) => /\ IsInjective(I.dests)
                    /\ Range(I.dests) = IF I.id \in DOMAIN f THEN predecessors(G, c) \ S
                                                             ELSE predecessors(G, c)
    BY <1>3 DEF PhisLack
  <2>3. b \in predecessors(G, c) <=> c \in successors(G, b)
    BY <1>2, PredecessorFacts
  <2>4. CASE c \in successors(G, b) /\ IsPhi(I) /\ I.id \in DOMAIN f
    <3>1. PICK v : v = d[f[I.id]]
      OBVIOUS
    <3>2. J = addIncoming(I, b, v)
      BY <1>3, <2>4, <3>1 DEF Filled
    <3>9. IsAdded(I, J, B, b, v)
      BY <2>1, <2>4, <3>2, IncomingAdded
    <3>3. /\ IsInstruction(J, B) /\ J.op = I.op /\ J.id = I.id
          /\ Range(J.dests) = Range(I.dests) \cup {b}
          /\ IsInjective(I.dests) /\ b \notin Range(I.dests) => IsInjective(J.dests)
          /\ \A j \in DOMAIN J.dests :
               \/ j \in DOMAIN I.dests /\ J.args[j] = I.args[j] /\ J.dests[j] = I.dests[j]
               \/ J.args[j] = v /\ J.dests[j] = b
      BY <3>9 DEF IsAdded
    <3>4. AtEnd(G, v, b)
      BY <2>4, <3>1
    <3>5. \A j \in DOMAIN J.dests : AtEnd(G, J.args[j], J.dests[j])
      <4> TAKE j \in DOMAIN J.dests
      <4>1. CASE j \in DOMAIN I.dests /\ J.args[j] = I.args[j] /\ J.dests[j] = I.dests[j]
        BY <2>1, <2>4, <4>1
      <4>2. CASE J.args[j] = v /\ J.dests[j] = b
        BY <3>4, <4>2
      <4> QED
        BY <3>3, <4>1, <4>2
    <3>6. b \notin Range(I.dests) /\ Range(I.dests) = predecessors(G, c) \ S
      BY <2>2, <2>4
    <3>7. Range(J.dests) = predecessors(G, c) \ (S \ {b})
      BY <2>3, <2>4, <3>3, <3>6
    <3>8. Rewrites(G, c, k, J)
      BY <1>3, <2>4, <3>3, <3>5 DEF Rewrites
    <3> QED
      BY <2>2, <2>4, <3>3, <3>6, <3>7, <3>8
  <2>5. CASE ~(c \in successors(G, b) /\ IsPhi(I) /\ I.id \in DOMAIN f)
    <3>1. J = I
      BY <1>3, <2>5 DEF Filled
    <3>2. Rewrites(G, c, k, J)
      BY <1>3, <2>1, <3>1 DEF Rewrites
    <3>3. IsPhi(I) /\ I.id \in DOMAIN f =>
            predecessors(G, c) \ S = predecessors(G, c) \ (S \ {b})
      BY <2>3, <2>5
    <3> QED
      BY <2>2, <3>1, <3>2, <3>3
  <2> QED
    BY <2>4, <2>5
<1>4. \A c \in B : \A k \in DOMAIN G.code[c] : Rewrites(G, c, k, X[c][k])
  BY <1>1, <1>3
<1>5. Sound(H) /\ SameIds(G, H) /\ H.code = X
  <2>1. IsRewriting(G, X)
    BY <1>1, <1>4 DEF IsRewriting
  <2> QED
    BY <1>1, <2>1, SoundRewritten
<1>6. PhisLack(H, DOMAIN f, S \ {b})
  <2>1. BlocksOf(H) = B /\ \A c \in B : DOMAIN H.code[c] = DOMAIN G.code[c]
    BY <1>5 DEF SameIds, SameFlow
  <2>2. \A c : predecessors(H, c) = predecessors(G, c)
    BY <1>2, <1>5, AvailableKept
  <2>3. ASSUME NEW c \in B, NEW k \in DOMAIN G.code[c], NEW J, J = H.code[c][k], IsPhi(J)
        PROVE  /\ IsInjective(J.dests)
               /\ Range(J.dests) = IF J.id \in DOMAIN f THEN predecessors(H, c) \ (S \ {b})
                                                        ELSE predecessors(H, c)
    <3>1. PICK I : I = G.code[c][k]
      OBVIOUS
    <3>2. J = Filled(G, f, d, b, c, k) /\ J.id = I.id /\ J.op = I.op
      BY <1>1, <1>5, <2>3, <3>1 DEF SameIds
    <3>3. IsPhi(I)
      BY <2>3, <3>2 DEF IsPhi
    <3>4. /\ IsInjective(J.dests)
          /\ Range(J.dests) = IF I.id \in DOMAIN f THEN predecessors(G, c) \ (S \ {b})
                                                   ELSE predecessors(G, c)
      BY <1>3, <3>1, <3>2, <3>3
    <3> QED
      BY <2>2, <3>2, <3>4
  <2> QED
    BY <2>1, <2>3 DEF PhisLack
<1> QED
  BY <1>5, <1>6

\* The innermost call comes to the end of its block.
LEMMA StepEndBlock ==
  ASSUME MRInv, EndBlock
  PROVE  MRInv'
<1>1. /\ stage = "rename" /\ calls # <<>> /\ Running.next = Len(fn.code[Running.block]) + 1
      /\ UNCHANGED <<original, stage, vars, left, DF, phis>> /\ UNCHANGED dtVars
      /\ fn' = FillPhis(Running.block, Running.defs)
      /\ Update([Running EXCEPT !.next = @ + 1])
  BY DEF EndBlock
<1>2. PICK r, b, n : r = Running /\ b = r.block /\ n = r.next
  OBVIOUS
<1>3. /\ Sound(fn) /\ Shape(fn) /\ Flow(fn) /\ PassTypes
      /\ PhisLack(fn, DOMAIN phis, Unended)
      /\ IsCall(r) /\ r = calls[1]
  BY <1>1, <1>2, RunningFacts
<1>4. /\ r = [block |-> b, next |-> n, defs |-> r.defs, left |-> r.left]
      /\ b \in BlocksOf(fn) /\ n \in Nat \ {0} /\ DOMAIN r.defs = vars
      /\ \A v \in vars : Available(fn, r.defs[v], b, n)
  BY <1>2, <1>3 DEF IsCall, IsCallRecord
<1>5. PICK m : m = Len(fn.code[b]) /\ m \in Nat /\ n = m + 1
  BY <1>1, <1>2, <1>3, <1>4, ShapeFacts
<1>6. PICK c : c = [r EXCEPT !.next = @ + 1]
  OBVIOUS
<1>7. c = [block |-> b, next |-> n + 1, defs |-> r.defs, left |-> r.left]
  BY <1>4, <1>6
<1>8. /\ IsCallRecord(c) /\ c.block = b /\ c.left = r.left /\ c.next = n + 1
      /\ c.defs = r.defs /\ Update(c)
  BY <1>1, <1>2, <1>6, <1>7 DEF IsCallRecord
<1>9. b \in Unended
  <2>1. n <= m + 1
    BY <1>5
  <2> QED
    BY <1>1, <1>2, <1>3, <1>4, <1>5, <2>1 DEF Unended
<1>10. PICK G, H, f, d, S : G = fn /\ H = fn' /\ f = phis /\ d = r.defs /\ S = Unended
  OBVIOUS
<1>11. \A id \in DOMAIN f : AtEnd(G, d[f[id]], b)
  <2> TAKE id \in DOMAIN f
  <2>1. f[id] \in vars
    BY <1>3, <1>10 DEF PassTypes
  <2>2. Available(G, d[f[id]], b, n)
    BY <1>4, <1>10, <2>1
  <2> QED
    BY <1>3, <1>10, <2>2, AvailableEnds
<1>12. Sound(H) /\ SameIds(G, H) /\ PhisLack(H, DOMAIN f, S \ {b})
  <2>1. H = [G EXCEPT !.code =
               [x \in BlocksOf(G) |-> [k \in DOMAIN G.code[x] |-> Filled(G, f, d, b, x, k)]]]
    BY <1>1, <1>2, <1>10 DEF FillPhis, Filled, isPlaced
  <2>2. Sound(G) /\ b \in BlocksOf(G) /\ b \in S /\ PhisLack(G, DOMAIN f, S)
    BY <1>3, <1>4, <1>9, <1>10
  <2> QED
    BY <1>11, <2>1, <2>2, PhisFilled
<1>13. \A v \in vars : Available(fn, r.defs[v], b, n + 1)
  BY <1>3, <1>4, DefinitionsLater
<1>14. /\ Calls'
       /\ Unended' = {x \in Unended : x = c.block => c.next <= Len(fn.code[c.block]) + 1}
  <2>1. Shape(fn') /\ SameIds(fn, fn')
    BY <1>10, <1>12 DEF Sound
  <2>2. Running.next <= Len(fn.code[c.block]) + 1
    BY <1>2, <1>5, <1>8
  <2> QED
    BY <1>1, <1>2, <1>4, <1>8, <1>13, <2>1, <2>2, CallsUpdated
<1>15. Unended' = S \ {b}
  <2>1. ~(c.next <= Len(fn.code[c.block]) + 1)
    BY <1>5, <1>8
  <2> QED
    BY <1>8, <1>10, <1>14, <2>1
<1>16. Sound(fn') /\ SameIds(fn, fn') /\ PhisLack(fn', DOMAIN phis, Unended')
  BY <1>10, <1>12, <1>15
<1> QED
  BY <1>1, <1>14, <1>16, RenameKept


\* A call makes another: n is made by the innermost call of s, c is what that becomes.
IsNested(s, t, n, c) ==
  /\ t \in Seq(Range(t)) /\ Len(t) = Len(s) + 1 /\ Len(s) \in Nat /\ Len(s) >= 1
  /\ t # <<>> /\ t[1] = n /\ t[2] = c
  /\ \A k \in 3 .. Len(t) : t[k] = s[k - 1]

LEMMA NestedFacts ==
  ASSUME NEW s, s \in Seq(Range(s)), s # <<>>, NEW n, NEW c, NEW t, t = <<n, c>> \o Tail(s)
  PROVE  IsNested(s, t, n, c)
<1> DEFINE F == Range(s) \cup {n, c}
           R == Range(s)
<1>1. s \in Seq(R) /\ R \subseteq F /\ n \in F /\ c \in F
  OBVIOUS
<1> HIDE DEF F, R
<1>2. s \in Seq(F)
  BY <1>1
<1>3. PICK m : m = Len(s) /\ m \in Nat /\ m >= 1
  BY <1>2
<1>4. /\ t \in Seq(F) /\ Len(t) = m + 1 /\ t[1] = n /\ t[2] = c
      /\ \A k \in 3 .. (m + 1) : t[k] = s[k - 1]
  BY <1>1, <1>2, <1>3, CallFacts
<1>5. t \in Seq(Range(t))
  BY <1>4, OfRange
<1>6. t # <<>>
  BY <1>3, <1>4
<1> QED
  BY <1>3, <1>4, <1>5, <1>6 DEF IsNested

\* The child that is visited next is one of those left.
LEMMA NextChildLeft ==
  ASSUME DTInv, dtStep = "done", NEW S, S \subseteq Reachable(fn), S # {}
  PROVE  nextChild(S) \in S
<1>1. Walking /\ path = <<>> /\ Times
  BY DEF DTInv, Walking
<1>2. S \subseteq DOMAIN discover
  BY <1>1, WalkEnds
<1>3. \A u \in S : discover[u] \in Nat
  BY <1>1, <1>2 DEF Times
<1> DEFINE T == {discover[u] : u \in S}
<1>4. T \in SUBSET Nat /\ T # {}
  BY <1>3
<1>5. PICK n \in T : \A m \in T : n <= m
  BY <1>4, NatMin
<1>6. PICK u \in S : discover[u] = n
  OBVIOUS
<1>7. \A v \in S : discover[u] <= discover[v]
  BY <1>5, <1>6
<1> QED
  BY <1>6, <1>7 DEF nextChild

\* The innermost call calls itself for a child.
LEMMA StepRenameChild ==
  ASSUME MRInv, RenameChild
  PROVE  MRInv'
<1>1. /\ stage = "rename" /\ calls # <<>> /\ Running.next > Len(fn.code[Running.block]) + 1
      /\ Running.left # {}
      /\ UNCHANGED <<fn, original, stage, vars, left, DF, phis>> /\ UNCHANGED dtVars
  BY DEF RenameChild, Recursing
<1>2. PICK s, t, r, a, b, n, c, G :
        /\ s = calls /\ t = calls' /\ r = Running /\ a = r.block /\ b = nextChild(r.left)
        /\ n = RenameCall(b, r.defs) /\ c = [r EXCEPT !.left = @ \ {b}] /\ G = fn
  OBVIOUS
<1>3. /\ Sound(G) /\ Shape(G) /\ Flow(G) /\ PassTypes /\ Calls /\ BlocksOf(G) = Reachable(G)
      /\ PhisLack(G, DOMAIN phis, Unended) /\ DTInv /\ dtStep = "done"
      /\ IsCall(r) /\ r = s[1]
  BY <1>1, <1>2, RunningFacts
<1>4. /\ r = [block |-> a, next |-> r.next, defs |-> r.defs, left |-> r.left]
      /\ a \in BlocksOf(G) /\ r.next \in Nat \ {0} /\ DOMAIN r.defs = vars
      /\ r.left \subseteq children(a) /\ r.left # {}
      /\ \A v \in vars : Available(G, r.defs[v], a, r.next)
  BY <1>1, <1>2, <1>3 DEF IsCall, IsCallRecord
<1>5. b \in r.left
  <2>1. r.left \subseteq Reachable(fn)
    BY <1>4 DEF children
  <2> QED
    BY <1>2, <1>3, <1>4, <2>1, NextChildLeft
<1>6. /\ b \in BlocksOf(G) /\ b # a /\ dominates(G, a, b) /\ ~dominates(G, b, a)
      /\ \A d \in Reachable(G) : dominates(G, d, b) /\ d # b => dominates(G, d, a)
      /\ \A d \in children(a) : dominates(G, d, b) => d = b
  <2>1. b \in children(a)
    BY <1>4, <1>5
  <2> QED
    BY <1>2, <1>3, <2>1, ChildFacts
<1>7. /\ n = [block |-> b, next |-> 1, defs |-> r.defs, left |-> children(b)]
      /\ c = [block |-> a, next |-> r.next, defs |-> r.defs, left |-> r.left \ {b}]
  BY <1>2, <1>4 DEF RenameCall
<1>8. /\ IsCallRecord(n) /\ n.block = b /\ n.next = 1 /\ n.defs = r.defs /\ n.left = children(b)
      /\ IsCallRecord(c) /\ c.block = a /\ c.next = r.next /\ c.defs = r.defs
      /\ c.left = r.left \ {b}
  BY <1>7 DEF IsCallRecord
<1>9. IsNested(s, t, n, c)
  <2>1. s \in Seq(Range(s)) /\ s # <<>>
    BY <1>1, <1>2, <1>3 DEF Calls
  <2>2. t = <<n, c>> \o Tail(s)
    BY <1>2 DEF RenameChild
  <2> QED
    BY <2>1, <2>2, NestedFacts
<1>10. PICK m : m = Len(s) /\ m \in Nat /\ m >= 1 /\ Len(t) = m + 1
  BY <1>9 DEF IsNested
<1>11. /\ t \in Seq(Range(t)) /\ t # <<>> /\ t[1] = n /\ t[2] = c
       /\ \A k \in 3 .. (m + 1) : t[k] = s[k - 1]
  BY <1>9, <1>10 DEF IsNested
<1>12. IsCall(n) /\ IsCall(c)
  <2>1. \A v \in vars : Available(G, r.defs[v], b, 1)
    <3> TAKE v \in vars
    <3>1. AtEnd(G, r.defs[v], a)
      BY <1>3, <1>4, AvailableEnds
    <3> QED
      BY <1>3, <1>4, <1>6, <3>1, AvailableBelow
  <2> QED
    BY <1>2, <1>4, <1>6, <1>8, <2>1 DEF IsCall
<1>13. /\ \A k \in 1 .. m : IsCall(s[k])
       /\ \A k \in 2 .. m : s[k].next > Len(G.code[s[k].block]) + 1
       /\ \A j, k \in 1 .. m : j # k => s[j].block # s[k].block
       /\ \A j, k \in 1 .. m : \A d \in s[k].left : ~dominates(G, d, s[j].block)
  BY <1>2, <1>3, <1>10 DEF Calls
<1>14. \A k \in 1 .. (m + 1) :
         k = 1 \/ k = 2 \/ (k \in 3 .. (m + 1) /\ k - 1 \in 2 .. m /\ k - 1 \in 1 .. m /\ k - 1 # 1)
  BY <1>10
<1>15. 1 \in 1 .. m /\ 1 \in 1 .. (m + 1) /\ 2 \in 1 .. (m + 1)
  BY <1>10
<1>16. \A x \in BlocksOf(G) : dominates(G, x, x)
  BY <1>3, DominatesReflexive
\* The stack without the new call: what the calls are, and what they have left.
<1>17. \A k \in 2 .. (m + 1) :
         /\ k - 1 \in 1 .. m /\ t[k].block = s[k - 1].block
         /\ t[k].left \subseteq s[k - 1].left /\ b \notin t[k].left
  <2> TAKE k \in 2 .. (m + 1)
  <2>1. CASE k = 2
    <3>1. k - 1 = 1 /\ t[k] = c /\ s[k - 1] = r
      BY <1>3, <1>11, <2>1
    <3> QED
      BY <1>2, <1>8, <1>15, <3>1
  <2>2. CASE k # 2
    <3>1. t[k] = s[k - 1] /\ k - 1 \in 1 .. m /\ k - 1 # 1
      BY <1>10, <1>11, <2>2
    <3>2. b \notin s[k - 1].left
      <4>1. s[k - 1].left \subseteq children(s[k - 1].block)
        BY <1>13, <3>1 DEF IsCall
      <4>2. s[k - 1].block # a
        BY <1>2, <1>3, <1>13, <1>15, <3>1
      <4> QED
        BY <1>4, <1>5, <4>1, <4>2 DEF children
    <3> QED
      BY <3>1, <3>2
  <2> QED
    BY <2>1, <2>2
<1>18. /\ \A k \in 1 .. (m + 1) : k = 1 \/ k \in 2 .. (m + 1)
       /\ \A j, k \in 2 .. (m + 1) : j # k => j - 1 # k - 1
  BY <1>10
<1>19. Calls'
  <2>1. \A k \in 1 .. (m + 1) : IsCall(t[k])
    BY <1>11, <1>12, <1>13, <1>14
  <2>2. \A d : IsCall(d)' <=> IsCall(d)
    BY <1>1 DEF IsCall, children, dtVars
  <2>3. \A k \in 2 .. (m + 1) : t[k].next > Len(G.code[t[k].block]) + 1
    <3> TAKE k \in 2 .. (m + 1)
    <3>1. CASE k = 2
      BY <1>1, <1>2, <1>8, <1>11, <3>1
    <3>2. CASE k # 2
      <4>1. k \in 3 .. (m + 1) /\ k - 1 \in 2 .. m
        BY <1>10, <3>2
      <4> QED
        BY <1>11, <1>13, <4>1
    <3> QED
      BY <3>1, <3>2
  <2>4. \A j, k \in 1 .. (m + 1) : j # k => t[j].block # t[k].block
    <3>1. \A k \in 2 .. (m + 1) : t[k].block # b
      <4> TAKE k \in 2 .. (m + 1)
      <4>1. ~dominates(G, b, s[k - 1].block)
        BY <1>3, <1>5, <1>13, <1>15, <1>17
      <4> QED
        BY <1>6, <1>16, <1>17, <4>1
    <3> QED
      BY <1>8, <1>11, <1>13, <1>17, <1>18, <3>1
  <2>5. ASSUME NEW j \in 1 .. (m + 1), NEW k \in 1 .. (m + 1), NEW d \in t[k].left
        PROVE  ~dominates(G, d, t[j].block)
    <3>1. CASE k = 1 /\ j = 1
      BY <1>2, <1>3, <1>8, <1>11, <2>5, <3>1, ChildFacts
    <3>2. CASE k = 1 /\ j # 1
      <4>1. j - 1 \in 1 .. m /\ t[j].block = s[j - 1].block
        BY <1>17, <1>18, <3>2
      <4>2. ~dominates(G, b, t[j].block)
        BY <1>3, <1>5, <1>13, <1>15, <4>1
      <4>3. dominates(G, b, d)
        BY <1>2, <1>3, <1>8, <1>11, <2>5, <3>2, ChildFacts
      <4> QED
        BY <1>3, <4>2, <4>3, DominatesTransitive
    <3>3. CASE k # 1 /\ j = 1
      <4>1. k - 1 \in 1 .. m /\ d \in s[k - 1].left /\ d # b
        BY <1>17, <1>18, <2>5, <3>3
      <4>2. ~dominates(G, d, a) /\ d \in Reachable(G)
        <5>1. d \in children(s[k - 1].block)
          BY <1>13, <4>1 DEF IsCall
        <5> QED
          BY <1>2, <1>3, <1>13, <1>15, <4>1, <5>1 DEF children
      <4> QED
        BY <1>6, <1>8, <1>11, <3>3, <4>1, <4>2
    <3>4. CASE k # 1 /\ j # 1
      <4>1. /\ k - 1 \in 1 .. m /\ d \in s[k - 1].left
            /\ j - 1 \in 1 .. m /\ t[j].block = s[j - 1].block
        BY <1>17, <1>18, <2>5, <3>4
      <4> QED
        BY <1>13, <4>1
    <3> QED
      BY <3>1, <3>2, <3>3, <3>4
  <2>6. t[1].left = children(t[1].block)
    BY <1>8, <1>11
  <2>7. \A x : children(x)' = children(x)
    BY <1>1 DEF children, dtVars
  <2>8. /\ \A k \in 1 .. Len(t) : IsCall(t[k])'
        /\ \A k \in 2 .. Len(t) : t[k].next > Len(G.code[t[k].block]) + 1
        /\ \A j, k \in 1 .. Len(t) : j # k => t[j].block # t[k].block
        /\ \A j, k \in 1 .. Len(t) : \A d \in t[k].left : ~dominates(G, d, t[j].block)
    BY <1>10, <2>1, <2>2, <2>3, <2>4, <2>5
  <2> QED
    BY <1>1, <1>2, <1>11, <2>6, <2>7, <2>8 DEF Calls
<1>20. Unended' = Unended
  <2>1. ASSUME NEW x \in BlocksOf(G)
        PROVE  x \in Unended <=> \E k \in 1 .. m : \E d \in s[k].left : dominates(G, d, x)
    <3>1. ~(s[1].next <= Len(G.code[s[1].block]) + 1)
      <4>1. Len(G.code[a]) \in Nat
        BY <1>3, <1>4, ShapeFacts
      <4> QED
        BY <1>1, <1>2, <1>3, <1>4, <4>1
    <3> QED
      BY <1>2, <1>10, <2>1, <3>1 DEF Unended
  <2>2. ASSUME NEW x \in BlocksOf(G)
        PROVE  x \in Unended' <=> \/ \E k \in 1 .. (m + 1) : \E d \in t[k].left : dominates(G, d, x)
                                  \/ x = b
    <3>1. 1 <= Len(G.code[b]) + 1
      BY <1>3, <1>6, ShapeFacts
    <3> QED
      BY <1>1, <1>2, <1>8, <1>10, <1>11, <2>2, <3>1 DEF Unended
  <2>3. ASSUME NEW x \in BlocksOf(G), NEW k \in 1 .. m, NEW d \in s[k].left, dominates(G, d, x)
        PROVE  x \in Unended'
    <3>1. CASE d = b
      <4>1. CASE x = b
        BY <2>2, <4>1
      <4>2. CASE x # b
        <5>1. PICK e \in children(b) : dominates(G, e, x)
          BY <1>2, <1>3, <1>6, <2>3, <3>1, <4>2, ChildBetween
        <5> QED
          BY <1>8, <1>11, <1>15, <2>2, <5>1
      <4> QED
        BY <4>1, <4>2
    <3>2. CASE d # b
      <4>1. d \in t[k + 1].left /\ k + 1 \in 1 .. (m + 1)
        <5>1. CASE k = 1
          BY <1>3, <1>8, <1>11, <1>15, <2>3, <3>2, <5>1
        <5>2. CASE k # 1
          <6>1. k + 1 \in 3 .. (m + 1) /\ (k + 1) - 1 = k
            BY <1>10, <5>2
          <6> QED
            BY <1>10, <1>11, <2>3, <6>1
        <5> QED
          BY <5>1, <5>2
      <4> QED
        BY <2>2, <2>3, <4>1
    <3> QED
      BY <3>1, <3>2
  <2>4. ASSUME NEW x \in BlocksOf(G), x \in Unended'
        PROVE  x \in Unended
    <3>1. b \in s[1].left /\ 1 \in 1 .. m
      BY <1>3, <1>5, <1>15
    <3>2. CASE x = b
      BY <1>6, <1>16, <2>1, <3>1, <3>2
    <3>3. CASE x # b
      <4>1. \E k \in 1 .. (m + 1) : \E d \in t[k].left : dominates(G, d, x)
        BY <2>2, <2>4, <3>3
      <4>2. PICK k \in 1 .. (m + 1) : \E d \in t[k].left : dominates(G, d, x)
        BY <4>1
      <4>3. PICK d \in t[k].left : dominates(G, d, x)
        BY <4>2
      <4>4. CASE k = 1
        <5>1. dominates(G, b, d)
          BY <1>2, <1>3, <1>8, <1>11, <4>3, <4>4, ChildFacts
        <5>2. dominates(G, b, x)
          BY <1>3, <4>3, <5>1, DominatesTransitive
        <5> QED
          BY <2>1, <3>1, <5>2
      <4>5. CASE k # 1
        <5>1. k - 1 \in 1 .. m /\ d \in s[k - 1].left
          BY <1>17, <1>18, <4>3, <4>5
        <5> QED
          BY <2>1, <4>3, <5>1
      <4> QED
        BY <4>4, <4>5
    <3> QED
      BY <3>2, <3>3
  <2>5. Unended \subseteq BlocksOf(G) /\ Unended' \subseteq BlocksOf(G)
    BY <1>1, <1>2 DEF Unended
  <2> QED
    BY <2>1, <2>3, <2>4, <2>5
<1>21. Sound(fn') /\ SameIds(fn, fn') /\ PhisLack(fn', DOMAIN phis, Unended')
  <2>1. SameIds(fn, fn)
    BY <1>2, <1>3, SameIdsReflexive
  <2>2. fn' = fn
    BY <1>1
  <2>3. Sound(fn') /\ SameIds(fn, fn')
    BY <1>2, <1>3, <2>1, <2>2
  <2>4. PhisLack(fn', DOMAIN phis, Unended')
    BY <1>2, <1>3, <1>20, <2>2
  <2> QED
    BY <2>3, <2>4
<1> QED
  BY <1>1, <1>19, <1>21, RenameKept


\* The innermost call returns.
LEMMA StepLeaveBlock ==
  ASSUME MRInv, LeaveBlock
  PROVE  MRInv'
<1>1. /\ stage = "rename" /\ calls # <<>> /\ Running.next > Len(fn.code[Running.block]) + 1
      /\ Running.left = {}
      /\ UNCHANGED <<fn, original, stage, vars, left, DF, phis>> /\ UNCHANGED dtVars
  BY DEF LeaveBlock, Recursing
<1>2. PICK s, t, r, G : s = calls /\ t = calls' /\ r = Running /\ G = fn
  OBVIOUS
<1>3. /\ Sound(G) /\ Shape(G) /\ Flow(G) /\ PassTypes /\ Calls /\ BlocksOf(G) = Reachable(G)
      /\ PhisLack(G, DOMAIN phis, Unended) /\ IsCall(r) /\ r = s[1]
  BY <1>1, <1>2, RunningFacts
<1>4. PICK m : m = Len(t) /\ m \in Nat /\ Len(s) = m + 1
  <2> DEFINE F == Range(s)
  <2>1. s \in Seq(F) /\ s # <<>> /\ t = Tail(s)
    BY <1>1, <1>2, <1>3 DEF Calls, LeaveBlock
  <2> HIDE DEF F
  <2>2. Len(t) = Len(s) - 1 /\ Len(s) \in Nat /\ Len(s) >= 1
    BY <2>1, TailFacts
  <2>3. Len(t) \in Nat /\ Len(s) = Len(t) + 1
    BY <2>2
  <2> QED
    BY <2>3
<1>5. t \in Seq(Range(t)) /\ \A k \in 1 .. m : t[k] = s[k + 1]
  <2> DEFINE F == Range(s)
  <2>1. s \in Seq(F) /\ s # <<>> /\ t = Tail(s)
    BY <1>1, <1>2, <1>3 DEF Calls, LeaveBlock
  <2> HIDE DEF F
  <2>2. t \in Seq(F) /\ Len(s) - 1 = m /\ \A k \in 1 .. (Len(s) - 1) : t[k] = s[k + 1]
    BY <1>4, <2>1, TailFacts
  <2> QED
    BY <2>2, OfRange
<1>6. /\ \A k \in 1 .. (m + 1) : IsCall(s[k])
      /\ \A k \in 2 .. (m + 1) : s[k].next > Len(G.code[s[k].block]) + 1
      /\ \A j, k \in 1 .. (m + 1) : j # k => s[j].block # s[k].block
      /\ \A j, k \in 1 .. (m + 1) : \A d \in s[k].left : ~dominates(G, d, s[j].block)
  BY <1>2, <1>3, <1>4 DEF Calls
<1>7. \A k \in 1 .. m : k + 1 \in 2 .. (m + 1) /\ k + 1 \in 1 .. (m + 1)
  BY <1>4
<1>8. \A k \in 1 .. m : IsCall(t[k]) /\ t[k].next > Len(G.code[t[k].block]) + 1
  BY <1>5, <1>6, <1>7
<1>9. t # <<>> => ~(t[1].next <= Len(G.code[t[1].block]) + 1)
  <2>1. ASSUME t # <<>>
        PROVE  ~(t[1].next <= Len(G.code[t[1].block]) + 1)
    <3> DEFINE F == Range(t)
    <3>1. t \in Seq(F)
      BY <1>5
    <3> HIDE DEF F
    <3>2. 1 \in 1 .. m
      BY <1>4, <2>1, <3>1
    <3>3. PICK c : c = t[1] /\ IsCall(c) /\ c.next > Len(G.code[c.block]) + 1
      BY <1>8, <3>2
    <3>4. c.next \in Nat /\ c.block \in BlocksOf(G)
      BY <1>2, <3>3 DEF IsCall
    <3>5. Len(G.code[c.block]) \in Nat
      BY <1>3, <3>4, ShapeFacts
    <3> QED
      BY <3>3, <3>4, <3>5
  <2> QED
    BY <2>1
<1>10. Calls'
  <2>1. \A d : IsCall(d)' <=> IsCall(d)
    BY <1>1 DEF IsCall, children, dtVars
  <2>2. /\ \A k \in 1 .. m : IsCall(t[k])'
        /\ \A k \in 2 .. m : t[k].next > Len(G.code[t[k].block]) + 1
    <3>1. \A k \in 2 .. m : k \in 1 .. m
      BY <1>4
    <3> QED
      BY <1>8, <2>1, <3>1
  <2>3. \A j, k \in 1 .. m : j # k => t[j].block # t[k].block
    <3>1. \A j, k \in 1 .. m : j # k => j + 1 # k + 1
      BY <1>4
    <3> QED
      BY <1>5, <1>6, <1>7, <3>1
  <2>4. \A j, k \in 1 .. m : \A d \in t[k].left : ~dominates(G, d, t[j].block)
    BY <1>5, <1>6, <1>7
  <2> QED
    BY <1>1, <1>2, <1>4, <1>5, <1>9, <2>2, <2>3, <2>4 DEF Calls
<1>11. Unended' = Unended
  <2>1. ~(s[1].next <= Len(G.code[s[1].block]) + 1)
    <3>1. r.block \in BlocksOf(G) /\ r.next \in Nat
      BY <1>2, <1>3 DEF IsCall
    <3>2. Len(G.code[r.block]) \in Nat
      BY <1>3, <3>1, ShapeFacts
    <3> QED
      BY <1>1, <1>2, <1>3, <3>1, <3>2
  <2>2. \A x \in BlocksOf(G) :
          x \in Unended <=> \E k \in 1 .. (m + 1) : \E d \in s[k].left : dominates(G, d, x)
    BY <1>2, <1>4, <2>1 DEF Unended
  <2>3. \A x \in BlocksOf(G) :
          x \in Unended' <=> \E k \in 1 .. m : \E d \in t[k].left : dominates(G, d, x)
    BY <1>1, <1>2, <1>4, <1>9 DEF Unended
  <2>4. s[1].left = {}
    BY <1>1, <1>2, <1>3
  <2>5. \A k \in 1 .. (m + 1) : k = 1 \/ (k - 1 \in 1 .. m /\ (k - 1) + 1 = k)
    BY <1>4
  <2>6. \A x \in BlocksOf(G) :
          (\E k \in 1 .. (m + 1) : \E d \in s[k].left : dominates(G, d, x))
            <=> (\E k \in 1 .. m : \E d \in t[k].left : dominates(G, d, x))
    <3> TAKE x \in BlocksOf(G)
    <3>1. ASSUME NEW k \in 1 .. (m + 1), NEW d \in s[k].left, dominates(G, d, x)
          PROVE  \E j \in 1 .. m : \E e \in t[j].left : dominates(G, e, x)
      <4>1. k - 1 \in 1 .. m /\ t[k - 1] = s[k]
        BY <1>5, <2>4, <2>5, <3>1
      <4> QED
        BY <3>1, <4>1
    <3>2. ASSUME NEW k \in 1 .. m, NEW d \in t[k].left, dominates(G, d, x)
          PROVE  \E j \in 1 .. (m + 1) : \E e \in s[j].left : dominates(G, e, x)
      BY <1>5, <1>7, <3>2
    <3> QED
      BY <3>1, <3>2
  <2>7. Unended \subseteq BlocksOf(G) /\ Unended' \subseteq BlocksOf(G)
    BY <1>1, <1>2 DEF Unended
  <2> QED
    BY <2>2, <2>3, <2>6, <2>7
<1>12. Sound(fn') /\ SameIds(fn, fn') /\ PhisLack(fn', DOMAIN phis, Unended')
  <2>1. SameIds(fn, fn)
    BY <1>2, <1>3, SameIdsReflexive
  <2>2. fn' = fn
    BY <1>1
  <2>3. Sound(fn') /\ SameIds(fn, fn')
    BY <1>2, <1>3, <2>1, <2>2
  <2>4. PhisLack(fn', DOMAIN phis, Unended')
    BY <1>2, <1>3, <1>11, <2>2
  <2> QED
    BY <2>3, <2>4
<1> QED
  BY <1>1, <1>10, <1>12, RenameKept


\* What is kept of the instructions of a block, and where it was.
Positions(s, t, pos) ==
  /\ \A m \in DOMAIN t : pos[m] \in DOMAIN s /\ t[m] = s[pos[m]]
  /\ \A m, p \in DOMAIN t : m < p => pos[m] < pos[p]

\* Code keeps its terminator.
LEMMA CodeKept ==
  ASSUME NEW s, IsCode(s), NEW S, s[Len(s)] \in S
  PROVE  /\ IsCode(Kept(s, S)) /\ Last(Kept(s, S)) = Last(s)
         /\ \E pos : Positions(s, Kept(s, S), pos)
         /\ Range(Kept(s, S)) \subseteq Range(s)
<1>1. PICK t : t = Kept(s, S)
  OBVIOUS
<1>2. PICK n : /\ n = Len(s) /\ n \in Nat /\ n >= 1 /\ DOMAIN s = 1 .. n
               /\ Last(s) = s[n]
  BY CodeFacts
<1>3. /\ s \in Seq(Range(s)) /\ s # <<>>
      /\ \A k \in DOMAIN s : /\ {"op", "dests"} \subseteq DOMAIN s[k]
                             /\ s[k].op \in Terminators <=> k = n
  BY <1>2 DEF IsCode
<1>4. /\ Len(t) \in Nat /\ DOMAIN t = 1 .. Len(t)
      /\ \E pos \in [1 .. Len(t) -> 1 .. Len(s)] :
           /\ \A m \in 1 .. Len(t) : t[m] = s[pos[m]] /\ s[pos[m]] \in S
           /\ \A m, p \in 1 .. Len(t) : m < p => pos[m] < pos[p]
           /\ \A i \in 1 .. Len(s) : s[i] \in S => \E m \in 1 .. Len(t) : pos[m] = i
  <2> DEFINE R == Range(s)
  <2>1. s \in Seq(R)
    BY <1>3
  <2> HIDE DEF R
  <2> QED
    BY <1>1, <2>1, KeptPositions
<1>5. PICK m : m = Len(t) /\ m \in Nat /\ DOMAIN t = 1 .. m
  BY <1>4
<1>6. PICK pos \in [1 .. m -> 1 .. n] :
        /\ \A k \in 1 .. m : t[k] = s[pos[k]]
        /\ \A k, p \in 1 .. m : k < p => pos[k] < pos[p]
        /\ \A i \in 1 .. n : s[i] \in S => \E k \in 1 .. m : pos[k] = i
  BY <1>2, <1>4, <1>5
<1>7. PICK k \in 1 .. m : pos[k] = n
  BY <1>2, <1>6
<1>8. k = m /\ m >= 1 /\ m \in 1 .. m /\ pos[m] = n
  <2>1. m \in 1 .. m /\ pos[m] \in 1 .. n /\ m >= 1
    BY <1>5, <1>6, <1>7
  <2>2. ~(k < m)
    BY <1>2, <1>6, <1>7, <2>1
  <2>3. k = m
    BY <1>5, <1>7, <2>2
  <2> QED
    BY <1>7, <2>1, <2>3
<1>9. \A j \in 1 .. m : pos[j] \in 1 .. n /\ (pos[j] = n <=> j = m)
  <2> TAKE j \in 1 .. m
  <2>1. j = m \/ j < m
    BY <1>5
  <2>2. j < m => pos[j] < n
    BY <1>6, <1>8
  <2> QED
    BY <1>2, <1>6, <1>8, <2>1, <2>2
<1>10. t \in Seq(Range(t)) /\ Range(t) \subseteq Range(s)
  <2> DEFINE R == Range(s)
  <2>1. s \in Seq(R)
    BY <1>3
  <2> HIDE DEF R
  <2>2. t \in Seq(R) /\ Range(t) = Range(s) \cap S
    BY <1>1, <2>1, KeptFacts
  <2> QED
    BY <2>2, OfRange
<1>11. IsCode(t)
  <2>1. t # <<>>
    BY <1>5, <1>8
  <2>2. \A j \in DOMAIN t : /\ {"op", "dests"} \subseteq DOMAIN t[j]
                            /\ t[j].op \in Terminators <=> j = Len(t)
    <3> TAKE j \in DOMAIN t
    <3>1. j \in 1 .. m /\ pos[j] \in DOMAIN s /\ t[j] = s[pos[j]]
      BY <1>2, <1>5, <1>6, <1>9
    <3> QED
      BY <1>3, <1>5, <1>9, <3>1
  <2> QED
    BY <1>10, <2>1, <2>2 DEF IsCode
<1>12. Last(t) = Last(s)
  <2>1. Last(t) = t[m]
    BY <1>5, <1>11, CodeFacts
  <2> QED
    BY <1>2, <1>6, <1>8, <2>1
<1>13. Positions(s, t, pos)
  BY <1>2, <1>5, <1>6, <1>9 DEF Positions
<1> QED
  BY <1>1, <1>10, <1>11, <1>12, <1>13

\* A function keeps some of its instructions, the terminators among them.
IsThinning(G, X, P) ==
  /\ DOMAIN X = BlocksOf(G)
  /\ \A b \in BlocksOf(G) : /\ IsCode(X[b]) /\ Last(X[b]) = Last(G.code[b])
                            /\ Positions(G.code[b], X[b], P[b])
                            /\ Range(X[b]) \subseteq Range(G.code[b])

LEMMA SoundThinned ==
  ASSUME NEW G, Sound(G), NEW H, NEW X, H = [G EXCEPT !.code = X], NEW P, IsThinning(G, X, P)
  PROVE  /\ Sound(H) /\ SameFlow(G, H)
         /\ \A D, S : PhisLack(G, D, S) => PhisLack(H, D, S)
<1> PICK B : B = BlocksOf(G)
  OBVIOUS
<1>1. Shape(G) /\ Flow(G)
  BY DEF Sound, Shape
<1>2. /\ DOMAIN X = B
      /\ \A b \in B : /\ IsCode(X[b]) /\ Last(X[b]) = Last(G.code[b])
                      /\ Positions(G.code[b], X[b], P[b])
                      /\ Range(X[b]) \subseteq Range(G.code[b])
  BY DEF IsThinning
<1>3. SameFlow(G, H) /\ H.code = X /\ H.layout = G.layout /\ Shape(H) /\ BlocksOf(H) = B
  <2>1. \A b \in B : X[b] # <<>>
    BY <1>2 DEF IsCode
  <2> QED
    BY <1>1, <1>2, <2>1, CodeReplaced DEF SameFlow
<1>4. /\ Reachable(H) = Reachable(G) /\ Entry(H) = Entry(G)
      /\ \A x, y : dominates(H, x, y) <=> dominates(G, x, y)
  BY <1>1, <1>3, FlowKept
<1>5. ASSUME NEW b PROVE predecessors(H, b) = predecessors(G, b)
  BY <1>1, <1>3 DEF predecessors, SameFlow, Flow
<1>6. \A b \in B : \A k \in DOMAIN X[b] :
        /\ P[b][k] \in DOMAIN G.code[b] /\ X[b][k] = G.code[b][P[b][k]]
        /\ P[b][k] \in Nat /\ k \in Nat
        /\ \A j \in DOMAIN X[b] : j < k => P[b][j] < P[b][k]
        /\ \A j \in DOMAIN X[b] : k < j => P[b][k] < P[b][j]
  <2> TAKE b \in B
  <2> TAKE k \in DOMAIN X[b]
  <2>1. /\ P[b][k] \in DOMAIN G.code[b] /\ X[b][k] = G.code[b][P[b][k]]
        /\ \A j \in DOMAIN X[b] : j < k => P[b][j] < P[b][k]
        /\ \A j \in DOMAIN X[b] : k < j => P[b][k] < P[b][j]
    BY <1>2 DEF Positions
  <2>2. DOMAIN G.code[b] = 1 .. Len(G.code[b]) /\ Len(G.code[b]) \in Nat
    BY <1>1, ShapeFacts
  <2>3. DOMAIN X[b] = 1 .. Len(X[b]) /\ Len(X[b]) \in Nat
    BY <1>2, CodeFacts
  <2> QED
    BY <2>1, <2>2, <2>3
<1>7. ASSUME NEW val, NEW b, AtEnd(G, val, b)
      PROVE  AtEnd(H, val, b)
  BY <1>3, <1>4, <1>6, <1>7 DEF AtEnd
<1>8. ASSUME NEW val, NEW b \in B, NEW k \in DOMAIN X[b], Available(G, val, b, P[b][k])
      PROVE  Available(H, val, b, k)
  <2> SUFFICES ASSUME NEW c \in B, NEW i \in DOMAIN X[c], X[c][i].id = val
               PROVE  IF c = b THEN i < k ELSE dominates(G, c, b)
    BY <1>3, <1>4 DEF Available
  <2>1. /\ P[c][i] \in DOMAIN G.code[c] /\ G.code[c][P[c][i]].id = val
        /\ P[c][i] \in Nat /\ i \in Nat
    BY <1>6
  <2>2. IF c = b THEN P[c][i] < P[b][k] ELSE dominates(G, c, b)
    BY <1>8, <2>1 DEF Available
  <2>3. CASE c = b
    <3>1. PICK p, q : p = P[b][i] /\ q = P[b][k] /\ p \in Nat /\ q \in Nat /\ k \in Nat /\ p < q
      BY <1>6, <2>1, <2>2, <2>3
    <3>2. k < i => q < p
      BY <1>6, <2>3, <3>1
    <3>3. k # i
      BY <3>1
    <3>4. i < k
      BY <2>1, <3>1, <3>2, <3>3
    <3> QED
      BY <2>3, <3>4
  <2>4. CASE c # b
    BY <2>2, <2>4
  <2> QED
    BY <2>3, <2>4
<1>9. ASSUME NEW b \in B, NEW k \in DOMAIN X[b] PROVE Fits(H, b, k)
  <2>1. PICK p, I : p = P[b][k] /\ I = X[b][k] /\ p \in DOMAIN G.code[b] /\ G.code[b][p] = I
    BY <1>6
  <2>2. Fits(G, b, p)
    BY <2>1 DEF Sound
  <2>3. /\ IsInstruction(I, B)
        /\ ~IsPhi(I) => \A val \in Range(I.args) : Available(G, val, b, p)
        /\ IsPhi(I) => \A j \in DOMAIN I.dests : AtEnd(G, I.args[j], I.dests[j])
    BY <2>1, <2>2 DEF Fits
  <2>4. ~IsPhi(I) => \A val \in Range(I.args) : Available(H, val, b, k)
    BY <1>8, <2>1, <2>3
  <2>5. IsPhi(I) => \A j \in DOMAIN I.dests : AtEnd(H, I.args[j], I.dests[j])
    BY <1>7, <2>3
  <2>6. H.code[b][k] = I /\ IsInstruction(I, BlocksOf(H))
    BY <1>3, <2>1, <2>3
  <2> QED
    BY <2>4, <2>5, <2>6 DEF Fits
<1>10. AllocasInEntry(H)
  BY <1>2, <1>3, <1>4 DEF Sound, AllocasInEntry
<1>11. Sound(H)
  BY <1>3, <1>4, <1>5, <1>9, <1>10 DEF Sound
<1>12. ASSUME NEW D, NEW S, PhisLack(G, D, S)
       PROVE  PhisLack(H, D, S)
  <2>1. ASSUME NEW b \in B, NEW k \in DOMAIN X[b], NEW I, I = X[b][k], IsPhi(I)
        PROVE  /\ IsInjective(I.dests)
               /\ Range(I.dests) = IF I.id \in D THEN predecessors(H, b) \ S ELSE predecessors(H, b)
    <3>1. PICK p \in DOMAIN G.code[b] : G.code[b][p] = I
      BY <1>6, <2>1
    <3>2. /\ IsInjective(I.dests)
          /\ Range(I.dests) = IF I.id \in D THEN predecessors(G, b) \ S ELSE predecessors(G, b)
      BY <1>12, <2>1, <3>1 DEF PhisLack
    <3> QED
      BY <1>5, <3>2
  <2> QED
    BY <1>3, <2>1 DEF PhisLack
<1> QED
  BY <1>3, <1>11, <1>12

\* The promoted variables are removed, with what loads and stores them.
LEMMA StepRemoveVars ==
  ASSUME MRInv, RemoveVars
  PROVE  MRInv'
<1>1. /\ stage = "rename" /\ stage' = "done" /\ calls = <<>>
      /\ UNCHANGED <<original, vars, left, DF, phis, calls>> /\ UNCHANGED dtVars
  BY DEF RemoveVars
<1>2. PICK G, H, B, W, D : G = fn /\ H = fn' /\ B = BlocksOf(fn) /\ W = vars /\ D = DOMAIN phis
  OBVIOUS
<1>3. /\ Sound(G) /\ Shape(G) /\ PassTypes /\ DTInv /\ dtStep = "done"
      /\ PhisLack(G, D, Unended)
  BY <1>1, <1>2 DEF MRInv, PassTypes, Awaited, Sound
<1>4. Unended = {}
  <2>1. Len(calls) = 0 /\ \A k \in 1 .. 0 : FALSE
    BY <1>1
  <2> QED
    BY <1>1, <2>1 DEF Unended
<1> DEFINE K(b) == {I \in Range(G.code[b]) : /\ ~IsStoreTo(I, W) /\ ~IsLoadOf(I, W)
                                             /\ ~(I.op = "alloca" /\ I.id \in W)}
<1>5. PICK X : X = [b \in B |-> Kept(G.code[b], K(b))] /\ H = [G EXCEPT !.code = X]
  BY <1>1, <1>2 DEF RemoveVars
<1>6. ASSUME NEW b \in B
      PROVE  /\ IsCode(X[b]) /\ Last(X[b]) = Last(G.code[b])
             /\ \E pos : Positions(G.code[b], X[b], pos)
             /\ Range(X[b]) \subseteq Range(G.code[b])
  <2>1. PICK s : s = G.code[b] /\ IsCode(s) /\ Len(s) \in DOMAIN s /\ s[Len(s)].op \in Terminators
    BY <1>2, <1>3, ShapeFacts
  <2>2. s[Len(s)] \in K(b)
    <3>1. s[Len(s)] \in Range(G.code[b])
      BY <2>1 DEF Range
    <3>2. s[Len(s)].op \notin {"load", "store", "alloca"}
      BY <2>1 DEF Terminators
    <3> QED
      BY <3>1, <3>2 DEF IsStoreTo, IsLoadOf
  <2>3. X[b] = Kept(s, K(b))
    BY <1>5, <2>1
  <2> HIDE DEF K
  <2> QED
    BY <2>1, <2>2, <2>3, CodeKept
<1>7. PICK P : P = [b \in B |-> CHOOSE pos : Positions(G.code[b], X[b], pos)]
  OBVIOUS
<1>8. IsThinning(G, X, P)
  <2>1. \A b \in B : Positions(G.code[b], X[b], P[b])
    BY <1>6, <1>7
  <2> QED
    BY <1>2, <1>5, <1>6, <2>1 DEF IsThinning
<1>9. Sound(H) /\ SameFlow(G, H) /\ PhisLack(H, D, {})
  BY <1>3, <1>4, <1>5, <1>8, SoundThinned
<1>10. DTInv'
  BY <1>1, <1>2, <1>3, <1>9, WalkingKept
<1>11. PassTypes'
  <2>1. BlocksOf(H) = BlocksOf(G)
    BY <1>9 DEF SameFlow
  <2> QED
    BY <1>1, <1>2, <1>3, <2>1 DEF PassTypes, dtVars
<1>12. PhisLack(fn, DOMAIN phis, Awaited)'
  BY <1>1, <1>2, <1>9 DEF Awaited
<1> QED
  BY <1>1, <1>2, <1>9, <1>10, <1>11, <1>12 DEF MRInv


-----------------------------------------------------------------------------
(* What the invariant is for. *)

\* Nothing changes.
LEMMA StepIdle ==
  ASSUME MRInv, UNCHANGED <<fn, m2rVars, dtVars>>
  PROVE  MRInv'
<1>1. UNCHANGED <<fn, original, stage, vars, left, DF, phis, calls>> /\ UNCHANGED dtVars
  BY DEF m2rVars
<1>2. DTInv'
  BY <1>1, AnalysisIdle DEF MRInv
<1>3. Unplaced' = Unplaced
  BY <1>1 DEF Unplaced
<1>4. Unended' = Unended
  BY <1>1 DEF Unended
<1>5. Calls' = Calls
  BY <1>1 DEF Calls, IsCall, children, dtVars
<1>6. Awaited' = Awaited
  BY <1>1, <1>4 DEF Awaited
<1>7. stage # "start" => Sound(fn)' /\ PhisLack(fn, DOMAIN phis, Awaited)'
  <2>1. ASSUME stage # "start"
        PROVE  Sound(fn') /\ PhisLack(fn', DOMAIN phis', Awaited')
    BY <1>1, <1>6, <2>1 DEF MRInv
  <2> QED
    BY <2>1
<1>8. stage \in {"dominators", "phis", "rename"} => Named'
  BY <1>1, <1>3, PassIdle DEF MRInv
<1>9. PassTypes' /\ (DTInit => DTInit')
  BY <1>1 DEF PassTypes, MRInv, dtVars, DTInit
<1> QED
  BY <1>1, <1>2, <1>5, <1>7, <1>8, <1>9 DEF MRInv

\* Every step of the pass keeps the invariant.
LEMMA PassStep ==
  ASSUME MRInv, [MRNext]_<<fn, m2rVars, dtVars>>
  PROVE  MRInv'
<1>1. CASE FindVars
  BY <1>1, StepFindVars
<1>2. CASE Analyse
  BY <1>2, StepAnalyse
<1>3. CASE ComputeFrontiers
  BY <1>3, StepComputeFrontiers
<1>4. CASE PlacePhis
  BY <1>4, StepPlacePhis
<1>5. CASE RenameEntry
  BY <1>5, StepRenameEntry
<1>6. CASE RenameInstruction
  BY <1>6, StepRenameInstruction
<1>7. CASE EndBlock
  BY <1>7, StepEndBlock
<1>8. CASE RenameChild
  BY <1>8, StepRenameChild
<1>9. CASE LeaveBlock
  BY <1>9, StepLeaveBlock
<1>10. CASE RemoveVars
  BY <1>10, StepRemoveVars
<1>11. CASE UNCHANGED <<fn, m2rVars, dtVars>>
  BY <1>11, StepIdle
<1> QED
  BY <1>1, <1>2, <1>3, <1>4, <1>5, <1>6, <1>7, <1>8, <1>9, <1>10, <1>11 DEF MRNext

\* The blocks on the stack of a search or a walk are blocks of the function.
LEMMA PathOfBlocks ==
  ASSUME DTInv
  PROVE  \A n \in DOMAIN path : path[n].block \in BlocksOf(fn)
<1>1. Reachable(fn) \subseteq BlocksOf(fn)
  BY EntryFacts DEF DTInv, Flow
<1>2. CASE path = <<>>
  BY <1>2
<1>3. CASE path # <<>> /\ dtStep = "number"
  <2>1. /\ path \in Seq([block : Numbered, left : SUBSET BlocksOf(fn)])
        /\ \A k \in 1 .. Len(path) : path[k].block \in Numbered
        /\ Numbered \subseteq Reachable(fn)
    BY <1>3, FramesType DEF DTInv, Searching
  <2> DEFINE F == [block : Numbered, left : SUBSET BlocksOf(fn)]
  <2>2. path \in Seq(F)
    BY <2>1
  <2> HIDE DEF F
  <2>3. DOMAIN path = 1 .. Len(path)
    BY <2>2
  <2> QED
    BY <1>1, <2>1, <2>3
<1>4. CASE path # <<>> /\ dtStep = "tree"
  <2>1. /\ path \in Seq([block : Reachable(fn), left : SUBSET Reachable(fn)])
        /\ \A k \in 1 .. Len(path) : path[k].block \in Reachable(fn)
    BY <1>4, StackType DEF DTInv
  <2> DEFINE F == [block : Reachable(fn), left : SUBSET Reachable(fn)]
  <2>2. path \in Seq(F)
    BY <2>1
  <2> HIDE DEF F
  <2>3. DOMAIN path = 1 .. Len(path)
    BY <2>2
  <2> QED
    BY <1>1, <2>1, <2>3
<1> QED
  BY <1>2, <1>3, <1>4 DEF DTInv

LEMMA InvType ==
  ASSUME MRInv
  PROVE  MRTypeOK
<1>1. /\ PassTypes /\ DTInv
      /\ stage = "start" => fn \in Funcs
      /\ stage # "start" => Sound(fn)
      /\ stage = "rename" => Calls
  BY DEF MRInv
<1>2. /\ IsInjective(fn.layout) /\ Range(fn.layout) = BlocksOf(fn)
      /\ \A b \in BlocksOf(fn) : \A k \in DOMAIN fn.code[b] :
           IsInstruction(fn.code[b][k], BlocksOf(fn))
  <2>1. CASE stage = "start"
    <3>1. IsFunction(fn)
      BY <1>1, <2>1, FuncsAssumption
    <3> QED
      BY <3>1, FunctionInstructions DEF IsFunction
  <2>2. CASE stage # "start"
    BY <1>1, <2>2 DEF Sound, Fits
  <2> QED
    BY <2>1, <2>2
<1>3. ASSUME NEW I \in instructions(fn)
      PROVE  I.op \in Ops /\ Range(I.dests) \subseteq BlocksOf(fn)
  <2>1. PICK b \in BlocksOf(fn) : I \in Range(fn.code[b])
    BY <1>3 DEF instructions
  <2>2. PICK k \in DOMAIN fn.code[b] : fn.code[b][k] = I
    BY <2>1 DEF Range
  <2>3. PICK B, d : B = BlocksOf(fn) /\ d = I.dests /\ I.op \in Ops /\ d \in Seq(B)
    BY <1>2, <2>2 DEF IsInstruction
  <2>4. Range(d) \subseteq B
    <3>1. \A j \in DOMAIN d : d[j] \in B
      BY <2>3
    <3> QED
      BY <3>1 DEF Range
  <2> QED
    BY <2>3, <2>4
<1>4. \A n \in DOMAIN calls : DOMAIN calls[n].defs = vars
  <2>1. CASE stage = "rename"
    <3>1. calls \in Seq(Range(calls)) /\ \A k \in 1 .. Len(calls) : IsCall(calls[k])
      BY <1>1, <2>1 DEF Calls
    <3> DEFINE F == Range(calls)
    <3>2. calls \in Seq(F)
      BY <3>1
    <3> HIDE DEF F
    <3>3. DOMAIN calls = 1 .. Len(calls)
      BY <3>2
    <3> QED
      BY <3>1, <3>3 DEF IsCall
  <2>2. CASE stage # "rename"
    BY <1>1, <2>2 DEF PassTypes
  <2> QED
    BY <2>1, <2>2
<1>5. dtStep \in {"number", "semi", "bucket", "resolve", "tree", "done"}
  BY <1>1 DEF DTInv
<1>6. \A n \in DOMAIN path : path[n].block \in BlocksOf(fn)
  BY <1>1, PathOfBlocks
<1> QED
  BY <1>1, <1>2, <1>3, <1>4, <1>5, <1>6 DEF MRTypeOK, PassTypes

LEMMA InvPromoted ==
  ASSUME MRInv
  PROVE  PromotedWellFormed
<1> SUFFICES ASSUME stage = "done"
             PROVE  isWellFormed(fn)
  BY DEF PromotedWellFormed
<1>1. Sound(fn) /\ PhisLack(fn, DOMAIN phis, {})
  BY DEF MRInv, Awaited
<1> QED
  BY <1>1, SoundWellFormed

(***************************************************************************)
(* The invariant holds, for every set of functions.                        *)
(***************************************************************************)
THEOREM MRCorrect == MRSpec => []MRInv
BY PassStarts, PassStep, PTL DEF MRSpec

(***************************************************************************)
(* The state of the pass and of the analysis has the types it is given:    *)
(* blocks are laid out once, branches go to blocks of the function,        *)
(* frontiers are sets of blocks, every call of dfs knows a definition of   *)
(* each variable.                                                          *)
(***************************************************************************)
THEOREM MRTypes == MRSpec => []MRTypeOK
BY MRCorrect, InvType, PTL

(***************************************************************************)
(* Once a block has been taken to be linked or resolved, its number is     *)
(* that of its semidominator, whatever the order in which the search went  *)
(* through the successors.                                                 *)
(***************************************************************************)
THEOREM SemidominatorsComputed == MRSpec => []SemidominatorsFound
BY MRCorrect, InvSemidominators, PTL DEF MRInv

(***************************************************************************)
(* dominates() of the finished tree, which compares two intervals, means   *)
(* what the code takes it for: every path to one block passes the other.   *)
(***************************************************************************)
THEOREM TreeIsDominance == MRSpec => []TreeMeansDominance
BY MRCorrect, InvDominance, PTL DEF MRInv

(***************************************************************************)
(* assert(F.isWellFormed()) at the end of the pass holds: whatever         *)
(* well-formed function it is run on, every phi has got one value from     *)
(* each predecessor, and every value dominates its uses.                   *)
(***************************************************************************)
THEOREM PassKeepsWellFormed == MRSpec => []PromotedWellFormed
BY MRCorrect, InvPromoted, PTL
=============================================================================
