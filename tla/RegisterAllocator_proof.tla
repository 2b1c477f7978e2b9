----------------------- MODULE RegisterAllocator_proof -----------------------
(***************************************************************************)
(* Facts about the operators the register allocators are built from: the   *)
(* points of a function in layout order, the choice of the best registers, *)
(* the spill code of an instruction.                                       *)
(***************************************************************************)
EXTENDS RegisterAllocator, LiveVariableAnalysis_proof, SequenceTheorems

-----------------------------------------------------------------------------
(* Sequences of sets.                                                      *)

\* SetToSeq lists a finite set, every element once.
LEMMA SetToSeqFacts ==
  ASSUME NEW S, IsFiniteSet(S)
  PROVE  /\ SetToSeq(S) \in Seq(S)
         /\ Range(SetToSeq(S)) = S
         /\ IsInjective(SetToSeq(S))
<1> DEFINE n == Cardinality(S)
           s == SetToSeq(S)
<1>1. n \in Nat /\ \E f \in Bijection(1 .. n, S) : TRUE
  BY FS_CardinalityType DEF ExistsBijection
<1>2. PICK f : f \in [1 .. n -> S] /\ IsInjective(f)
  BY <1>1 DEF Bijection, Injection
<1>3. s \in [1 .. n -> S] /\ IsInjective(s)
  BY <1>2 DEF SetToSeq
<1> HIDE DEF s
<1>4. s \in Injection(1 .. n, S)
  BY <1>3 DEF Injection
<1>5. Cardinality(1 .. n) = n /\ IsFiniteSet(1 .. n)
  BY <1>1, FS_Interval
<1>6. s \in Surjection(1 .. n, S)
  BY <1>4, <1>5, FS_Injection
<1>7. Range(s) = S
  BY <1>3, <1>6 DEF Surjection, Range
<1>8. s \in Seq(S)
  BY <1>1, <1>3
<1> QED
  BY <1>3, <1>7, <1>8 DEF s

\* FlattenSeq concatenates one sequence after the other.
LEMMA FlattenDef ==
  ASSUME NEW ss, NEW n \in Nat, n > 0, Len(ss) = n
  PROVE  \E flat : /\ flat[1] = ss[1]
                   /\ \A k \in 2 .. n : flat[k] = flat[k - 1] \o ss[k]
                   /\ FlattenSeq(ss) = flat[n]
<1> DEFINE Upto(g, m) == g = [i \in 1 .. m |-> IF i = 1 THEN ss[i] ELSE g[i - 1] \o ss[i]]
           T == {m \in Nat : \E g : Upto(g, m)}
<1>1. 0 \in T
  <2> DEFINE g == [i \in 1 .. 0 |-> ss[i]]
  <2>1. Upto(g, 0)
    OBVIOUS
  <2> QED
    BY <2>1
<1>2. \A m \in Nat : m \in T => m + 1 \in T
  <2> SUFFICES ASSUME NEW m \in Nat, m \in T PROVE m + 1 \in T
    OBVIOUS
  <2>1. PICK g : Upto(g, m)
    OBVIOUS
  <2> DEFINE x == IF m = 0 THEN ss[1] ELSE g[m] \o ss[m + 1]
             h == [i \in 1 .. (m + 1) |-> IF i <= m THEN g[i] ELSE x]
  <2>2. ASSUME NEW i \in 1 .. (m + 1)
        PROVE  h[i] = IF i = 1 THEN ss[i] ELSE h[i - 1] \o ss[i]
    <3>1. CASE i \in 1 .. m
      <4>1. g[i] = IF i = 1 THEN ss[i] ELSE g[i - 1] \o ss[i]
        BY <2>1, <3>1, Zenon
      <4>2. h[i] = g[i] /\ (i # 1 => i - 1 \in 1 .. m /\ h[i - 1] = g[i - 1])
        BY <3>1
      <4> QED
        BY <4>1, <4>2
    <3>2. CASE i = m + 1 /\ m = 0
      BY <3>2
    <3>3. CASE i = m + 1 /\ m # 0
      BY <3>3
    <3> QED
      BY <3>1, <3>2, <3>3
  <2>3. Upto(h, m + 1)
    BY <2>2, Zenon
  <2>4. m + 1 \in Nat
    OBVIOUS
  <2> HIDE DEF h, Upto
  <2> QED
    BY <2>3, <2>4
<1>3. n \in T
  <2> HIDE DEF T
  <2> QED
    BY <1>1, <1>2, NatInd
<1>4. \E g : Upto(g, n)
  BY <1>3
<1> DEFINE flat == CHOOSE g : Upto(g, n)
<1>5. Upto(flat, n)
  BY <1>4
<1>6. FlattenSeq(ss) = flat[n]
  BY DEF FlattenSeq
<1> HIDE DEF flat
<1>7. \A i \in 1 .. n : flat[i] = IF i = 1 THEN ss[i] ELSE flat[i - 1] \o ss[i]
  BY <1>5, Zenon
<1>8. flat[1] = ss[1] /\ \A k \in 2 .. n : flat[k] = flat[k - 1] \o ss[k]
  <2>1. 1 \in 1 .. n /\ \A k \in 2 .. n : k \in 1 .. n /\ k # 1
    OBVIOUS
  <2> QED
    BY <1>7, <2>1, Zenon
<1> QED
  BY <1>6, <1>8

-----------------------------------------------------------------------------
(* Sequences without repetition.                                           *)

LEMMA AppendDistinct ==
  ASSUME NEW S, NEW s \in Seq(S), IsInjective(s), NEW x \in S, x \notin Range(s)
  PROVE  /\ Append(s, x) \in Seq(S) /\ IsInjective(Append(s, x))
         /\ Range(Append(s, x)) = Range(s) \cup {x}
<1> DEFINE t == Append(s, x)
           n == Len(s)
<1>1. /\ t \in Seq(S) /\ n \in Nat /\ DOMAIN s = 1 .. n /\ DOMAIN t = 1 .. (n + 1)
      /\ \A i \in 1 .. n : t[i] = s[i]
      /\ t[n + 1] = x
  OBVIOUS
<1>2. \A i \in 1 .. n : s[i] # x
  BY <1>1 DEF Range
<1> HIDE DEF t, n
<1>3. IsInjective(t)
  BY <1>1, <1>2 DEF IsInjective
<1>4. Range(t) = Range(s) \cup {x}
  BY <1>1 DEF Range
<1> QED
  BY <1>1, <1>3, <1>4 DEF t

LEMMA FrontDistinct ==
  ASSUME NEW S, NEW s \in Seq(S), IsInjective(s), s # <<>>
  PROVE  LET t == SubSeq(s, 1, Len(s) - 1)
         IN  /\ t \in Seq(S) /\ IsInjective(t) /\ s[Len(s)] \in S
             /\ s[Len(s)] \notin Range(t)
             /\ Range(s) = Range(t) \cup {s[Len(s)]}
             /\ Len(t) = Len(s) - 1
<1> DEFINE t == SubSeq(s, 1, Len(s) - 1)
           n == Len(s)
<1>a. n \in Nat /\ DOMAIN s = 1 .. n /\ n > 0
  OBVIOUS
<1>b. s[n] \in S /\ n - 1 \in Nat /\ \A i \in 1 .. (n - 1) : i \in 1 .. n
  BY <1>a
<1>c. /\ t \in Seq(S)
      /\ Len(t) = IF 1 <= n - 1 THEN n - 1 - 1 + 1 ELSE 0
      /\ \A i \in 1 .. (n - 1) - 1 + 1 : t[i] = s[1 + i - 1]
  <2>1. \A i \in 1 .. (n - 1) : s[i] \in S
    BY <1>b
  <2>2. 1 \in Int /\ n - 1 \in Int
    BY <1>a
  <2> HIDE DEF n
  <2>3. t = SubSeq(s, 1, n - 1)
    BY DEF n
  <2> HIDE DEF t
  <2> QED
    BY <2>1, <2>2, <2>3, SubSeqProperties
<1>d. Len(t) = n - 1 /\ \A i \in 1 .. (n - 1) : t[i] = s[i]
  BY <1>a, <1>c
<1>1. /\ t \in Seq(S) /\ n \in Nat /\ n > 0 /\ DOMAIN s = 1 .. n /\ DOMAIN t = 1 .. (n - 1)
      /\ \A i \in 1 .. (n - 1) : t[i] = s[i]
      /\ s[n] \in S /\ Len(t) = n - 1
  BY <1>a, <1>b, <1>c, <1>d
<1> HIDE DEF t, n
<1>2. IsInjective(t)
  <2> SUFFICES ASSUME NEW i \in 1 .. (n - 1), NEW j \in 1 .. (n - 1), t[i] = t[j] PROVE i = j
    BY <1>1 DEF IsInjective
  <2>1. i \in 1 .. n /\ j \in 1 .. n
    BY <1>1
  <2>2. s[i] = s[j]
    BY <1>1
  <2> QED
    BY <1>1, <2>1, <2>2 DEF IsInjective
<1>3. s[n] \notin Range(t)
  BY <1>1 DEF IsInjective, Range
<1>4. Range(s) = Range(t) \cup {s[n]}
  <2>1. \A i \in 1 .. n : i \in 1 .. (n - 1) \/ i = n
    BY <1>1
  <2> QED
    BY <1>1, <2>1 DEF Range
<1> QED
  BY <1>1, <1>2, <1>3, <1>4 DEF t, n

LEMMA ConcatDistinct ==
  ASSUME NEW S, NEW s \in Seq(S), NEW t \in Seq(S), IsInjective(s), IsInjective(t),
         Range(s) \cap Range(t) = {}
  PROVE  /\ s \o t \in Seq(S) /\ IsInjective(s \o t)
         /\ Range(s \o t) = Range(s) \cup Range(t)
<1> DEFINE u == s \o t
           n == Len(s)
           m == Len(t)
<1>1. /\ u \in Seq(S) /\ n \in Nat /\ m \in Nat
      /\ DOMAIN s = 1 .. n /\ DOMAIN t = 1 .. m /\ DOMAIN u = 1 .. (n + m)
      /\ \A i \in 1 .. (n + m) : u[i] = IF i <= n THEN s[i] ELSE t[i - n]
  OBVIOUS
<1> HIDE DEF u, n, m
<1>a. ASSUME NEW i \in 1 .. n PROVE u[i] = s[i]
  BY <1>1
<1>b. ASSUME NEW i \in 1 .. m PROVE i + n \in 1 .. (n + m) /\ u[i + n] = t[i]
  <2>1. i + n \in 1 .. (n + m) /\ ~(i + n <= n) /\ (i + n) - n = i
    <3>1. i \in Nat /\ n \in Nat /\ m \in Nat /\ 1 <= i /\ i <= m
      BY <1>1
    <3> QED
      BY <3>1
  <2> QED
    BY <2>1, <1>1
<1>2. /\ \A i \in 1 .. n : u[i] = s[i]
      /\ \A i \in 1 .. m : i + n \in 1 .. (n + m) /\ u[i + n] = t[i]
  BY <1>a, <1>b
<1>3. \A i \in 1 .. n, j \in 1 .. m : s[i] # t[j]
  BY <1>1 DEF Range
<1>4. \A i, j \in 1 .. (n + m) : u[i] = u[j] => i = j
  <2> SUFFICES ASSUME NEW i \in 1 .. (n + m), NEW j \in 1 .. (n + m), u[i] = u[j]
               PROVE  i = j
    OBVIOUS
  <2>1. CASE i <= n /\ j <= n
    <3>1. i \in 1 .. n /\ j \in 1 .. n
      BY <2>1, <1>1
    <3>2. s[i] = s[j]
      BY <3>1, <1>2
    <3> QED
      BY <3>1, <3>2, <1>1 DEF IsInjective
  <2>2. CASE i > n /\ j > n
    <3>1. i - n \in 1 .. m /\ j - n \in 1 .. m /\ t[i - n] = t[j - n]
      BY <2>2, <1>1
    <3>2. i - n = j - n
      BY <3>1, <1>1 DEF IsInjective
    <3> QED
      BY <3>2, <1>1
  <2>3. CASE i <= n /\ j > n
    BY <2>3, <1>1, <1>3
  <2>4. CASE i > n /\ j <= n
    BY <2>4, <1>1, <1>3
  <2> QED
    BY <2>1, <2>2, <2>3, <2>4, <1>1
<1>5. IsInjective(u)
  BY <1>4, <1>1 DEF IsInjective
<1>6. Range(u) = Range(s) \cup Range(t)
  <2>1. \A i \in 1 .. (n + m) : i \in 1 .. n \/ i - n \in 1 .. m
    BY <1>1
  <2>2. Range(u) \subseteq Range(s) \cup Range(t)
    BY <2>1, <1>1 DEF Range
  <2>3. Range(s) \subseteq Range(u)
    BY <1>1, <1>2 DEF Range
  <2>4. ASSUME NEW x \in Range(t) PROVE x \in Range(u)
    <3>1. PICK i \in 1 .. m : t[i] = x
      BY <1>1 DEF Range
    <3> QED
      BY <3>1, <1>1, <1>2 DEF Range
  <2> QED
    BY <2>2, <2>3, <2>4
<1> QED
  BY <1>1, <1>5, <1>6 DEF u

-----------------------------------------------------------------------------
(* The points of a function in layout order: each once, those of a block   *)
(* next to each other.                                                     *)

LEMMA ConcatBlocks ==
  ASSUME NEW G, IsFunction(G), NEW s \in Seq(Points(G)), NEW t \in Seq(Points(G)),
         BlockByBlock(G, s), BlockByBlock(G, t)
  PROVE  BlockByBlock(G, s \o t)
<1> DEFINE u == s \o t
           n == Len(s)
           l == Len(t)
<1>1. /\ n \in Nat /\ l \in Nat /\ DOMAIN s = 1 .. n /\ DOMAIN t = 1 .. l /\ DOMAIN u = 1 .. (n + l)
      /\ \A i \in 1 .. (n + l) : u[i] = IF i <= n THEN s[i] ELSE t[i - n]
  OBVIOUS
<1>2. \A i \in 1 .. n : s[i] \in Points(G)
  BY <1>1
<1>3. \A i \in 1 .. l : t[i] \in Points(G)
  BY <1>1
<1> HIDE DEF u, n, l
<1> SUFFICES ASSUME NEW m \in 1 .. (n + l), NEW j \in InstrsOf(G, u[m][1])
             PROVE  m - u[m][2] + j \in 1 .. (n + l) /\ u[m - u[m][2] + j] = <<u[m][1], j>>
  BY <1>1 DEF BlockByBlock, u
<1>4. CASE m <= n
  <2>1. m \in 1 .. n /\ u[m] = s[m]
    BY <1>1, <1>4
  <2>2. m - s[m][2] + j \in 1 .. n /\ s[m - s[m][2] + j] = <<s[m][1], j>>
    BY <1>1, <2>1 DEF BlockByBlock
  <2> QED
    BY <1>1, <2>1, <2>2
<1>5. CASE m > n
  <2> DEFINE k == m - n
  <2>1. k \in 1 .. l /\ u[m] = t[k]
    BY <1>1, <1>5
  <2>2. k - t[k][2] + j \in 1 .. l /\ t[k - t[k][2] + j] = <<t[k][1], j>>
    BY <1>1, <2>1 DEF BlockByBlock
  <2>3. t[k][2] \in Nat /\ j \in Nat
    BY <2>1, <1>3, PointFacts DEF InstrsOf
  <2>4. m - u[m][2] + j = n + (k - t[k][2] + j)
    BY <1>1, <2>1, <2>3
  <2>5. \A x \in 1 .. l : n + x \in 1 .. (n + l) /\ u[n + x] = t[x]
    BY <1>1
  <2>6. m - u[m][2] + j \in 1 .. (n + l) /\ u[m - u[m][2] + j] = t[k - t[k][2] + j]
    BY <2>2, <2>4, <2>5
  <2> QED
    BY <2>1, <2>2, <2>6
<1> QED
  BY <1>1, <1>4, <1>5

LEMMA LayoutFacts ==
  ASSUME NEW G, IsFunction(G)
  PROVE  /\ LayoutPoints(G) \in Seq(Points(G))
         /\ IsInjective(LayoutPoints(G))
         /\ Range(LayoutPoints(G)) = Points(G)
         /\ BlockByBlock(G, LayoutPoints(G))
<1> DEFINE n == Len(G.layout)
           b(k) == G.layout[k]
           ss == [k \in DOMAIN G.layout |-> [i \in InstrsOf(G, b(k)) |-> <<b(k), i>>]]
           of(k) == {p \in Points(G) : \E j \in 1 .. k : p[1] = b(j)}
           Good(s, k) == /\ s \in Seq(Points(G)) /\ IsInjective(s) /\ Range(s) = of(k)
                         /\ BlockByBlock(G, s)
<1>1. /\ n \in Nat /\ n > 0 /\ DOMAIN G.layout = 1 .. n
      /\ \A k \in 1 .. n : b(k) \in BlocksOf(G)
      /\ \A i, j \in 1 .. n : b(i) = b(j) => i = j
      /\ \A c \in BlocksOf(G) : \E k \in 1 .. n : b(k) = c
      /\ \A c \in BlocksOf(G) : Len(G.code[c]) \in Nat
  BY FunctionFacts
<1>2. LayoutPoints(G) = FlattenSeq(ss)
  BY DEF LayoutPoints
<1>3. Len(ss) = n /\ \A k \in 1 .. n : ss[k] = [i \in InstrsOf(G, b(k)) |-> <<b(k), i>>]
  BY <1>1
<1>4. ASSUME NEW k \in 1 .. n
      PROVE  /\ ss[k] \in Seq(Points(G)) /\ IsInjective(ss[k])
             /\ Range(ss[k]) = {p \in Points(G) : p[1] = b(k)}
             /\ BlockByBlock(G, ss[k])
  <2> DEFINE l == Len(G.code[b(k)])
  <2>1. /\ l \in Nat /\ InstrsOf(G, b(k)) = 1 .. l
        /\ ss[k] = [i \in 1 .. l |-> <<b(k), i>>]
        /\ \A i \in 1 .. l : <<b(k), i>> \in Points(G)
    BY <1>1, <1>3, <1>4, PointFacts DEF InstrsOf
  <2>2. \A p \in Points(G) : p[1] = b(k) => p[2] \in 1 .. l /\ p = <<b(k), p[2]>>
    BY PointFacts
  <2> DEFINE s == [i \in 1 .. l |-> <<b(k), i>>]
             c == b(k)
  <2> HIDE DEF b, l, ss
  <2>3. s \in Seq(Points(G)) /\ IsInjective(s)
    BY <2>1 DEF IsInjective
  <2>4. Range(s) = {p \in Points(G) : p[1] = b(k)}
    BY <2>1, <2>2 DEF Range
  <2>5. BlockByBlock(G, s)
    BY <2>1 DEF BlockByBlock
  <2> QED
    BY <2>1, <2>3, <2>4, <2>5
<1> HIDE DEF ss, b, n
<1>5. PICK flat : /\ flat[1] = ss[1]
                  /\ \A k \in 2 .. n : flat[k] = flat[k - 1] \o ss[k]
                  /\ FlattenSeq(ss) = flat[n]
  BY <1>1, <1>3, FlattenDef
<1> DEFINE T == {k \in Nat : k \in 1 .. n => Good(flat[k], k)}
<1>6. 0 \in T
  OBVIOUS
<1>7. \A k \in Nat : k \in T => k + 1 \in T
  <2> SUFFICES ASSUME NEW k \in Nat, k \in T, k + 1 \in 1 .. n PROVE Good(flat[k + 1], k + 1)
    OBVIOUS
  <2>1. CASE k = 0
    <3>1. of(1) = {p \in Points(G) : p[1] = b(1)}
      OBVIOUS
    <3>2. Good(ss[1], 1)
      BY <1>1, <1>4, <3>1
    <3> HIDE DEF Good
    <3> QED
      BY <2>1, <1>5, <3>2
  <2>2. CASE k # 0
    <3> DEFINE s == flat[k]
               t == ss[k + 1]
    <3>a. k \in 1 .. n /\ k + 1 \in 2 .. n /\ (k + 1) - 1 = k
      BY <2>2, <1>1
    <3>b. flat[k + 1] = s \o t
      BY <3>a, <1>5
    <3>1. k \in 1 .. n /\ k + 1 \in 2 .. n /\ flat[k + 1] = s \o t /\ Good(s, k)
      BY <3>a, <3>b
    <3>2. /\ s \in Seq(Points(G)) /\ IsInjective(s) /\ Range(s) = of(k) /\ BlockByBlock(G, s)
          /\ t \in Seq(Points(G)) /\ IsInjective(t)
          /\ Range(t) = {p \in Points(G) : p[1] = b(k + 1)} /\ BlockByBlock(G, t)
      BY <3>1, <1>4
    <3>3. Range(s) \cap Range(t) = {}
      BY <3>1, <3>2, <1>1
    <3>4. Range(s) \cup Range(t) = of(k + 1)
      <4>1. \A j \in 1 .. (k + 1) : j \in 1 .. k \/ j = k + 1
        OBVIOUS
      <4>2. \A j : j \in 1 .. k => j \in 1 .. (k + 1)
        OBVIOUS
      <4>3. k + 1 \in 1 .. (k + 1)
        OBVIOUS
      <4> QED
        BY <3>2, <4>1, <4>2, <4>3
    <3> HIDE DEF s, t
    <3>5. s \o t \in Seq(Points(G)) /\ IsInjective(s \o t) /\ Range(s \o t) = of(k + 1)
      BY <3>2, <3>3, <3>4, ConcatDistinct
    <3>6. BlockByBlock(G, s \o t)
      BY <3>2, ConcatBlocks
    <3> QED
      BY <3>1, <3>5, <3>6
  <2> QED
    BY <2>1, <2>2
<1>8. n \in T
  <2> HIDE DEF T
  <2> QED
    BY <1>1, <1>6, <1>7, NatInd
<1>9. Good(flat[n], n)
  BY <1>1, <1>8
<1>10. of(n) = Points(G)
  BY <1>1, PointFacts
<1> QED
  BY <1>2, <1>5, <1>9, <1>10

-----------------------------------------------------------------------------
(* Renamed instructions and spill code.                                    *)

LEMMA RangeFinite ==
  ASSUME NEW S, NEW s \in Seq(S)
  PROVE  IsFiniteSet(Range(s)) /\ Range(s) \subseteq S
<1>1. Len(s) \in Nat /\ DOMAIN s = 1 .. Len(s) /\ s \in [1 .. Len(s) -> S]
  OBVIOUS
<1>2. s \in Surjection(1 .. Len(s), Range(s))
  BY <1>1 DEF Surjection, Range
<1>3. IsFiniteSet(1 .. Len(s))
  BY <1>1, FS_Interval
<1> QED
  BY <1>1, <1>2, <1>3, FS_Surjection DEF Range

\* Renaming keeps everything but the operands.
LEMMA RenameFacts ==
  ASSUME NEW I \in Instr, NEW in, NEW to,
         \A v \in DOMAIN in : in[v] \in Regs, \A v \in DOMAIN to : to[v] \in Regs
  PROVE  LET J == Rename(I, in, to)
         IN  /\ J \in Instr
             /\ J.srcs = RenameSeq(I.srcs, in) /\ J.dsts = RenameSeq(I.dsts, to)
             /\ DOMAIN J.srcs = DOMAIN I.srcs /\ DOMAIN J.dsts = DOMAIN I.dsts
             /\ J.implicitSrcs = I.implicitSrcs /\ J.implicitDsts = I.implicitDsts
             /\ J.coalescent = I.coalescent /\ J.blockOps = I.blockOps /\ J.mem = I.mem
<1>1. ASSUME NEW s \in Seq(Regs), NEW m, \A v \in DOMAIN m : m[v] \in Regs
      PROVE  RenameSeq(s, m) \in Seq(Regs) /\ DOMAIN RenameSeq(s, m) = DOMAIN s
  <2>1. Len(s) \in Nat /\ DOMAIN s = 1 .. Len(s) /\ \A k \in 1 .. Len(s) : s[k] \in Regs
    OBVIOUS
  <2> DEFINE n == Len(s)
             t == RenameSeq(s, m)
  <2> HIDE DEF n
  <2>2. t = [k \in 1 .. n |-> IF s[k] \in DOMAIN m THEN m[s[k]] ELSE s[k]]
    BY <2>1 DEF RenameSeq, n
  <2>3. t \in [1 .. n -> Regs] /\ n \in Nat
    BY <1>1, <2>1, <2>2 DEF n
  <2> QED
    BY <2>1, <2>3 DEF n
<1>2. /\ RenameSeq(I.srcs, in) \in Seq(Regs) /\ DOMAIN RenameSeq(I.srcs, in) = DOMAIN I.srcs
      /\ RenameSeq(I.dsts, to) \in Seq(Regs) /\ DOMAIN RenameSeq(I.dsts, to) = DOMAIN I.dsts
  BY <1>1 DEF Instr
<1> QED
  BY <1>2 DEF Rename, Instr

\* The operands of an instruction that are in W.
LEMMA OperandSets ==
  ASSUME NEW I \in Instr, NEW W
  PROVE  /\ IsFiniteSet(SrcsIn(I, W)) /\ IsFiniteSet(DstsIn(I, W))
         /\ SrcsIn(I, W) \subseteq Regs \cap W /\ DstsIn(I, W) \subseteq Regs \cap W
<1>1. I.srcs \in Seq(Regs) /\ I.dsts \in Seq(Regs)
  BY DEF Instr
<1>2. /\ IsFiniteSet(Range(I.srcs)) /\ IsFiniteSet(Range(I.dsts))
      /\ Range(I.srcs) \subseteq Regs /\ Range(I.dsts) \subseteq Regs
  BY <1>1, RangeFinite
<1> QED
  BY <1>2, FS_Intersection DEF SrcsIn, DstsIn

\* Loads, then the instruction, then stores.
LEMMA SpilledFacts ==
  ASSUME NEW I \in Instr, NEW W \in SUBSET VirtRegs, NEW in, NEW to,
         \A v \in DOMAIN in : in[v] \in Regs, \A v \in DOMAIN to : to[v] \in Regs,
         SrcsIn(I, W) \subseteq DOMAIN in, DstsIn(I, W) \subseteq DOMAIN to
  PROVE  LET ss == SetToSeq(SrcsIn(I, W))
             ds == SetToSeq(DstsIn(I, W))
             c  == Spilled(I, in, to, W)
         IN  /\ c \in Seq(Instr)
             /\ Len(ss) \in Nat /\ Len(ds) \in Nat /\ Len(c) = Len(ss) + 1 + Len(ds)
             /\ \A j \in 1 .. Len(ss) : c[j] = LoadFrom(ss[j], in[ss[j]])
             /\ c[Len(ss) + 1] = Rename(I, in, to)
             /\ \A j \in 1 .. Len(ds) : c[Len(ss) + 1 + j] = StoreTo(ds[j], to[ds[j]])
<1> DEFINE ss == SetToSeq(SrcsIn(I, W))
           ds == SetToSeq(DstsIn(I, W))
           J  == Rename(I, in, to)
           loads == [k \in DOMAIN ss |-> LoadFrom(ss[k], in[ss[k]])]
           stores == [k \in DOMAIN ds |-> StoreTo(ds[k], to[ds[k]])]
           x == Len(ss)
           y == Len(ds)
<1>1. /\ ss \in Seq(SrcsIn(I, W)) /\ ds \in Seq(DstsIn(I, W))
      /\ SrcsIn(I, W) \subseteq W /\ DstsIn(I, W) \subseteq W
  BY OperandSets, SetToSeqFacts
<1>2. J \in Instr
  BY RenameFacts
<1>3. Spilled(I, in, to, W) = loads \o <<J>> \o stores
  BY DEF Spilled
<1> HIDE DEF ss, ds, J
<1>4. /\ x \in Nat /\ DOMAIN ss = 1 .. x /\ \A k \in 1 .. x : ss[k] \in SrcsIn(I, W)
      /\ y \in Nat /\ DOMAIN ds = 1 .. y /\ \A k \in 1 .. y : ds[k] \in DstsIn(I, W)
  BY <1>1
<1> HIDE DEF x, y
<1>5. ASSUME NEW v \in W, NEW r \in Regs
      PROVE  LoadFrom(v, r) \in Instr /\ StoreTo(v, r) \in Instr
  <2>1. <<r>> \in Seq(Regs) /\ <<>> \in Seq(Regs)
    OBVIOUS
  <2> QED
    BY <2>1 DEF LoadFrom, StoreTo, Instr
<1>6. loads \in [1 .. x -> Instr] /\ stores \in [1 .. y -> Instr]
  BY <1>1, <1>4, <1>5
<1>7. loads \in Seq(Instr) /\ Len(loads) = x /\ stores \in Seq(Instr) /\ Len(stores) = y
  BY <1>4, <1>6
<1>8. /\ \A k \in 1 .. x : loads[k] = LoadFrom(ss[k], in[ss[k]])
      /\ \A k \in 1 .. y : stores[k] = StoreTo(ds[k], to[ds[k]])
  BY <1>4
<1> HIDE DEF loads, stores
<1> DEFINE lj == loads \o <<J>>
           c == lj \o stores
<1>9. /\ lj \in Seq(Instr) /\ Len(lj) = x + 1 /\ lj[x + 1] = J
      /\ \A k \in 1 .. x : lj[k] = loads[k]
  BY <1>2, <1>4, <1>7
<1> HIDE DEF lj
<1>10. /\ c \in Seq(Instr) /\ Len(c) = x + 1 + y
       /\ \A k \in 1 .. x + 1 + y : c[k] = IF k <= x + 1 THEN lj[k] ELSE stores[k - (x + 1)]
  <2>1. /\ c \in Seq(Instr) /\ Len(c) = Len(lj) + Len(stores)
        /\ \A k \in 1 .. Len(lj) + Len(stores) :
             c[k] = IF k <= Len(lj) THEN lj[k] ELSE stores[k - Len(lj)]
    BY <1>7, <1>9, ConcatProperties
  <2> QED
    BY <2>1, <1>7, <1>9
<1> HIDE DEF c
<1>11. c = Spilled(I, in, to, W)
  BY <1>3 DEF c, lj
<1>12. \A k \in 1 .. x : c[k] = LoadFrom(ss[k], in[ss[k]])
  BY <1>4, <1>8, <1>9, <1>10
<1>13. c[x + 1] = J
  BY <1>4, <1>9, <1>10
<1>14. \A j \in 1 .. y : c[x + 1 + j] = StoreTo(ds[j], to[ds[j]])
  <2> SUFFICES ASSUME NEW j \in 1 .. y PROVE c[x + 1 + j] = stores[j]
    BY <1>8
  <2>1. x + 1 + j \in 1 .. x + 1 + y /\ ~(x + 1 + j <= x + 1) /\ (x + 1 + j) - (x + 1) = j
    BY <1>4
  <2> QED
    BY <1>10, <2>1
<1> QED
  BY <1>4, <1>10, <1>11, <1>12, <1>13, <1>14 DEF ss, ds, J, x, y

\* c loads the sources of I that are in W, is I with other registers, and stores its
\* destinations.
SpillsTo(c, I, in, to, W) ==
  LET ss == SetToSeq(SrcsIn(I, W))
      ds == SetToSeq(DstsIn(I, W))
  IN  /\ c \in Seq(Instr)
      /\ Len(ss) \in Nat /\ Len(ds) \in Nat /\ Len(c) = Len(ss) + 1 + Len(ds)
      /\ \A j \in 1 .. Len(ss) : c[j] = LoadFrom(ss[j], in[ss[j]])
      /\ c[Len(ss) + 1] = Rename(I, in, to)
      /\ \A j \in 1 .. Len(ds) : c[Len(ss) + 1 + j] = StoreTo(ds[j], to[ds[j]])

LEMMA SpilledSpills ==
  ASSUME NEW I \in Instr, NEW W \in SUBSET VirtRegs, NEW in, NEW to,
         \A v \in DOMAIN in : in[v] \in Regs, \A v \in DOMAIN to : to[v] \in Regs,
         SrcsIn(I, W) \subseteq DOMAIN in, DstsIn(I, W) \subseteq DOMAIN to
  PROVE  SpillsTo(Spilled(I, in, to, W), I, in, to, W)
BY SpilledFacts DEF SpillsTo

\* A map of borrowed registers: injective on what is read and on
\* what is written.
LEMMA BorrowedFacts ==
  ASSUME NEW S, NEW D, NEW A, NEW B, NEW C, NEW m \in Borrowed(S, D, A, B, C),
         \A r \in A : r \notin B /\ r \notin C
  PROVE  /\ \A v : v \in DOMAIN m <=> v \in S \/ v \in D
         /\ \A v \in S \cap D : m[v] \in A
         /\ \A v \in S \ D : m[v] \in B
         /\ \A v \in D \ S : m[v] \in C
         /\ \A v, w \in S : m[v] = m[w] => v = w
         /\ \A v, w \in D : m[v] = m[w] => v = w
<1>0. PICK both \in Bijection(S \cap D, A), src \in Bijection(S \ D, B),
           dst \in Bijection(D \ S, C) : m = Joined(both, Joined(src, dst))
  BY DEF Borrowed
<1>1. /\ both \in [S \cap D -> A] /\ src \in [S \ D -> B] /\ dst \in [D \ S -> C]
      /\ \A v, w \in S \cap D : both[v] = both[w] => v = w
      /\ \A v, w \in S \ D : src[v] = src[w] => v = w
      /\ \A v, w \in D \ S : dst[v] = dst[w] => v = w
  BY DEF Bijection, Injection, IsInjective
<1>2. DOMAIN m = S \cup D
  BY <1>0, <1>1 DEF Joined
<1>3. \A v \in S \cap D : m[v] = both[v] /\ m[v] \in A
  BY <1>0, <1>1 DEF Joined
<1>4. \A v \in S \ D : m[v] = src[v] /\ m[v] \in B
  BY <1>0, <1>1 DEF Joined
<1>5. \A v \in D \ S : m[v] = dst[v] /\ m[v] \in C
  BY <1>0, <1>1 DEF Joined
<1>6. \A v, w \in S : m[v] = m[w] => v = w
  BY <1>1, <1>3, <1>4
<1>7. \A v, w \in D : m[v] = m[w] => v = w
  BY <1>1, <1>3, <1>5
<1> QED
  BY <1>2, <1>3, <1>4, <1>5, <1>6, <1>7

\* The instructions of a function.
LEMMA InstrAt ==
  ASSUME NEW G, IsFunction(G), NEW p \in Points(G)
  PROVE  /\ At(G, p) \in Instr /\ use(At(G, p)) \subseteq Regs /\ def(At(G, p)) \subseteq Regs
<1>1. /\ p[1] \in BlocksOf(G) /\ p[2] \in 1 .. Len(G.code[p[1]])
      /\ G.code[p[1]] \in Seq(Instr)
  BY PointFacts DEF IsFunction
<1>2. At(G, p) \in Instr
  BY <1>1 DEF At
<1>3. use(At(G, p)) \subseteq Regs /\ def(At(G, p)) \subseteq Regs
  BY <1>1, InstructionRegs DEF At
<1> QED
  BY <1>2, <1>3

-----------------------------------------------------------------------------
(* The choice of registers.                                                *)

\* isBetter orders the registers.
LEMMA BetterOrder ==
  /\ \A p \in PhysRegs : ~isBetter(p, p)
  /\ \A p, q \in PhysRegs : p # q => isBetter(p, q) \/ isBetter(q, p)
  /\ \A p, q, r \in PhysRegs : isBetter(p, q) /\ isBetter(q, r) => isBetter(p, r)
<1>1. /\ \A p \in PhysRegs : Idx[p] \in Nat
      /\ \A p, q \in PhysRegs : Idx[p] = Idx[q] => p = q
  BY RegsAssumption
<1>2. \A x, y, z \in Nat : /\ ~(x < x) /\ (x # y => x < y \/ y < x)
                           /\ (x < y /\ y < z => x < z)
  OBVIOUS
<1>3. \A p \in PhysRegs : ~isBetter(p, p)
  BY <1>1, <1>2 DEF isBetter
<1>4. ASSUME NEW p \in PhysRegs, NEW q \in PhysRegs, p # q
      PROVE  isBetter(p, q) \/ isBetter(q, p)
  <2>1. Idx[p] < Idx[q] \/ Idx[q] < Idx[p]
    BY <1>1, <1>2, <1>4
  <2> QED
    BY <2>1 DEF isBetter
<1>5. ASSUME NEW p \in PhysRegs, NEW q \in PhysRegs, NEW r \in PhysRegs,
             isBetter(p, q), isBetter(q, r)
      PROVE  isBetter(p, r)
  <2>1. Idx[p] < Idx[q] /\ Idx[q] < Idx[r] => Idx[p] < Idx[r]
    BY <1>1, <1>2
  <2> QED
    BY <2>1, <1>5 DEF isBetter
<1> QED
  BY <1>3, <1>4, <1>5

LEMMA SizeOfDifference ==
  ASSUME NEW S, IsFiniteSet(S), NEW T \in SUBSET S
  PROVE  Cardinality(S \ T) = Cardinality(S) - Cardinality(T)
<1>1. /\ IsFiniteSet(T) /\ Cardinality(T) \in Nat
      /\ IsFiniteSet(S \ T) /\ Cardinality(S \ T) \in Nat
  BY FS_Subset, FS_CardinalityType
<1>2. T \cup (S \ T) = S /\ T \cap (S \ T) = {}
  OBVIOUS
<1>3. Cardinality(T \cup (S \ T)) = Cardinality(T) + Cardinality(S \ T) - Cardinality({})
  BY <1>1, <1>2, FS_Union
<1>4. Cardinality({}) = 0
  BY FS_EmptySet
<1>5. \A x, y, z \in Nat : z = x + y - 0 => y = z - x
  OBVIOUS
<1>6. Cardinality(S) \in Nat /\ Cardinality(S) = Cardinality(T) + Cardinality(S \ T) - 0
  BY <1>2, <1>3, <1>4, FS_CardinalityType
<1> QED
  BY <1>1, <1>5, <1>6

\* A greedy loop finds as many registers as it looks for, if there are.
LEMMA BestOfSize ==
  ASSUME NEW S \in SUBSET PhysRegs, NEW n \in Nat, n <= Cardinality(S)
  PROVE  IsFiniteSet(BestOf(n, S)) /\ Cardinality(BestOf(n, S)) = n
<1> DEFINE before(p) == {q \in S : isBetter(q, p)}
           c == Cardinality(S)
           rank == [p \in S |-> Cardinality(before(p))]
           best == BestOf(n, S)
<1>1. IsFiniteSet(S) /\ c \in Nat
  BY RegsAssumption, FS_Subset, FS_CardinalityType
<1>2. ASSUME NEW p \in S
      PROVE  /\ IsFiniteSet(before(p)) /\ Cardinality(before(p)) \in Nat
             /\ Cardinality(before(p)) < c
  <2>1. p \notin before(p) /\ before(p) \in SUBSET (S \ {p})
    BY BetterOrder
  <2>2. IsFiniteSet(S \ {p}) /\ Cardinality(S \ {p}) = c - 1
    BY <1>1, FS_RemoveElement
  <2>3. IsFiniteSet(before(p)) /\ Cardinality(before(p)) <= c - 1
    BY <2>1, <2>2, FS_Subset
  <2>4. Cardinality(before(p)) \in Nat
    BY <2>3, FS_CardinalityType
  <2> QED
    BY <2>3, <2>4, <1>1
<1>3. ASSUME NEW p \in S, NEW q \in S, isBetter(p, q)
      PROVE  Cardinality(before(p)) < Cardinality(before(q))
  <2>1. before(p) \cup {p} \in SUBSET before(q) /\ p \notin before(p)
    BY <1>3, BetterOrder
  <2>2. /\ IsFiniteSet(before(p) \cup {p})
        /\ Cardinality(before(p) \cup {p}) = Cardinality(before(p)) + 1
    BY <2>1, <1>2, FS_AddElement
  <2>3. Cardinality(before(p) \cup {p}) <= Cardinality(before(q))
    BY <2>1, <1>2, FS_Subset
  <2>4. Cardinality(before(p)) \in Nat /\ Cardinality(before(q)) \in Nat
    BY <1>2
  <2>5. \A x, y \in Nat : x + 1 <= y => x < y
    OBVIOUS
  <2>6. Cardinality(before(p)) + 1 <= Cardinality(before(q))
    BY <2>2, <2>3
  <2> HIDE DEF before
  <2> QED
    BY <2>4, <2>5, <2>6
<1>4. \A p \in S : rank[p] \in Nat /\ rank[p] < c /\ rank[p] = Cardinality(before(p))
  BY <1>2
<1>5. \A p, q \in S : isBetter(p, q) => rank[p] < rank[q]
  BY <1>3, <1>4
<1>6. best = {p \in S : rank[p] < n}
  BY <1>4 DEF BestOf
<1>d. DOMAIN rank = S
  OBVIOUS
<1>f. rank \in [S -> 0 .. (c - 1)]
  <2>1. \A p \in S : Cardinality(before(p)) \in 0 .. (c - 1)
    BY <1>1, <1>2
  <2> QED
    BY <2>1
<1> HIDE DEF rank, before, c, best
<1>7. \A p, q \in S : rank[p] = rank[q] => p = q
  <2>1. \A x, y \in Nat : x < y => x # y
    OBVIOUS
  <2> QED
    BY <2>1, <1>4, <1>5, BetterOrder
<1>8. rank \in Injection(S, 0 .. (c - 1))
  BY <1>f, <1>7 DEF Injection, IsInjective
<1>9. IsFiniteSet(0 .. (c - 1)) /\ Cardinality(0 .. (c - 1)) = c
  <2>1. 0 \in Int /\ c - 1 \in Int /\ (0 > c - 1 => c = 0) /\ (c - 1) - 0 + 1 = c
    BY <1>1
  <2> QED
    BY <2>1, FS_Interval
<1>10. rank \in Surjection(S, 0 .. (c - 1))
  BY <1>8, <1>9, <1>1, FS_Injection DEF c
<1>11. \A k \in 0 .. (c - 1) : \E p \in S : rank[p] = k
  BY <1>10 DEF Surjection
<1> DEFINE r == [p \in best |-> rank[p]]
<1>12. \A p \in best : p \in S /\ rank[p] \in 0 .. (n - 1)
  BY <1>4, <1>6
<1>13. r \in Injection(best, 0 .. (n - 1))
  <2>1. r \in [best -> 0 .. (n - 1)]
    BY <1>12
  <2>2. \A p, q \in best : r[p] = r[q] => p = q
    BY <1>7, <1>12
  <2> QED
    BY <2>1, <2>2 DEF Injection, IsInjective
<1>14. \A k \in 0 .. (n - 1) : \E p \in best : r[p] = k
  <2> SUFFICES ASSUME NEW k \in 0 .. (n - 1) PROVE \E p \in best : r[p] = k
    OBVIOUS
  <2>1. k \in 0 .. (c - 1) /\ k < n
    BY <1>1 DEF c
  <2>2. PICK p \in S : rank[p] = k
    BY <2>1, <1>11
  <2>3. p \in best
    BY <2>1, <2>2, <1>6
  <2> QED
    BY <2>2, <2>3
<1>15. IsFiniteSet(0 .. (n - 1)) /\ Cardinality(0 .. (n - 1)) = n
  <2>1. 0 \in Int /\ n - 1 \in Int /\ (0 > n - 1 => n = 0) /\ (n - 1) - 0 + 1 = n
    OBVIOUS
  <2> QED
    BY <2>1, FS_Interval
<1>16. r \in Surjection(best, 0 .. (n - 1))
  <2>1. r \in [best -> 0 .. (n - 1)]
    BY <1>12
  <2> HIDE DEF r
  <2> QED
    BY <2>1, <1>14 DEF Surjection
<1> HIDE DEF r
<1> QED
  BY <1>13, <1>15, <1>16, FS_Injection DEF best

\* Registers enough for what an instruction reads, writes or both make a map.
LEMMA BorrowedExists ==
  ASSUME NEW S, NEW D, NEW A, NEW B, NEW C,
         ExistsBijection(S \cap D, A), ExistsBijection(S \ D, B), ExistsBijection(D \ S, C)
  PROVE  Borrowed(S, D, A, B, C) # {}
<1>1. PICK b \in Bijection(S \cap D, A), s \in Bijection(S \ D, B), d \in Bijection(D \ S, C) : TRUE
  BY DEF ExistsBijection
<1>2. Joined(b, Joined(s, d)) \in Borrowed(S, D, A, B, C)
  BY <1>1 DEF Borrowed
<1> QED
  BY <1>2

-----------------------------------------------------------------------------
(* Rewriting a function instruction by instruction, in layout order: every *)
(* point p becomes some code of P[p].                                      *)

\* What the instruction at p becomes when the registers al allocates are renamed
\* and those of W use the registers m gives them.
Expanded(G, p, al, W, m) == Spilled(Rename(At(G, p), al, al), m, m, W)

\* The code c starts at position n of s.
Lies(s, n, c) == \A j \in 1 .. Len(c) : s[n + j - 1] = c[j]

\* s is what the first k instructions of block b become; that of the i-th starts
\* at at[i].
Placed(s, b, k, at, P) ==
  /\ at \in [1 .. (k + 1) -> 1 .. (Len(s) + 1)]
  /\ at[1] = 1 /\ at[k + 1] = Len(s) + 1
  /\ \A i \in 1 .. k : \E c \in P[<<b, i>>] \cap Seq(Instr) :
       Lies(s, at[i], c) /\ at[i + 1] = at[i] + Len(c)

\* The rewriting loop has passed the first n - 1 points.
Rewritten(G, out, n, P) ==
  /\ DOMAIN out = BlocksOf(G)
  /\ \A b \in BlocksOf(G) :
       /\ out[b] \in Seq(Instr)
       /\ \E k \in 0 .. Len(G.code[b]) :
            /\ \E at : Placed(out[b], b, k, at, P)
            /\ \A i \in InstrsOf(G, b) :
                 i <= k <=> \E m \in 1 .. (n - 1) : LayoutPoints(G)[m] = <<b, i>>

LEMMA PlacedNone == ASSUME NEW b, NEW P PROVE \E at : Placed(<<>>, b, 0, at, P)
<1> DEFINE at == [i \in 1 .. 1 |-> 1]
<1>1. /\ at \in [1 .. (0 + 1) -> 1 .. (Len(<<>>) + 1)] /\ at[1] = 1
      /\ Len(<<>>) + 1 = 1 /\ 0 + 1 = 1
  BY SMT
<1> HIDE DEF at
<1>2. Placed(<<>>, b, 0, at, P)
  BY <1>1 DEF Placed
<1> QED
  BY <1>2

LEMMA PlacedMore ==
  ASSUME NEW s \in Seq(Instr), NEW b, NEW k \in Nat, NEW at, NEW P, Placed(s, b, k, at, P),
         NEW c \in P[<<b, k + 1>>], c \in Seq(Instr)
  PROVE  \E to : Placed(s \o c, b, k + 1, to, P)
<1> DEFINE n == Len(s)
           l == Len(c)
           t == s \o c
           to == [i \in 1 .. (k + 2) |-> IF i = k + 2 THEN n + l + 1 ELSE at[i]]
<1>1. /\ n \in Nat /\ l \in Nat /\ Len(t) = n + l
      /\ \A i \in 1 .. n : t[i] = s[i]
      /\ \A i \in 1 .. l : t[n + i] = c[i]
  OBVIOUS
<1>2. /\ \A i \in 1 .. (k + 1) : at[i] \in 1 .. (n + 1)
      /\ at[1] = 1 /\ at[k + 1] = n + 1
  BY DEF Placed
<1>3. to[k + 2] = n + l + 1 /\ \A i \in 1 .. (k + 1) : to[i] = at[i]
  OBVIOUS
<1>t. to \in [1 .. (k + 2) -> 1 .. (n + l + 1)]
  BY <1>1, <1>2
<1> HIDE DEF to, t, n, l
<1>a. ASSUME NEW x \in 1 .. (n + 1), NEW y \in Nat, x + y \in 1 .. (n + 1), NEW j \in 1 .. y
      PROVE  x + j - 1 \in 1 .. n
  BY <1>1, <1>a
<1>4. ASSUME NEW i \in 1 .. k
      PROVE  \E d \in P[<<b, i>>] \cap Seq(Instr) : Lies(t, to[i], d) /\ to[i + 1] = to[i] + Len(d)
  <2>1. PICK d \in P[<<b, i>>] \cap Seq(Instr) :
          Lies(s, at[i], d) /\ at[i + 1] = at[i] + Len(d)
    BY DEF Placed
  <2>l. Len(d) \in Nat
    OBVIOUS
  <2>2. i \in 1 .. (k + 1) /\ i + 1 \in 1 .. (k + 1)
    OBVIOUS
  <2>3. to[i] = at[i] /\ to[i + 1] = at[i + 1] /\ at[i] \in 1 .. (n + 1)
        /\ at[i + 1] \in 1 .. (n + 1)
    BY <2>2, <1>2, <1>3
  <2>4. ASSUME NEW j \in 1 .. Len(d) PROVE t[to[i] + j - 1] = d[j]
    <3>1. at[i] + j - 1 \in 1 .. n
      BY <2>1, <2>l, <2>3, <1>a
    <3> QED
      BY <3>1, <2>1, <2>3, <1>1 DEF Lies
  <2> QED
    BY <2>1, <2>3, <2>4 DEF Lies
<1>5. Lies(t, to[k + 1], c) /\ to[k + 2] = to[k + 1] + l
  <2>1. to[k + 1] = n + 1
    BY <1>2, <1>3
  <2>2. \A j \in 1 .. l : (n + 1) + j - 1 = n + j
    BY <1>1
  <2>3. \A j \in 1 .. l : t[to[k + 1] + j - 1] = c[j]
    BY <2>1, <2>2, <1>1
  <2>4. to[k + 2] = to[k + 1] + l
    BY <2>1, <1>1, <1>3
  <2> QED
    BY <2>3, <2>4 DEF Lies, l
<1>6. Placed(t, b, k + 1, to, P)
  <2>1. (k + 1) + 1 = k + 2 /\ Len(t) + 1 = n + l + 1
    BY <1>1
  <2>2. to \in [1 .. ((k + 1) + 1) -> 1 .. (Len(t) + 1)]
    BY <2>1, <1>t
  <2>3. to[1] = 1 /\ to[(k + 1) + 1] = Len(t) + 1
    BY <2>1, <1>2, <1>3
  <2>4. ASSUME NEW i \in 1 .. (k + 1)
        PROVE  \E d \in P[<<b, i>>] \cap Seq(Instr) : Lies(t, to[i], d) /\ to[i + 1] = to[i] + Len(d)
    <3>1. CASE i \in 1 .. k
      BY <3>1, <1>4
    <3>2. CASE i = k + 1
      BY <3>2, <2>1, <1>5 DEF l
    <3>3. i \in 1 .. k \/ i = k + 1
      OBVIOUS
    <3> QED
      BY <3>1, <3>2, <3>3
  <2> QED
    BY <2>2, <2>3, <2>4 DEF Placed
<1> QED
  BY <1>6 DEF t

LEMMA RewriteInit ==
  ASSUME NEW G, IsFunction(G), NEW P
  PROVE  Rewritten(G, [b \in BlocksOf(G) |-> <<>>], 1, P)
<1> DEFINE o == [b \in BlocksOf(G) |-> <<>>]
<1>1. \A b \in BlocksOf(G) : o[b] = <<>> /\ Len(G.code[b]) \in Nat
  BY FunctionFacts
<1> SUFFICES ASSUME NEW b \in BlocksOf(G)
             PROVE  /\ o[b] \in Seq(Instr)
                    /\ \E k \in 0 .. Len(G.code[b]) :
                         /\ \E at : Placed(o[b], b, k, at, P)
                         /\ \A i \in InstrsOf(G, b) :
                              i <= k <=> \E m \in 1 .. (1 - 1) : LayoutPoints(G)[m] = <<b, i>>
  BY DEF Rewritten
<1>2. o[b] = <<>> /\ 0 \in 0 .. Len(G.code[b]) /\ \E at : Placed(o[b], b, 0, at, P)
  BY <1>1, PlacedNone
<1>3. \A i \in InstrsOf(G, b) :
        i <= 0 <=> \E m \in 1 .. (1 - 1) : LayoutPoints(G)[m] = <<b, i>>
  BY <1>1 DEF InstrsOf
<1> HIDE DEF o
<1> QED
  BY <1>2, <1>3

LEMMA RewriteStep ==
  ASSUME NEW G, IsFunction(G), NEW P, NEW n \in 1 .. Len(LayoutPoints(G)), NEW out,
         Rewritten(G, out, n, P),
         NEW c \in P[LayoutPoints(G)[n]], c \in Seq(Instr)
  PROVE  Rewritten(G, [out EXCEPT ![LayoutPoints(G)[n][1]] = @ \o c], n + 1, P)
<1> DEFINE L == LayoutPoints(G)
           d == L[n][1]
           x == L[n][2]
           new == [out EXCEPT ![d] = @ \o c]
           Passed(b, k, l) ==
             \A i \in InstrsOf(G, b) : i <= k <=> \E m \in 1 .. l : L[m] = <<b, i>>
<1>1. L \in Seq(Points(G)) /\ IsInjective(L) /\ BlockByBlock(G, L)
      /\ Len(L) \in Nat /\ DOMAIN L = 1 .. Len(L)
  BY LayoutFacts
<1>2. /\ L[n] \in Points(G) /\ d \in BlocksOf(G) /\ x \in InstrsOf(G, d) /\ L[n] = <<d, x>>
      /\ n \in DOMAIN L
  BY <1>1, PointFacts DEF InstrsOf
<1>3. \A b \in BlocksOf(G) :
        /\ out[b] \in Seq(Instr)
        /\ \E k \in 0 .. Len(G.code[b]) :
             (\E at : Placed(out[b], b, k, at, P)) /\ Passed(b, k, n - 1)
  BY DEF Rewritten
<1>4. DOMAIN out = BlocksOf(G)
  BY DEF Rewritten
<1>5. DOMAIN new = BlocksOf(G) /\ new[d] = out[d] \o c
      /\ \A b \in BlocksOf(G) : b # d => new[b] = out[b]
  BY <1>2, <1>4
<1>6. n \in Nat /\ n >= 1 /\ (n + 1) - 1 = n
  OBVIOUS
<1> HIDE DEF L, d, x, new
<1>7. ASSUME NEW b \in BlocksOf(G), b # d
      PROVE  /\ new[b] \in Seq(Instr)
             /\ \E k \in 0 .. Len(G.code[b]) :
                  (\E at : Placed(new[b], b, k, at, P)) /\ Passed(b, k, n)
  <2>1. PICK k \in 0 .. Len(G.code[b]) :
          (\E at : Placed(out[b], b, k, at, P)) /\ Passed(b, k, n - 1)
    BY <1>3
  <2>2. \A i : (\E m \in 1 .. n : L[m] = <<b, i>>) <=> (\E m \in 1 .. (n - 1) : L[m] = <<b, i>>)
    <3>1. \A m \in 1 .. n : m \in 1 .. (n - 1) \/ m = n
      BY <1>6
    <3>2. 1 .. (n - 1) \subseteq 1 .. n
      BY <1>6
    <3>3. \A i : L[n] # <<b, i>>
      BY <1>2, <1>7
    <3> QED
      BY <3>1, <3>2, <3>3
  <2>3. Passed(b, k, n)
    BY <2>1, <2>2
  <2> QED
    BY <2>1, <2>3, <1>3, <1>5, <1>7
<1>8. /\ new[d] \in Seq(Instr)
      /\ \E k \in 0 .. Len(G.code[d]) :
           (\E at : Placed(new[d], d, k, at, P)) /\ Passed(d, k, n)
  <2>1. PICK k \in 0 .. Len(G.code[d]) :
          (\E at : Placed(out[d], d, k, at, P)) /\ Passed(d, k, n - 1)
    BY <1>2, <1>3
  <2>2. Len(G.code[d]) \in Nat /\ k \in Nat /\ x \in Nat /\ x >= 1 /\ x <= Len(G.code[d])
    BY <1>2, FunctionFacts DEF InstrsOf
  <2>3. ~(x <= k)
    <3> SUFFICES ASSUME x <= k PROVE FALSE
      OBVIOUS
    <3>1. PICK m \in 1 .. (n - 1) : L[m] = <<d, x>>
      BY <2>1, <1>2
    <3>2. m \in DOMAIN L /\ m # n
      BY <3>1, <1>1, <1>2
    <3> QED
      BY <3>1, <3>2, <1>1, <1>2 DEF IsInjective
  <2>4. \A j \in InstrsOf(G, d) : n - x + j \in DOMAIN L /\ L[n - x + j] = <<d, j>>
    BY <1>1, <1>2 DEF BlockByBlock
  <2>5. x = k + 1
    <3>1. CASE x = 1
      BY <3>1, <2>2, <2>3
    <3>2. CASE x > 1
      <4>1. x - 1 \in InstrsOf(G, d) /\ n - x + (x - 1) = n - 1
        BY <3>2, <2>2, <1>6 DEF InstrsOf
      <4>2. n - 1 \in DOMAIN L /\ L[n - 1] = <<d, x - 1>>
        BY <4>1, <2>4
      <4>3. n - 1 \in 1 .. (n - 1)
        BY <4>2, <1>1, <1>6
      <4>4. x - 1 <= k
        BY <4>1, <4>2, <4>3, <2>1
      <4> QED
        BY <4>4, <2>2, <2>3
    <3> QED
      BY <3>1, <3>2, <2>2
  <2>6. \E at : Placed(out[d] \o c, d, k + 1, at, P)
    <3>1. c \in P[<<d, k + 1>>]
      BY <2>5, <1>2 DEF L
    <3> QED
      BY <3>1, <2>1, <2>2, <1>2, <1>3, PlacedMore
  <2>7. Passed(d, k + 1, n)
    <3> SUFFICES ASSUME NEW i \in InstrsOf(G, d)
                 PROVE  i <= k + 1 <=> \E m \in 1 .. n : L[m] = <<d, i>>
      OBVIOUS
    <3>0. i \in Nat
      BY <2>2 DEF InstrsOf
    <3>1. i <= k <=> \E m \in 1 .. (n - 1) : L[m] = <<d, i>>
      BY <2>1
    <3>2. i = k + 1 <=> L[n] = <<d, i>>
      BY <2>5, <1>2
    <3>3. \A m : m \in 1 .. n <=> m \in 1 .. (n - 1) \/ m = n
      BY <1>6
    <3>4. i <= k + 1 <=> i <= k \/ i = k + 1
      BY <3>0, <2>2
    <3> QED
      BY <3>1, <3>2, <3>3, <3>4
  <2>8. k + 1 \in 0 .. Len(G.code[d])
    BY <2>2, <2>5
  <2>9. new[d] \in Seq(Instr)
    BY <1>2, <1>3, <1>5
  <2> QED
    BY <2>6, <2>7, <2>8, <2>9, <1>5
<1>9. \A b \in BlocksOf(G) :
        /\ new[b] \in Seq(Instr)
        /\ \E k \in 0 .. Len(G.code[b]) :
             (\E at : Placed(new[b], b, k, at, P)) /\ Passed(b, k, (n + 1) - 1)
  BY <1>6, <1>7, <1>8
<1>10. Rewritten(G, new, n + 1, P)
  BY <1>5, <1>9 DEF Rewritten, L
<1> QED
  BY <1>10 DEF new, L, d

LEMMA RewriteDone ==
  ASSUME NEW G, IsFunction(G), NEW P, NEW n \in Nat, n > Len(LayoutPoints(G)), NEW out,
         Rewritten(G, out, n, P), NEW b \in BlocksOf(G)
  PROVE  out[b] \in Seq(Instr) /\ \E at : Placed(out[b], b, Len(G.code[b]), at, P)
<1> DEFINE L == LayoutPoints(G)
<1>1. PICK k \in 0 .. Len(G.code[b]) :
        /\ \E at : Placed(out[b], b, k, at, P)
        /\ \A i \in InstrsOf(G, b) : i <= k <=> \E m \in 1 .. (n - 1) : L[m] = <<b, i>>
  BY DEF Rewritten
<1>2. Len(G.code[b]) \in Nat /\ Len(G.code[b]) > 0
  BY FunctionFacts
<1>3. Range(L) = Points(G) /\ Len(L) \in Nat /\ DOMAIN L = 1 .. Len(L)
  BY LayoutFacts
<1>4. Len(G.code[b]) \in InstrsOf(G, b) /\ <<b, Len(G.code[b])>> \in Points(G)
  BY <1>2, PointFacts DEF InstrsOf
<1>5. PICK m \in DOMAIN L : L[m] = <<b, Len(G.code[b])>>
  BY <1>3, <1>4 DEF Range
<1> HIDE DEF L
<1>6. m \in 1 .. (n - 1)
  BY <1>3, <1>5 DEF L
<1>7. Len(G.code[b]) <= k
  BY <1>1, <1>4, <1>5, <1>6
<1>8. k = Len(G.code[b])
  BY <1>2, <1>7
<1> QED
  BY <1>1, <1>8 DEF Rewritten

-----------------------------------------------------------------------------
(* Renaming every operand of a function.                                   *)

\* What x becomes, and a map that gives virtual registers other names.
Renamed(m, x) == IF x \in DOMAIN m THEN m[x] ELSE x

IsRenaming(m) == DOMAIN m \subseteq VirtRegs /\ \A x \in DOMAIN m : m[x] \in Regs

LEMMA RenameImage ==
  ASSUME NEW I \in Instr, NEW m, IsRenaming(m)
  PROVE  /\ \A y : y \in use(Rename(I, m, m)) <=> \E x \in use(I) : y = Renamed(m, x)
         /\ \A y : y \in def(Rename(I, m, m)) <=> \E x \in def(I) : y = Renamed(m, x)
<1> DEFINE J == Rename(I, m, m)
<1>1. /\ J.srcs = RenameSeq(I.srcs, m) /\ J.dsts = RenameSeq(I.dsts, m)
      /\ J.implicitSrcs = I.implicitSrcs /\ J.implicitDsts = I.implicitDsts
  BY RenameFacts DEF IsRenaming
<1>2. \A s, y : y \in Range(RenameSeq(s, m)) <=> \E x \in Range(s) : y = Renamed(m, x)
  BY DEF Range, RenameSeq, Renamed
<1>3. /\ I.implicitSrcs \subseteq PhysRegs /\ I.implicitDsts \subseteq PhysRegs
      /\ \A x \in PhysRegs : Renamed(m, x) = x
  BY RegsAssumption DEF Instr, IsRenaming, Renamed
<1> HIDE DEF J
<1>4. \A y : y \in use(J) <=> \E x \in use(I) : y = Renamed(m, x)
  BY <1>1, <1>2, <1>3 DEF use
<1>5. \A y : y \in def(J) <=> \E x \in def(I) : y = Renamed(m, x)
  BY <1>1, <1>2, <1>3 DEF def
<1> QED
  BY <1>4, <1>5 DEF J

\* H has the blocks of G, which have as many instructions and lead to the same blocks.
SameShape(G, H) ==
  /\ H.layout = G.layout /\ BlocksOf(H) = BlocksOf(G)
  /\ \A b \in BlocksOf(G) : /\ Len(H.code[b]) = Len(G.code[b])
                            /\ successors(H, b) = successors(G, b)

LEMMA RenameAllFacts ==
  ASSUME NEW G, IsFunction(G), NEW m, IsRenaming(m), NEW H,
         H = [G EXCEPT !.code = RenameAll(G, m)]
  PROVE  /\ IsFunction(H) /\ SameShape(G, H) /\ Points(H) = Points(G)
         /\ \A p \in Points(G) : /\ At(H, p) = Rename(At(G, p), m, m)
                                 /\ NextPoints(H, p) = NextPoints(G, p)
<1>1. /\ H.code = RenameAll(G, m) /\ H.layout = G.layout /\ DOMAIN H = {"layout", "code"}
  BY DEF IsFunction
<1>2. BlocksOf(H) = BlocksOf(G)
  BY <1>1 DEF BlocksOf, RenameAll
<1>3. ASSUME NEW b \in BlocksOf(G)
      PROVE  /\ H.code[b] \in Seq(Instr) /\ Len(H.code[b]) = Len(G.code[b])
             /\ InstrsOf(H, b) = InstrsOf(G, b)
             /\ \A i \in 1 .. Len(G.code[b]) : H.code[b][i] = Rename(G.code[b][i], m, m)
  <2> DEFINE s == G.code[b]
             t == H.code[b]
             n == Len(s)
  <2>1. s \in Seq(Instr) /\ n \in Nat
    BY DEF IsFunction
  <2>2. t = [i \in 1 .. n |-> Rename(s[i], m, m)]
    BY <1>1 DEF RenameAll, InstrsOf
  <2>3. \A i \in 1 .. n : s[i] \in Instr
    BY <2>1
  <2> HIDE DEF s, t
  <2>4. \A i \in 1 .. n : Rename(s[i], m, m) \in Instr
    BY <2>3, RenameFacts DEF IsRenaming
  <2> HIDE DEF n
  <2>5. t \in Seq(Instr) /\ Len(t) = n
    BY <2>1, <2>2, <2>4
  <2> QED
    BY <2>2, <2>5 DEF s, t, n, InstrsOf
<1>4. ASSUME NEW b \in BlocksOf(G) PROVE successors(H, b) = successors(G, b)
  <2> DEFINE n == Len(G.code[b])
  <2>1. n \in Nat /\ n > 0 /\ n \in 1 .. n
    BY FunctionFacts
  <2>2. H.code[b][n] = Rename(G.code[b][n], m, m) /\ Len(H.code[b]) = n
    BY <2>1, <1>3
  <2>3. G.code[b][n] \in Instr
    BY <2>1 DEF IsFunction
  <2> QED
    BY <2>2, <2>3, RenameFacts DEF successors, IsRenaming
<1>5. IsFunction(H)
  <2>1. \A b \in BlocksOf(H) : /\ H.code[b] \in Seq(Instr) /\ Len(H.code[b]) > 0
                               /\ successors(H, b) \subseteq BlocksOf(H)
    BY <1>2, <1>3, <1>4, FunctionFacts
  <2> QED
    BY <1>1, <1>2, <2>1 DEF IsFunction
<1>6. Points(H) = Points(G)
  BY <1>2, <1>3 DEF Points
<1>7. ASSUME NEW p \in Points(G)
      PROVE  At(H, p) = Rename(At(G, p), m, m) /\ NextPoints(H, p) = NextPoints(G, p)
  <2>1. p[1] \in BlocksOf(G) /\ p[2] \in 1 .. Len(G.code[p[1]])
    BY PointFacts
  <2> QED
    BY <2>1, <1>3, <1>4 DEF At, NextPoints
<1> QED
  BY <1>1, <1>2, <1>3, <1>4, <1>5, <1>6, <1>7 DEF SameShape

-----------------------------------------------------------------------------
(* What paths read, as the least set of points closed under one step back. *)

LEMMA ReadClosed ==
  ASSUME NEW G, IsFunction(G), NEW r
  PROVE  /\ ReadWithin(G, r) \subseteq Points(G)
         /\ ReadsOf(G, r) \subseteq ReadWithin(G, r)
         /\ \A p \in PointsBefore(G, ReadWithin(G, r)) :
              r \notin def(At(G, p)) => p \in ReadWithin(G, r)
         /\ \A p \in ReadWithin(G, r) :
              \/ r \in use(At(G, p))
              \/ r \notin def(At(G, p)) /\ p \in PointsBefore(G, ReadWithin(G, r))
<1>1. StepBefore(G, r, ReadWithin(G, r)) = ReadWithin(G, r)
  BY WithinGrows
<1>2. \A W, p : p \in StepBefore(G, r, W) <=>
        p \in ReadsOf(G, r) \/ (p \in PointsBefore(G, W) /\ r \notin def(At(G, p)))
  BY DEF StepBefore
<1>3. ReadWithin(G, r) \subseteq Points(G)
  BY <1>1, <1>2 DEF PointsBefore, ReadsOf
<1> QED
  BY <1>1, <1>2, <1>3 DEF ReadsOf

LEMMA ReadLeast ==
  ASSUME NEW G, IsFunction(G), NEW r, NEW W, ReadsOf(G, r) \subseteq W,
         \A p \in PointsBefore(G, W) : r \notin def(At(G, p)) => p \in W
  PROVE  ReadWithin(G, r) \subseteq W
<1> DEFINE N == Cardinality(Points(G))
           T == {n \in Nat : n \in 0 .. N => Within(G, r)[n] \subseteq W}
<1>n. N \in Nat
  BY PointsFinite
<1>d. /\ Within(G, r)[0] = ReadsOf(G, r)
      /\ \A n \in 1 .. N : Within(G, r)[n] = StepBefore(G, r, Within(G, r)[n - 1])
  BY WithinDef
<1> HIDE DEF N
<1>1. 0 \in T
  BY <1>d
<1>2. ASSUME NEW n \in Nat, n \in T PROVE n + 1 \in T
  <2> SUFFICES ASSUME n + 1 \in 0 .. N PROVE Within(G, r)[n + 1] \subseteq W
    OBVIOUS
  <2>1. Within(G, r)[n] \subseteq W /\ n + 1 \in 1 .. N /\ (n + 1) - 1 = n
    BY <1>2, <1>n
  <2>2. Within(G, r)[n + 1] = StepBefore(G, r, Within(G, r)[n])
    BY <2>1, <1>d
  <2>3. PointsBefore(G, Within(G, r)[n]) \subseteq PointsBefore(G, W)
    BY <2>1 DEF PointsBefore
  <2> QED
    BY <2>2, <2>3 DEF StepBefore
<1>3. Nat \subseteq T
  <2> HIDE DEF T
  <2> QED
    BY <1>1, <1>2, NatInd
<1>4. N \in T
  BY <1>3, <1>n
<1> QED
  BY <1>4, <1>n DEF ReadWithin, N

\* After a renaming a path reads y only if, before it, it read a register that has
\* become y.
LEMMA RenamedReads ==
  ASSUME NEW G, IsFunction(G), NEW m, IsRenaming(m), NEW H,
         H = [G EXCEPT !.code = RenameAll(G, m)], NEW y
  PROVE  /\ \A p \in ReadWithin(H, y) :
              \E x : y = Renamed(m, x) /\ p \in ReadWithin(G, x)
         /\ \A p \in PointsBefore(H, ReadWithin(H, y)) :
              \E x : y = Renamed(m, x) /\ p \in PointsBefore(G, ReadWithin(G, x))
<1> DEFINE W == {p \in Points(G) : \E x : y = Renamed(m, x) /\ p \in ReadWithin(G, x)}
<1>1. /\ IsFunction(H) /\ Points(H) = Points(G)
      /\ \A p \in Points(G) : /\ At(H, p) = Rename(At(G, p), m, m)
                              /\ NextPoints(H, p) = NextPoints(G, p)
  BY RenameAllFacts
<1>2. \A p \in Points(G) :
        /\ y \in use(At(H, p)) <=> \E x \in use(At(G, p)) : y = Renamed(m, x)
        /\ y \in def(At(H, p)) <=> \E x \in def(At(G, p)) : y = Renamed(m, x)
  BY <1>1, InstrAt, RenameImage
<1>3. ReadsOf(H, y) \subseteq W
  <2> SUFFICES ASSUME NEW p \in ReadsOf(H, y) PROVE p \in W
    OBVIOUS
  <2>1. p \in Points(G) /\ y \in use(At(H, p))
    BY <1>1 DEF ReadsOf
  <2>2. PICK x \in use(At(G, p)) : y = Renamed(m, x)
    BY <2>1, <1>2
  <2>3. p \in ReadWithin(G, x)
    BY <2>1, <2>2, ReadClosed DEF ReadsOf
  <2> QED
    BY <2>1, <2>2, <2>3
<1>4. ASSUME NEW V \in SUBSET W, NEW p \in PointsBefore(H, V)
      PROVE  p \in Points(G) /\ \E x : y = Renamed(m, x) /\ p \in PointsBefore(G, ReadWithin(G, x))
  <2>1. PICK q \in V : p \in Points(G) /\ q \in NextPoints(G, p)
    BY <1>1 DEF PointsBefore
  <2>2. PICK x : y = Renamed(m, x) /\ q \in ReadWithin(G, x)
    OBVIOUS
  <2>3. p \in PointsBefore(G, ReadWithin(G, x))
    BY <2>1, <2>2 DEF PointsBefore
  <2> QED
    BY <2>1, <2>2, <2>3
<1>5. ASSUME NEW p \in PointsBefore(H, W), y \notin def(At(H, p)) PROVE p \in W
  <2>1. PICK x : y = Renamed(m, x) /\ p \in PointsBefore(G, ReadWithin(G, x)) /\ p \in Points(G)
    BY <1>4
  <2>2. x \notin def(At(G, p))
    BY <1>2, <1>5, <2>1
  <2>3. p \in ReadWithin(G, x)
    BY <2>1, <2>2, ReadClosed
  <2> QED
    BY <2>1, <2>3
<1> HIDE DEF W
<1>6. ReadWithin(H, y) \subseteq W
  BY <1>1, <1>3, <1>5, ReadLeast
<1> QED
  BY <1>4, <1>6 DEF W
=============================================================================
