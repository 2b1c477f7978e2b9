------------------------- MODULE GraphColoring_proof -------------------------
(***************************************************************************)
(* Proofs about GraphColoring, for every set of machine functions and      *)
(* every set of physical registers: registers that may be merged are never *)
(* neighbours, registers that clash are, and neighbours never get the same *)
(* physical register; the function of every round simulates the one before *)
(* it, so that the result runs in lockstep with the function that was      *)
(* given.                                                                  *)
(***************************************************************************)
EXTENDS GraphColoring, RegisterAllocator_proof

-----------------------------------------------------------------------------
(* The operations on graphs.                                               *)

\* The neighbours after u has become v.
IsMerged(g, i, u, v) ==
  /\ DOMAIN g = DOMAIN i
  /\ \A x \in DOMAIN i : g[x] = IF x = u THEN {}
                                ELSE IF x = v THEN (i[v] \cup i[u]) \ {u}
                                ELSE IF x \in i[u] THEN (i[x] \cup {v}) \ {u} ELSE i[x]

LEMMA MergedEdges ==
  ASSUME NEW i, NEW c, NEW R, AreApart(i, c, R), NEW u \in DOMAIN i, NEW v \in c[u],
         NEW i2, i2 = RemoveEdges(AddEdges(i, v, i[u] \ {v}), u, i[u] \ {v})
  PROVE  IsMerged(i2, i, u, v)
<1> DEFINE i1 == AddEdges(i, v, i[u] \ {v})
           D == DOMAIN i
<1>1. /\ u # v /\ v \in D /\ v \notin i[u] /\ u \notin i[v] /\ u \notin i[u] /\ v \notin i[v]
  BY DEF AreApart, IsGraph
<1>2. DOMAIN i1 = D /\ DOMAIN i2 = D
  BY DEF AddEdges, RemoveEdges
<1>3. i[u] \ {v} = i[u]
  BY <1>1
<1>4. \A x \in D : i1[x] = IF x = v THEN i[x] \cup i[u]
                           ELSE IF x \in i[u] THEN i[x] \cup {v} ELSE i[x]
  BY <1>3 DEF AddEdges
<1> HIDE DEF i1
<1>5. i2 = RemoveEdges(i1, u, i[u])
  BY <1>3 DEF i1
<1>a. \A x \in D : i2[x] = IF x = u THEN i1[x] \ i[u]
                           ELSE IF x \in i[u] THEN i1[x] \ {u} ELSE i1[x]
  BY <1>2, <1>5 DEF RemoveEdges
<1>6. \A x \in D : i2[x] = IF x = u THEN {}
                           ELSE IF x = v THEN (i[v] \cup i[u]) \ {u}
                           ELSE IF x \in i[u] THEN (i[x] \cup {v}) \ {u} ELSE i[x]
  BY <1>1, <1>4, <1>a
<1> QED
  BY <1>2, <1>6 DEF IsMerged

\* What the two graphs are after u has become v.
LEMMA MergeApart ==
  ASSUME NEW i, NEW c, NEW R, AreApart(i, c, R),
         NEW u \in DOMAIN i, NEW v \in c[u]
  PROVE  LET apart == i[u] \ {v}
             i2 == RemoveEdges(AddEdges(i, v, apart), u, apart)
             c1 == RemoveEdges(c, v, apart)
             c2 == AddEdges(c1, v, (c1[u] \ {v}) \ i2[v])
         IN  AreApart(i2, RemoveEdges(c2, u, c2[u]), R \ {u})
<1> DEFINE apart == i[u] \ {v}
           i1 == AddEdges(i, v, apart)
           i2 == RemoveEdges(i1, u, apart)
           c1 == RemoveEdges(c, v, apart)
           new == (c1[u] \ {v}) \ i2[v]
           c2 == AddEdges(c1, v, new)
           c3 == RemoveEdges(c2, u, c2[u])
           D == DOMAIN i
<1>1. /\ u # v /\ v \in D /\ u \in R => v \in R
      /\ v \notin i[u] /\ u \notin i[v] /\ u \notin i[u] /\ v \notin i[v]
      /\ v \in R /\ u \notin c[u] /\ v \notin c[v] /\ i[u] \subseteq D /\ c[u] \subseteq D
  BY DEF AreApart, IsGraph
<1>2. /\ DOMAIN i1 = D /\ DOMAIN i2 = D /\ DOMAIN c1 = D /\ DOMAIN c2 = D /\ DOMAIN c3 = D
  BY DEF AddEdges, RemoveEdges, AreApart
<1> HIDE DEF i1, i2, c1, c2, c3
<1>3. apart = i[u]
  BY <1>1
<1>5. \A x \in D : i2[x] = IF x = u THEN {}
                           ELSE IF x = v THEN (i[v] \cup i[u]) \ {u}
                           ELSE IF x \in i[u] THEN (i[x] \cup {v}) \ {u} ELSE i[x]
  <2>1. i2 = RemoveEdges(AddEdges(i, v, i[u] \ {v}), u, i[u] \ {v})
    BY DEF i2, i1, apart
  <2>2. IsMerged(i2, i, u, v)
    BY <2>1, MergedEdges
  <2> QED
    BY <2>2 DEF IsMerged
<1>6. \A x \in D : \A y : y \in c1[x] <=>
        /\ y \in c[x]
        /\ ~(x = v /\ y \in i[u]) /\ ~(x \in i[u] /\ y = v)
  BY <1>1, <1>3 DEF c1, RemoveEdges, AreApart
<1>7. c1[u] = c[u] /\ v \notin new /\ u \notin new /\ new \subseteq c[u]
  BY <1>1, <1>6
<1>8. \A x \in D : \A y : y \in c2[x] <=>
        y \in c1[x] \/ (x = v /\ y \in new) \/ (x \in new /\ y = v)
  BY <1>2, <1>7 DEF c2, AddEdges
<1>9. c2[u] = c[u]
  BY <1>1, <1>7, <1>8
<1>10. \A x \in D : \A y : y \in c3[x] <=>
         x # u /\ y \in c2[x] /\ ~(x \in c[u] /\ y = u)
  BY <1>1, <1>2, <1>9 DEF c3, RemoveEdges
<1>11. new \cap i2[v] = {} /\ new \cap i[u] = {} /\ new \subseteq D
  BY <1>1, <1>7 DEF new, AreApart
<1> HIDE DEF new, apart
<1>12. \A x \in D : \A y : y \in c3[x] <=>
         /\ x # u /\ y # u
         /\ \/ y \in c[x] /\ ~(x = v /\ y \in i[u]) /\ ~(x \in i[u] /\ y = v)
            \/ x = v /\ y \in new
            \/ x \in new /\ y = v
  <2>1. \A x \in D : u \in c[x] => x \in c[u]
    BY DEF AreApart, IsGraph
  <2> QED
    BY <2>1, <1>1, <1>6, <1>7, <1>8, <1>10
<1>13. IsGraph(i2, R \ {u})
  BY <1>1, <1>2, <1>5 DEF AreApart, IsGraph
<1>14. IsGraph(c3, R \ {u})
  <2>1. \A x \in D : x \notin c3[x] /\ c3[x] \subseteq R \ {u}
    BY <1>1, <1>7, <1>12 DEF AreApart, IsGraph
  <2>2. ASSUME NEW x \in D, NEW y \in c3[x] PROVE x \in c3[y]
    <3>1. y \in D /\ (y \in c[x] => x \in c[y])
      BY <2>1, <1>12 DEF AreApart, IsGraph
    <3> QED
      BY <3>1, <1>12
  <2> QED
    BY <2>1, <2>2, <1>2 DEF AreApart, IsGraph
<1>15. ASSUME NEW x \in D PROVE i2[x] \cap c3[x] = {}
  <2> SUFFICES ASSUME NEW y \in i2[x], y \in c3[x] PROVE FALSE
    OBVIOUS
  <2>1. x # u /\ y # u
    BY <1>12
  <2>2. y \in i[x] => y \notin c[x]
    BY DEF AreApart
  <2>3. CASE x = v
    <3>1. y \in i[v] \cup i[u]
      BY <2>3, <1>1, <1>5
    <3>2. y \in new \/ (y \in c[v] /\ y \notin i[u]) \/ y = v
      BY <2>3, <1>12
    <3>3. y \in new => y \notin i2[v] /\ y \notin i[u]
      BY <1>11
    <3> QED
      BY <3>1, <3>2, <3>3, <2>2, <2>3, <1>1
  <2>4. CASE x # v
    <3>1. \/ y \in i[x]
          \/ x \in i[u] /\ y = v
      BY <2>1, <2>4, <1>5
    <3>2. \/ y \in c[x] /\ ~(x \in i[u] /\ y = v)
          \/ x \in new /\ y = v
      BY <2>4, <1>12
    <3>3. ASSUME x \in new, y = v, y \in i[x] PROVE FALSE
      <4>1. x \in i[v]
        BY <3>3 DEF AreApart, IsGraph
      <4>2. x \in i2[v]
        BY <4>1, <2>1, <1>1, <1>5
      <4> QED
        BY <4>2, <3>3, <1>11
    <3> QED
      BY <3>1, <3>2, <3>3, <2>2, <1>11
  <2> QED
    BY <2>3, <2>4
<1>16. AreApart(i2, c3, R \ {u})
  BY <1>2, <1>13, <1>14, <1>15 DEF AreApart, IsGraph
<1> QED
  BY <1>16 DEF i1, i2, c1, c2, c3, new, apart

-----------------------------------------------------------------------------
(* One step.                                                               *)

LEMMA BuildApart ==
  ASSUME Build
  PROVE  AreApart(interference', coalescence', regs')
<1>1. /\ interference' = [u \in regs |-> {v \in regs : Interferes(u, v)}]
      /\ coalescence' =
           [u \in regs |-> (MovedWith(F, u) \cap regs) \ (interference'[u] \cup {u})]
      /\ regs' = regs
  BY DEF Build
<1>2. \A u, v : Interferes(u, v) => u # v /\ Interferes(v, u)
  BY DEF Interferes
<1>3. \A u, v : v \in MovedWith(F, u) => u \in MovedWith(F, v)
  BY DEF MovedWith
<1>4. IsGraph(interference', regs)
  BY <1>1, <1>2 DEF IsGraph
<1>5. IsGraph(coalescence', regs)
  BY <1>1, <1>3, <1>4 DEF IsGraph
<1> QED
  BY <1>1, <1>4, <1>5 DEF AreApart

LEMMA CoalesceApart ==
  ASSUME GCInv, Coalesce
  PROVE  AreApart(interference', coalescence', regs') /\ todo' \subseteq DOMAIN interference'
<1>1. /\ AreApart(interference, coalescence, regs) /\ todo \subseteq DOMAIN interference
      /\ todo' \subseteq todo
  BY DEF GCInv, CandidatesApart, HasGraph, Coalesce
<1>2. CASE UNCHANGED <<regs, interference, coalescence>>
  BY <1>1, <1>2
<1>3. ASSUME NEW u \in todo, NEW v \in coalescence[u], Merge(u, v)
      PROVE  /\ AreApart(interference', coalescence', regs')
             /\ DOMAIN interference' = DOMAIN interference
  <2>1. AreApart(interference', coalescence', regs')
    BY <1>1, <1>3, MergeApart DEF Merge
  <2>2. DOMAIN interference' = DOMAIN interference
    BY <1>3 DEF Merge, AddEdges, RemoveEdges
  <2> QED
    BY <2>1, <2>2
<1> QED
  BY <1>1, <1>2, <1>3 DEF Coalesce

LEMMA SelectSound ==
  ASSUME GCInv, Select
  PROVE  ColoringSound' /\ DOMAIN allocation' \subseteq regs
<1> DEFINE u == Head(stack)
<1>1. /\ AreApart(interference, coalescence, regs)
      /\ stack \in Seq(regs) /\ stack # <<>> /\ DOMAIN allocation \subseteq regs
  BY DEF GCInv, CandidatesApart, HasGraph, Select
<1>2. u \in regs
  BY <1>1
<1>3. interference' = interference
  BY DEF Select, graphVars
<1>4. CASE UNCHANGED allocation
  BY <1>1, <1>3, <1>4 DEF GCInv, ColoringSound
<1>5. ASSUME NEW r \in BestOf(1, PhysRegs \ used(u)), allocation' = Put(allocation, u, r)
      PROVE  ColoringSound' /\ DOMAIN allocation' \subseteq regs
  <2>1. /\ DOMAIN allocation' = DOMAIN allocation \cup {u}
        /\ allocation'[u] = r
        /\ \A v \in DOMAIN allocation \ {u} : allocation'[v] = allocation[v]
    BY <1>5 DEF Put
  <2>2. r \in PhysRegs /\ r \notin used(u)
    BY <1>5 DEF BestOf
  <2>3. r \notin interference[u]
    BY <2>2 DEF used
  <2>4. \A v \in interference[u] \cap DOMAIN allocation : allocation[v] # r
    BY <2>2 DEF used
  <2>5. u \notin interference[u] /\ \A v \in regs : u \in interference[v] => v \in interference[u]
    BY <1>1, <1>2 DEF AreApart, IsGraph
  <2>6. ASSUME NEW v \in DOMAIN allocation' PROVE allocation'[v] \notin interference[v]
    BY <2>1, <2>3, <2>6 DEF GCInv, ColoringSound
  <2>7. ASSUME NEW v \in DOMAIN allocation', NEW w \in interference[v] \cap DOMAIN allocation'
        PROVE  allocation'[v] # allocation'[w]
    <3>1. CASE v = u
      BY <3>1, <2>1, <2>4, <2>5
    <3>2. CASE v # u /\ w = u
      BY <3>2, <1>1, <2>1, <2>4, <2>5
    <3>3. CASE v # u /\ w # u
      BY <3>3, <2>1 DEF GCInv, ColoringSound
    <3> QED
      BY <3>1, <3>2, <3>3
  <2> QED
    BY <1>1, <1>2, <1>3, <2>1, <2>6, <2>7 DEF ColoringSound
<1> QED
  BY <1>4, <1>5 DEF Select

LEMMA GCInitInv == GCInit => GCInv
BY DEF GCInit, GCInv, CandidatesApart, HasGraph, ColoringSound

LEMMA GCStepInv == GCInv /\ [GCNext]_vars => GCInv'
<1> SUFFICES ASSUME GCInv, [GCNext]_vars PROVE GCInv'
  OBVIOUS
<1> USE DEF GCInv
<1>1. CASE Analyse
  BY <1>1 DEF Analyse, gcVars, graphVars, colorVars, CandidatesApart, HasGraph, ColoringSound
<1>2. CASE Build
  <2>1. /\ todo' \subseteq DOMAIN interference' /\ step' = "coalesce"
        /\ stack' = <<>> /\ allocation' = <<>>
    BY <1>2 DEF Build, colorVars
  <2> QED
    BY <1>2, <2>1, BuildApart DEF CandidatesApart, ColoringSound
<1>3. CASE ReadDestroyed
  BY <1>3 DEF ReadDestroyed, graphVars, colorVars, CandidatesApart, HasGraph, ColoringSound
<1>4. CASE Coalesce
  <2>1. step' = "coalesce" /\ stack' = <<>> /\ allocation' = <<>>
    BY <1>4 DEF Coalesce, colorVars
  <2> QED
    BY <1>4, <2>1, CoalesceApart DEF CandidatesApart, ColoringSound
<1>5. CASE EndCoalescing
  BY <1>5 DEF EndCoalescing, graphVars, CandidatesApart, HasGraph, ColoringSound
<1>6. CASE Simplify
  <2>1. /\ UNCHANGED <<step, regs, interference, coalescence, allocation>>
        /\ step = "simplify" /\ rest' \subseteq rest
    BY <1>6 DEF Simplify, graphVars
  <2>2. stack' \in Seq(regs)
    BY <1>6 DEF Simplify
  <2> QED
    BY <2>1, <2>2 DEF CandidatesApart, HasGraph, ColoringSound
<1>7. CASE Select
  <2>1. /\ UNCHANGED <<step, regs, interference, coalescence, rest>> /\ step = "simplify"
        /\ stack' \in Seq(regs)
    BY <1>7 DEF Select, graphVars
  <2> QED
    BY <1>7, <2>1, SelectSound DEF CandidatesApart, HasGraph
<1>8. CASE EndSelect
  BY <1>8 DEF EndSelect, CandidatesApart, HasGraph, ColoringSound
<1>9. CASE SpillInstruction
  BY <1>9 DEF SpillInstruction, colorVars, CandidatesApart, HasGraph, ColoringSound
<1>10. CASE EndSpill
  BY <1>10 DEF EndSpill, graphVars, CandidatesApart, HasGraph, ColoringSound
<1>11. CASE UNCHANGED vars
  BY <1>11 DEF vars, gcVars, graphVars, colorVars, CandidatesApart, HasGraph, ColoringSound
<1> QED
  BY <1>1, <1>2, <1>3, <1>4, <1>5, <1>6, <1>7, <1>8, <1>9, <1>10, <1>11 DEF GCNext

LEMMA GCCorrect == GCSpec => []GCInv
BY GCInitInv, GCStepInv, PTL DEF GCSpec

-----------------------------------------------------------------------------
(* The code of the rounds. What the allocator is given, and what it makes. *)

Plain(I) ==
  /\ Len(I.dsts) <= 1
  /\ I.implicitDsts # {} \/ I.blockOps # {} => I.dsts = <<>>
  /\ I.coalescent => Len(I.srcs) = 1 /\ Len(I.dsts) = 1 /\ I.implicitSrcs = {}
  /\ I.mem = "load" => I.srcs = <<>> /\ Len(I.dsts) = 1
  /\ I.mem = "store" => I.dsts = <<>> /\ Len(I.srcs) = 1
  /\ I.mem # "none" => /\ I.implicitSrcs = {} /\ I.implicitDsts = {} /\ ~I.coalescent
                       /\ I.blockOps = {} /\ I.slot \in VirtRegs

IsPlain(G) ==
  \A p \in Points(G) :
    Plain(At(G, p)) /\ (At(G, p).blockOps # {} => p[2] = Len(G.code[p[1]]))

\* The slots the spill code of G uses, and the registers spill code may still make.
SlotsIn(G) == {At(G, p).slot : p \in {q \in Points(G) : At(G, q).mem # "none"}}
Fresh == {Temps[n] : n \in (made + 1) .. Len(Temps)}

\* What an instruction becomes when the registers of W are spilled: its operands in
\* W are replaced by registers that are not.
Piece(I, W, c) ==
  \E in \in [SrcsIn(I, W) -> Range(Temps) \ W], to \in [DstsIn(I, W) -> Range(Temps) \ W] :
    /\ \A v, w \in SrcsIn(I, W) : in[v] = in[w] => v = w
    /\ c = Spilled(I, in, to, W)

SpillPieces(G, W) == [p \in Points(G) |-> {c \in Seq(Instr) : Piece(At(G, p), W, c)}]

LEMMA PlainRenamed ==
  ASSUME NEW I \in Instr, Plain(I), NEW in, NEW to,
         \A v \in DOMAIN in : in[v] \in Regs, \A v \in DOMAIN to : to[v] \in Regs
  PROVE  Plain(Rename(I, in, to)) /\ Rename(I, in, to).slot = I.slot
<1> DEFINE J == Rename(I, in, to)
<1>1. /\ J \in Instr /\ J.srcs = RenameSeq(I.srcs, in) /\ J.dsts = RenameSeq(I.dsts, to)
      /\ DOMAIN J.srcs = DOMAIN I.srcs /\ DOMAIN J.dsts = DOMAIN I.dsts
      /\ J.implicitSrcs = I.implicitSrcs /\ J.implicitDsts = I.implicitDsts
      /\ J.coalescent = I.coalescent /\ J.blockOps = I.blockOps /\ J.mem = I.mem
  BY RenameFacts
<1>2. J.slot = I.slot
  BY DEF Rename, Instr
<1>3. /\ I.srcs \in Seq(Regs) /\ J.srcs \in Seq(Regs)
      /\ I.dsts \in Seq(Regs) /\ J.dsts \in Seq(Regs)
  BY <1>1 DEF Instr
<1>4. Len(J.srcs) = Len(I.srcs) /\ Len(J.dsts) = Len(I.dsts)
  BY <1>1, <1>3
<1>5. /\ I.dsts = <<>> => J.dsts = <<>>
      /\ I.srcs = <<>> => J.srcs = <<>>
  BY <1>3, <1>4
<1> HIDE DEF J
<1>8. Plain(J)
  BY <1>1, <1>2, <1>4, <1>5 DEF Plain
<1> QED
  BY <1>2, <1>8 DEF J

LEMMA PlainRenameAll ==
  ASSUME NEW G, IsFunction(G), IsPlain(G), NEW m, IsRenaming(m), NEW H,
         H = [G EXCEPT !.code = RenameAll(G, m)]
  PROVE  IsPlain(H) /\ SlotsIn(H) = SlotsIn(G)
<1>1. /\ Points(H) = Points(G)
      /\ \A p \in Points(G) : At(H, p) = Rename(At(G, p), m, m)
      /\ \A b \in BlocksOf(G) : Len(H.code[b]) = Len(G.code[b])
  <2>1. /\ SameShape(G, H) /\ Points(H) = Points(G)
        /\ \A p \in Points(G) : At(H, p) = Rename(At(G, p), m, m)
    BY RenameAllFacts
  <2> QED
    BY <2>1 DEF SameShape
<1>2. ASSUME NEW p \in Points(G)
      PROVE  /\ Plain(At(H, p)) /\ At(H, p).blockOps = At(G, p).blockOps
             /\ At(H, p).slot = At(G, p).slot /\ At(H, p).mem = At(G, p).mem
  <2>1. At(G, p) \in Instr /\ Plain(At(G, p))
    BY InstrAt DEF IsPlain
  <2> QED
    BY <1>1, <2>1, PlainRenamed, RenameFacts DEF IsRenaming
<1>3. \A p \in Points(G) : p[1] \in BlocksOf(G)
  BY PointFacts
<1>4. IsPlain(H)
  BY <1>1, <1>2, <1>3 DEF IsPlain
<1>5. SlotsIn(H) = SlotsIn(G)
  BY <1>1, <1>2 DEF SlotsIn
<1> QED
  BY <1>4, <1>5

\* The code c in place of I: only its last instruction goes where I goes.
InPlaceOf(c, I, W) ==
  /\ Len(c) > 0
  /\ \A k \in 1 .. Len(c) :
       /\ Plain(c[k]) /\ c[k].blockOps \subseteq I.blockOps
       /\ c[k].blockOps # {} => k = Len(c)
       /\ c[k].mem # "none" => c[k].slot \in W \/ (I.mem # "none" /\ c[k].slot = I.slot)

LEMMA PieceFacts ==
  ASSUME NEW I \in Instr, Plain(I), NEW W \in SUBSET VirtRegs, NEW c, Piece(I, W, c)
  PROVE  c \in Seq(Instr) /\ InPlaceOf(c, I, W)
<1>1. PICK in \in [SrcsIn(I, W) -> Range(Temps) \ W], to \in [DstsIn(I, W) -> Range(Temps) \ W] :
        c = Spilled(I, in, to, W)
  BY DEF Piece
<1> DEFINE ss == SetToSeq(SrcsIn(I, W))
           ds == SetToSeq(DstsIn(I, W))
           J  == Rename(I, in, to)
           x  == Len(ss)
           y  == Len(ds)
<1>2. Range(Temps) \subseteq Regs
  BY TempsAssumption DEF Range, Regs
<1>3. (\A v \in DOMAIN in : in[v] \in Regs) /\ (\A v \in DOMAIN to : to[v] \in Regs)
  BY <1>2
<1>4. /\ c \in Seq(Instr)
      /\ x \in Nat /\ y \in Nat /\ Len(c) = x + 1 + y
      /\ \A j \in 1 .. x : c[j] = LoadFrom(ss[j], in[ss[j]])
      /\ c[x + 1] = J
      /\ \A j \in 1 .. y : c[x + 1 + j] = StoreTo(ds[j], to[ds[j]])
  <2>1. SrcsIn(I, W) \subseteq DOMAIN in /\ DstsIn(I, W) \subseteq DOMAIN to
    BY <1>1
  <2>2. SpillsTo(c, I, in, to, W)
    BY <1>1, <1>3, <2>1, SpilledSpills
  <2> QED
    BY <2>2 DEF SpillsTo
<1>5. /\ \A j \in 1 .. x : ss[j] \in SrcsIn(I, W) /\ ss[j] \in W
      /\ \A j \in 1 .. y : ds[j] \in DstsIn(I, W) /\ ds[j] \in W
  <2>1. ss \in Seq(SrcsIn(I, W)) /\ ds \in Seq(DstsIn(I, W))
    BY OperandSets, SetToSeqFacts
  <2> QED
    BY <2>1 DEF SrcsIn, DstsIn
<1>6. Plain(J) /\ J.blockOps = I.blockOps /\ J.slot = I.slot /\ J.mem = I.mem
  BY <1>3, PlainRenamed, RenameFacts
<1>7. I.blockOps # {} => y = 0
  <2> SUFFICES ASSUME I.blockOps # {} PROVE y = 0
    OBVIOUS
  <2>1. I.dsts = <<>>
    BY DEF Plain
  <2>2. DstsIn(I, W) = {}
    BY <2>1 DEF DstsIn, Range
  <2>3. \A j \in 1 .. y : FALSE
    BY <2>2, <1>5
  <2> QED
    BY <2>3, <1>4
<1> HIDE DEF ss, ds, J, x, y
<1>8. ASSUME NEW v \in W, NEW r
      PROVE  /\ Plain(LoadFrom(v, r)) /\ LoadFrom(v, r).blockOps = {} /\ LoadFrom(v, r).slot = v
             /\ Plain(StoreTo(v, r)) /\ StoreTo(v, r).blockOps = {} /\ StoreTo(v, r).slot = v
  BY DEF LoadFrom, StoreTo, Plain
<1>9. ASSUME NEW k \in 1 .. Len(c)
      PROVE  /\ Plain(c[k]) /\ c[k].blockOps \subseteq I.blockOps
             /\ c[k].blockOps # {} => k = Len(c)
             /\ c[k].mem # "none" => c[k].slot \in W \/ (I.mem # "none" /\ c[k].slot = I.slot)
  <2>1. CASE k \in 1 .. x
    BY <2>1, <1>4, <1>5, <1>8
  <2>2. CASE k = x + 1
    BY <2>2, <1>4, <1>6, <1>7
  <2>3. CASE k > x + 1
    <3>1. PICK j \in 1 .. y : k = x + 1 + j
      <4>1. k - (x + 1) \in 1 .. y /\ k = x + 1 + (k - (x + 1))
        BY <2>3, <1>4
      <4> QED
        BY <4>1
    <3>2. c[k] = StoreTo(ds[j], to[ds[j]]) /\ ds[j] \in W
      BY <3>1, <1>4, <1>5
    <3> QED
      BY <3>2, <1>8
  <2> QED
    BY <2>1, <2>2, <2>3, <1>4
<1>10. Len(c) > 0
  BY <1>4
<1> QED
  BY <1>4, <1>9, <1>10 DEF InPlaceOf

\* Every instruction of a rewritten block belongs to the piece of one instruction.
LEMMA PlacedCovers ==
  ASSUME NEW s, NEW b, NEW K \in Nat, NEW at, NEW P, Placed(s, b, K, at, P), Len(s) \in Nat,
         NEW j \in 1 .. Len(s)
  PROVE  \E i \in 1 .. K : \E c \in P[<<b, i>>] \cap Seq(Instr) :
           /\ Lies(s, at[i], c) /\ at[i + 1] = at[i] + Len(c)
           /\ j >= at[i] /\ j < at[i + 1]
<1> DEFINE T == {k \in Nat : k <= K /\ j < at[k + 1] =>
                    \E i \in 1 .. K : j >= at[i] /\ j < at[i + 1]}
<1>1. /\ \A k \in 1 .. (K + 1) : at[k] \in Nat
      /\ at[1] = 1 /\ at[K + 1] = Len(s) + 1
      /\ \A i \in 1 .. K : \E c \in P[<<b, i>>] \cap Seq(Instr) :
           Lies(s, at[i], c) /\ at[i + 1] = at[i] + Len(c)
  BY DEF Placed
<1>2. 0 \in T
  BY <1>1
<1>3. ASSUME NEW k \in Nat, k \in T PROVE k + 1 \in T
  <2> SUFFICES ASSUME k + 1 <= K, j < at[(k + 1) + 1]
               PROVE  \E i \in 1 .. K : j >= at[i] /\ j < at[i + 1]
    OBVIOUS
  <2>1. k + 1 \in 1 .. K /\ k + 1 \in 1 .. (K + 1) /\ k <= K
    OBVIOUS
  <2>2. CASE j < at[k + 1]
    BY <2>1, <2>2, <1>3
  <2>3. CASE ~(j < at[k + 1])
    <3>1. at[k + 1] \in Nat /\ j \in Nat
      BY <2>1, <1>1
    <3>2. j >= at[k + 1]
      BY <2>3, <3>1
    <3> QED
      BY <2>1, <3>2
  <2> QED
    BY <2>2, <2>3
<1>4. Nat \subseteq T
  <2> HIDE DEF T
  <2> QED
    BY <1>2, <1>3, NatInd
<1>5. K \in T /\ j < at[K + 1]
  BY <1>1, <1>4
<1>6. PICK i \in 1 .. K : j >= at[i] /\ j < at[i + 1]
  BY <1>5
<1> QED
  BY <1>1, <1>6

\* The function after the rewriting loop.
LEMMA SpilledFunction ==
  ASSUME NEW G, IsFunction(G), IsPlain(G), NEW W \in SUBSET VirtRegs, NEW o, NEW n \in Nat,
         n > Len(LayoutPoints(G)), Rewritten(G, o, n, SpillPieces(G, W)),
         NEW H, H = [G EXCEPT !.code = o]
  PROVE  /\ IsFunction(H) /\ IsPlain(H) /\ SlotsIn(H) \subseteq SlotsIn(G) \cup W
         /\ H.code = o /\ H.layout = G.layout /\ BlocksOf(H) = BlocksOf(G)
<1> DEFINE P == SpillPieces(G, W)
<1>1. /\ H.code = o /\ H.layout = G.layout /\ DOMAIN H = {"layout", "code"}
  BY DEF IsFunction
<1>2. DOMAIN o = BlocksOf(G) /\ BlocksOf(H) = BlocksOf(G)
  BY <1>1 DEF Rewritten, BlocksOf
<1>3. ASSUME NEW b \in BlocksOf(G)
      PROVE  /\ o[b] \in Seq(Instr) /\ Len(o[b]) > 0
             /\ \A j \in 1 .. Len(o[b]) :
                  /\ Plain(o[b][j]) /\ o[b][j].blockOps \subseteq BlocksOf(G)
                  /\ o[b][j].blockOps # {} => j = Len(o[b])
                  /\ o[b][j].mem # "none" => o[b][j].slot \in SlotsIn(G) \cup W
  <2> DEFINE K == Len(G.code[b])
  <2>1. PICK at : Placed(o[b], b, K, at, P)
    BY RewriteDone
  <2>2. o[b] \in Seq(Instr) /\ K \in Nat /\ K > 0
    BY RewriteDone, FunctionFacts
  <2>3. Len(o[b]) \in Nat
    BY <2>2
  <2>4. /\ \A k \in 1 .. (K + 1) : at[k] \in 1 .. (Len(o[b]) + 1)
        /\ at[K + 1] = Len(o[b]) + 1 /\ at[1] = 1
        /\ \A i \in 1 .. K : \E c \in P[<<b, i>>] \cap Seq(Instr) :
             Lies(o[b], at[i], c) /\ at[i + 1] = at[i] + Len(c)
    BY <2>1 DEF Placed
  <2>5. ASSUME NEW i \in 1 .. K
        PROVE  /\ <<b, i>> \in Points(G) /\ At(G, <<b, i>>) \in Instr /\ Plain(At(G, <<b, i>>))
               /\ At(G, <<b, i>>).blockOps # {} => i = K
               /\ At(G, <<b, i>>).blockOps \subseteq BlocksOf(G)
               /\ \A c \in P[<<b, i>>] : Piece(At(G, <<b, i>>), W, c)
    <3>1. <<b, i>> \in Points(G)
      BY PointFacts
    <3>2. /\ At(G, <<b, i>>) \in Instr /\ Plain(At(G, <<b, i>>))
          /\ At(G, <<b, i>>).blockOps # {} => i = K
      BY <3>1, InstrAt DEF IsPlain
    <3>3. i = K => At(G, <<b, i>>).blockOps = successors(G, b)
      BY DEF At, successors
    <3>4. At(G, <<b, i>>).blockOps \subseteq BlocksOf(G)
      BY <3>2, <3>3, FunctionFacts
    <3> QED
      BY <3>1, <3>2, <3>4 DEF SpillPieces
  <2> HIDE DEF K, P
  <2>6. ASSUME NEW j \in 1 .. Len(o[b])
        PROVE  /\ Plain(o[b][j]) /\ o[b][j].blockOps \subseteq BlocksOf(G)
               /\ o[b][j].blockOps # {} => j = Len(o[b])
               /\ o[b][j].mem # "none" => o[b][j].slot \in SlotsIn(G) \cup W
    <3>a. PICK i \in 1 .. K : \E c \in P[<<b, i>>] \cap Seq(Instr) :
             /\ Lies(o[b], at[i], c) /\ at[i + 1] = at[i] + Len(c)
             /\ j >= at[i] /\ j < at[i + 1]
      BY <2>1, <2>2, <2>3, PlacedCovers
    <3>1. PICK c \in P[<<b, i>>] \cap Seq(Instr) :
             /\ Lies(o[b], at[i], c) /\ at[i + 1] = at[i] + Len(c)
             /\ j >= at[i] /\ j < at[i + 1]
      BY <3>a
    <3> DEFINE k == j - at[i] + 1
               I == At(G, <<b, i>>)
    <3>2. /\ k \in 1 .. Len(c) /\ o[b][j] = c[k]
          /\ k = Len(c) => j + 1 = at[i + 1]
      <4>1. at[i] \in Nat /\ Len(c) \in Nat /\ j \in Nat
        <5>1. i \in 1 .. (K + 1)
          BY <2>2
        <5>2. at[i] \in 1 .. (Len(o[b]) + 1)
          BY <5>1, <2>4
        <5> QED
          BY <5>2, <2>3
      <4>2. k \in 1 .. Len(c) /\ at[i] + k - 1 = j /\ (k = Len(c) => j + 1 = at[i] + Len(c))
        <5>1. at[i] <= j /\ j < at[i] + Len(c)
          BY <3>1
        <5> HIDE DEF P
        <5>2. k \in 1 .. Len(c) /\ at[i] + k - 1 = j
          BY <4>1, <5>1
        <5>3. k = Len(c) => j + 1 = at[i] + Len(c)
          BY <4>1
        <5> QED
          BY <5>2, <5>3
      <4>3. o[b][at[i] + k - 1] = c[k]
        <5> HIDE DEF k, P
        <5> QED
          BY <3>1, <4>2 DEF Lies
      <4> QED
        BY <3>1, <4>2, <4>3
    <3>3. /\ Plain(c[k]) /\ c[k].blockOps \subseteq I.blockOps
          /\ c[k].blockOps # {} => k = Len(c)
          /\ c[k].mem # "none" => c[k].slot \in W \/ (I.mem # "none" /\ c[k].slot = I.slot)
      <4>1. I \in Instr /\ Plain(I) /\ Piece(I, W, c)
        BY <2>5
      <4> HIDE DEF I, k
      <4>2. InPlaceOf(c, I, W)
        BY <4>1, PieceFacts
      <4> QED
        BY <3>2, <4>2 DEF InPlaceOf
    <3>4. I.mem # "none" => I.slot \in SlotsIn(G)
      BY <2>5 DEF SlotsIn
    <3>5. o[b][j].blockOps # {} => j = Len(o[b])
      <4> SUFFICES ASSUME o[b][j].blockOps # {} PROVE j = Len(o[b])
        OBVIOUS
      <4>1. I.blockOps # {} /\ k = Len(c)
        BY <3>2, <3>3
      <4>2. i = K
        BY <4>1, <2>5
      <4>3. j + 1 = Len(o[b]) + 1
        BY <4>1, <4>2, <3>2, <2>4
      <4> QED
        BY <4>3, <2>3
    <3>6. I.blockOps \subseteq BlocksOf(G)
      BY <2>5
    <3> QED
      BY <3>2, <3>3, <3>4, <3>5, <3>6
  <2>7. Len(o[b]) > 0
    <3>1. 1 \in 1 .. K
      BY <2>2
    <3>2. PICK c \in P[<<b, 1>>] \cap Seq(Instr) : at[1 + 1] = at[1] + Len(c)
      BY <3>1, <2>4
    <3>3. Len(c) > 0 /\ Len(c) \in Nat
      <4>1. /\ At(G, <<b, 1>>) \in Instr /\ Plain(At(G, <<b, 1>>))
            /\ Piece(At(G, <<b, 1>>), W, c)
        BY <3>1, <2>5
      <4>2. c \in Seq(Instr) /\ InPlaceOf(c, At(G, <<b, 1>>), W)
        BY <4>1, PieceFacts
      <4> QED
        BY <4>2 DEF InPlaceOf
    <3>4. 1 + 1 \in 1 .. (K + 1)
      BY <2>2
    <3>5. at[1 + 1] \in 1 .. (Len(o[b]) + 1)
      BY <3>4, <2>4
    <3> QED
      BY <3>2, <3>3, <3>5, <2>4, <2>3
  <2> QED
    BY <2>2, <2>6, <2>7
<1> HIDE DEF P
<1>4. IsFunction(H)
  <2>1. ASSUME NEW b \in BlocksOf(H)
        PROVE  /\ H.code[b] \in Seq(Instr) /\ Len(H.code[b]) > 0
               /\ successors(H, b) \subseteq BlocksOf(H)
    <3>1. Len(o[b]) \in Nat /\ Len(o[b]) > 0
      BY <1>2, <1>3
    <3>2. Len(o[b]) \in 1 .. Len(o[b])
      BY <3>1
    <3> QED
      BY <3>2, <1>1, <1>2, <1>3 DEF successors
  <2> QED
    BY <1>1, <1>2, <2>1 DEF IsFunction
<1>5. ASSUME NEW p \in Points(H)
      PROVE  /\ Plain(At(H, p)) /\ (At(H, p).blockOps # {} => p[2] = Len(H.code[p[1]]))
             /\ At(H, p).mem # "none" => At(H, p).slot \in SlotsIn(G) \cup W
  <2>1. p[1] \in BlocksOf(G) /\ p[2] \in 1 .. Len(o[p[1]])
    BY <1>1, <1>2, <1>4, PointFacts
  <2> QED
    BY <2>1, <1>1, <1>3 DEF At
<1> QED
  BY <1>1, <1>2, <1>4, <1>5 DEF IsPlain, SlotsIn

-----------------------------------------------------------------------------
(* The registers made for the operands of an instruction.                  *)

\* t gives the elements of S different registers, those from m + 1 to n of Temps.
Gives(t, S, m, n) ==
  /\ DOMAIN t = S
  /\ \A v \in S : \E k \in (m + 1) .. n : t[v] = Temps[k]
  /\ \A v, w \in S : t[v] = t[w] => v = w

LEMMA TempsOfFacts ==
  ASSUME NEW s \in Seq(Regs), NEW n \in Nat,
         n + Cardinality(spilledUpTo(s, Len(s))) <= Len(Temps)
  PROVE  Gives(tempsOf(s, n), Range(s) \cap spilled, n,
               n + Cardinality(spilledUpTo(s, Len(s))))
<1> DEFINE t == tempsOf(s, n)
           l == Len(s)
           upTo(k) == spilledUpTo(s, k)
           IsLast(v, k) == k \in DOMAIN s /\ s[k] = v /\ \A j \in DOMAIN s : s[j] = v => j <= k
           last(v) == CHOOSE k \in DOMAIN s : s[k] = v /\ \A j \in DOMAIN s : s[j] = v => j <= k
<1>1. l \in Nat /\ DOMAIN s = 1 .. l
  OBVIOUS
<1>2. t = [v \in Range(s) \cap spilled |-> Temps[n + Cardinality(upTo(last(v)))]]
  BY DEF tempsOf
<1>3. \A k \in 0 .. l : IsFiniteSet(upTo(k)) /\ Cardinality(upTo(k)) \in Nat
  <2> TAKE k \in 0 .. l
  <2>1. IsFiniteSet(1 .. k)
    BY FS_Interval
  <2>2. upTo(k) \subseteq 1 .. k
    BY DEF spilledUpTo
  <2> QED
    BY <2>1, <2>2, FS_Subset, FS_CardinalityType
<1>4. ASSUME NEW v \in Range(s) \cap spilled PROVE IsLast(v, last(v))
  <2> DEFINE T == {j \in DOMAIN s : s[j] = v}
             U == {m \in Nat : \E j \in T : m = l - j}
  <2>a. PICK i \in DOMAIN s : s[i] = v
    BY DEF Range
  <2>b. l - i \in U
    BY <1>1, <2>a
  <2>1. U # {} /\ U \subseteq Nat
    BY <2>b
  <2>2. PICK m \in U : \A o \in U : m <= o
    BY <2>1, NatMin
  <2>3. PICK j \in T : m = l - j
    BY <2>2
  <2>4. ASSUME NEW o \in T PROVE o <= j
    <3>1. l - o \in U
      BY <1>1
    <3>2. o \in Int /\ j \in Int /\ l \in Int
      BY <1>1
    <3>3. l - j <= l - o
      BY <3>1, <2>2, <2>3
    <3> HIDE DEF T, U
    <3> QED
      BY <3>2, <3>3
  <2>5. IsLast(v, j)
    BY <2>3, <2>4
  <2> QED
    BY <2>5
<1>5. ASSUME NEW v \in Range(s) \cap spilled
      PROVE  /\ last(v) \in 1 .. l /\ s[last(v)] = v /\ last(v) \in upTo(last(v))
             /\ upTo(last(v)) \subseteq upTo(l)
  <2>a. PICK k : k = last(v)
    OBVIOUS
  <2>1. k \in 1 .. l /\ s[k] = v
    BY <1>1, <1>4, <2>a
  <2> HIDE DEF last
  <2>2. k \in upTo(k) /\ upTo(k) \subseteq upTo(l)
    BY <2>1, <1>1 DEF spilledUpTo
  <2> QED
    BY <2>a, <2>1, <2>2
<1> DEFINE card(v) == Cardinality(upTo(last(v)))
           d == Cardinality(upTo(l))
<1> HIDE DEF last, upTo, IsLast
<1>6. ASSUME NEW v \in Range(s) \cap spilled
      PROVE  card(v) \in 1 .. d
  <2>1. last(v) \in 0 .. l /\ l \in 0 .. l
    BY <1>1, <1>5
  <2>2. IsFiniteSet(upTo(l)) /\ d \in Nat /\ IsFiniteSet(upTo(last(v))) /\ card(v) \in Nat
    BY <2>1, <1>3
  <2>3. card(v) <= d
    BY <2>2, <1>5, FS_Subset
  <2>4. card(v) # 0
    BY <2>2, <1>5, FS_EmptySet
  <2> QED
    BY <2>2, <2>3, <2>4
<1>7. ASSUME NEW v \in Range(s) \cap spilled, NEW w \in Range(s) \cap spilled, last(v) < last(w)
      PROVE  card(v) # card(w)
  <2>1. last(v) \in 1 .. l /\ last(w) \in 1 .. l /\ last(w) \in upTo(last(w))
    BY <1>5
  <2>2. upTo(last(v)) \subseteq upTo(last(w)) /\ last(w) \notin upTo(last(v))
    BY <2>1, <1>1, <1>7 DEF upTo, spilledUpTo
  <2>3. IsFiniteSet(upTo(last(w)))
    BY <2>1, <1>1, <1>3
  <2> QED
    BY <2>1, <2>2, <2>3, FS_Subset
<1>8. d \in Nat
  BY <1>1, <1>3
<1>9. ASSUME NEW v \in Range(s) \cap spilled
      PROVE  /\ n + card(v) \in (n + 1) .. (n + d) /\ n + card(v) \in DOMAIN Temps
             /\ t[v] = Temps[n + card(v)]
  <2>1. Len(Temps) \in Nat /\ DOMAIN Temps = 1 .. Len(Temps)
    BY TempsAssumption
  <2>2. n + d <= Len(Temps)
    BY DEF upTo
  <2>3. t[v] = Temps[n + card(v)]
    BY <1>2
  <2> QED
    BY <2>1, <2>2, <2>3, <1>6, <1>8
<1>10. DOMAIN t = Range(s) \cap spilled
  BY <1>2
<1> HIDE DEF t, card, d
<1>11. ASSUME NEW v \in DOMAIN t, NEW w \in DOMAIN t, t[v] = t[w] PROVE v = w
  <2>1. n + card(v) = n + card(w)
    BY <1>9, <1>10, <1>11, TempsAssumption
  <2>2. card(v) = card(w)
    BY <2>1, <1>6, <1>8, <1>10
  <2>3. last(v) = last(w)
    <3>1. last(v) \in 1 .. l /\ last(w) \in 1 .. l
      BY <1>5, <1>10
    <3> QED
      BY <2>2, <3>1, <1>1, <1>7, <1>10
  <2> QED
    BY <2>3, <1>5, <1>10
<1>12. \A v \in DOMAIN t : \E k \in (n + 1) .. (n + d) : t[v] = Temps[k]
  BY <1>9, <1>10
<1> QED
  BY <1>8, <1>10, <1>11, <1>12 DEF t, d, upTo, Gives

\* What SpillInstruction appends: the virtual registers in it are made now.
LEMMA SpillInstructionPiece ==
  ASSUME NEW I \in Instr, spilled \subseteq VirtRegs, made \in Nat, Fresh \cap spilled = {},
         VirtRegs \cap (use(I) \cup def(I)) \subseteq spilled,
         NEW n1, n1 = made + Cardinality(spilledUpTo(I.srcs, Len(I.srcs))),
         NEW n2, n2 = n1 + Cardinality(spilledUpTo(I.dsts, Len(I.dsts))), n2 <= Len(Temps),
         NEW c, c = Spilled(I, tempsOf(I.srcs, made), tempsOf(I.dsts, n1), spilled)
  PROVE  /\ n2 \in Nat /\ n2 >= made /\ c \in Seq(Instr) /\ Piece(I, spilled, c)
         /\ \A k \in 1 .. Len(c) :
              VirtRegs \cap (use(c[k]) \cup def(c[k])) \subseteq {Temps[n] : n \in (made + 1) .. n2}
<1>i. PICK in, to : in = tempsOf(I.srcs, made) /\ to = tempsOf(I.dsts, n1)
  OBVIOUS
<1> DEFINE d1 == Cardinality(spilledUpTo(I.srcs, Len(I.srcs)))
           d2 == Cardinality(spilledUpTo(I.dsts, Len(I.dsts)))
           N == {Temps[n] : n \in (made + 1) .. n2}
           W == spilled
<1>1. I.srcs \in Seq(Regs) /\ I.dsts \in Seq(Regs)
  BY DEF Instr
<1>2. \A s \in Seq(Regs) : Cardinality(spilledUpTo(s, Len(s))) \in Nat
  <2> TAKE s \in Seq(Regs)
  <2>1. IsFiniteSet(1 .. Len(s)) /\ spilledUpTo(s, Len(s)) \subseteq 1 .. Len(s)
    BY FS_Interval DEF spilledUpTo
  <2> QED
    BY <2>1, FS_Subset, FS_CardinalityType
<1>3. d1 \in Nat /\ d2 \in Nat /\ n1 = made + d1 /\ n2 = n1 + d2
  BY <1>1, <1>2
<1>4. n1 \in Nat /\ n2 \in Nat /\ n2 >= made /\ n1 <= Len(Temps)
  <2>1. Len(Temps) \in Nat
    BY TempsAssumption
  <2> QED
    BY <1>3, <2>1
<1>5. /\ DOMAIN in = SrcsIn(I, W)
      /\ \A v \in DOMAIN in : \E k \in (made + 1) .. n1 : in[v] = Temps[k]
      /\ \A v, w \in DOMAIN in : in[v] = in[w] => v = w
  <2>1. Gives(in, SrcsIn(I, W), made, n1)
    BY <1>i, <1>1, <1>4, TempsOfFacts DEF SrcsIn
  <2> QED
    BY <2>1 DEF Gives
<1>6. /\ DOMAIN to = DstsIn(I, W)
      /\ \A v \in DOMAIN to : \E k \in (n1 + 1) .. n2 : to[v] = Temps[k]
  <2>1. Gives(to, DstsIn(I, W), n1, n2)
    BY <1>i, <1>1, <1>4, TempsOfFacts DEF DstsIn
  <2> QED
    BY <2>1 DEF Gives
<1>f. /\ in = [v \in DOMAIN in |-> in[v]] /\ to = [v \in DOMAIN to |-> to[v]]
  BY <1>i DEF tempsOf
<1> HIDE DEF d1, d2
<1>7. N \subseteq Range(Temps) \ W
  <2>1. DOMAIN Temps = 1 .. Len(Temps) /\ Len(Temps) \in Nat
    BY TempsAssumption
  <2>2. N \subseteq Fresh
    BY <2>1, <1>4 DEF Fresh
  <2>3. N \subseteq Range(Temps)
    BY <2>1, <1>4 DEF Range
  <2> QED
    BY <2>2, <2>3
<1>8. (\A v \in DOMAIN in : in[v] \in N) /\ (\A v \in DOMAIN to : to[v] \in N)
  <2>1. (made + 1) .. n1 \subseteq (made + 1) .. n2 /\ (n1 + 1) .. n2 \subseteq (made + 1) .. n2
    BY <1>3, <1>4
  <2>2. ASSUME NEW v \in DOMAIN in PROVE in[v] \in N
    BY <2>1, <1>5
  <2>3. ASSUME NEW v \in DOMAIN to PROVE to[v] \in N
    BY <2>1, <1>6
  <2> QED
    BY <2>2, <2>3
<1>9. Range(Temps) \subseteq Regs
  BY TempsAssumption DEF Range, Regs
<1> HIDE DEF N
<1>10. in \in [SrcsIn(I, W) -> Range(Temps) \ W] /\ to \in [DstsIn(I, W) -> Range(Temps) \ W]
  <2>1. \A v \in DOMAIN in : in[v] \in Range(Temps) \ W
    BY <1>7, <1>8
  <2>2. \A v \in DOMAIN to : to[v] \in Range(Temps) \ W
    BY <1>7, <1>8
  <2>3. DOMAIN in = SrcsIn(I, W) /\ DOMAIN to = DstsIn(I, W)
    BY <1>5, <1>6
  <2>4. in \in [DOMAIN in -> Range(Temps) \ W]
    BY <1>f, <2>1
  <2>5. to \in [DOMAIN to -> Range(Temps) \ W]
    BY <1>f, <2>2
  <2> QED
    BY <2>3, <2>4, <2>5
<1>11. (\A v \in DOMAIN in : in[v] \in Regs) /\ (\A v \in DOMAIN to : to[v] \in Regs)
  BY <1>7, <1>8, <1>9
<1> DEFINE ss == SetToSeq(SrcsIn(I, W))
           ds == SetToSeq(DstsIn(I, W))
           J  == Rename(I, in, to)
           x  == Len(ss)
           y  == Len(ds)
<1>12. /\ c \in Seq(Instr)
       /\ x \in Nat /\ y \in Nat /\ Len(c) = x + 1 + y
       /\ \A j \in 1 .. x : c[j] = LoadFrom(ss[j], in[ss[j]])
       /\ c[x + 1] = J
       /\ \A j \in 1 .. y : c[x + 1 + j] = StoreTo(ds[j], to[ds[j]])
  <2>1. c = Spilled(I, in, to, W)
    BY <1>i
  <2>2. W \in SUBSET VirtRegs /\ SrcsIn(I, W) \subseteq DOMAIN in /\ DstsIn(I, W) \subseteq DOMAIN to
    BY <1>5, <1>6
  <2> HIDE DEF W
  <2>3. SpillsTo(c, I, in, to, W)
    BY <2>1, <2>2, <1>11, SpilledSpills
  <2> QED
    BY <2>3 DEF SpillsTo
<1>13. Piece(I, W, c)
  BY <1>i, <1>5, <1>10 DEF Piece
<1>14. /\ \A j \in 1 .. x : in[ss[j]] \in N
       /\ \A j \in 1 .. y : to[ds[j]] \in N
  <2>1. ss \in Seq(SrcsIn(I, W)) /\ ds \in Seq(DstsIn(I, W))
    BY OperandSets, SetToSeqFacts
  <2> QED
    BY <2>1, <1>5, <1>6, <1>8
<1>15. VirtRegs \cap (use(J) \cup def(J)) \subseteq N
  <2>1. /\ J.srcs = RenameSeq(I.srcs, in) /\ J.dsts = RenameSeq(I.dsts, to)
        /\ J.implicitSrcs = I.implicitSrcs /\ J.implicitDsts = I.implicitDsts
    BY <1>11, RenameFacts
  <2>2. I.implicitSrcs \subseteq PhysRegs /\ I.implicitDsts \subseteq PhysRegs
        /\ VirtRegs \cap PhysRegs = {}
    BY RegsAssumption DEF Instr
  <2>3. VirtRegs \cap Range(RenameSeq(I.srcs, in)) \subseteq N
    <3>1. VirtRegs \cap Range(I.srcs) \subseteq DOMAIN in
      BY <1>5 DEF SrcsIn, use
    <3> QED
      BY <3>1, <1>8 DEF RenameSeq, Range
  <2>4. VirtRegs \cap Range(RenameSeq(I.dsts, to)) \subseteq N
    <3>1. VirtRegs \cap Range(I.dsts) \subseteq DOMAIN to
      BY <1>6 DEF DstsIn, def
    <3> QED
      BY <3>1, <1>8 DEF RenameSeq, Range
  <2> HIDE DEF J
  <2> QED
    BY <2>1, <2>2, <2>3, <2>4 DEF use, def
<1> HIDE DEF ss, ds, J, x, y
<1>16. ASSUME NEW v, NEW r \in N
       PROVE  /\ use(LoadFrom(v, r)) \cup def(LoadFrom(v, r)) \subseteq N
              /\ use(StoreTo(v, r)) \cup def(StoreTo(v, r)) \subseteq N
  BY DEF LoadFrom, StoreTo, use, def, Range
<1>17. ASSUME NEW k \in 1 .. Len(c)
       PROVE  VirtRegs \cap (use(c[k]) \cup def(c[k])) \subseteq N
  <2>1. CASE k \in 1 .. x
    BY <2>1, <1>12, <1>14, <1>16
  <2>2. CASE k = x + 1
    BY <2>2, <1>12, <1>15
  <2>3. CASE k > x + 1
    <3>1. k - (x + 1) \in 1 .. y /\ k = x + 1 + (k - (x + 1))
      BY <2>3, <1>12
    <3>2. PICK j \in 1 .. y : k = x + 1 + j
      BY <3>1
    <3>3. c[k] = StoreTo(ds[j], to[ds[j]]) /\ to[ds[j]] \in N
      BY <3>2, <1>12, <1>14
    <3> QED
      BY <3>3, <1>16
  <2> QED
    BY <2>1, <2>2, <2>3, <1>12
<1> QED
  BY <1>4, <1>12, <1>13, <1>17 DEF N

-----------------------------------------------------------------------------
(* The inductive invariant of the rounds.                                  *)

\* Where x holds a value that some path reads, y holds one too, or is written.
Overlap(G, x, y) ==
  \E p \in PointsBefore(G, ReadWithin(G, x)) :
    p \in PointsBefore(G, ReadWithin(G, y)) \/ y \in def(At(G, p))

GraphCovers ==
  \A x \in regs : \A y \in regs \ {x} : Overlap(F, x, y) => y \in interference[x]

\* The code is what an allocator is given or makes, the liveness that of the code.
CodeInv ==
  /\ LVTypeOK /\ IsPlain(F)
  /\ step = "analyse" => LVInv

\* The virtual registers of the code are nodes of the graph, later those that are
\* spilled; registers not made yet and slots are neither.
NamesInv ==
  /\ PhysRegs \subseteq regs /\ regs \subseteq Regs
  /\ spilled \subseteq VirtRegs
  /\ step \notin {"simplify", "spill"} => spilled = {}
  /\ step \in {"analyse", "coalesce", "simplify"} => VirtRegsOf(F) \subseteq regs
  /\ step = "spill" => VirtRegsOf(F) \subseteq spilled /\ regs \cap spilled = {}
  /\ step = "done" => VirtRegsOf(F) = {}
  /\ made \in 0 .. Len(Temps)
  /\ Fresh \cap (regs \cup spilled \cup SlotsIn(F)) = {}
  /\ SlotsIn(F) \cap (regs \cup spilled) = {}

\* The graph covers what overlaps; every virtual register is yet to be coloured,
\* has a colour or is spilled.
ColorsInv ==
  /\ step \in {"analyse", "coalesce", "simplify", "spill", "done", "undefined"}
  /\ HasGraph => GraphCovers
  /\ todo \subseteq VirtRegs /\ (step = "coalesce" => todo \subseteq regs)
  /\ rest \subseteq Regs /\ stack \in Seq(VirtRegs)
  /\ DOMAIN allocation \subseteq VirtRegs /\ \A v \in DOMAIN allocation : allocation[v] \in PhysRegs
  /\ step = "simplify" =>
       regs \cap VirtRegs \subseteq rest \cup Range(stack) \cup DOMAIN allocation \cup spilled

\* What the rewriting loop has passed became its piece.
SpillInv ==
  /\ pos \in Nat \ {0} /\ \A b \in DOMAIN out : out[b] \in Seq(Instr)
  /\ step = "spill" =>
       /\ Rewritten(F, out, pos, SpillPieces(F, spilled))
       /\ \A b \in DOMAIN out : \A k \in 1 .. Len(out[b]) :
            VirtRegs \cap (use(out[b][k]) \cup def(out[b][k])) \subseteq regs

RoundInv == CodeInv /\ NamesInv /\ ColorsInv /\ SpillInv

-----------------------------------------------------------------------------
(* Renaming: the code and its liveness, the names, what overlaps.          *)

LEMMA VirtRegsRenamed ==
  ASSUME NEW G, IsFunction(G), NEW m, IsRenaming(m), NEW H,
         H = [G EXCEPT !.code = RenameAll(G, m)]
  PROVE  \A y \in VirtRegsOf(H) : \E x \in VirtRegsOf(G) : y = Renamed(m, x)
<1> SUFFICES ASSUME NEW y \in VirtRegsOf(H) PROVE \E x \in VirtRegsOf(G) : y = Renamed(m, x)
  OBVIOUS
<1>1. /\ IsFunction(H) /\ Points(H) = Points(G)
      /\ \A p \in Points(G) : At(H, p) = Rename(At(G, p), m, m)
  BY RenameAllFacts
<1>2. y \in VirtRegs /\ \E p \in Points(G) : y \in use(At(H, p)) \cup def(At(H, p))
  BY <1>1 DEF VirtRegsOf
<1>3. PICK p \in Points(G) : y \in use(At(H, p)) \cup def(At(H, p))
  BY <1>2
<1>4. /\ \A z : z \in use(At(H, p)) <=> \E x \in use(At(G, p)) : z = Renamed(m, x)
      /\ \A z : z \in def(At(H, p)) <=> \E x \in def(At(G, p)) : z = Renamed(m, x)
  BY <1>1, InstrAt, RenameImage
<1>5. PICK x \in use(At(G, p)) \cup def(At(G, p)) : y = Renamed(m, x)
  BY <1>3, <1>4
<1>6. x \in Regs
  BY <1>5, InstrAt
<1>7. x \in VirtRegs
  BY <1>2, <1>5, <1>6, RegsAssumption DEF Regs, Renamed, IsRenaming
<1> QED
  BY <1>5, <1>7 DEF VirtRegsOf

LEMMA OverlapRenamed ==
  ASSUME NEW G, IsFunction(G), NEW m, IsRenaming(m), NEW H,
         H = [G EXCEPT !.code = RenameAll(G, m)], NEW x, NEW y, Overlap(H, x, y)
  PROVE  \E a, b : x = Renamed(m, a) /\ y = Renamed(m, b) /\ Overlap(G, a, b)
<1>1. PICK p \in PointsBefore(H, ReadWithin(H, x)) :
        p \in PointsBefore(H, ReadWithin(H, y)) \/ y \in def(At(H, p))
  BY DEF Overlap
<1>2. /\ Points(H) = Points(G)
      /\ \A q \in Points(G) : At(H, q) = Rename(At(G, q), m, m)
  BY RenameAllFacts
<1>3. p \in Points(G)
  BY <1>1, <1>2 DEF PointsBefore
<1>4. PICK a : x = Renamed(m, a) /\ p \in PointsBefore(G, ReadWithin(G, a))
  BY <1>1, RenamedReads
<1>5. CASE p \in PointsBefore(H, ReadWithin(H, y))
  <2>1. PICK b : y = Renamed(m, b) /\ p \in PointsBefore(G, ReadWithin(G, b))
    BY <1>5, RenamedReads
  <2> QED
    BY <1>4, <2>1 DEF Overlap
<1>6. CASE y \in def(At(H, p))
  <2>1. \A z : z \in def(At(H, p)) <=> \E b \in def(At(G, p)) : z = Renamed(m, b)
    BY <1>2, <1>3, InstrAt, RenameImage
  <2>2. PICK b \in def(At(G, p)) : y = Renamed(m, b)
    BY <1>6, <2>1
  <2> QED
    BY <1>4, <2>2 DEF Overlap
<1> QED
  BY <1>1, <1>5, <1>6

LEMMA CodeRenamed ==
  ASSUME CodeInv, NEW m, IsRenaming(m), F' = [F EXCEPT !.code = RenameAll(F, m)],
         UNCHANGED <<phase, cursor, index, changed, liveIn, liveOut, live, liveIn2, liveOut2>>,
         step' # "analyse"
  PROVE  CodeInv' /\ SlotsIn(F)' = SlotsIn(F)
<1>1. PICK H : H = [F EXCEPT !.code = RenameAll(F, m)]
  OBVIOUS
<1>2. IsFunction(F) /\ IsPlain(F)
  BY DEF CodeInv, LVTypeOK
<1>3. IsFunction(H) /\ SameShape(F, H) /\ Points(H) = Points(F)
  BY <1>1, <1>2, RenameAllFacts
<1>4. IsPlain(H) /\ SlotsIn(H) = SlotsIn(F)
  BY <1>1, <1>2, PlainRenameAll
<1>5. F' = H
  BY <1>1
<1>6. LVTypeOK'
  <2>1. LVTypeOK /\ H.layout = F.layout /\ BlocksOf(H) = BlocksOf(F)
        /\ \A b \in BlocksOf(F) : Len(H.code[b]) = Len(F.code[b])
    BY <1>3 DEF CodeInv, SameShape
  <2>2. phase = "instrs" => F.layout[cursor] \in BlocksOf(F)
    <3>1. cursor \in 1 .. (Len(F.layout) + 1) /\ (phase # "blocks" => cursor <= Len(F.layout))
      BY <2>1 DEF LVTypeOK
    <3>2. Len(F.layout) \in Nat /\ \A i \in 1 .. Len(F.layout) : F.layout[i] \in BlocksOf(F)
      BY <1>2, FunctionFacts
    <3> QED
      BY <3>1, <3>2
  <2> QED
    BY <1>3, <1>5, <2>1, <2>2 DEF LVTypeOK
<1>7. IsPlain(F)' /\ SlotsIn(F)' = SlotsIn(F)
  BY <1>4, <1>5
<1> QED
  BY <1>6, <1>7 DEF CodeInv

-----------------------------------------------------------------------------
(* The initial states and the steps.                                       *)

LEMMA RoundInitInv == GCInit => RoundInv
<1> SUFFICES ASSUME GCInit PROVE RoundInv
  OBVIOUS
<1>1. /\ LVInit /\ step = "analyse" /\ regs = VirtRegsOf(F) \cup PhysRegs /\ todo = {}
      /\ rest = {} /\ stack = <<>> /\ allocation = <<>> /\ spilled = {}
      /\ pos = 1 /\ out = NoCode(F) /\ made = 0
  BY DEF GCInit
<1>2. F \in Funcs /\ LVInv
  BY <1>1, LVInitInv DEF LVInit, Start
<1>3. IsFunction(F) /\ IsCode(F)
  BY <1>2, FuncsAssumption, CodeAssumption
<1>4. IsPlain(F)
  <2> SUFFICES ASSUME NEW p \in Points(F)
               PROVE  Plain(At(F, p)) /\ (At(F, p).blockOps # {} => p[2] = Len(F.code[p[1]]))
    BY DEF IsPlain
  <2> DEFINE I == At(F, p)
  <2>1. /\ I.mem = "none" /\ Len(I.dsts) <= 1 /\ (I.implicitDsts # {} => I.dsts = <<>>)
        /\ I.blockOps # {} => p[2] = Len(F.code[p[1]]) /\ I.dsts = <<>>
        /\ I.coalescent => /\ Len(I.srcs) = 1 /\ Len(I.dsts) = 1
                           /\ I.implicitSrcs = {} /\ I.implicitDsts = {}
    BY <1>3 DEF IsCode
  <2> HIDE DEF I
  <2>2. Plain(I)
    BY <2>1 DEF Plain
  <2> QED
    BY <2>1, <2>2 DEF I
<1>5. SlotsIn(F) = {}
  BY <1>3 DEF IsCode, SlotsIn
<1>6. VirtRegsOf(F) \subseteq VirtRegs
  BY DEF VirtRegsOf
<1>7. Fresh \cap regs = {} /\ made \in 0 .. Len(Temps)
  <2>1. Len(Temps) \in Nat /\ DOMAIN Temps = 1 .. Len(Temps)
    BY TempsAssumption
  <2>2. Fresh \subseteq Range(Temps) /\ Range(Temps) \subseteq VirtRegs
    BY <1>1, <2>1, TempsAssumption DEF Fresh, Range
  <2>3. VirtRegsOf(F) \cap Range(Temps) = {}
    BY <1>2, TempsAssumption
  <2> QED
    BY <1>1, <2>1, <2>2, <2>3, RegsAssumption
<1>8. CodeInv
  BY <1>2, <1>4 DEF CodeInv, LVInv
<1>9. NamesInv
  BY <1>1, <1>5, <1>6, <1>7 DEF NamesInv, Regs
<1>10. ColorsInv
  BY <1>1 DEF ColorsInv, HasGraph
<1>11. SpillInv
  <2>1. /\ \A b \in DOMAIN out : out[b] = <<>>
        /\ <<>> \in Seq(Instr) /\ 1 \in Nat \ {0}
    BY <1>1 DEF NoCode
  <2>2. \A b \in DOMAIN out : out[b] \in Seq(Instr)
    BY <2>1
  <2>3. pos \in Nat \ {0} /\ step # "spill"
    BY <1>1, <2>1
  <2> QED
    BY <2>2, <2>3 DEF SpillInv
<1> QED
  BY <1>8, <1>9, <1>10, <1>11 DEF RoundInv

LEMMA AnalyseRound ==
  ASSUME RoundInv, Analyse
  PROVE  RoundInv'
<1>1. /\ step = "analyse" /\ step' = "analyse" /\ F' = F
      /\ UNCHANGED <<regs, todo, rest, stack, allocation, spilled, pos, out, made>>
  BY DEF Analyse, gcVars, graphVars, colorVars, spillVars, LVNext, VisitBlock, EndSweep,
         VisitInstruction, NextBlock
<1>2. LVInv'
  BY <1>1, LVStepInv DEF RoundInv, CodeInv, Analyse
<1>3. CodeInv'
  BY <1>1, <1>2 DEF RoundInv, CodeInv, LVInv
<1>4. NamesInv'
  BY <1>1 DEF RoundInv, NamesInv, Fresh
<1>5. ColorsInv'
  BY <1>1 DEF RoundInv, ColorsInv, HasGraph
<1>6. SpillInv'
  BY <1>1 DEF RoundInv, SpillInv
<1> QED
  BY <1>3, <1>4, <1>5, <1>6 DEF RoundInv

\* Liveness is exact, so the graph has an edge wherever registers overlap.
LEMMA BuildRound ==
  ASSUME RoundInv, Build
  PROVE  RoundInv'
<1>1. /\ step = "analyse" /\ phase = "done" /\ step' = "coalesce" /\ todo' = regs \cap VirtRegs
      /\ interference' = [u \in regs |-> {v \in regs : Interferes(u, v)}]
      /\ UNCHANGED <<lvVars, regs, rest, stack, allocation, spilled, pos, out, made>>
  BY DEF Build, colorVars, spillVars
<1>2. F' = F /\ LVInv
  BY <1>1 DEF lvVars, RoundInv, CodeInv
<1>3. CodeInv'
  BY <1>1, <1>2 DEF RoundInv, CodeInv, lvVars, LVTypeOK
<1>4. NamesInv'
  BY <1>1, <1>2 DEF RoundInv, NamesInv, Fresh
<1>5. ASSUME NEW x \in regs, NEW y \in regs \ {x}, Overlap(F, x, y) PROVE Interferes(x, y)
  <2>1. PICK p \in PointsBefore(F, ReadWithin(F, x)) :
          p \in PointsBefore(F, ReadWithin(F, y)) \/ y \in def(At(F, p))
    BY <1>5 DEF Overlap
  <2>2. p \in Points(F)
    BY <2>1 DEF PointsBefore
  <2>3. x \in liveOut2[p] /\ y \in liveOut2[p] \cup def(At(F, p))
    BY <1>1, <1>2, <2>1, <2>2, LiveOutMeansRead
  <2>4. Meets(x, y)
    BY <2>2, <2>3 DEF Meets
  <2> QED
    BY <2>4 DEF Interferes
<1>6. GraphCovers'
  BY <1>1, <1>2, <1>5 DEF GraphCovers
<1>7. ColorsInv'
  BY <1>1, <1>6 DEF RoundInv, ColorsInv
<1>8. SpillInv'
  BY <1>1 DEF RoundInv, SpillInv
<1> QED
  BY <1>3, <1>4, <1>7, <1>8 DEF RoundInv

LEMMA ReadDestroyedRound ==
  ASSUME RoundInv, ReadDestroyed
  PROVE  RoundInv'
<1>1. /\ step = "analyse" /\ step' = "undefined"
      /\ UNCHANGED <<lvVars, regs, todo, rest, stack, allocation, spilled, pos, out, made>>
  BY DEF ReadDestroyed, graphVars, colorVars, spillVars
<1>2. F' = F
  BY <1>1 DEF lvVars
<1>3. CodeInv'
  BY <1>1, <1>2 DEF RoundInv, CodeInv, lvVars, LVTypeOK
<1>4. NamesInv'
  BY <1>1, <1>2 DEF RoundInv, NamesInv, Fresh
<1>5. ColorsInv'
  BY <1>1 DEF RoundInv, ColorsInv, HasGraph
<1>6. SpillInv'
  BY <1>1 DEF RoundInv, SpillInv
<1> QED
  BY <1>3, <1>4, <1>5, <1>6 DEF RoundInv

\* What overlaps after u has become v overlapped before, and v has u's edges.
LEMMA MergeRound ==
  ASSUME GCInv, RoundInv, step = "coalesce", NEW u \in todo, NEW v \in coalescence[u],
         Merge(u, v), todo' = todo \ {u}, UNCHANGED <<step, colorVars, spillVars>>
  PROVE  RoundInv'
<1> DEFINE m == [x \in {u} |-> v]
<1>1. /\ interference' =
           RemoveEdges(AddEdges(interference, v, interference[u] \ {v}), u, interference[u] \ {v})
      /\ regs' = regs \ {u}
      /\ F' = [F EXCEPT !.code = RenameAll(F, m)]
      /\ UNCHANGED <<phase, cursor, index, changed, liveIn, liveOut, live, liveIn2, liveOut2>>
  BY DEF Merge
<1>2. /\ AreApart(interference, coalescence, regs) /\ u \in DOMAIN interference
      /\ u \in regs /\ u \in VirtRegs
  BY DEF GCInv, CandidatesApart, HasGraph, RoundInv, ColorsInv
<1>3. /\ u # v /\ v \in regs /\ v \in DOMAIN interference /\ v \notin interference[u]
      /\ \A x, y \in DOMAIN interference : y \in interference[x] => x \in interference[y]
      /\ regs \subseteq DOMAIN interference
  BY <1>2 DEF AreApart, IsGraph
<1>4. v \in Regs /\ IsRenaming(m)
  BY <1>2, <1>3 DEF RoundInv, NamesInv, IsRenaming
<1>5. \A x : Renamed(m, x) = IF x = u THEN v ELSE x
  BY DEF Renamed
<1>6. IsMerged(interference', interference, u, v)
  BY <1>1, <1>2, MergedEdges
<1>f. PICK G : G = F
  OBVIOUS
<1>7. IsFunction(F) /\ IsFunction(G)
  BY <1>f DEF RoundInv, CodeInv, LVTypeOK
<1>8. PICK H : H = [G EXCEPT !.code = RenameAll(G, m)]
  OBVIOUS
<1> HIDE DEF m
<1>h. F' = H /\ F = G
  BY <1>1, <1>8, <1>f
<1>9. CodeInv' /\ SlotsIn(F)' = SlotsIn(F)
  BY <1>1, <1>4, CodeRenamed DEF RoundInv
<1>10. NamesInv'
  <2>1. UNCHANGED <<step, spilled, made>>
    BY DEF colorVars, spillVars
  <2>2. u \notin PhysRegs
    BY <1>2, RegsAssumption
  <2>3. VirtRegsOf(F)' \subseteq regs'
    <3>1. \A y \in VirtRegsOf(H) : \E x \in VirtRegsOf(G) : y = Renamed(m, x)
      BY <1>4, <1>7, <1>8, VirtRegsRenamed
    <3>2. VirtRegsOf(G) \subseteq regs
      BY <1>f DEF RoundInv, NamesInv
    <3>3. VirtRegsOf(H) \subseteq regs \ {u}
      BY <3>1, <3>2, <1>3, <1>5
    <3> QED
      BY <1>1, <1>h, <3>3
  <2> QED
    BY <1>1, <1>9, <2>1, <2>2, <2>3 DEF RoundInv, NamesInv, Fresh
<1>11. ASSUME NEW x \in regs \ {u}, NEW y \in (regs \ {u}) \ {x}, Overlap(H, x, y)
       PROVE  y \in interference'[x]
  <2>1. PICK a, b : x = Renamed(m, a) /\ y = Renamed(m, b) /\ Overlap(G, a, b)
    BY <1>4, <1>7, <1>8, <1>11, OverlapRenamed
  <2>2. a \in regs /\ b \in regs /\ a # b
    BY <1>2, <1>3, <1>5, <2>1
  <2>3. b \in interference[a] /\ a \in interference[b]
    BY <1>3, <1>f, <2>1, <2>2 DEF RoundInv, ColorsInv, HasGraph, GraphCovers
  <2>4. x = (IF a = u THEN v ELSE a) /\ y = (IF b = u THEN v ELSE b)
    BY <1>5, <2>1
  <2>5. /\ x \in DOMAIN interference /\ x # u /\ y # u /\ x # y
        /\ interference'[x] = IF x = v THEN (interference[v] \cup interference[u]) \ {u}
                              ELSE IF x \in interference[u] THEN (interference[x] \cup {v}) \ {u}
                              ELSE interference[x]
    BY <1>3, <1>6 DEF IsMerged
  <2> QED
    BY <2>3, <2>4, <2>5
<1>12. GraphCovers'
  BY <1>1, <1>h, <1>11 DEF GraphCovers
<1>13. ColorsInv'
  <2>1. UNCHANGED <<step, rest, stack, allocation>>
    BY DEF colorVars
  <2> QED
    BY <1>1, <1>12, <2>1 DEF RoundInv, ColorsInv
<1>14. SpillInv'
  <2>1. UNCHANGED <<step, pos, out>>
    BY DEF spillVars
  <2> QED
    BY <2>1 DEF RoundInv, SpillInv
<1> QED
  BY <1>9, <1>10, <1>13, <1>14 DEF RoundInv

LEMMA CoalesceRound ==
  ASSUME GCInv, RoundInv, Coalesce
  PROVE  RoundInv'
<1>1. step = "coalesce" /\ step' = step /\ UNCHANGED <<original, step, colorVars, spillVars>>
  BY DEF Coalesce
<1>2. PICK u \in todo :
        /\ todo' = todo \ {u}
        /\ \/ \E v \in coalescence[u] : canCoalesce(u, v) /\ Merge(u, v)
           \/ UNCHANGED <<lvVars, regs, interference, coalescence>>
  BY DEF Coalesce
<1>3. CASE \E v \in coalescence[u] : Merge(u, v)
  BY <1>1, <1>2, <1>3, MergeRound
<1>4. CASE UNCHANGED <<lvVars, regs, interference, coalescence>>
  <2>1. UNCHANGED <<F, step, regs, interference, rest, stack, allocation, spilled, pos, out, made>>
    BY <1>1, <1>4 DEF lvVars, colorVars, spillVars
  <2>2. CodeInv'
    BY <1>1, <1>4, <2>1 DEF RoundInv, CodeInv, lvVars, LVTypeOK
  <2>3. NamesInv'
    BY <2>1 DEF RoundInv, NamesInv, Fresh
  <2>4. ColorsInv'
    BY <2>1, <1>2 DEF RoundInv, ColorsInv, HasGraph, GraphCovers
  <2>5. SpillInv'
    BY <2>1 DEF RoundInv, SpillInv
  <2> QED
    BY <2>2, <2>3, <2>4, <2>5 DEF RoundInv
<1> QED
  BY <1>2, <1>3, <1>4

LEMMA EndCoalescingRound ==
  ASSUME RoundInv, EndCoalescing
  PROVE  RoundInv'
<1>1. /\ step = "coalesce" /\ step' = "simplify" /\ rest' = regs
      /\ UNCHANGED <<lvVars, F, regs, interference, todo, stack, allocation, spilled, pos, out, made>>
  BY DEF EndCoalescing, lvVars, graphVars, spillVars
<1>2. CodeInv'
  BY <1>1 DEF RoundInv, CodeInv, lvVars, LVTypeOK
<1>3. NamesInv'
  BY <1>1 DEF RoundInv, NamesInv, Fresh
<1>4. ColorsInv'
  BY <1>1 DEF RoundInv, ColorsInv, NamesInv, HasGraph, GraphCovers
<1>5. SpillInv'
  BY <1>1 DEF RoundInv, SpillInv
<1> QED
  BY <1>2, <1>3, <1>4, <1>5 DEF RoundInv

LEMMA SimplifyRound ==
  ASSUME RoundInv, Simplify
  PROVE  RoundInv'
<1>1. PICK u \in rest :
        /\ step = "simplify" /\ rest' = rest \ {u}
        /\ stack' = IF u \in VirtRegs THEN <<u>> \o stack ELSE stack
        /\ UNCHANGED <<lvVars, F, step, regs, interference, todo, allocation, spilled, pos, out, made>>
  BY DEF Simplify, lvVars, graphVars, spillVars
<1>2. CodeInv'
  BY <1>1 DEF RoundInv, CodeInv, lvVars, LVTypeOK
<1>3. NamesInv'
  BY <1>1 DEF RoundInv, NamesInv, Fresh
<1>4. stack \in Seq(VirtRegs)
  BY DEF RoundInv, ColorsInv
<1>5. /\ stack' \in Seq(VirtRegs)
      /\ regs \cap VirtRegs \subseteq rest' \cup Range(stack') \cup DOMAIN allocation \cup spilled
  <2>1. CASE u \in VirtRegs
    <3>1. stack' = <<u>> \o stack /\ <<u>> \in Seq(VirtRegs)
      BY <1>1, <2>1
    <3>2. stack' \in Seq(VirtRegs) /\ Len(stack) \in Nat /\ Len(stack') = 1 + Len(stack)
      BY <1>4, <3>1
    <3>3. stack'[1] = u /\ \A i \in 1 .. Len(stack) : stack'[i + 1] = stack[i]
      BY <1>4, <3>1, <3>2
    <3>4. Range(stack) \cup {u} \subseteq Range(stack')
      <4>1. \A i \in 1 .. Len(stack) : i + 1 \in 1 .. Len(stack')
        BY <3>2
      <4>2. 1 \in 1 .. Len(stack')
        BY <3>2
      <4>3. DOMAIN stack = 1 .. Len(stack) /\ DOMAIN stack' = 1 .. Len(stack')
        BY <1>4, <3>2
      <4> QED
        BY <3>3, <4>1, <4>2, <4>3 DEF Range
    <3> QED
      BY <1>1, <3>2, <3>4 DEF RoundInv, ColorsInv
  <2>2. CASE u \notin VirtRegs
    BY <1>1, <2>2 DEF RoundInv, ColorsInv
  <2> QED
    BY <2>1, <2>2
<1>6. ColorsInv'
  BY <1>1, <1>5 DEF RoundInv, ColorsInv, HasGraph, GraphCovers
<1>7. SpillInv'
  BY <1>1 DEF RoundInv, SpillInv
<1> QED
  BY <1>2, <1>3, <1>6, <1>7 DEF RoundInv

LEMMA SelectRound ==
  ASSUME GCInv, RoundInv, Select
  PROVE  RoundInv'
<1> DEFINE u == Head(stack)
<1>1. /\ step = "simplify" /\ rest = {} /\ stack # <<>> /\ stack' = Tail(stack)
      /\ UNCHANGED <<lvVars, F, step, regs, interference, todo, rest, pos, out, made>>
      /\ \/ \E r \in PhysRegs : allocation' = Put(allocation, u, r) /\ UNCHANGED spilled
         \/ spilled' = spilled \cup {u} /\ UNCHANGED allocation
  BY DEF Select, lvVars, graphVars, spillVars, BestOf
<1>2. /\ stack \in Seq(VirtRegs) /\ stack \in Seq(regs)
      /\ DOMAIN allocation \subseteq VirtRegs /\ \A v \in DOMAIN allocation : allocation[v] \in PhysRegs
      /\ regs \cap VirtRegs \subseteq Range(stack) \cup DOMAIN allocation \cup spilled
  BY <1>1 DEF GCInv, RoundInv, ColorsInv
<1>3. /\ u \in VirtRegs /\ u \in regs /\ Tail(stack) \in Seq(VirtRegs)
  BY <1>1, <1>2
<1>4. Range(stack) \subseteq {u} \cup Range(Tail(stack))
  <2>1. /\ Len(stack) \in Nat /\ Len(stack) > 0 /\ Len(Tail(stack)) = Len(stack) - 1
        /\ DOMAIN stack = 1 .. Len(stack) /\ DOMAIN Tail(stack) = 1 .. Len(Tail(stack))
    BY <1>1, <1>2
  <2>2. \A i \in 1 .. Len(Tail(stack)) : Tail(stack)[i] = stack[i + 1]
    BY <1>1, <1>2
  <2>3. ASSUME NEW i \in 1 .. Len(stack), i # 1 PROVE stack[i] \in Range(Tail(stack))
    <3>1. i - 1 \in 1 .. Len(Tail(stack)) /\ i = (i - 1) + 1
      BY <2>1, <2>3
    <3> QED
      BY <3>1, <2>1, <2>2 DEF Range
  <2> QED
    BY <2>1, <2>3 DEF Range
<1>5. CodeInv'
  BY <1>1 DEF RoundInv, CodeInv, lvVars, LVTypeOK
<1> HIDE DEF u
<1>6. CASE \E r \in PhysRegs : allocation' = Put(allocation, u, r) /\ UNCHANGED spilled
  <2>1. PICK r \in PhysRegs : allocation' = Put(allocation, u, r) /\ UNCHANGED spilled
    BY <1>6
  <2>2. /\ DOMAIN allocation' = DOMAIN allocation \cup {u}
        /\ \A v \in DOMAIN allocation' : allocation'[v] \in PhysRegs
    BY <2>1, <1>2 DEF Put
  <2>3. NamesInv'
    BY <1>1, <2>1 DEF RoundInv, NamesInv, Fresh
  <2>4. ColorsInv'
    BY <1>1, <1>2, <1>3, <1>4, <2>1, <2>2 DEF RoundInv, ColorsInv, HasGraph, GraphCovers
  <2>5. SpillInv'
    BY <1>1, <2>1 DEF RoundInv, SpillInv
  <2> QED
    BY <1>5, <2>3, <2>4, <2>5 DEF RoundInv
<1>7. CASE spilled' = spilled \cup {u} /\ UNCHANGED allocation
  <2>1. NamesInv'
    BY <1>1, <1>3, <1>7 DEF RoundInv, NamesInv, Fresh
  <2>2. ColorsInv'
    BY <1>1, <1>2, <1>3, <1>4, <1>7 DEF RoundInv, ColorsInv, HasGraph, GraphCovers
  <2>3. SpillInv'
    BY <1>1, <1>7 DEF RoundInv, SpillInv
  <2> QED
    BY <1>5, <2>1, <2>2, <2>3 DEF RoundInv
<1> QED
  BY <1>1, <1>6, <1>7

\* Every virtual register of the code has a colour or is spilled.
LEMMA EndSelectRound ==
  ASSUME GCInv, RoundInv, EndSelect
  PROVE  RoundInv'
<1>1. /\ step = "simplify" /\ rest = {} /\ stack = <<>>
      /\ F' = [F EXCEPT !.code = RenameAll(F, allocation)]
      /\ regs' = regs \ VirtRegs /\ allocation' = <<>>
      /\ step' = (IF spilled = {} THEN "done" ELSE "spill")
      /\ pos' = 1 /\ out' = NoCode(F)
      /\ UNCHANGED <<phase, cursor, index, changed, liveIn, liveOut, live, liveIn2, liveOut2,
                     interference, todo, rest, stack, spilled, made>>
  BY DEF EndSelect
<1>2. /\ DOMAIN allocation \subseteq VirtRegs /\ \A v \in DOMAIN allocation : allocation[v] \in PhysRegs
      /\ regs \cap VirtRegs \subseteq Range(stack) \cup DOMAIN allocation \cup spilled
  BY <1>1 DEF RoundInv, ColorsInv
<1>3. IsRenaming(allocation)
  BY <1>2 DEF IsRenaming, Regs
<1>f. PICK G, m : G = F /\ m = allocation
  OBVIOUS
<1>4. IsFunction(G)
  BY <1>f DEF RoundInv, CodeInv, LVTypeOK
<1>5. PICK H : H = [G EXCEPT !.code = RenameAll(G, m)]
  OBVIOUS
<1>6. F' = H
  BY <1>1, <1>5, <1>f
<1>7. CodeInv' /\ SlotsIn(F)' = SlotsIn(F)
  <2>1. step' # "analyse"
    BY <1>1
  <2> QED
    BY <1>1, <1>3, <2>1, CodeRenamed DEF RoundInv
<1>8. VirtRegsOf(H) \subseteq spilled
  <2> SUFFICES ASSUME NEW y \in VirtRegsOf(H) PROVE y \in spilled
    OBVIOUS
  <2>1. PICK x \in VirtRegsOf(G) : y = Renamed(m, x)
    BY <1>3, <1>4, <1>5, <1>f, VirtRegsRenamed
  <2>2. x \in regs /\ x \in VirtRegs /\ y \in VirtRegs
    BY <1>1, <1>f DEF RoundInv, NamesInv, VirtRegsOf
  <2>3. x \notin DOMAIN m /\ y = x
    BY <2>1, <2>2, <1>2, <1>f, RegsAssumption DEF Renamed
  <2>4. Range(stack) = {}
    BY <1>1 DEF Range
  <2> QED
    BY <2>2, <2>3, <2>4, <1>2, <1>f
<1>9. NamesInv'
  <2>1. /\ VirtRegsOf(F)' \subseteq spilled' /\ (step' = "done" => VirtRegsOf(F)' = {})
    BY <1>1, <1>6, <1>8
  <2>2. /\ PhysRegs \subseteq regs' /\ regs' \subseteq Regs /\ regs' \cap VirtRegs = {}
    BY <1>1, RegsAssumption DEF RoundInv, NamesInv
  <2>3. step' \notin {"simplify", "spill"} => spilled' = {}
    BY <1>1
  <2>4. spilled \subseteq VirtRegs /\ made \in 0 .. Len(Temps) /\ regs' \subseteq regs
        /\ Fresh \cap (regs \cup spilled \cup SlotsIn(F)) = {}
        /\ SlotsIn(F) \cap (regs \cup spilled) = {}
    BY <1>1 DEF RoundInv, NamesInv
  <2>5. Fresh' = Fresh /\ spilled' = spilled /\ made' = made
        /\ step' \notin {"analyse", "coalesce", "simplify"}
    BY <1>1 DEF Fresh
  <2> QED
    BY <1>7, <2>1, <2>2, <2>3, <2>4, <2>5 DEF NamesInv
<1>10. ColorsInv'
  BY <1>1 DEF RoundInv, ColorsInv, HasGraph
<1>11. SpillInv'
  <2>1. SameShape(G, H) /\ BlocksOf(H) = BlocksOf(G)
    <3>1. IsRenaming(m)
      BY <1>3, <1>f
    <3>2. SameShape(G, H)
      BY <3>1, <1>4, <1>5, RenameAllFacts
    <3> QED
      BY <3>2 DEF SameShape
  <2>2. /\ \A b \in BlocksOf(G) : NoCode(G)[b] = <<>>
        /\ <<>> \in Seq(Instr) /\ 1 \in Nat \ {0} /\ Len(<<>>) = 0 /\ DOMAIN NoCode(G) = BlocksOf(G)
    BY DEF NoCode
  <2>3. /\ pos' \in Nat \ {0}
        /\ \A b \in DOMAIN out' : out'[b] \in Seq(Instr) /\ Len(out'[b]) = 0
    BY <1>1, <1>f, <2>2
  <2>4. IsFunction(H) /\ out' = [b \in BlocksOf(H) |-> <<>>]
    BY <1>1, <1>3, <1>4, <1>5, <1>f, <2>1, RenameAllFacts DEF NoCode
  <2>5. Rewritten(F, out, pos, SpillPieces(F, spilled))'
    <3>1. PICK W : W = spilled'
      OBVIOUS
    <3>2. Rewritten(H, [b \in BlocksOf(H) |-> <<>>], 1, SpillPieces(H, W))
      BY <2>4, RewriteInit
    <3> QED
      BY <1>1, <1>6, <2>4, <3>1, <3>2
  <2> QED
    BY <2>3, <2>5 DEF SpillInv
<1> QED
  BY <1>7, <1>9, <1>10, <1>11 DEF RoundInv

LEMMA SpillInstructionRound ==
  ASSUME RoundInv, SpillInstruction
  PROVE  RoundInv' /\ (regs \cup Fresh)' \subseteq regs \cup Fresh
<1>i. PICK p, I, n1, n2 :
        /\ p = LayoutPoints(F)[pos] /\ I = At(F, p)
        /\ n1 = made + Cardinality(spilledUpTo(I.srcs, Len(I.srcs)))
        /\ n2 = n1 + Cardinality(spilledUpTo(I.dsts, Len(I.dsts)))
  OBVIOUS
<1>c. PICK c : c = Spilled(I, tempsOf(I.srcs, made), tempsOf(I.dsts, n1), spilled)
  OBVIOUS
<1>1. /\ step = "spill" /\ pos <= Len(LayoutPoints(F)) /\ n2 <= Len(Temps) /\ made' = n2
      /\ regs' = regs \cup {Temps[n] : n \in (made + 1) .. n2}
      /\ out' = [out EXCEPT ![p[1]] = @ \o c]
      /\ pos' = pos + 1
      /\ UNCHANGED <<lvVars, F, step, interference, todo, rest, stack, allocation, spilled>>
  BY <1>i, <1>c DEF SpillInstruction, lvVars, colorVars
<1>f. PICK G, W : G = F /\ W = spilled
  OBVIOUS
<1>2. /\ IsFunction(G) /\ IsPlain(G) /\ VirtRegsOf(G) \subseteq spilled /\ spilled \subseteq VirtRegs
      /\ made \in Nat /\ made \in 0 .. Len(Temps) /\ Fresh \cap spilled = {}
      /\ regs \cap spilled = {} /\ regs \subseteq Regs
      /\ Fresh \cap (regs \cup spilled \cup SlotsIn(F)) = {}
      /\ SlotsIn(F) \cap (regs \cup spilled) = {} /\ PhysRegs \subseteq regs
  BY <1>1, <1>f DEF RoundInv, CodeInv, LVTypeOK, NamesInv
<1>3. /\ pos \in Nat \ {0} /\ Rewritten(G, out, pos, SpillPieces(G, W))
      /\ \A b \in DOMAIN out : out[b] \in Seq(Instr)
      /\ \A b \in DOMAIN out : \A k \in 1 .. Len(out[b]) :
           VirtRegs \cap (use(out[b][k]) \cup def(out[b][k])) \subseteq regs
  BY <1>1, <1>f DEF RoundInv, SpillInv
<1>4. p \in Points(G) /\ pos \in 1 .. Len(LayoutPoints(G)) /\ p[1] \in BlocksOf(G)
  <2>1. LayoutPoints(G) \in Seq(Points(G)) /\ Len(LayoutPoints(G)) \in Nat
    BY <1>2, LayoutFacts
  <2>2. pos \in 1 .. Len(LayoutPoints(G))
    BY <1>1, <1>3, <1>f, <2>1
  <2>3. p \in Points(G)
    BY <2>1, <2>2, <1>i, <1>f
  <2> QED
    BY <2>2, <2>3, <1>2, PointFacts
<1>5. /\ I \in Instr /\ VirtRegs \cap (use(I) \cup def(I)) \subseteq spilled
  BY <1>2, <1>4, <1>i, <1>f, InstrAt DEF VirtRegsOf
<1>6. /\ n2 \in Nat /\ n2 >= made /\ c \in Seq(Instr) /\ Piece(I, spilled, c)
      /\ \A k \in 1 .. Len(c) :
           VirtRegs \cap (use(c[k]) \cup def(c[k])) \subseteq {Temps[n] : n \in (made + 1) .. n2}
  <2>1. /\ n1 = made + Cardinality(spilledUpTo(I.srcs, Len(I.srcs)))
        /\ n2 = n1 + Cardinality(spilledUpTo(I.dsts, Len(I.dsts)))
    BY <1>i
  <2>2. n2 <= Len(Temps) /\ spilled \subseteq VirtRegs /\ made \in Nat /\ Fresh \cap spilled = {}
    BY <1>1, <1>2
  <2> QED
    BY <2>1, <2>2, <1>5, <1>c, SpillInstructionPiece
<1>7. {Temps[n] : n \in (made + 1) .. n2} \subseteq Fresh
      /\ Fresh' \subseteq Fresh /\ Fresh' \cap {Temps[n] : n \in (made + 1) .. n2} = {}
      /\ Fresh \subseteq VirtRegs
  <2>1. /\ Len(Temps) \in Nat /\ DOMAIN Temps = 1 .. Len(Temps)
        /\ \A k, l \in DOMAIN Temps : Temps[k] = Temps[l] => k = l
        /\ \A k \in DOMAIN Temps : Temps[k] \in VirtRegs
    BY TempsAssumption
  <2> QED
    BY <1>1, <1>2, <1>6, <2>1 DEF Fresh
<1>8. CodeInv'
  BY <1>1 DEF RoundInv, CodeInv, lvVars, LVTypeOK
<1> DEFINE N == {Temps[n] : n \in (made + 1) .. n2}
<1> HIDE DEF N
<1>9. NamesInv'
  <2>1. N \subseteq Fresh /\ Fresh' \subseteq Fresh /\ Fresh' \cap N = {} /\ Fresh \subseteq VirtRegs
        /\ regs' = regs \cup N
    BY <1>1, <1>7 DEF N
  <2>2. made' \in 0 .. Len(Temps)
    BY <1>1, <1>2, <1>6
  <2>3. /\ Fresh' \cap (regs' \cup spilled \cup SlotsIn(F)) = {}
        /\ SlotsIn(F) \cap (regs' \cup spilled) = {}
        /\ regs' \cap spilled = {} /\ regs' \subseteq Regs /\ PhysRegs \subseteq regs'
    BY <2>1, <1>2 DEF Regs
  <2>4. F' = F /\ spilled' = spilled /\ step' = "spill" /\ VirtRegsOf(F) \subseteq spilled
    BY <1>1, <1>2, <1>f
  <2> QED
    BY <1>2, <2>2, <2>3, <2>4 DEF NamesInv
<1>10. ColorsInv'
  BY <1>1 DEF RoundInv, ColorsInv, HasGraph
<1>11. SpillInv'
  <2>1. PICK o : o = [out EXCEPT ![LayoutPoints(G)[pos][1]] = @ \o c]
    OBVIOUS
  <2>2. out' = o
    BY <1>1, <1>i, <1>f, <2>1
  <2>3. c \in SpillPieces(G, W)[LayoutPoints(G)[pos]]
    BY <1>4, <1>6, <1>i, <1>f DEF SpillPieces
  <2>4. Rewritten(G, o, pos + 1, SpillPieces(G, W))
    BY <1>2, <1>3, <1>4, <1>6, <2>1, <2>3, RewriteStep
  <2>5. p[1] \in DOMAIN out /\ DOMAIN o = DOMAIN out
    BY <1>3, <1>4, <2>1 DEF Rewritten
  <2>6. ASSUME NEW b \in DOMAIN o
        PROVE  /\ o[b] \in Seq(Instr)
               /\ \A k \in 1 .. Len(o[b]) :
                    VirtRegs \cap (use(o[b][k]) \cup def(o[b][k])) \subseteq regs \cup N
    <3>1. CASE b # p[1]
      BY <3>1, <1>3, <1>i, <1>f, <2>1, <2>5
    <3>2. CASE b = p[1]
      <4>1. o[b] = out[b] \o c /\ out[b] \in Seq(Instr)
        BY <3>2, <1>3, <1>i, <1>f, <2>1, <2>5
      <4>2. /\ o[b] \in Seq(Instr) /\ Len(o[b]) = Len(out[b]) + Len(c)
            /\ Len(out[b]) \in Nat /\ Len(c) \in Nat
        BY <4>1, <1>6
      <4>3. ASSUME NEW k \in 1 .. Len(o[b])
            PROVE  VirtRegs \cap (use(o[b][k]) \cup def(o[b][k])) \subseteq regs \cup N
        <5>1. CASE k <= Len(out[b])
          <6>1. k \in 1 .. Len(out[b]) /\ o[b][k] = out[b][k]
            BY <5>1, <4>1, <4>2, <1>6
          <6> QED
            BY <6>1, <1>3, <2>5
        <5>2. CASE k > Len(out[b])
          <6>1. k - Len(out[b]) \in 1 .. Len(c) /\ o[b][k] = c[k - Len(out[b])]
            BY <5>2, <4>1, <4>2, <1>6
          <6> QED
            BY <6>1, <1>6 DEF N
        <5> QED
          BY <5>1, <5>2, <4>2
      <4> QED
        BY <4>2, <4>3
    <3> QED
      BY <3>1, <3>2
  <2>7. regs' = regs \cup N /\ F' = G /\ spilled' = W /\ pos' = pos + 1 /\ pos + 1 \in Nat \ {0}
    BY <1>1, <1>3, <1>f DEF N
  <2> QED
    BY <2>2, <2>4, <2>6, <2>7 DEF SpillInv
<1>12. (regs \cup Fresh)' \subseteq regs \cup Fresh
  BY <1>1, <1>7
<1> QED
  BY <1>8, <1>9, <1>10, <1>11, <1>12 DEF RoundInv

\* The code of the next round, with the liveness analysis restarted on it.
LEMMA EndSpillRound ==
  ASSUME RoundInv, EndSpill
  PROVE  RoundInv'
<1>g. PICK G, W, H : G = F /\ W = spilled /\ H = [F EXCEPT !.code = out]
  OBVIOUS
<1>1. /\ step = "spill" /\ pos > Len(LayoutPoints(G)) /\ F' = H
      /\ liveIn' = [b \in BlocksOf(H) |-> {}] /\ liveOut' = [b \in BlocksOf(H) |-> {}]
      /\ liveIn2' = [q \in Points(H) |-> {}] /\ liveOut2' = [q \in Points(H) |-> {}]
      /\ phase' = "blocks" /\ cursor' = 1 /\ index' = 0 /\ changed' = FALSE /\ live' = {}
      /\ spilled' = {} /\ step' = "analyse"
      /\ UNCHANGED <<regs, interference, todo, rest, stack, allocation, pos, out, made>>
  BY <1>g DEF EndSpill, graphVars, spillVars
<1>2. /\ IsFunction(G) /\ IsPlain(G) /\ W \in SUBSET VirtRegs
      /\ pos \in Nat /\ Rewritten(G, out, pos, SpillPieces(G, W))
  BY <1>1, <1>g DEF RoundInv, CodeInv, LVTypeOK, NamesInv, SpillInv
<1>3. /\ IsFunction(H) /\ IsPlain(H) /\ SlotsIn(H) \subseteq SlotsIn(G) \cup W
      /\ H.code = out
  BY <1>1, <1>2, <1>g, SpilledFunction
<1>4. LVInv'
  <2>1. Start(H)'
    BY <1>1 DEF Start
  <2> QED
    BY <2>1, <1>3, LVRestartInv
<1>5. CodeInv'
  BY <1>1, <1>3, <1>4 DEF CodeInv, LVInv
<1>6. VirtRegsOf(H) \subseteq regs
  <2> SUFFICES ASSUME NEW x \in VirtRegsOf(H) PROVE x \in regs
    OBVIOUS
  <2>1. PICK q \in Points(H) : x \in use(At(H, q)) \cup def(At(H, q))
    BY DEF VirtRegsOf
  <2>2. x \in VirtRegs
    BY DEF VirtRegsOf
  <2>3. q[1] \in BlocksOf(H) /\ q[2] \in 1 .. Len(out[q[1]]) /\ At(H, q) = out[q[1]][q[2]]
    BY <1>3, PointFacts DEF At
  <2>4. q[1] \in DOMAIN out
    BY <2>3, <1>3 DEF BlocksOf
  <2> QED
    BY <2>1, <2>2, <2>3, <2>4, <1>1 DEF RoundInv, SpillInv
<1>7. NamesInv'
  BY <1>1, <1>3, <1>6, <1>g DEF RoundInv, NamesInv, Fresh
<1>8. ColorsInv'
  BY <1>1 DEF RoundInv, ColorsInv, HasGraph
<1>9. SpillInv'
  BY <1>1 DEF RoundInv, SpillInv
<1> QED
  BY <1>5, <1>7, <1>8, <1>9 DEF RoundInv

LEMMA RoundStepInv == GCInv /\ RoundInv /\ [GCNext]_vars => RoundInv'
<1> SUFFICES ASSUME GCInv, RoundInv, [GCNext]_vars PROVE RoundInv'
  OBVIOUS
<1>1. CASE UNCHANGED vars
  <2>1. /\ F' = F /\ UNCHANGED lvVars
        /\ UNCHANGED <<step, regs, interference, todo, rest, stack, allocation, spilled, pos, out, made>>
    BY <1>1 DEF vars, lvVars, gcVars, graphVars, colorVars, spillVars
  <2>2. CodeInv'
    <3>1. LVInv => LVInv'
      BY <2>1, LVStepInv
    <3> QED
      BY <2>1, <3>1 DEF RoundInv, CodeInv, lvVars, LVTypeOK
  <2>3. NamesInv' /\ ColorsInv'
    BY <2>1 DEF RoundInv, NamesInv, ColorsInv, Fresh, HasGraph, GraphCovers
  <2>4. SpillInv'
    BY <2>1 DEF RoundInv, SpillInv
  <2> QED
    BY <2>2, <2>3, <2>4 DEF RoundInv
<1> QED
  BY <1>1, AnalyseRound, BuildRound, ReadDestroyedRound, CoalesceRound, EndCoalescingRound,
     SimplifyRound, SelectRound, EndSelectRound, SpillInstructionRound, EndSpillRound DEF GCNext

LEMMA GCRounds == GCSpec => [](GCInv /\ RoundInv)
BY GCInitInv, GCStepInv, RoundInitInv, RoundStepInv, PTL DEF GCSpec

-----------------------------------------------------------------------------
(* From the invariant of the rounds to the properties.                     *)

LEMMA ReadSomewhere ==
  ASSUME NEW G, IsFunction(G), NEW r, ReadWithin(G, r) # {}
  PROVE  \E p \in Points(G) : r \in use(At(G, p))
<1> SUFFICES ASSUME \A p \in Points(G) : r \notin use(At(G, p)) PROVE FALSE
  OBVIOUS
<1>1. ReadsOf(G, r) \subseteq {}
  BY DEF ReadsOf
<1>2. PointsBefore(G, {}) = {}
  BY DEF PointsBefore
<1>3. ReadWithin(G, r) \subseteq {}
  BY <1>1, <1>2, ReadLeast
<1> QED
  BY <1>3

\* A clash is an overlap of two registers, at least one of them of the code.
LEMMA ClashOverlap ==
  ASSUME NEW c \in Clashes, IsFunction(F), IsPlain(F)
  PROVE  /\ c[1] \in VirtRegs /\ c[1] # c[2] /\ c[1] \in VirtRegsOf(F)
         /\ Overlap(F, c[1], c[2]) \/ Overlap(F, c[2], c[1])
<1>1. c[1] \in VirtRegs /\ c[1] # c[2]
  BY DEF Clashes
<1>2. PICK r \in Regs : \E w \in WrittenWhileNeeded(r) : c = <<r, w>> \/ c = <<w, r>>
  <2>1. PICK r \in Regs, w \in Regs \cup UNION {WrittenWhileNeeded(x) : x \in Regs} :
          w \in WrittenWhileNeeded(r) /\ (c = <<r, w>> \/ c = <<w, r>>)
    BY DEF Clashes
  <2> QED
    BY <2>1
<1>3. PICK w \in WrittenWhileNeeded(r) : c = <<r, w>> \/ c = <<w, r>>
  BY <1>2
<1>4. PICK q : /\ w \in def(At(F, q))
               /\ q \in PointsBefore(F, ReadWithin(F, r)) \/ (q \in Points(F) /\ r \in def(At(F, q)))
  BY DEF WrittenWhileNeeded
<1>5. q \in Points(F)
  BY <1>4 DEF PointsBefore
<1>6. At(F, q) \in Instr /\ Plain(At(F, q))
  BY <1>5, InstrAt DEF IsPlain
<1>7. r # w /\ (r \in VirtRegs \/ w \in VirtRegs) /\ (c[1] = r \/ c[1] = w)
  BY <1>1, <1>3
<1>8. r \notin def(At(F, q))
  <2> SUFFICES ASSUME r \in def(At(F, q)) PROVE FALSE
    OBVIOUS
  <2> DEFINE I == At(F, q)
  <2>1. /\ I.dsts \in Seq(Regs) /\ I.implicitDsts \subseteq PhysRegs
        /\ Len(I.dsts) <= 1 /\ (I.implicitDsts # {} => I.dsts = <<>>)
        /\ r \in Range(I.dsts) \cup I.implicitDsts /\ w \in Range(I.dsts) \cup I.implicitDsts
    BY <1>4, <1>6 DEF Plain, Instr, def
  <2> HIDE DEF I
  <2>2. CASE I.implicitDsts # {}
    <3>1. Range(I.dsts) = {}
      BY <2>1, <2>2 DEF Range
    <3> QED
      BY <3>1, <2>1, <1>7, RegsAssumption
  <2>3. CASE I.implicitDsts = {}
    <3>1. \A i, j \in DOMAIN I.dsts : i = j
      BY <2>1
    <3> QED
      BY <3>1, <2>1, <2>3, <1>7 DEF Range
  <2> QED
    BY <2>2, <2>3
<1>9. q \in PointsBefore(F, ReadWithin(F, r)) /\ Overlap(F, r, w)
  BY <1>4, <1>8 DEF Overlap
<1>10. c[1] \in VirtRegsOf(F)
  <2>1. CASE c[1] = w
    BY <2>1, <1>1, <1>4, <1>5 DEF VirtRegsOf
  <2>2. CASE c[1] = r
    <3>1. ReadWithin(F, r) # {}
      BY <1>9 DEF PointsBefore
    <3>2. \E p \in Points(F) : r \in use(At(F, p))
      BY <3>1, ReadSomewhere
    <3> QED
      BY <2>2, <3>2, <1>1 DEF VirtRegsOf
  <2> QED
    BY <1>7, <2>1, <2>2
<1>11. Overlap(F, c[1], c[2]) \/ Overlap(F, c[2], c[1])
  BY <1>3, <1>9
<1> QED
  BY <1>1, <1>10, <1>11

LEMMA RoundTypeOK ==
  ASSUME GCInv, RoundInv
  PROVE  GCTypeOK
<1>1. /\ HasGraph => /\ \A u \in DOMAIN interference : interference[u] \subseteq regs
                     /\ \A u \in DOMAIN coalescence : coalescence[u] \subseteq regs
  BY DEF GCInv, CandidatesApart, AreApart, IsGraph
<1>2. LVTypeOK /\ regs \subseteq Regs /\ spilled \subseteq VirtRegs /\ made \in 0 .. Len(Temps)
  BY DEF RoundInv, CodeInv, NamesInv
<1>3. /\ step \in {"analyse", "coalesce", "simplify", "spill", "done", "undefined"}
      /\ todo \subseteq VirtRegs /\ rest \subseteq Regs /\ stack \in Seq(VirtRegs)
      /\ DOMAIN allocation \subseteq VirtRegs
      /\ \A v \in DOMAIN allocation : allocation[v] \in PhysRegs
  BY DEF RoundInv, ColorsInv
<1>4. pos \in Nat \ {0} /\ \A b \in DOMAIN out : out[b] \in Seq(Instr)
  BY DEF RoundInv, SpillInv
<1> QED
  BY <1>1, <1>2, <1>3, <1>4 DEF GCTypeOK

LEMMA RoundCovers ==
  ASSUME GCInv, RoundInv
  PROVE  GraphCoversClashes
<1> SUFFICES ASSUME step = "coalesce", NEW c \in Clashes, c[2] \in regs
             PROVE  c[2] \in interference[c[1]]
  BY DEF GraphCoversClashes
<1>1. IsFunction(F) /\ IsPlain(F) /\ VirtRegsOf(F) \subseteq regs
  BY DEF RoundInv, CodeInv, NamesInv, LVTypeOK
<1>2. /\ c[1] # c[2] /\ c[1] \in regs
      /\ Overlap(F, c[1], c[2]) \/ Overlap(F, c[2], c[1])
  BY <1>1, ClashOverlap
<1>3. c[2] \in interference[c[1]] \/ c[1] \in interference[c[2]]
  BY <1>2 DEF RoundInv, ColorsInv, HasGraph, GraphCovers
<1>4. /\ regs \subseteq DOMAIN interference
      /\ \A u \in DOMAIN interference : \A v \in interference[u] : u \in interference[v]
  BY DEF GCInv, CandidatesApart, HasGraph, AreApart, IsGraph
<1> QED
  BY <1>2, <1>3, <1>4

-----------------------------------------------------------------------------
(* The execution. What has become of a function H is related to the        *)
(* function G it comes from by the points of their run in lockstep.        *)

\* The next instruction of G is at p, that of H at q. The value of the register x of G
\* is in the registers regs[x] of H and in the slots slots[x] of S.
LockPoints(G, H, S) ==
  [p : Points(G), q : Points(H), regs : [Regs -> SUBSET Regs], slots : [Regs -> SUBSET S]]

\* Both functions read the same values.
ReadsAlike(I, J, a) ==
  /\ J.coalescent = I.coalescent /\ J.blockOps = I.blockOps
  /\ J.implicitSrcs = I.implicitSrcs /\ J.implicitDsts = I.implicitDsts
  /\ Len(J.srcs) = Len(I.srcs) /\ DOMAIN J.srcs = DOMAIN I.srcs /\ DOMAIN J.dsts = DOMAIN I.dsts
  /\ \A k \in DOMAIN I.srcs : J.srcs[k] \in a.regs[I.srcs[k]]
  /\ \A r \in I.implicitSrcs : r \in a.regs[r]

\* What e says follows from what a says when a load J, a store J or I and J run.
AfterLoad(J, a, e) ==
  /\ e.p = a.p /\ e.q = <<a.q[1], a.q[2] + 1>>
  /\ \A x \in Regs :
       /\ \A y \in e.regs[x] : IF y = J.dsts[1] THEN J.slot \in a.slots[x] ELSE y \in a.regs[x]
       /\ \A v \in e.slots[x] : v \in a.slots[x]

AfterStore(J, a, e) ==
  /\ e.p = a.p /\ e.q = <<a.q[1], a.q[2] + 1>>
  /\ \A x \in Regs :
       /\ \A y \in e.regs[x] : y \in a.regs[x]
       /\ \A v \in e.slots[x] : IF v = J.slot THEN J.srcs[1] \in a.regs[x] ELSE v \in a.slots[x]

AfterBoth(I, J, a, e) ==
  /\ e.q = IF I.blockOps = {} THEN <<a.q[1], a.q[2] + 1>> ELSE <<e.p[1], 1>>
  /\ \A x \in Regs :
       /\ \A y \in e.regs[x] :
            \/ x \notin def(I) /\ y \notin def(J) /\ y \in a.regs[x]
            \/ \E k \in DOMAIN I.dsts : x = I.dsts[k] /\ y = J.dsts[k]
            \/ x \in I.implicitDsts /\ y = x
       /\ \A v \in e.slots[x] : x \notin def(I) /\ v \in a.slots[x]

\* From a the run goes on to points of R.
GoesOn(G, H, R, a) ==
  LET I == At(G, a.p)
      J == At(H, a.q)
  IN  /\ J.mem = "load" => \E e \in R : AfterLoad(J, a, e)
      /\ J.mem = "store" => \E e \in R : AfterStore(J, a, e)
      /\ J.mem = "none" =>
           /\ ReadsAlike(I, J, a)
           /\ \A p \in NextPoints(G, a.p) : \E e \in R : e.p = p /\ AfterBoth(I, J, a, e)

\* At first a physical register holds what it held; a virtual one holds poison, and
\* anything may.
Starts(G, a) ==
  /\ a.p = <<Entry(G), 1>> /\ a.q[2] = 1
  /\ \A x \in PhysRegs : a.slots[x] = {} /\ \A y \in a.regs[x] : y = x

Simulates(G, H, R, S) ==
  /\ R \subseteq LockPoints(G, H, S) /\ \A a \in R : a.q[1] = a.p[1]
  /\ \E a \in R : Starts(G, a)
  /\ \A a \in R : GoesOn(G, H, R, a)

LEMMA NextPointsFacts ==
  ASSUME NEW G, IsFunction(G), NEW p \in Points(G), NEW n \in NextPoints(G, p)
  PROVE  /\ n \in Points(G)
         /\ IF p[2] < Len(G.code[p[1]]) THEN n = <<p[1], p[2] + 1>>
            ELSE n = <<n[1], 1>> /\ n[1] \in At(G, p).blockOps
<1>1. /\ p[1] \in BlocksOf(G) /\ Len(G.code[p[1]]) \in Nat /\ p[2] \in 1 .. Len(G.code[p[1]])
  BY PointFacts, FunctionFacts
<1>2. CASE p[2] < Len(G.code[p[1]])
  <2>1. n = <<p[1], p[2] + 1>> /\ p[2] + 1 \in 1 .. Len(G.code[p[1]])
    BY <1>1, <1>2 DEF NextPoints
  <2> QED
    BY <2>1, <1>1, <1>2, PointFacts
<1>3. CASE ~(p[2] < Len(G.code[p[1]]))
  <2>1. PICK b \in successors(G, p[1]) : n = <<b, 1>>
    BY <1>3 DEF NextPoints
  <2>2. p[2] = Len(G.code[p[1]])
    BY <1>1, <1>3
  <2>3. At(G, p).blockOps = successors(G, p[1])
    BY <2>2 DEF At, successors
  <2>4. b \in BlocksOf(G) /\ 1 \in 1 .. Len(G.code[b])
    BY <2>1, <1>1, FunctionFacts
  <2>5. <<b, 1>> \in Points(G)
    BY <2>4, PointFacts
  <2> QED
    BY <2>1, <2>3, <2>5, <1>3
<1> QED
  BY <1>2, <1>3

\* A function runs in lockstep with itself, what is live being in its own place.
LEMMA SimulatesItself ==
  ASSUME NEW G, IsFunction(G), IsCode(G)
  PROVE  \E R : Simulates(G, G, R, {})
<1> DEFINE held(p) == [x \in Regs |-> {y \in Regs : y = x /\ p \in ReadWithin(G, x)}]
           lock(p) == [p |-> p, q |-> p, regs |-> held(p), slots |-> [x \in Regs |-> {}]]
           R == {lock(p) : p \in Points(G)}
<1>1. ASSUME NEW p \in Points(G)
      PROVE  /\ lock(p) \in LockPoints(G, G, {}) /\ lock(p) \in R
             /\ lock(p).p = p /\ lock(p).q = p
             /\ \A x \in Regs : /\ lock(p).slots[x] = {}
                                /\ \A y : y \in lock(p).regs[x] <=> y = x /\ p \in ReadWithin(G, x)
  BY DEF LockPoints
<1>2. \A a \in R : \E p \in Points(G) : a = lock(p)
  OBVIOUS
<1> HIDE DEF R, lock
<1>3. \E a \in R : Starts(G, a)
  <2>1. <<Entry(G), 1>> \in Points(G)
    <3>1. Entry(G) \in BlocksOf(G) /\ 1 \in 1 .. Len(G.code[Entry(G)])
      BY FunctionFacts
    <3> QED
      BY <3>1, PointFacts
  <2>2. Starts(G, lock(<<Entry(G), 1>>))
    BY <1>1, <2>1 DEF Starts, Regs
  <2> QED
    BY <1>1, <2>1, <2>2
<1>4. ASSUME NEW a \in R PROVE GoesOn(G, G, R, a)
  <2>1. PICK p \in Points(G) : a = lock(p)
    BY <1>2
  <2> DEFINE I == At(G, p)
  <2>2. /\ I \in Instr /\ I.mem = "none" /\ use(I) \subseteq Regs
        /\ (I.blockOps # {} => p[2] = Len(G.code[p[1]]))
    BY InstrAt DEF IsCode
  <2>3. ASSUME NEW x \in use(I) PROVE x \in Regs /\ x \in a.regs[x]
    <3>1. p \in ReadWithin(G, x)
      BY ReadClosed DEF ReadsOf
    <3> QED
      BY <3>1, <2>1, <2>2, <1>1
  <2>4. ReadsAlike(I, I, a)
    BY <2>2, <2>3 DEF ReadsAlike, use, Range
  <2>5. ASSUME NEW n \in NextPoints(G, p) PROVE lock(n).p = n /\ lock(n) \in R /\ AfterBoth(I, I, a, lock(n))
    <3>1. n \in Points(G) /\ p \in PointsBefore(G, {n})
      BY NextPointsFacts DEF PointsBefore
    <3>2. ASSUME NEW x \in Regs, NEW y \in lock(n).regs[x]
          PROVE  \/ x \notin def(I) /\ y \notin def(I) /\ y \in a.regs[x]
                 \/ \E k \in DOMAIN I.dsts : x = I.dsts[k] /\ y = I.dsts[k]
                 \/ x \in I.implicitDsts /\ y = x
      <4>1. y = x /\ n \in ReadWithin(G, x)
        BY <3>1, <3>2, <1>1
      <4>2. x \notin def(I) => p \in ReadWithin(G, x)
        BY <4>1, <3>1, ReadClosed DEF PointsBefore
      <4> QED
        BY <4>1, <4>2, <2>1, <1>1 DEF def, Range
    <3>3. n = IF I.blockOps = {} THEN <<p[1], p[2] + 1>> ELSE <<n[1], 1>>
      <4>1. p[2] \in 1 .. Len(G.code[p[1]]) /\ Len(G.code[p[1]]) \in Nat
        BY PointFacts, FunctionFacts
      <4>2. p[2] = Len(G.code[p[1]]) => I.blockOps = successors(G, p[1])
        BY DEF successors, At
      <4> QED
        BY <4>1, <4>2, <2>2 DEF NextPoints
    <3> QED
      BY <3>1, <3>2, <3>3, <2>1, <1>1 DEF AfterBoth
  <2> QED
    BY <2>1, <2>2, <2>4, <2>5, <1>1 DEF GoesOn
<1>5. R \subseteq LockPoints(G, G, {}) /\ \A a \in R : a.q[1] = a.p[1]
  BY <1>1, <1>2
<1> QED
  BY <1>3, <1>4, <1>5 DEF Simulates

\* Where H goes next, by the instruction at q.
LEMMA NextOfPlain ==
  ASSUME NEW H, IsFunction(H), IsPlain(H), NEW q \in Points(H), NEW n \in Points(H),
         \/ At(H, q).blockOps = {} /\ n = <<q[1], q[2] + 1>>
         \/ n = <<n[1], 1>> /\ n[1] \in At(H, q).blockOps
  PROVE  n \in NextPoints(H, q)
<1>1. /\ q[1] \in BlocksOf(H) /\ Len(H.code[q[1]]) \in Nat /\ q[2] \in 1 .. Len(H.code[q[1]])
      /\ n[2] \in 1 .. Len(H.code[n[1]])
  BY PointFacts, FunctionFacts
<1>2. CASE At(H, q).blockOps = {} /\ n = <<q[1], q[2] + 1>>
  <2>1. q[2] < Len(H.code[q[1]])
    BY <1>1, <1>2
  <2> QED
    BY <2>1, <1>2 DEF NextPoints
<1>3. CASE n = <<n[1], 1>> /\ n[1] \in At(H, q).blockOps
  <2>1. q[2] = Len(H.code[q[1]])
    BY <1>3 DEF IsPlain
  <2>2. At(H, q).blockOps = successors(H, q[1])
    BY <2>1 DEF At, successors
  <2> QED
    BY <2>1, <2>2, <1>1, <1>3 DEF NextPoints
<1> QED
  BY <1>2, <1>3

\* The renaming m keeps apart what overlaps.
KeepsOverlapApart(H, m) ==
  \A x, y \in PhysRegs \cup VirtRegsOf(H) :
    x # y /\ Overlap(H, x, y) => Renamed(m, x) # Renamed(m, y)

\* What is live after q was live before or is written, and nothing else that is written
\* there gets its name.
LEMMA LiveThrough ==
  ASSUME NEW H, IsFunction(H), NEW m, IsRenaming(m), KeepsOverlapApart(H, m),
         NEW q \in Points(H), NEW n \in NextPoints(H, q), NEW y, n \in ReadWithin(H, y)
  PROVE  /\ y \notin def(At(H, q)) => q \in ReadWithin(H, y)
         /\ \A d \in def(At(H, q)) : d # y => Renamed(m, d) # Renamed(m, y)
<1>1. q \in PointsBefore(H, ReadWithin(H, y))
  BY DEF PointsBefore
<1>2. y \notin def(At(H, q)) => q \in ReadWithin(H, y)
  BY <1>1, ReadClosed
<1>3. ASSUME NEW d \in def(At(H, q)), d # y PROVE Renamed(m, d) # Renamed(m, y)
  <2>1. Overlap(H, y, d)
    BY <1>1 DEF Overlap
  <2>2. PICK p \in Points(H) : y \in use(At(H, p))
    BY ReadSomewhere
  <2>3. y \in Regs /\ d \in Regs
    BY <2>2, InstrAt
  <2>4. y \in PhysRegs \cup VirtRegsOf(H) /\ d \in PhysRegs \cup VirtRegsOf(H)
    BY <2>2, <2>3 DEF Regs, VirtRegsOf
  <2> QED
    BY <2>1, <2>4, <1>3 DEF KeepsOverlapApart
<1> QED
  BY <1>2, <1>3

LEMMA SimulatesRenamed ==
  ASSUME NEW G, IsFunction(G), IsCode(G), NEW H, IsFunction(H), IsPlain(H),
         NEW R, NEW S, Simulates(G, H, R, S),
         NEW m, IsRenaming(m), KeepsOverlapApart(H, m),
         NEW H2, H2 = [H EXCEPT !.code = RenameAll(H, m)]
  PROVE  \E R2 : Simulates(G, H2, R2, S)
<1> DEFINE held(a) == [x \in Regs |->
                         {y \in Regs : \E z \in a.regs[x] : y = Renamed(m, z) /\ a.q \in ReadWithin(H, z)}]
           moved(a) == [p |-> a.p, q |-> a.q, regs |-> held(a), slots |-> a.slots]
           R2 == {moved(a) : a \in R}
<1>0. /\ R \subseteq LockPoints(G, H, S) /\ \A a \in R : a.q[1] = a.p[1]
      /\ \E a \in R : Starts(G, a)
      /\ \A a \in R : GoesOn(G, H, R, a)
  BY DEF Simulates
<1>1. /\ IsFunction(H2) /\ Points(H2) = Points(H)
      /\ \A q \in Points(H) : At(H2, q) = Rename(At(H, q), m, m)
  BY RenameAllFacts
<1>2. \A y \in Regs : Renamed(m, y) \in Regs
  BY DEF Renamed, IsRenaming
<1>3. ASSUME NEW a \in R
      PROVE  /\ moved(a) \in LockPoints(G, H2, S) /\ moved(a) \in R2
             /\ moved(a).p = a.p /\ moved(a).q = a.q
             /\ a.p \in Points(G) /\ a.q \in Points(H)
             /\ \A x \in Regs : /\ moved(a).slots[x] = a.slots[x]
                                /\ \A y : y \in moved(a).regs[x] <=>
                                     \E z \in a.regs[x] : y = Renamed(m, z) /\ a.q \in ReadWithin(H, z)
  <2>1. a \in LockPoints(G, H, S)
    BY <1>0
  <2>2. \A x \in Regs : \A z \in a.regs[x] : z \in Regs
    BY <2>1 DEF LockPoints
  <2>3. moved(a) \in LockPoints(G, H2, S)
    BY <2>1, <1>1 DEF LockPoints
  <2>4. a.p \in Points(G) /\ a.q \in Points(H)
    BY <2>1 DEF LockPoints
  <2> QED
    BY <2>2, <2>3, <2>4, <1>2
<1>4. \A b \in R2 : \E a \in R : b = moved(a)
  OBVIOUS
<1> HIDE DEF R2, moved
<1>5. \E b \in R2 : Starts(G, b)
  <2>1. PICK a \in R : Starts(G, a)
    BY <1>0
  <2>2. \A x \in PhysRegs : Renamed(m, x) = x
    BY RegsAssumption DEF Renamed, IsRenaming
  <2>3. Starts(G, moved(a))
    BY <2>1, <2>2, <1>3 DEF Starts, Regs
  <2> QED
    BY <2>3, <1>3
<1>6. ASSUME NEW b \in R2 PROVE GoesOn(G, H2, R2, b)
  <2>1. PICK a \in R : b = moved(a)
    BY <1>4
  <2>2. GoesOn(G, H, R, a)
    BY <1>0
  <2> DEFINE I == At(G, a.p)
             J == At(H, a.q)
             K == At(H2, a.q)
  <2>3. J \in Instr /\ Plain(J) /\ I \in Instr
    BY <1>3, InstrAt DEF IsPlain
  <2>4. /\ K.srcs = RenameSeq(J.srcs, m) /\ K.dsts = RenameSeq(J.dsts, m)
        /\ DOMAIN K.srcs = DOMAIN J.srcs /\ DOMAIN K.dsts = DOMAIN J.dsts
        /\ K.implicitSrcs = J.implicitSrcs /\ K.implicitDsts = J.implicitDsts
        /\ K.coalescent = J.coalescent /\ K.blockOps = J.blockOps /\ K.mem = J.mem
        /\ K.slot = J.slot /\ K \in Instr
    <3>1. K = Rename(J, m, m)
      BY <1>1, <1>3
    <3>2. K.slot = J.slot
      BY <3>1, <2>3 DEF Rename, Instr
    <3> QED
      BY <3>1, <3>2, <2>3, RenameFacts DEF IsRenaming
  <2>5. /\ \A k \in DOMAIN J.srcs : K.srcs[k] = Renamed(m, J.srcs[k])
        /\ \A k \in DOMAIN J.dsts : K.dsts[k] = Renamed(m, J.dsts[k])
    BY <2>4 DEF RenameSeq, Renamed
  <2>6. /\ \A y : y \in def(K) <=> \E d \in def(J) : y = Renamed(m, d)
        /\ K = Rename(J, m, m)
    BY <1>1, <1>3, <2>3, RenameImage
  \* What is live stays held.
  <2>7. ASSUME NEW x \in Regs, NEW z \in a.regs[x], z \in use(J)
        PROVE  Renamed(m, z) \in b.regs[x]
    <3>1. a.q \in ReadWithin(H, z)
      BY <2>7, <1>3, ReadClosed DEF ReadsOf
    <3> QED
      BY <3>1, <2>1, <1>3
  <2>8. ASSUME NEW e \in R, e.q \in NextPoints(H, a.q), NEW x \in Regs, NEW y \in moved(e).regs[x]
        PROVE  \E z \in e.regs[x] : /\ y = Renamed(m, z)
                                    /\ z \notin def(J) /\ z \in a.regs[x] => y \in b.regs[x]
                                    /\ \A d \in def(J) : d # z => Renamed(m, d) # y
    <3>1. PICK z \in e.regs[x] : y = Renamed(m, z) /\ e.q \in ReadWithin(H, z)
      BY <2>8, <1>3
    <3>2. /\ z \notin def(J) => a.q \in ReadWithin(H, z)
          /\ \A d \in def(J) : d # z => Renamed(m, d) # Renamed(m, z)
      BY <2>8, <3>1, <1>3, LiveThrough
    <3> QED
      BY <3>1, <3>2, <2>1, <1>3
  <2>9. ASSUME NEW e \in R PROVE e.q \in Points(H) /\ moved(e) \in R2
                                 /\ moved(e).p = e.p /\ moved(e).q = e.q
                                 /\ \A x \in Regs : moved(e).slots[x] = e.slots[x]
    BY <1>3
  <2>10. b.p = a.p /\ b.q = a.q /\ \A x \in Regs : b.slots[x] = a.slots[x]
    BY <2>1, <1>3
  <2> HIDE DEF I, J, K
  <2>11. CASE J.mem = "load"
    <3>1. PICK e \in R : AfterLoad(J, a, e)
      BY <2>2, <2>11 DEF GoesOn, J
    <3>2. 1 \in DOMAIN J.dsts /\ def(J) = {J.dsts[1]} /\ J.blockOps = {}
      <4>1. J.dsts \in Seq(Regs) /\ Len(J.dsts) = 1 /\ J.implicitDsts = {} /\ J.blockOps = {}
        BY <2>3, <2>11 DEF Plain, Instr
      <4>2. DOMAIN J.dsts = {1}
        BY <4>1
      <4> QED
        BY <4>1, <4>2 DEF def, Range
    <3>3. e.q \in NextPoints(H, a.q)
      BY <3>1, <3>2, <2>9, <1>3, NextOfPlain DEF AfterLoad, J
    <3>4. K.dsts[1] = Renamed(m, J.dsts[1])
      BY <3>2, <2>5
    <3>5. AfterLoad(K, b, moved(e))
      <4>1. ASSUME NEW x \in Regs, NEW y \in moved(e).regs[x]
            PROVE  IF y = K.dsts[1] THEN K.slot \in b.slots[x] ELSE y \in b.regs[x]
        <5>1. PICK z \in e.regs[x] :
                /\ y = Renamed(m, z)
                /\ z \notin def(J) /\ z \in a.regs[x] => y \in b.regs[x]
                /\ \A d \in def(J) : d # z => Renamed(m, d) # y
          BY <4>1, <3>3, <2>8
        <5> QED
          BY <5>1, <3>1, <3>2, <3>4, <2>4, <2>10 DEF AfterLoad
      <4> QED
        BY <4>1, <3>1, <2>9, <2>10 DEF AfterLoad
    <3> QED
      BY <3>5, <2>4, <2>9, <2>10, <2>11 DEF GoesOn, K
  <2>12. CASE J.mem = "store"
    <3>1. PICK e \in R : AfterStore(J, a, e)
      BY <2>2, <2>12 DEF GoesOn, J
    <3>2. 1 \in DOMAIN J.srcs /\ J.srcs[1] \in use(J) /\ def(J) = {} /\ J.blockOps = {}
      <4>1. J.srcs \in Seq(Regs) /\ Len(J.srcs) = 1 /\ J.implicitDsts = {} /\ J.dsts = <<>> /\ J.blockOps = {}
        BY <2>3, <2>12 DEF Plain, Instr
      <4>2. DOMAIN J.srcs = {1}
        BY <4>1
      <4>3. Range(J.dsts) = {}
        BY <4>1 DEF Range
      <4> QED
        BY <4>1, <4>2, <4>3 DEF def, use, Range
    <3>3. e.q \in NextPoints(H, a.q)
      BY <3>1, <3>2, <2>9, <1>3, NextOfPlain DEF AfterStore, J
    <3>4. K.srcs[1] = Renamed(m, J.srcs[1])
      BY <3>2, <2>5
    <3>5. AfterStore(K, b, moved(e))
      <4>1. ASSUME NEW x \in Regs, NEW y \in moved(e).regs[x] PROVE y \in b.regs[x]
        <5>1. PICK z \in e.regs[x] : y = Renamed(m, z) /\ (z \notin def(J) /\ z \in a.regs[x] => y \in b.regs[x])
          BY <4>1, <3>3, <2>8
        <5> QED
          BY <5>1, <3>1, <3>2 DEF AfterStore
      <4>2. ASSUME NEW x \in Regs, NEW v \in moved(e).slots[x]
            PROVE  IF v = K.slot THEN K.srcs[1] \in b.regs[x] ELSE v \in b.slots[x]
        <5>1. v \in e.slots[x]
          BY <4>2, <2>9
        <5> QED
          BY <5>1, <3>1, <3>2, <3>4, <2>4, <2>7, <2>10 DEF AfterStore
      <4> QED
        BY <4>1, <4>2, <3>1, <2>9, <2>10 DEF AfterStore
    <3> QED
      BY <3>5, <2>4, <2>9, <2>10, <2>12 DEF GoesOn, K
  <2>13. CASE J.mem = "none"
    <3>1. /\ ReadsAlike(I, J, a)
          /\ \A p \in NextPoints(G, a.p) : \E e \in R : e.p = p /\ AfterBoth(I, J, a, e)
      BY <2>2, <2>13 DEF GoesOn, I, J
    <3>2. I.srcs \in Seq(Regs) /\ I.implicitSrcs \subseteq PhysRegs /\ I.dsts \in Seq(Regs)
          /\ I.implicitDsts \subseteq PhysRegs /\ PhysRegs \subseteq Regs
      BY <2>3 DEF Instr, Regs
    <3>3. ReadsAlike(I, K, b)
      <4>1. ASSUME NEW k \in DOMAIN I.srcs PROVE K.srcs[k] \in b.regs[I.srcs[k]]
        <5>1. k \in DOMAIN J.srcs /\ J.srcs[k] \in a.regs[I.srcs[k]] /\ J.srcs[k] \in use(J) /\ I.srcs[k] \in Regs
          BY <4>1, <3>1, <3>2 DEF ReadsAlike, use, Range
        <5> QED
          BY <5>1, <2>5, <2>7
      <4>2. ASSUME NEW r \in I.implicitSrcs PROVE r \in b.regs[r]
        <5>1. r \in a.regs[r] /\ r \in use(J) /\ r \in PhysRegs /\ r \in Regs
          BY <4>2, <3>1, <3>2 DEF ReadsAlike, use
        <5>2. Renamed(m, r) = r
          BY <5>1, RegsAssumption DEF Renamed, IsRenaming
        <5> QED
          BY <5>1, <5>2, <2>7
      <4>3. Len(K.srcs) = Len(J.srcs)
        <5>1. K.srcs \in Seq(Regs) /\ J.srcs \in Seq(Regs)
          BY <2>3, <2>4 DEF Instr
        <5>2. /\ Len(K.srcs) \in Nat /\ DOMAIN K.srcs = 1 .. Len(K.srcs)
              /\ Len(J.srcs) \in Nat /\ DOMAIN J.srcs = 1 .. Len(J.srcs)
          BY <5>1
        <5>3. \A i, j \in Nat : 1 .. i = 1 .. j => i = j
          OBVIOUS
        <5> QED
          BY <5>2, <5>3, <2>4
      <4> QED
        BY <4>1, <4>2, <4>3, <3>1, <2>4 DEF ReadsAlike
    <3>4. ASSUME NEW p \in NextPoints(G, a.p)
          PROVE  \E e \in R2 : e.p = p /\ AfterBoth(I, K, b, e)
      <4>1. PICK e \in R : e.p = p /\ AfterBoth(I, J, a, e)
        BY <3>1
      <4>2. e.q \in NextPoints(H, a.q)
        <5>1. IF a.p[2] < Len(G.code[a.p[1]]) THEN p = <<a.p[1], a.p[2] + 1>>
              ELSE p = <<p[1], 1>> /\ p[1] \in I.blockOps
          BY <1>3, NextPointsFacts DEF I
        <5>2. I.blockOps = J.blockOps
          BY <3>1 DEF ReadsAlike
        <5>3. CASE I.blockOps = {}
          <6>1. e.q = <<a.q[1], a.q[2] + 1>>
            BY <5>3, <4>1 DEF AfterBoth
          <6>2. At(H, a.q).blockOps = {}
            BY <5>2, <5>3 DEF J
          <6> QED
            BY <6>1, <6>2, <2>9, <1>3, NextOfPlain
        <5>4. CASE I.blockOps # {}
          <6>1. e.q = <<p[1], 1>> /\ e.q[1] = p[1]
            BY <5>4, <4>1 DEF AfterBoth
          <6>2. ~(a.p[2] < Len(G.code[a.p[1]]))
            <7>1. a.p[2] = Len(G.code[a.p[1]]) /\ Len(G.code[a.p[1]]) \in Nat
              BY <5>4, <1>3, PointFacts, FunctionFacts DEF IsCode, I
            <7> QED
              BY <7>1
          <6>3. p[1] \in At(H, a.q).blockOps
            BY <5>1, <5>2, <6>2 DEF J
          <6> QED
            BY <6>1, <6>3, <2>9, <1>3, NextOfPlain
        <5> QED
          BY <5>3, <5>4
      <4>3. ASSUME NEW x \in Regs, NEW y \in moved(e).regs[x]
            PROVE  \/ x \notin def(I) /\ y \notin def(K) /\ y \in b.regs[x]
                   \/ \E k \in DOMAIN I.dsts : x = I.dsts[k] /\ y = K.dsts[k]
                   \/ x \in I.implicitDsts /\ y = x
        <5>1. PICK z \in e.regs[x] :
                /\ y = Renamed(m, z)
                /\ z \notin def(J) /\ z \in a.regs[x] => y \in b.regs[x]
                /\ \A d \in def(J) : d # z => Renamed(m, d) # y
          BY <4>2, <4>3, <2>8
        <5>2. \/ x \notin def(I) /\ z \notin def(J) /\ z \in a.regs[x]
              \/ \E k \in DOMAIN I.dsts : x = I.dsts[k] /\ z = J.dsts[k]
              \/ x \in I.implicitDsts /\ z = x
          BY <4>1 DEF AfterBoth
        <5>3. CASE x \notin def(I) /\ z \notin def(J) /\ z \in a.regs[x]
          BY <5>1, <5>3, <2>6
        <5>4. CASE \E k \in DOMAIN I.dsts : x = I.dsts[k] /\ z = J.dsts[k]
          <6>1. DOMAIN I.dsts = DOMAIN J.dsts
            BY <3>1 DEF ReadsAlike
          <6> QED
            BY <6>1, <5>1, <5>4, <2>5
        <5>5. CASE x \in I.implicitDsts /\ z = x
          BY <5>1, <5>5, <3>2, RegsAssumption DEF Renamed, IsRenaming
        <5> QED
          BY <5>2, <5>3, <5>4, <5>5
      <4>4. AfterBoth(I, K, b, moved(e))
        BY <4>1, <4>3, <2>9, <2>10 DEF AfterBoth
      <4> QED
        BY <4>1, <4>4, <2>9
    <3> QED
      BY <3>3, <3>4, <2>4, <2>10, <2>13 DEF GoesOn, I, K
  <2>14. J.mem \in {"none", "load", "store"}
    BY <2>3 DEF Instr
  <2> QED
    BY <2>11, <2>12, <2>13, <2>14
<1>7. R2 \subseteq LockPoints(G, H2, S) /\ \A b \in R2 : b.q[1] = b.p[1]
  <2> SUFFICES ASSUME NEW b \in R2 PROVE b \in LockPoints(G, H2, S) /\ b.q[1] = b.p[1]
    OBVIOUS
  <2>1. PICK a \in R : b = moved(a)
    BY <1>4
  <2> QED
    BY <2>1, <1>0, <1>3
<1> QED
  BY <1>5, <1>6, <1>7 DEF Simulates

-----------------------------------------------------------------------------
(* Spilling and the execution.                                             *)

\* The code of an instruction I when the registers of W are spilled: loads, I itself and
\* a store, if it writes a spilled register.
Loads(I, W) == SetToSeq(SrcsIn(I, W))
Size(I, W) == Len(Loads(I, W)) + 1 + (IF DstsIn(I, W) = {} THEN 0 ELSE 1)

\* That code starts at index n of block b of H, with the registers t gives the sources
\* of I and u its destinations.
SplicedAt(I, W, H, b, n, t, u) ==
  /\ n \in Nat \ {0}
  /\ t \in [SrcsIn(I, W) -> VirtRegs \ W] /\ \A v, w \in SrcsIn(I, W) : t[v] = t[w] => v = w
  /\ u \in [DstsIn(I, W) -> VirtRegs \ W]
  /\ \A j \in 1 .. Len(Loads(I, W)) :
       /\ <<b, n + j - 1>> \in Points(H)
       /\ At(H, <<b, n + j - 1>>) = LoadFrom(Loads(I, W)[j], t[Loads(I, W)[j]])
  /\ <<b, n + Len(Loads(I, W))>> \in Points(H)
  /\ At(H, <<b, n + Len(Loads(I, W))>>) = Rename(I, t, u)
  /\ \A v \in DstsIn(I, W) : /\ <<b, n + Len(Loads(I, W)) + 1>> \in Points(H)
                             /\ At(H, <<b, n + Len(Loads(I, W)) + 1>>) = StoreTo(v, u[v])

\* H is G with the registers of W spilled.
Spliced(G, H, W, at, t, u) ==
  /\ \A q \in Points(G) : SplicedAt(At(G, q), W, H, q[1], at[q], t[q], u[q])
  /\ \A q \in Points(G) : q[2] = 1 => at[q] = 1
  /\ \A q \in Points(G) :
       q[2] < Len(G.code[q[1]]) => at[<<q[1], q[2] + 1>>] = at[q] + Size(At(G, q), W)

\* The code c starts at index n of block b of H.
StartsAt(H, b, n, c) ==
  \A j \in 1 .. Len(c) : <<b, n + j - 1>> \in Points(H) /\ At(H, <<b, n + j - 1>>) = c[j]

LEMMA PieceSplices ==
  ASSUME NEW I \in Instr, Plain(I), NEW W \in SUBSET VirtRegs, NEW c, Piece(I, W, c),
         NEW H, NEW b, NEW n \in Nat \ {0}, StartsAt(H, b, n, c)
  PROVE  Len(c) = Size(I, W) /\ \E t, u : SplicedAt(I, W, H, b, n, t, u)
<1>1. PICK in \in [SrcsIn(I, W) -> Range(Temps) \ W], to \in [DstsIn(I, W) -> Range(Temps) \ W] :
        /\ \A v, w \in SrcsIn(I, W) : in[v] = in[w] => v = w
        /\ c = Spilled(I, in, to, W)
  BY DEF Piece
<1> DEFINE ss == Loads(I, W)
           ds == SetToSeq(DstsIn(I, W))
           D  == DstsIn(I, W)
<1>2. Range(Temps) \subseteq VirtRegs
  BY TempsAssumption DEF Range
<1>3. /\ (\A v \in DOMAIN in : in[v] \in Regs) /\ (\A v \in DOMAIN to : to[v] \in Regs)
      /\ in \in [SrcsIn(I, W) -> VirtRegs \ W] /\ to \in [DstsIn(I, W) -> VirtRegs \ W]
  BY <1>2 DEF Regs
<1>4. /\ Len(ss) \in Nat /\ Len(ds) \in Nat /\ Len(c) = Len(ss) + 1 + Len(ds)
      /\ \A j \in 1 .. Len(ss) : c[j] = LoadFrom(ss[j], in[ss[j]])
      /\ c[Len(ss) + 1] = Rename(I, in, to)
      /\ \A j \in 1 .. Len(ds) : c[Len(ss) + 1 + j] = StoreTo(ds[j], to[ds[j]])
  <2>1. SrcsIn(I, W) \subseteq DOMAIN in /\ DstsIn(I, W) \subseteq DOMAIN to
    BY <1>1
  <2>2. SpillsTo(c, I, in, to, W)
    BY <1>1, <1>3, <2>1, SpilledSpills
  <2> QED
    BY <2>2 DEF SpillsTo, Loads
<1>s. \A j \in 1 .. Len(c) : <<b, n + j - 1>> \in Points(H) /\ At(H, <<b, n + j - 1>>) = c[j]
  BY DEF StartsAt
<1>5. ds \in Seq(D) /\ Range(ds) = D /\ IsInjective(ds)
  BY OperandSets, SetToSeqFacts
<1>6. D = {} => Len(ds) = 0
  BY <1>4, <1>5 DEF Range
<1>7. \A v, w \in D : v = w
  <2>1. I.dsts \in Seq(Regs) /\ Len(I.dsts) <= 1
    BY DEF Instr, Plain
  <2>2. \A i, j \in DOMAIN I.dsts : i = j
    BY <2>1
  <2> QED
    BY <2>2 DEF DstsIn, Range
<1>8. ASSUME NEW v \in D PROVE Len(ds) = 1 /\ ds[1] = v
  <2>1. DOMAIN ds = 1 .. Len(ds) /\ \A i \in 1 .. Len(ds) : ds[i] \in D
    BY <1>5
  <2>2. \A i, j \in 1 .. Len(ds) : i = j
    BY <2>1, <1>5, <1>7 DEF IsInjective
  <2>3. \E i \in 1 .. Len(ds) : ds[i] = v
    BY <2>1, <1>5 DEF Range
  <2>4. 1 \in 1 .. Len(ds) /\ Len(ds) \in 1 .. Len(ds)
    BY <2>3, <1>4
  <2> QED
    BY <2>2, <2>3, <2>4
<1> HIDE DEF ss, ds, D
<1>9. Len(c) = Len(ss) + 1 + (IF D = {} THEN 0 ELSE 1)
  BY <1>4, <1>6, <1>8
<1>10. \A j \in 1 .. Len(ss) : <<b, n + j - 1>> \in Points(H)
                               /\ At(H, <<b, n + j - 1>>) = LoadFrom(ss[j], in[ss[j]])
  BY <1>4, <1>s
<1>11. /\ <<b, n + Len(ss)>> \in Points(H)
       /\ At(H, <<b, n + Len(ss)>>) = Rename(I, in, to)
  <2>1. Len(ss) + 1 \in 1 .. Len(c) /\ n + (Len(ss) + 1) - 1 = n + Len(ss)
    BY <1>4
  <2> QED
    BY <2>1, <1>4, <1>s
<1>12. ASSUME NEW v \in D
       PROVE  /\ <<b, n + Len(ss) + 1>> \in Points(H)
              /\ At(H, <<b, n + Len(ss) + 1>>) = StoreTo(v, to[v])
  <2>1. Len(ds) = 1 /\ ds[1] = v
    BY <1>8
  <2>2. Len(ss) + 1 + 1 \in 1 .. Len(c) /\ n + (Len(ss) + 1 + 1) - 1 = n + Len(ss) + 1
    BY <2>1, <1>4
  <2>3. 1 \in 1 .. Len(ds)
    BY <2>1
  <2> QED
    BY <2>1, <2>2, <2>3, <1>4, <1>s
<1>13. SplicedAt(I, W, H, b, n, in, to)
  BY <1>1, <1>3, <1>10, <1>11, <1>12 DEF SplicedAt, ss, D
<1> QED
  BY <1>9, <1>13 DEF Size, ss, D

LEMMA SplicedExists ==
  ASSUME NEW G, IsFunction(G), IsPlain(G), NEW W \in SUBSET VirtRegs, NEW o, NEW n \in Nat,
         n > Len(LayoutPoints(G)), Rewritten(G, o, n, SpillPieces(G, W)),
         NEW H, H = [G EXCEPT !.code = o]
  PROVE  \E at, t, u : Spliced(G, H, W, at, t, u)
<1> DEFINE P == SpillPieces(G, W)
           AT == [b \in BlocksOf(G) |-> CHOOSE at : Placed(o[b], b, Len(G.code[b]), at, P)]
           at == [q \in Points(G) |-> AT[q[1]][q[2]]]
           HasBoth(q, t, u) == SplicedAt(At(G, q), W, H, q[1], at[q], t, u)
           t == [q \in Points(G) |-> CHOOSE f : \E g : HasBoth(q, f, g)]
           u == [q \in Points(G) |-> CHOOSE g : HasBoth(q, t[q], g)]
<1>1. IsFunction(H) /\ H.code = o /\ BlocksOf(H) = BlocksOf(G)
  BY SpilledFunction
<1>2. ASSUME NEW b \in BlocksOf(G)
      PROVE  Placed(o[b], b, Len(G.code[b]), AT[b], P) /\ Len(o[b]) \in Nat
  <2>1. o[b] \in Seq(Instr) /\ \E f : Placed(o[b], b, Len(G.code[b]), f, P)
    BY RewriteDone
  <2> QED
    BY <2>1
<1> HIDE DEF AT
<1>3. ASSUME NEW q \in Points(G)
      PROVE  /\ \E f, g : HasBoth(q, f, g)
             /\ q[2] = 1 => at[q] = 1
             /\ q[2] < Len(G.code[q[1]]) => at[<<q[1], q[2] + 1>>] = at[q] + Size(At(G, q), W)
  <2> DEFINE b == q[1]
             i == q[2]
             K == Len(G.code[b])
             I == At(G, q)
             s == at[q]
  <2>1. b \in BlocksOf(G) /\ i \in 1 .. K /\ q = <<b, i>> /\ K \in Nat
    BY PointFacts, FunctionFacts
  <2>2. I \in Instr /\ Plain(I)
    BY InstrAt DEF IsPlain
  <2>3. at[q] = AT[b][i]
    OBVIOUS
  <2> HIDE DEF b, i, K, I, at
  <2>4. /\ \A k \in 1 .. (K + 1) : AT[b][k] \in 1 .. (Len(o[b]) + 1)
        /\ AT[b][1] = 1 /\ AT[b][K + 1] = Len(o[b]) + 1
        /\ \E c \in P[<<b, i>>] \cap Seq(Instr) :
             Lies(o[b], AT[b][i], c) /\ AT[b][i + 1] = AT[b][i] + Len(c)
    BY <2>1, <1>2 DEF Placed, K
  <2>5. PICK c \in P[q] \cap Seq(Instr) :
          Lies(o[b], AT[b][i], c) /\ AT[b][i + 1] = AT[b][i] + Len(c)
    BY <2>1, <2>4
  <2>6. Piece(I, W, c) /\ Len(c) \in Nat
    BY <2>5 DEF SpillPieces, I
  <2>7. /\ s \in Nat \ {0} /\ AT[b][i + 1] = s + Len(c) /\ AT[b][i + 1] <= Len(o[b]) + 1
    <3>1. i \in 1 .. (K + 1) /\ i + 1 \in 1 .. (K + 1)
      BY <2>1
    <3>2. AT[b][i] \in 1 .. (Len(o[b]) + 1) /\ AT[b][i + 1] \in 1 .. (Len(o[b]) + 1)
      BY <3>1, <2>4
    <3> QED
      BY <3>2, <2>3, <2>5, <2>1, <1>2
  <2> HIDE DEF s
  <2>8. StartsAt(H, b, s, c)
    <3> SUFFICES ASSUME NEW j \in 1 .. Len(c)
                 PROVE  <<b, s + j - 1>> \in Points(H) /\ At(H, <<b, s + j - 1>>) = c[j]
      BY DEF StartsAt
    <3>1. s + j - 1 \in 1 .. Len(o[b])
      <4>1. Len(o[b]) \in Nat
        BY <2>1, <1>2
      <4>2. s + Len(c) <= Len(o[b]) + 1
        BY <2>7
      <4> QED
        BY <4>1, <4>2, <2>6, <2>7
    <3>2. o[b][s + j - 1] = c[j]
      BY <2>3, <2>5 DEF Lies, s
    <3>3. <<b, s + j - 1>> \in Points(H)
      BY <3>1, <2>1, <1>1, PointFacts
    <3> QED
      BY <3>2, <3>3, <1>1 DEF At
  <2>9. Len(c) = Size(I, W) /\ \E f, g : SplicedAt(I, W, H, b, s, f, g)
    BY <2>2, <2>6, <2>7, <2>8, PieceSplices
  <2>10. \E f, g : HasBoth(q, f, g)
    BY <2>9 DEF I, b, s
  <2>11. q[2] = 1 => at[q] = 1
    BY <2>3, <2>4 DEF i
  <2>12. ASSUME i < K PROVE at[<<b, i + 1>>] = s + Size(I, W)
    <3>1. <<b, i + 1>> \in Points(G)
      BY <2>1, <2>12, PointFacts DEF K
    <3>2. at[<<b, i + 1>>] = AT[b][i + 1]
      BY <3>1 DEF at
    <3> QED
      BY <3>2, <2>7, <2>9
  <2> QED
    BY <2>10, <2>11, <2>12 DEF b, i, K, I, s
<1> HIDE DEF at
<1>4. ASSUME NEW q \in Points(G) PROVE HasBoth(q, t[q], u[q])
  <2>1. t[q] = CHOOSE f : \E g : HasBoth(q, f, g)
    OBVIOUS
  <2>2. u[q] = CHOOSE g : HasBoth(q, t[q], g)
    OBVIOUS
  <2> HIDE DEF HasBoth, t, u
  <2>3. \E g : HasBoth(q, t[q], g)
    BY <2>1, <1>3
  <2> QED
    BY <2>2, <2>3
<1> HIDE DEF t, u
<1>5. Spliced(G, H, W, at, t, u)
  BY <1>3, <1>4 DEF Spliced
<1> QED
  BY <1>5

\* H became H2 by spilling the registers of W, its only virtual registers; nothing is in
\* their slots yet.
Spills(G, H, H2, R, S, W, at, t, u) ==
  /\ IsFunction(G) /\ IsCode(G) /\ IsFunction(H) /\ IsPlain(H) /\ IsFunction(H2)
  /\ W \in SUBSET VirtRegs /\ VirtRegsOf(H) \subseteq W
  /\ S \cap W = {} /\ SlotsIn(H) \cap W = {} /\ S \subseteq VirtRegs
  /\ Simulates(G, H, R, S) /\ Spliced(H, H2, W, at, t, u)

\* What a says while the code of the instruction at a.q runs: the first j loads are done,
\* the other registers of W are in their slots.
Loading(H, W, at, t, a, j) ==
  LET ss == Loads(At(H, a.q), W)
  IN  [p |-> a.p, q |-> <<a.q[1], at[a.q] + j>>,
       regs |-> [x \in Regs |-> (a.regs[x] \cap PhysRegs) \cup
                   {y \in Regs : \E k \in 1 .. j : ss[k] \in a.regs[x] /\ y = t[a.q][ss[k]]}],
       slots |-> [x \in Regs |-> a.slots[x] \cup (a.regs[x] \cap W)]]

\* What e says when the instruction at q has run and what it wrote is to be stored.
Storing(H, W, at, u, e, q) ==
  LET I == At(H, q)
  IN  [p |-> e.p, q |-> <<q[1], at[q] + Len(Loads(I, W)) + 1>>,
       regs |-> [x \in Regs |-> (e.regs[x] \cap PhysRegs) \cup
                   {y \in Regs : \E v \in DstsIn(I, W) : v \in e.regs[x] /\ y = u[q][v]}],
       slots |-> [x \in Regs |-> e.slots[x] \cup (e.regs[x] \cap (W \ DstsIn(I, W)))]]

Arrived(H, R, W, at, t, u, z) ==
  \/ \E a \in R : \E j \in 0 .. Len(Loads(At(H, a.q), W)) : z = Loading(H, W, at, t, a, j)
  \/ \E e \in R : \E q \in Points(H) :
       e.q = <<q[1], q[2] + 1>> /\ DstsIn(At(H, q), W) # {} /\ z = Storing(H, W, at, u, e, q)

\* What Loading and Storing say, spelled out; d is the register the instruction at q writes.
LoadsTo(G, H, H2, S, W, at, t, a, j, z) ==
  /\ z \in LockPoints(G, H2, S \cup W) /\ z.p = a.p /\ z.q = <<a.q[1], at[a.q] + j>>
  /\ \A x \in Regs : z.slots[x] = a.slots[x] \cup (a.regs[x] \cap W)
  /\ \A x \in Regs : \A y : y \in z.regs[x] <=>
       \/ y \in a.regs[x] /\ y \in PhysRegs
       \/ \E k \in 1 .. j : Loads(At(H, a.q), W)[k] \in a.regs[x]
                            /\ y = t[a.q][Loads(At(H, a.q), W)[k]]

StoresTo(G, H, H2, S, W, at, u, e, q, d, z) ==
  /\ z \in LockPoints(G, H2, S \cup W) /\ z.p = e.p
  /\ z.q = <<q[1], at[q] + Len(Loads(At(H, q), W)) + 1>>
  /\ \A x \in Regs : z.slots[x] = e.slots[x] \cup (e.regs[x] \cap (W \ {d}))
  /\ \A x \in Regs : \A y : y \in z.regs[x] <=>
       \/ y \in e.regs[x] /\ y \in PhysRegs
       \/ d \in e.regs[x] /\ y = u[q][d]
  /\ At(H, q).dsts[1] = d /\ DOMAIN At(H, q).dsts = {1}

\* A point of R: the instruction and what it reads and writes.
LEMMA SpillsAt ==
  ASSUME NEW G, NEW H, NEW H2, NEW R, NEW S, NEW W, NEW at, NEW t, NEW u,
         Spills(G, H, H2, R, S, W, at, t, u), NEW q \in Points(H)
  PROVE  /\ At(H, q) \in Instr /\ Plain(At(H, q))
         /\ SplicedAt(At(H, q), W, H2, q[1], at[q], t[q], u[q])
         /\ Loads(At(H, q), W) \in Seq(SrcsIn(At(H, q), W)) /\ Len(Loads(At(H, q), W)) \in Nat
         /\ \A v \in SrcsIn(At(H, q), W) :
              \E k \in 1 .. Len(Loads(At(H, q), W)) : Loads(At(H, q), W)[k] = v
         /\ \A j, k \in 1 .. Len(Loads(At(H, q), W)) :
              Loads(At(H, q), W)[j] = Loads(At(H, q), W)[k] => j = k
         /\ \A y \in use(At(H, q)) \cup def(At(H, q)) : y \in PhysRegs \/ y \in W
<1>1. IsFunction(H) /\ IsPlain(H) /\ VirtRegsOf(H) \subseteq W /\ Spliced(H, H2, W, at, t, u)
  BY DEF Spills
<1>2. /\ At(H, q) \in Instr /\ Plain(At(H, q)) /\ use(At(H, q)) \subseteq Regs /\ def(At(H, q)) \subseteq Regs
      /\ SplicedAt(At(H, q), W, H2, q[1], at[q], t[q], u[q])
  BY <1>1, InstrAt DEF IsPlain, Spliced
<1> DEFINE ss == Loads(At(H, q), W)
           T == SrcsIn(At(H, q), W)
<1>3. ss \in Seq(T) /\ Range(ss) = T /\ IsInjective(ss)
  BY <1>2, OperandSets, SetToSeqFacts DEF Loads
<1> HIDE DEF ss, T
<1>4. /\ Len(ss) \in Nat /\ \A v \in T : \E k \in 1 .. Len(ss) : ss[k] = v
      /\ \A j, k \in 1 .. Len(ss) : ss[j] = ss[k] => j = k
  BY <1>3 DEF Range, IsInjective
<1>5. \A y \in use(At(H, q)) \cup def(At(H, q)) : y \in PhysRegs \/ y \in W
  BY <1>1, <1>2 DEF VirtRegsOf, Regs
<1> QED
  BY <1>2, <1>3, <1>4, <1>5 DEF ss, T

LEMMA SpillsPoint ==
  ASSUME NEW G, NEW H, NEW H2, NEW R, NEW S, NEW W, NEW at, NEW t, NEW u,
         Spills(G, H, H2, R, S, W, at, t, u), NEW a \in R
  PROVE  /\ a \in LockPoints(G, H, S) /\ a.p \in Points(G) /\ a.q \in Points(H) /\ a.q[1] = a.p[1]
         /\ GoesOn(G, H, R, a)
         /\ \A x \in Regs : a.regs[x] \subseteq Regs /\ a.slots[x] \subseteq S
BY DEF Spills, Simulates, LockPoints

LEMMA LoadingPoint ==
  ASSUME NEW G, NEW H, NEW H2, NEW R, NEW S, NEW W, NEW at, NEW t, NEW u,
         Spills(G, H, H2, R, S, W, at, t, u), NEW a \in R,
         NEW j \in 0 .. Len(Loads(At(H, a.q), W)), NEW z, z = Loading(H, W, at, t, a, j)
  PROVE  LoadsTo(G, H, H2, S, W, at, t, a, j, z)
<1> DEFINE I == At(H, a.q)
           ss == Loads(I, W)
<1>1. /\ a \in LockPoints(G, H, S) /\ a.p \in Points(G) /\ a.q \in Points(H)
      /\ \A x \in Regs : a.regs[x] \subseteq Regs /\ a.slots[x] \subseteq S
  BY SpillsPoint
<1>2. /\ SplicedAt(I, W, H2, a.q[1], at[a.q], t[a.q], u[a.q])
      /\ ss \in Seq(SrcsIn(I, W)) /\ Len(ss) \in Nat
  BY <1>1, SpillsAt
<1> HIDE DEF I, ss
<1>3. /\ at[a.q] \in Nat \ {0} /\ t[a.q] \in [SrcsIn(I, W) -> VirtRegs \ W]
      /\ \A k \in 1 .. Len(ss) : <<a.q[1], at[a.q] + k - 1>> \in Points(H2)
      /\ <<a.q[1], at[a.q] + Len(ss)>> \in Points(H2)
  BY <1>2 DEF SplicedAt, ss
<1>j. j \in 0 .. Len(ss)
  BY DEF ss, I
<1>4. <<a.q[1], at[a.q] + j>> \in Points(H2)
  <2>1. CASE j = Len(ss)
    BY <2>1, <1>3
  <2>2. CASE j # Len(ss)
    <3>1. j + 1 \in 1 .. Len(ss) /\ at[a.q] + (j + 1) - 1 = at[a.q] + j
      BY <2>2, <1>2, <1>3, <1>j
    <3> QED
      BY <3>1, <1>3
  <2> QED
    BY <2>1, <2>2
<1>5. \A k \in 1 .. j : ss[k] \in SrcsIn(I, W) /\ t[a.q][ss[k]] \in Regs
  <2>1. \A k \in 1 .. j : k \in 1 .. Len(ss)
    BY <1>2, <1>j
  <2> QED
    BY <2>1, <1>2, <1>3 DEF Regs
<1> DEFINE hs == [x \in Regs |-> (a.regs[x] \cap PhysRegs) \cup
                   {y \in Regs : \E k \in 1 .. j : ss[k] \in a.regs[x] /\ y = t[a.q][ss[k]]}]
           sl == [x \in Regs |-> a.slots[x] \cup (a.regs[x] \cap W)]
<1>6. z = [p |-> a.p, q |-> <<a.q[1], at[a.q] + j>>, regs |-> hs, slots |-> sl]
  BY DEF Loading, ss, I
<1>7. hs \in [Regs -> SUBSET Regs] /\ sl \in [Regs -> SUBSET (S \cup W)]
  BY <1>1
<1>8. \A x \in Regs : \A y : y \in hs[x] <=>
        \/ y \in a.regs[x] /\ y \in PhysRegs
        \/ \E k \in 1 .. j : ss[k] \in a.regs[x] /\ y = t[a.q][ss[k]]
  BY <1>5
<1>9. \A x \in Regs : sl[x] = a.slots[x] \cup (a.regs[x] \cap W)
  OBVIOUS
<1> HIDE DEF hs, sl
<1>10. z \in LockPoints(G, H2, S \cup W)
  BY <1>1, <1>4, <1>6, <1>7 DEF LockPoints
<1> QED
  BY <1>6, <1>8, <1>9, <1>10 DEF LoadsTo, ss, I

LEMMA StoringPoint ==
  ASSUME NEW G, NEW H, NEW H2, NEW R, NEW S, NEW W, NEW at, NEW t, NEW u,
         Spills(G, H, H2, R, S, W, at, t, u), NEW e \in R,
         NEW q \in Points(H), NEW d \in DstsIn(At(H, q), W), NEW z, z = Storing(H, W, at, u, e, q)
  PROVE  StoresTo(G, H, H2, S, W, at, u, e, q, d, z)
<1> DEFINE I == At(H, q)
<1>1. /\ e \in LockPoints(G, H, S) /\ e.p \in Points(G) /\ e.q \in Points(H)
      /\ \A x \in Regs : e.regs[x] \subseteq Regs /\ e.slots[x] \subseteq S
  BY SpillsPoint
<1>2. /\ SplicedAt(I, W, H2, q[1], at[q], t[q], u[q]) /\ I \in Instr /\ Plain(I)
  BY <1>1, SpillsAt
<1>3. DOMAIN I.dsts = {1} /\ I.dsts[1] = d /\ DstsIn(I, W) = {d}
  <2>1. I.dsts \in Seq(Regs) /\ Len(I.dsts) <= 1
    BY <1>2 DEF Instr, Plain
  <2>2. \E k \in DOMAIN I.dsts : I.dsts[k] = d
    BY DEF DstsIn, Range
  <2>3. Len(I.dsts) = 1 /\ DOMAIN I.dsts = {1}
    <3>1. Len(I.dsts) \in Nat /\ DOMAIN I.dsts = 1 .. Len(I.dsts)
      BY <2>1
    <3>2. Len(I.dsts) # 0
      BY <2>2, <3>1
    <3>3. \A n \in Nat : n # 0 /\ n <= 1 => n = 1 /\ 1 .. n = {1}
      OBVIOUS
    <3> QED
      BY <2>1, <3>1, <3>2, <3>3
  <2> QED
    BY <2>2, <2>3 DEF DstsIn, Range
<1> HIDE DEF I
<1>4. /\ <<q[1], at[q] + Len(Loads(I, W)) + 1>> \in Points(H2)
      /\ u[q][d] \in Regs
  BY <1>2, <1>3 DEF SplicedAt, Regs
<1> DEFINE hs == [x \in Regs |-> (e.regs[x] \cap PhysRegs) \cup
                   {y \in Regs : \E v \in DstsIn(I, W) : v \in e.regs[x] /\ y = u[q][v]}]
           sl == [x \in Regs |-> e.slots[x] \cup (e.regs[x] \cap (W \ DstsIn(I, W)))]
<1>6. z = [p |-> e.p, q |-> <<q[1], at[q] + Len(Loads(I, W)) + 1>>, regs |-> hs, slots |-> sl]
  BY DEF Storing, I
<1>7. hs \in [Regs -> SUBSET Regs] /\ sl \in [Regs -> SUBSET (S \cup W)]
  BY <1>1
<1>8. \A x \in Regs : \A y : y \in hs[x] <=>
        \/ y \in e.regs[x] /\ y \in PhysRegs
        \/ d \in e.regs[x] /\ y = u[q][d]
  BY <1>3, <1>4
<1>9. \A x \in Regs : sl[x] = e.slots[x] \cup (e.regs[x] \cap (W \ {d}))
  BY <1>3
<1> HIDE DEF hs, sl
<1>10. z \in LockPoints(G, H2, S \cup W)
  BY <1>1, <1>4, <1>6, <1>7 DEF LockPoints
<1> QED
  BY <1>3, <1>6, <1>8, <1>9, <1>10 DEF StoresTo, I

\* A load of the spill code.
LEMMA LoadingGoesOn ==
  ASSUME NEW G, NEW H, NEW H2, NEW R, NEW S, NEW W, NEW at, NEW t, NEW u,
         Spills(G, H, H2, R, S, W, at, t, u), NEW a \in R,
         NEW j \in Nat, j < Len(Loads(At(H, a.q), W)), NEW i, i = j + 1,
         NEW z, z = Loading(H, W, at, t, a, j), NEW y, y = Loading(H, W, at, t, a, i)
  PROVE  At(H2, z.q).mem = "load" /\ AfterLoad(At(H2, z.q), z, y)
<1> DEFINE I == At(H, a.q)
           ss == Loads(I, W)
           v == ss[i]
<1>1. a.q \in Points(H) /\ \A x \in Regs : a.regs[x] \subseteq Regs /\ a.slots[x] \subseteq S
  BY SpillsPoint
<1>2. /\ SplicedAt(I, W, H2, a.q[1], at[a.q], t[a.q], u[a.q])
      /\ ss \in Seq(SrcsIn(I, W)) /\ Len(ss) \in Nat
      /\ \A m, k \in 1 .. Len(ss) : ss[m] = ss[k] => m = k
  BY <1>1, SpillsAt
<1>3. j \in 0 .. Len(ss) /\ i \in 0 .. Len(ss) /\ i \in 1 .. Len(ss)
  BY <1>2
<1>l. LoadsTo(G, H, H2, S, W, at, t, a, j, z)
  BY <1>3, LoadingPoint
<1>m. LoadsTo(G, H, H2, S, W, at, t, a, i, y)
  BY <1>3, LoadingPoint
<1>4. /\ z.p = a.p /\ z.q = <<a.q[1], at[a.q] + j>>
      /\ \A x \in Regs : z.slots[x] = a.slots[x] \cup (a.regs[x] \cap W)
      /\ \A x \in Regs : \A r : r \in z.regs[x] <=>
           \/ r \in a.regs[x] /\ r \in PhysRegs
           \/ \E k \in 1 .. j : ss[k] \in a.regs[x] /\ r = t[a.q][ss[k]]
  BY <1>l DEF LoadsTo
<1>5. /\ y.p = a.p /\ y.q = <<a.q[1], at[a.q] + i>>
      /\ \A x \in Regs : y.slots[x] = a.slots[x] \cup (a.regs[x] \cap W)
      /\ \A x \in Regs : \A r : r \in y.regs[x] <=>
           \/ r \in a.regs[x] /\ r \in PhysRegs
           \/ \E k \in 1 .. i : ss[k] \in a.regs[x] /\ r = t[a.q][ss[k]]
  BY <1>m DEF LoadsTo
<1>6. W \in SUBSET VirtRegs
  BY DEF Spills
<1> HIDE DEF ss, I
<1>7. /\ at[a.q] \in Nat \ {0} /\ t[a.q] \in [SrcsIn(I, W) -> VirtRegs \ W]
      /\ \A x, w \in SrcsIn(I, W) : t[a.q][x] = t[a.q][w] => x = w
      /\ At(H2, <<a.q[1], at[a.q] + i - 1>>) = LoadFrom(ss[i], t[a.q][ss[i]])
  BY <1>2, <1>3 DEF SplicedAt, ss
<1>8. at[a.q] + i - 1 = at[a.q] + j /\ (at[a.q] + j) + 1 = at[a.q] + i
  BY <1>7
<1>9. At(H2, z.q) = LoadFrom(v, t[a.q][v])
  BY <1>4, <1>7, <1>8
<1>10. /\ At(H2, z.q).mem = "load" /\ At(H2, z.q).slot = v /\ At(H2, z.q).dsts[1] = t[a.q][v]
  BY <1>9 DEF LoadFrom
<1>11. v \in SrcsIn(I, W) /\ v \in W /\ t[a.q][v] \notin PhysRegs
  BY <1>2, <1>3, <1>7, RegsAssumption DEF SrcsIn
<1>12. ASSUME NEW x \in Regs, NEW r \in y.regs[x]
       PROVE  IF r = t[a.q][v] THEN v \in z.slots[x] ELSE r \in z.regs[x]
  <2>1. CASE r \in a.regs[x] /\ r \in PhysRegs
    BY <2>1, <1>4, <1>11
  <2>2. CASE \E k \in 1 .. i : ss[k] \in a.regs[x] /\ r = t[a.q][ss[k]]
    <3>1. PICK k \in 1 .. i : ss[k] \in a.regs[x] /\ r = t[a.q][ss[k]]
      BY <2>2
    <3>2. k \in 1 .. Len(ss) /\ (k = i \/ k \in 1 .. j) /\ ss[k] \in SrcsIn(I, W)
      BY <1>2, <1>3
    <3>3. CASE k = i
      BY <3>1, <3>3, <1>4, <1>11
    <3>4. CASE k \in 1 .. j
      <4>1. ss[k] # v
        BY <3>2, <3>4, <1>2, <1>3
      <4>2. t[a.q][ss[k]] # t[a.q][v]
        BY <4>1, <3>2, <1>7, <1>11
      <4> QED
        BY <4>2, <3>1, <3>4, <1>4
    <3> QED
      BY <3>2, <3>3, <3>4
  <2> QED
    BY <2>1, <2>2, <1>5
<1> HIDE DEF v
<1>13. y.q = <<z.q[1], z.q[2] + 1>>
  BY <1>4, <1>5, <1>8
<1>14. AfterLoad(At(H2, z.q), z, y)
  BY <1>4, <1>5, <1>10, <1>12, <1>13 DEF AfterLoad
<1> QED
  BY <1>10, <1>14

\* The store of the spill code.
LEMMA StoringGoesOn ==
  ASSUME NEW G, NEW H, NEW H2, NEW R, NEW S, NEW W, NEW at, NEW t, NEW u,
         Spills(G, H, H2, R, S, W, at, t, u), NEW e \in R,
         NEW q \in Points(H), e.q = <<q[1], q[2] + 1>>, NEW d \in DstsIn(At(H, q), W),
         NEW z, z = Storing(H, W, at, u, e, q), NEW y, y = Loading(H, W, at, t, e, 0)
  PROVE  At(H2, z.q).mem = "store" /\ AfterStore(At(H2, z.q), z, y)
<1> DEFINE I == At(H, q)
           l == Len(Loads(I, W))
<1>1. e.q \in Points(H) /\ \A x \in Regs : e.regs[x] \subseteq Regs /\ e.slots[x] \subseteq S
  BY SpillsPoint
<1>2. SplicedAt(I, W, H2, q[1], at[q], t[q], u[q]) /\ l \in Nat
  BY SpillsAt
<1>3. /\ z.p = e.p /\ z.q = <<q[1], at[q] + l + 1>>
      /\ \A x \in Regs : z.slots[x] = e.slots[x] \cup (e.regs[x] \cap (W \ {d}))
      /\ \A x \in Regs : \A r : r \in z.regs[x] <=>
           \/ r \in e.regs[x] /\ r \in PhysRegs
           \/ d \in e.regs[x] /\ r = u[q][d]
  <2>1. StoresTo(G, H, H2, S, W, at, u, e, q, d, z)
    BY StoringPoint
  <2> QED
    BY <2>1 DEF StoresTo
<1>4. LoadsTo(G, H, H2, S, W, at, t, e, 0, y)
  <2>1. 0 \in 0 .. Len(Loads(At(H, e.q), W))
    BY <1>1, SpillsAt
  <2> QED
    BY <2>1, LoadingPoint
<1>5. /\ y.p = e.p /\ y.q = <<e.q[1], at[e.q] + 0>>
      /\ \A x \in Regs : y.slots[x] = e.slots[x] \cup (e.regs[x] \cap W)
      /\ \A x \in Regs : \A r : r \in y.regs[x] <=>
           \/ r \in e.regs[x] /\ r \in PhysRegs
           \/ \E k \in 1 .. 0 : Loads(At(H, e.q), W)[k] \in e.regs[x]
                                /\ r = t[e.q][Loads(At(H, e.q), W)[k]]
  BY <1>4 DEF LoadsTo
<1>6. \A x \in Regs : \A r : r \in y.regs[x] <=> r \in e.regs[x] /\ r \in PhysRegs
  BY <1>5
<1>7. at[e.q] = at[q] + l + 1 + 1 /\ at[e.q] \in Nat /\ at[q] \in Nat
  <2>1. IsFunction(H) /\ Spliced(H, H2, W, at, t, u)
    BY DEF Spills
  <2>2. q[2] < Len(H.code[q[1]])
    <3>1. e.q[1] = q[1] /\ e.q[2] = q[2] + 1 /\ e.q[2] \in 1 .. Len(H.code[e.q[1]])
          /\ q[2] \in 1 .. Len(H.code[q[1]]) /\ q[1] \in BlocksOf(H)
      BY <1>1, <2>1, PointFacts
    <3>2. Len(H.code[q[1]]) \in Nat
      BY <3>1, <2>1, FunctionFacts
    <3> QED
      BY <3>1, <3>2
  <2>3. at[e.q] = at[q] + Size(I, W)
    BY <2>1, <2>2 DEF Spliced
  <2>4. Size(I, W) = l + 1 + 1
    BY DEF Size
  <2>5. at[q] \in Nat /\ at[e.q] \in Nat
    <3>1. SplicedAt(At(H, e.q), W, H2, e.q[1], at[e.q], t[e.q], u[e.q])
      BY <1>1, SpillsAt
    <3>2. at[e.q] \in Nat
      BY <3>1 DEF SplicedAt
    <3>3. at[q] \in Nat
      BY <1>2 DEF SplicedAt
    <3> QED
      BY <3>2, <3>3
  <2> HIDE DEF l, I
  <2> QED
    BY <2>3, <2>4, <2>5, <1>2
<1>8. At(H2, <<q[1], at[q] + l + 1>>) = StoreTo(d, u[q][d])
  BY <1>2 DEF SplicedAt
<1> HIDE DEF l, I
<1>9. /\ At(H2, z.q).mem = "store" /\ At(H2, z.q).slot = d /\ At(H2, z.q).srcs[1] = u[q][d]
  BY <1>3, <1>8 DEF StoreTo
<1>10. y.q = <<z.q[1], z.q[2] + 1>>
  <2>1. at[e.q] + 0 = (at[q] + l + 1) + 1 /\ e.q[1] = q[1]
    BY <1>2, <1>7
  <2> QED
    BY <2>1, <1>3, <1>5
<1>11. d \in W /\ d \notin S
  BY DEF DstsIn, Spills
<1>12. ASSUME NEW x \in Regs, NEW v \in y.slots[x]
       PROVE  IF v = d THEN u[q][d] \in z.regs[x] ELSE v \in z.slots[x]
  BY <1>1, <1>3, <1>5, <1>11
<1>13. \A x \in Regs : \A r \in y.regs[x] : r \in z.regs[x]
  BY <1>3, <1>6
<1>14. y.p = z.p
  BY <1>3, <1>5
<1>15. AfterStore(At(H2, z.q), z, y)
  BY <1>9, <1>10, <1>12, <1>13, <1>14 DEF AfterStore
<1> QED
  BY <1>9, <1>15

\* K is J with its operands in W replaced; z says what a says, with what J reads in place;
\* y says what e says, what J wrote being where K writes it.
Replaces(J, W, t, u, K) ==
  /\ K.mem = J.mem /\ K.slot = J.slot /\ K.coalescent = J.coalescent /\ K.blockOps = J.blockOps
  /\ K.implicitSrcs = J.implicitSrcs /\ K.implicitDsts = J.implicitDsts
  /\ Len(K.srcs) = Len(J.srcs) /\ DOMAIN K.srcs = DOMAIN J.srcs /\ DOMAIN K.dsts = DOMAIN J.dsts
  /\ \A k \in DOMAIN J.srcs : IF J.srcs[k] \in W THEN K.srcs[k] = t[J.srcs[k]]
                              ELSE K.srcs[k] = J.srcs[k] /\ J.srcs[k] \in PhysRegs
  /\ \A k \in DOMAIN J.dsts : IF J.dsts[k] \in W THEN K.dsts[k] = u[J.dsts[k]]
                              ELSE K.dsts[k] = J.dsts[k] /\ J.dsts[k] \in PhysRegs
  /\ \A d \in DstsIn(J, W) : u[d] \notin PhysRegs

Fetched(J, W, t, a, z) ==
  /\ z.p = a.p
  /\ \A x \in Regs :
       /\ z.slots[x] = a.slots[x] \cup (a.regs[x] \cap W)
       /\ \A y \in a.regs[x] : /\ y \in PhysRegs => y \in z.regs[x]
                               /\ y \in SrcsIn(J, W) => t[y] \in z.regs[x]

Delivered(J, W, u, e, y) ==
  /\ y.p = e.p
  /\ \A x \in Regs :
       /\ \A r \in y.regs[x] : \/ r \in e.regs[x] /\ r \in PhysRegs
                               \/ \E d \in DstsIn(J, W) : d \in e.regs[x] /\ r = u[d]
       /\ \A v \in y.slots[x] : \/ v \in e.slots[x]
                                \/ v \in e.regs[x] /\ v \in W /\ v \notin DstsIn(J, W)

LEMMA LoadReplaced ==
  ASSUME NEW W \in SUBSET VirtRegs, NEW J, Plain(J), J.mem = "load", J.dsts \in Seq(Regs),
         NEW t, NEW u, NEW K, Replaces(J, W, t, u, K), NEW a, NEW z, Fetched(J, W, t, a, z),
         NEW e, AfterLoad(J, a, e), NEW y, Delivered(J, W, u, e, y),
         y.q = <<z.q[1], z.q[2] + 1>>
  PROVE  AfterLoad(K, z, y)
<1> DEFINE d == J.dsts[1]
<1>1. Len(J.dsts) = 1 /\ DOMAIN J.dsts = {1}
  <2>1. Len(J.dsts) = 1 /\ DOMAIN J.dsts = 1 .. Len(J.dsts)
    BY DEF Plain
  <2> QED
    BY <2>1
<1>2. DstsIn(J, W) = {d} \cap W
  BY <1>1 DEF DstsIn, Range
<1>3. /\ d \in W => K.dsts[1] = u[d] /\ u[d] \notin PhysRegs
      /\ d \notin W => K.dsts[1] = d
      /\ K.slot = J.slot
  BY <1>1, <1>2 DEF Replaces
<1>4. /\ e.p = a.p /\ z.p = a.p /\ y.p = e.p
      /\ \A x \in Regs : /\ z.slots[x] = a.slots[x] \cup (a.regs[x] \cap W)
                         /\ \A r \in a.regs[x] : r \in PhysRegs => r \in z.regs[x]
  BY DEF AfterLoad, Fetched, Delivered
<1>5. \A x \in Regs : /\ \A r \in e.regs[x] : IF r = d THEN J.slot \in a.slots[x] ELSE r \in a.regs[x]
                      /\ \A v \in e.slots[x] : v \in a.slots[x]
  BY DEF AfterLoad
<1>6. \A x \in Regs :
        /\ \A r \in y.regs[x] : \/ r \in e.regs[x] /\ r \in PhysRegs
                                \/ d \in W /\ d \in e.regs[x] /\ r = u[d]
        /\ \A v \in y.slots[x] : v \in e.slots[x] \/ (v \in e.regs[x] /\ v \in W /\ v # d)
  BY <1>2 DEF Delivered
<1> HIDE DEF d
<1>7. PhysRegs \cap W = {}
  BY RegsAssumption
<1>8. ASSUME NEW x \in Regs, NEW r \in y.regs[x]
      PROVE  IF r = K.dsts[1] THEN K.slot \in z.slots[x] ELSE r \in z.regs[x]
  <2>1. CASE r \in e.regs[x] /\ r \in PhysRegs
    BY <2>1, <1>3, <1>4, <1>5, <1>7
  <2>2. CASE d \in W /\ d \in e.regs[x] /\ r = u[d]
    BY <2>2, <1>3, <1>4, <1>5
  <2> QED
    BY <2>1, <2>2, <1>6
<1>9. ASSUME NEW x \in Regs, NEW v \in y.slots[x] PROVE v \in z.slots[x]
  BY <1>4, <1>5, <1>6
<1> QED
  BY <1>4, <1>8, <1>9 DEF AfterLoad

LEMMA StoreReplaced ==
  ASSUME NEW W \in SUBSET VirtRegs, NEW J, Plain(J), J.mem = "store", J.srcs \in Seq(Regs),
         J.slot \notin W,
         NEW t, NEW u, NEW K, Replaces(J, W, t, u, K), NEW a, NEW z, Fetched(J, W, t, a, z),
         NEW e, AfterStore(J, a, e), NEW y, Delivered(J, W, u, e, y),
         y.q = <<z.q[1], z.q[2] + 1>>
  PROVE  AfterStore(K, z, y)
<1> DEFINE s == J.srcs[1]
<1>1. /\ DOMAIN J.srcs = {1} /\ J.dsts = <<>>
  <2>1. Len(J.srcs) = 1 /\ DOMAIN J.srcs = 1 .. Len(J.srcs) /\ J.dsts = <<>>
    BY DEF Plain
  <2> QED
    BY <2>1
<1>2. DstsIn(J, W) = {} /\ (s \in W => s \in SrcsIn(J, W))
  BY <1>1 DEF DstsIn, SrcsIn, Range
<1>3. /\ s \in W => K.srcs[1] = t[s]
      /\ s \notin W => K.srcs[1] = s /\ s \in PhysRegs
      /\ K.slot = J.slot
  BY <1>1 DEF Replaces
<1>4. /\ e.p = a.p /\ z.p = a.p /\ y.p = e.p
      /\ \A x \in Regs : /\ z.slots[x] = a.slots[x] \cup (a.regs[x] \cap W)
                         /\ \A r \in a.regs[x] : r \in PhysRegs => r \in z.regs[x]
                         /\ s \in a.regs[x] => K.srcs[1] \in z.regs[x]
  BY <1>2, <1>3 DEF AfterStore, Fetched, Delivered
<1>5. \A x \in Regs :
        /\ \A r \in e.regs[x] : r \in a.regs[x]
        /\ \A v \in e.slots[x] : IF v = J.slot THEN s \in a.regs[x] ELSE v \in a.slots[x]
  BY DEF AfterStore
<1>6. \A x \in Regs :
        /\ \A r \in y.regs[x] : r \in e.regs[x] /\ r \in PhysRegs
        /\ \A v \in y.slots[x] : v \in e.slots[x] \/ (v \in e.regs[x] /\ v \in W)
  BY <1>2 DEF Delivered
<1> HIDE DEF s
<1>7. \A x \in Regs : \A r \in y.regs[x] : r \in z.regs[x]
  BY <1>4, <1>5, <1>6
<1>8. ASSUME NEW x \in Regs, NEW v \in y.slots[x]
      PROVE  IF v = K.slot THEN K.srcs[1] \in z.regs[x] ELSE v \in z.slots[x]
  BY <1>3, <1>4, <1>5, <1>6
<1> QED
  BY <1>4, <1>7, <1>8 DEF AfterStore

OtherFollows(I, J, K, W, u, a, z) ==
  \A e, y : /\ AfterBoth(I, J, a, e) /\ Delivered(J, W, u, e, y)
            /\ y.q = (IF I.blockOps = {} THEN <<z.q[1], z.q[2] + 1>> ELSE <<e.p[1], 1>>)
            => AfterBoth(I, K, z, y)

LEMMA OtherReplaced ==
  ASSUME NEW W \in SUBSET VirtRegs, NEW I \in Instr, NEW J \in Instr, NEW t, NEW u, NEW K,
         Replaces(J, W, t, u, K), NEW a, ReadsAlike(I, J, a), NEW z, Fetched(J, W, t, a, z)
  PROVE  ReadsAlike(I, K, z) /\ OtherFollows(I, J, K, W, u, a, z)
<1>1. /\ I.srcs \in Seq(Regs) /\ I.implicitSrcs \subseteq PhysRegs /\ I.dsts \in Seq(Regs)
      /\ I.implicitDsts \subseteq PhysRegs /\ PhysRegs \subseteq Regs /\ PhysRegs \cap W = {}
  BY RegsAssumption DEF Instr, Regs
<1>2. \A x \in Regs :
        /\ z.slots[x] = a.slots[x] \cup (a.regs[x] \cap W)
        /\ \A y \in a.regs[x] : /\ y \in PhysRegs => y \in z.regs[x]
                                /\ y \in SrcsIn(J, W) => t[y] \in z.regs[x]
  BY DEF Fetched
<1>3. ReadsAlike(I, K, z)
  <2>1. ASSUME NEW k \in DOMAIN I.srcs PROVE K.srcs[k] \in z.regs[I.srcs[k]]
    <3>1. k \in DOMAIN J.srcs /\ J.srcs[k] \in a.regs[I.srcs[k]] /\ I.srcs[k] \in Regs
      BY <2>1, <1>1 DEF ReadsAlike
    <3>2. CASE J.srcs[k] \in W
      <4>1. J.srcs[k] \in SrcsIn(J, W) /\ K.srcs[k] = t[J.srcs[k]]
        BY <3>1, <3>2 DEF SrcsIn, Range, Replaces
      <4> QED
        BY <4>1, <3>1, <1>2
    <3>3. CASE J.srcs[k] \notin W
      <4>1. J.srcs[k] \in PhysRegs /\ K.srcs[k] = J.srcs[k]
        BY <3>1, <3>3 DEF Replaces
      <4> QED
        BY <4>1, <3>1, <1>2
    <3> QED
      BY <3>2, <3>3
  <2>2. ASSUME NEW r \in I.implicitSrcs PROVE r \in z.regs[r]
    BY <2>2, <1>1, <1>2 DEF ReadsAlike
  <2> QED
    BY <2>1, <2>2 DEF ReadsAlike, Replaces
<1>4. ASSUME NEW e, NEW y, AfterBoth(I, J, a, e), Delivered(J, W, u, e, y),
             y.q = (IF I.blockOps = {} THEN <<z.q[1], z.q[2] + 1>> ELSE <<e.p[1], 1>>)
      PROVE  AfterBoth(I, K, z, y)
  <2>1. /\ DOMAIN I.dsts = DOMAIN J.dsts /\ DOMAIN K.dsts = DOMAIN J.dsts
        /\ I.implicitDsts = J.implicitDsts /\ K.implicitDsts = J.implicitDsts
    BY DEF ReadsAlike, Replaces
  <2>2. \A k \in DOMAIN J.dsts : /\ J.dsts[k] \in W => K.dsts[k] = u[J.dsts[k]] /\ K.dsts[k] \notin PhysRegs
                                                       /\ J.dsts[k] \in DstsIn(J, W)
                                 /\ J.dsts[k] \notin W => K.dsts[k] = J.dsts[k]
    BY DEF Replaces, DstsIn, Range
  <2>3. \A x \in Regs :
          /\ \A r \in e.regs[x] :
               \/ x \notin def(I) /\ r \notin def(J) /\ r \in a.regs[x]
               \/ \E k \in DOMAIN I.dsts : x = I.dsts[k] /\ r = J.dsts[k]
               \/ x \in I.implicitDsts /\ r = x
          /\ \A v \in e.slots[x] : x \notin def(I) /\ v \in a.slots[x]
    BY <1>4 DEF AfterBoth
  <2>4. ASSUME NEW x \in Regs, NEW r \in y.regs[x]
        PROVE  \/ x \notin def(I) /\ r \notin def(K) /\ r \in z.regs[x]
               \/ \E k \in DOMAIN I.dsts : x = I.dsts[k] /\ r = K.dsts[k]
               \/ x \in I.implicitDsts /\ r = x
    <3>1. CASE r \in e.regs[x] /\ r \in PhysRegs
      <4>1. r \notin W
        BY <3>1, <1>1
      <4>2. CASE x \notin def(I) /\ r \notin def(J) /\ r \in a.regs[x]
        <5>1. r \notin def(K)
          <6>1. r \notin J.implicitDsts /\ \A k \in DOMAIN J.dsts : r # J.dsts[k]
            BY <4>2 DEF def, Range
          <6>2. \A k \in DOMAIN J.dsts : r # K.dsts[k]
            BY <6>1, <3>1, <2>2
          <6> QED
            BY <6>1, <6>2, <2>1 DEF def, Range
        <5> QED
          BY <5>1, <4>2, <3>1, <1>2
      <4>3. CASE \E k \in DOMAIN I.dsts : x = I.dsts[k] /\ r = J.dsts[k]
        BY <4>1, <4>3, <2>1, <2>2
      <4>4. CASE x \in I.implicitDsts /\ r = x
        BY <4>4
      <4> QED
        BY <4>2, <4>3, <4>4, <3>1, <2>3
    <3>2. CASE \E d \in DstsIn(J, W) : d \in e.regs[x] /\ r = u[d]
      <4>1. PICK d \in DstsIn(J, W) : d \in e.regs[x] /\ r = u[d]
        BY <3>2
      <4>2. d \in W /\ d \in def(J) /\ d \notin PhysRegs
        BY <4>1, <1>1 DEF DstsIn, def
      <4>3. \E k \in DOMAIN I.dsts : x = I.dsts[k] /\ d = J.dsts[k]
        BY <4>1, <4>2, <2>3, <1>1
      <4> QED
        BY <4>1, <4>2, <4>3, <2>1, <2>2
    <3> QED
      BY <3>1, <3>2, <1>4 DEF Delivered
  <2>5. ASSUME NEW x \in Regs, NEW v \in y.slots[x] PROVE x \notin def(I) /\ v \in z.slots[x]
    <3>1. CASE v \in e.slots[x]
      BY <3>1, <2>3, <1>2
    <3>2. CASE v \in e.regs[x] /\ v \in W /\ v \notin DstsIn(J, W)
      <4>1. v \notin PhysRegs /\ \A k \in DOMAIN J.dsts : v # J.dsts[k]
        BY <3>2, <2>2, <1>1
      <4>2. x \notin def(I) /\ v \in a.regs[x]
        BY <4>1, <3>2, <2>1, <2>3, <1>1
      <4> QED
        BY <4>2, <3>2, <1>2
    <3> QED
      BY <3>1, <3>2, <1>4 DEF Delivered
  <2>6. y.p = e.p
    BY <1>4 DEF Delivered
  <2> QED
    BY <2>4, <2>5, <2>6, <1>4 DEF AfterBoth
<1> QED
  BY <1>3, <1>4 DEF OtherFollows

\* The instruction itself, after its loads.
LEMMA SpilledFetched ==
  ASSUME NEW G, NEW H, NEW H2, NEW R, NEW S, NEW W, NEW at, NEW t, NEW u,
         Spills(G, H, H2, R, S, W, at, t, u), NEW a \in R, NEW q, q = a.q, NEW J, J = At(H, q),
         NEW l, l = Len(Loads(J, W)), NEW z, z = Loading(H, W, at, t, a, l)
  PROVE  /\ Replaces(J, W, t[q], u[q], At(H2, z.q)) /\ Fetched(J, W, t[q], a, z)
         /\ z.q = <<q[1], at[q] + l>> /\ at[q] \in Nat \ {0} /\ l \in Nat
<1>1. q \in Points(H)
  BY SpillsPoint
<1>2. /\ J \in Instr /\ Plain(J) /\ SplicedAt(J, W, H2, q[1], at[q], t[q], u[q])
      /\ Loads(J, W) \in Seq(SrcsIn(J, W)) /\ l \in Nat
      /\ \A v \in SrcsIn(J, W) : \E k \in 1 .. l : Loads(J, W)[k] = v
      /\ \A y \in use(J) \cup def(J) : y \in PhysRegs \/ y \in W
  BY <1>1, SpillsAt
<1>3. LoadsTo(G, H, H2, S, W, at, t, a, l, z)
  <2>1. l \in 0 .. Len(Loads(At(H, a.q), W))
    BY <1>2
  <2> QED
    BY <2>1, LoadingPoint
<1>4. /\ z.p = a.p /\ z.q = <<q[1], at[q] + l>>
      /\ \A x \in Regs : z.slots[x] = a.slots[x] \cup (a.regs[x] \cap W)
      /\ \A x \in Regs : \A y : y \in z.regs[x] <=>
           \/ y \in a.regs[x] /\ y \in PhysRegs
           \/ \E k \in 1 .. l : Loads(J, W)[k] \in a.regs[x] /\ y = t[q][Loads(J, W)[k]]
  BY <1>3 DEF LoadsTo
<1>5. /\ At(H2, z.q) = Rename(J, t[q], u[q]) /\ at[q] \in Nat \ {0}
      /\ DOMAIN t[q] = SrcsIn(J, W) /\ DOMAIN u[q] = DstsIn(J, W)
      /\ \A d \in DstsIn(J, W) : u[q][d] \notin PhysRegs
      /\ (\A v \in DOMAIN t[q] : t[q][v] \in Regs) /\ (\A v \in DOMAIN u[q] : u[q][v] \in Regs)
  <2>1. /\ at[q] \in Nat \ {0} /\ At(H2, <<q[1], at[q] + l>>) = Rename(J, t[q], u[q])
        /\ t[q] \in [SrcsIn(J, W) -> VirtRegs \ W] /\ u[q] \in [DstsIn(J, W) -> VirtRegs \ W]
    BY <1>2 DEF SplicedAt
  <2> QED
    BY <2>1, <1>4, RegsAssumption DEF Regs
<1>6. Replaces(J, W, t[q], u[q], At(H2, z.q))
  <2> DEFINE K == At(H2, z.q)
  <2>1. /\ K.srcs = RenameSeq(J.srcs, t[q]) /\ K.dsts = RenameSeq(J.dsts, u[q])
        /\ K.implicitSrcs = J.implicitSrcs /\ K.implicitDsts = J.implicitDsts
        /\ K.coalescent = J.coalescent /\ K.blockOps = J.blockOps /\ K.mem = J.mem
        /\ K.slot = J.slot /\ K.srcs \in Seq(Regs) /\ J.srcs \in Seq(Regs)
    <3>1. K = Rename(J, t[q], u[q])
      BY <1>5
    <3>2. K.slot = J.slot
      BY <3>1, <1>2 DEF Rename, Instr
    <3>3. K \in Instr
      BY <3>1, <1>2, <1>5, RenameFacts
    <3>4. K.srcs \in Seq(Regs) /\ J.srcs \in Seq(Regs)
      BY <3>3, <1>2 DEF Instr
    <3> QED
      BY <3>1, <3>2, <3>4, <1>2, <1>5, RenameFacts
  <2> HIDE DEF K
  <2>2. /\ DOMAIN K.srcs = DOMAIN J.srcs /\ DOMAIN K.dsts = DOMAIN J.dsts
        /\ \A k \in DOMAIN J.srcs : K.srcs[k] = IF J.srcs[k] \in SrcsIn(J, W) THEN t[q][J.srcs[k]] ELSE J.srcs[k]
        /\ \A k \in DOMAIN J.dsts : K.dsts[k] = IF J.dsts[k] \in DstsIn(J, W) THEN u[q][J.dsts[k]] ELSE J.dsts[k]
    <3>1. ASSUME NEW s, NEW m, NEW c, c = RenameSeq(s, m)
          PROVE  /\ DOMAIN c = DOMAIN s
                 /\ \A k \in DOMAIN s : c[k] = IF s[k] \in DOMAIN m THEN m[s[k]] ELSE s[k]
      BY <3>1 DEF RenameSeq
    <3>2. K.srcs = RenameSeq(J.srcs, t[q]) /\ K.dsts = RenameSeq(J.dsts, u[q])
      BY <2>1
    <3>3. DOMAIN K.srcs = DOMAIN J.srcs /\ DOMAIN K.dsts = DOMAIN J.dsts
      BY <3>1, <3>2
    <3>4. ASSUME NEW k \in DOMAIN J.srcs
          PROVE  K.srcs[k] = IF J.srcs[k] \in SrcsIn(J, W) THEN t[q][J.srcs[k]] ELSE J.srcs[k]
      BY <3>2, <1>5 DEF RenameSeq
    <3>5. ASSUME NEW k \in DOMAIN J.dsts
          PROVE  K.dsts[k] = IF J.dsts[k] \in DstsIn(J, W) THEN u[q][J.dsts[k]] ELSE J.dsts[k]
      BY <3>2, <1>5 DEF RenameSeq
    <3> QED
      BY <3>3, <3>4, <3>5
  <2>3. Len(K.srcs) = Len(J.srcs)
    <3>1. /\ Len(K.srcs) \in Nat /\ DOMAIN K.srcs = 1 .. Len(K.srcs)
          /\ Len(J.srcs) \in Nat /\ DOMAIN J.srcs = 1 .. Len(J.srcs)
      BY <2>1
    <3>2. \A i, j \in Nat : 1 .. i = 1 .. j => i = j
      OBVIOUS
    <3> QED
      BY <3>1, <3>2, <2>2
  <2>4. ASSUME NEW k \in DOMAIN J.srcs
        PROVE  IF J.srcs[k] \in W THEN K.srcs[k] = t[q][J.srcs[k]]
               ELSE K.srcs[k] = J.srcs[k] /\ J.srcs[k] \in PhysRegs
    <3>1. J.srcs[k] \in use(J) /\ (J.srcs[k] \in W <=> J.srcs[k] \in SrcsIn(J, W))
      BY DEF use, SrcsIn, Range
    <3> QED
      BY <3>1, <2>2, <1>2
  <2>5. ASSUME NEW k \in DOMAIN J.dsts
        PROVE  IF J.dsts[k] \in W THEN K.dsts[k] = u[q][J.dsts[k]]
               ELSE K.dsts[k] = J.dsts[k] /\ J.dsts[k] \in PhysRegs
    <3>1. J.dsts[k] \in def(J) /\ (J.dsts[k] \in W <=> J.dsts[k] \in DstsIn(J, W))
      BY DEF def, DstsIn, Range
    <3> QED
      BY <3>1, <2>2, <1>2
  <2>6. Replaces(J, W, t[q], u[q], K)
    BY <2>1, <2>2, <2>3, <2>4, <2>5, <1>5 DEF Replaces
  <2> QED
    BY <2>6 DEF K
<1>7. Fetched(J, W, t[q], a, z)
  <2>1. ASSUME NEW x \in Regs, NEW y \in a.regs[x], y \in SrcsIn(J, W) PROVE t[q][y] \in z.regs[x]
    <3>1. PICK k \in 1 .. l : Loads(J, W)[k] = y
      BY <2>1, <1>2
    <3> QED
      BY <3>1, <2>1, <1>4
  <2>2. ASSUME NEW x \in Regs, NEW y \in a.regs[x], y \in PhysRegs PROVE y \in z.regs[x]
    BY <2>2, <1>4
  <2> QED
    BY <2>1, <2>2, <1>4 DEF Fetched
<1> QED
  BY <1>2, <1>4, <1>5, <1>6, <1>7

ArrivedPoints(G, H, H2, R, S, W, at, t, u) ==
  {z \in LockPoints(G, H2, S \cup W) : Arrived(H, R, W, at, t, u, z)}

\* Where the run goes on to: the store of what was written, or the code that follows.
LEMMA SpilledNext ==
  ASSUME NEW G, NEW H, NEW H2, NEW R, NEW S, NEW W, NEW at, NEW t, NEW u,
         Spills(G, H, H2, R, S, W, at, t, u), NEW q \in Points(H), NEW J, J = At(H, q), NEW e \in R,
         e.q = (IF J.blockOps = {} THEN <<q[1], q[2] + 1>> ELSE <<e.p[1], 1>>)
  PROVE  \E y \in ArrivedPoints(G, H, H2, R, S, W, at, t, u) :
           /\ Delivered(J, W, u[q], e, y)
           /\ y.q = (IF J.blockOps = {} THEN <<q[1], (at[q] + Len(Loads(J, W))) + 1>> ELSE <<e.p[1], 1>>)
<1>1. /\ J \in Instr /\ Plain(J) /\ SplicedAt(J, W, H2, q[1], at[q], t[q], u[q]) /\ Len(Loads(J, W)) \in Nat
  BY SpillsAt
<1>2. e.q \in Points(H)
  BY SpillsPoint
<1>3. W \in SUBSET VirtRegs /\ IsFunction(H) /\ Spliced(H, H2, W, at, t, u)
  BY DEF Spills
<1>4. CASE DstsIn(J, W) # {}
  <2>1. PICK d : d \in DstsIn(J, W)
    BY <1>4
  <2>2. PICK y : y = Storing(H, W, at, u, e, q)
    OBVIOUS
  <2>3. d \in DstsIn(At(H, q), W)
    BY <2>1
  <2>4. StoresTo(G, H, H2, S, W, at, u, e, q, d, y)
    BY <2>2, <2>3, StoringPoint
  <2>5. J.blockOps = {}
    <3>1. \E k \in DOMAIN J.dsts : J.dsts[k] = d
      BY <2>1 DEF DstsIn, Range
    <3>2. J.dsts # <<>>
      BY <3>1
    <3> QED
      BY <3>2, <1>1 DEF Plain
  <2>6. e.q = <<q[1], q[2] + 1>>
    BY <2>5
  <2>7. Arrived(H, R, W, at, t, u, y)
    BY <2>2, <2>6, <1>4 DEF Arrived
  <2>8. /\ y \in LockPoints(G, H2, S \cup W) /\ y.p = e.p
        /\ y.q = <<q[1], at[q] + Len(Loads(J, W)) + 1>>
        /\ \A x \in Regs : y.slots[x] = e.slots[x] \cup (e.regs[x] \cap (W \ {d}))
        /\ \A x \in Regs : \A r : r \in y.regs[x] <=>
             \/ r \in e.regs[x] /\ r \in PhysRegs
             \/ d \in e.regs[x] /\ r = u[q][d]
        /\ J.dsts[1] = d /\ DOMAIN J.dsts = {1}
    BY <2>4 DEF StoresTo
  <2>9. DstsIn(J, W) = {d}
    BY <2>1, <2>8 DEF DstsIn, Range
  <2>10. Delivered(J, W, u[q], e, y)
    BY <2>8, <2>9 DEF Delivered
  <2>11. y \in ArrivedPoints(G, H, H2, R, S, W, at, t, u)
    BY <2>7, <2>8 DEF ArrivedPoints
  <2> QED
    BY <2>5, <2>8, <2>10, <2>11
<1>5. CASE DstsIn(J, W) = {}
  <2>1. PICK y : y = Loading(H, W, at, t, e, 0)
    OBVIOUS
  <2>2. 0 \in 0 .. Len(Loads(At(H, e.q), W))
    BY <1>2, SpillsAt
  <2>3. LoadsTo(G, H, H2, S, W, at, t, e, 0, y)
    BY <2>1, <2>2, LoadingPoint
  <2>4. Arrived(H, R, W, at, t, u, y)
    BY <2>1, <2>2 DEF Arrived
  <2>5. /\ y \in LockPoints(G, H2, S \cup W) /\ y.p = e.p /\ y.q = <<e.q[1], at[e.q] + 0>>
        /\ \A x \in Regs : y.slots[x] = e.slots[x] \cup (e.regs[x] \cap W)
        /\ \A x \in Regs : \A r : r \in y.regs[x] <=>
             \/ r \in e.regs[x] /\ r \in PhysRegs
             \/ \E k \in 1 .. 0 : Loads(At(H, e.q), W)[k] \in e.regs[x]
                                  /\ r = t[e.q][Loads(At(H, e.q), W)[k]]
    BY <2>3 DEF LoadsTo
  <2>6. \A x \in Regs : \A r : r \in y.regs[x] <=> r \in e.regs[x] /\ r \in PhysRegs
    BY <2>5
  <2>7. Delivered(J, W, u[q], e, y)
    BY <2>5, <2>6, <1>5 DEF Delivered
  <2>8. y \in ArrivedPoints(G, H, H2, R, S, W, at, t, u)
    BY <2>4, <2>5 DEF ArrivedPoints
  <2>9. CASE J.blockOps = {}
    <3>1. e.q = <<q[1], q[2] + 1>>
      BY <2>9
    <3>2. q[2] < Len(H.code[q[1]])
      <4>1. e.q[1] = q[1] /\ e.q[2] = q[2] + 1 /\ e.q[2] \in 1 .. Len(H.code[e.q[1]])
            /\ q[2] \in 1 .. Len(H.code[q[1]]) /\ q[1] \in BlocksOf(H)
        BY <3>1, <1>2, <1>3, PointFacts
      <4>2. Len(H.code[q[1]]) \in Nat
        BY <4>1, <1>3, FunctionFacts
      <4> QED
        BY <4>1, <4>2
    <3>3. at[e.q] = at[q] + Size(J, W)
      BY <3>1, <3>2, <1>3 DEF Spliced
    <3>4. Size(J, W) = Len(Loads(J, W)) + 1 + 0
      BY <1>5 DEF Size
    <3>5. at[q] \in Nat
      BY <1>1 DEF SplicedAt
    <3>6. at[e.q] + 0 = (at[q] + Len(Loads(J, W))) + 1 /\ e.q[1] = q[1]
      BY <3>1, <3>3, <3>4, <3>5, <1>1
    <3> QED
      BY <3>6, <2>5, <2>7, <2>8, <2>9
  <2>10. CASE J.blockOps # {}
    <3>1. e.q = <<e.p[1], 1>> /\ e.q[2] = 1 /\ e.q[1] = e.p[1]
      BY <2>10
    <3>2. at[e.q] = 1
      BY <3>1, <1>2, <1>3 DEF Spliced
    <3>3. y.q = <<e.p[1], 1>>
      BY <3>1, <3>2, <2>5
    <3> QED
      BY <3>3, <2>7, <2>8, <2>10
  <2> QED
    BY <2>9, <2>10
<1> QED
  BY <1>4, <1>5

\* The run of the spilled function goes on from the instruction to its store or to the
\* loads of the next.
LEMMA SpilledGoesOn ==
  ASSUME NEW G, NEW H, NEW H2, NEW R, NEW S, NEW W, NEW at, NEW t, NEW u,
         Spills(G, H, H2, R, S, W, at, t, u), NEW a \in R, NEW q, q = a.q, NEW J, J = At(H, q),
         NEW l, l = Len(Loads(J, W)), NEW z, z = Loading(H, W, at, t, a, l),
         NEW T, T = ArrivedPoints(G, H, H2, R, S, W, at, t, u)
  PROVE  GoesOn(G, H2, T, z)
<1>1. /\ q \in Points(H) /\ a.p \in Points(G) /\ q[1] = a.p[1] /\ GoesOn(G, H, R, a)
  BY SpillsPoint
<1>2. J \in Instr /\ Plain(J) /\ J.srcs \in Seq(Regs) /\ J.dsts \in Seq(Regs) /\ J.mem \in {"none", "load", "store"}
  BY <1>1, SpillsAt DEF Instr
<1>3. W \in SUBSET VirtRegs /\ IsFunction(G) /\ SlotsIn(H) \cap W = {}
  BY DEF Spills
<1>k. PICK K : K = At(H2, z.q)
  OBVIOUS
<1>m. PICK tq, uq : tq = t[q] /\ uq = u[q]
  OBVIOUS
<1>4. Replaces(J, W, t[q], u[q], At(H2, z.q)) /\ Fetched(J, W, t[q], a, z)
      /\ z.q = <<q[1], at[q] + l>> /\ at[q] \in Nat \ {0} /\ l \in Nat
  BY SpilledFetched
<1>5. Replaces(J, W, tq, uq, K) /\ Fetched(J, W, tq, a, z)
  BY <1>4, <1>k, <1>m
<1>6. K.mem = J.mem /\ z.p = a.p
  BY <1>5 DEF Replaces, Fetched
<1>7. ASSUME NEW e \in R, e.q = (IF J.blockOps = {} THEN <<q[1], q[2] + 1>> ELSE <<e.p[1], 1>>)
      PROVE  \E y \in T : /\ Delivered(J, W, uq, e, y)
                          /\ y.q = (IF J.blockOps = {} THEN <<z.q[1], z.q[2] + 1>> ELSE <<e.p[1], 1>>)
  <2>1. PICK y \in ArrivedPoints(G, H, H2, R, S, W, at, t, u) :
           /\ Delivered(J, W, u[q], e, y)
           /\ y.q = (IF J.blockOps = {} THEN <<q[1], (at[q] + Len(Loads(J, W))) + 1>> ELSE <<e.p[1], 1>>)
    BY <1>1, <1>7, SpilledNext
  <2>2. z.q[1] = q[1] /\ z.q[2] + 1 = (at[q] + Len(Loads(J, W))) + 1
    BY <1>4
  <2> QED
    BY <2>1, <2>2, <1>m
<1>8. CASE J.mem = "load"
  <2>1. PICK e \in R : AfterLoad(J, a, e)
    BY <1>1, <1>8 DEF GoesOn
  <2>2. J.blockOps = {}
    BY <1>2, <1>8 DEF Plain
  <2>3. e.q = <<q[1], q[2] + 1>>
    BY <2>1 DEF AfterLoad
  <2>4. PICK y \in T : Delivered(J, W, uq, e, y) /\ y.q = <<z.q[1], z.q[2] + 1>>
    BY <2>2, <2>3, <1>7
  <2>5. AfterLoad(K, z, y)
    BY <2>1, <2>4, <1>2, <1>3, <1>5, <1>8, LoadReplaced
  <2> QED
    BY <2>5, <1>6, <1>8, <1>k DEF GoesOn
<1>9. CASE J.mem = "store"
  <2>1. PICK e \in R : AfterStore(J, a, e)
    BY <1>1, <1>9 DEF GoesOn
  <2>2. J.blockOps = {}
    BY <1>2, <1>9 DEF Plain
  <2>3. e.q = <<q[1], q[2] + 1>>
    BY <2>1 DEF AfterStore
  <2>4. PICK y \in T : Delivered(J, W, uq, e, y) /\ y.q = <<z.q[1], z.q[2] + 1>>
    BY <2>2, <2>3, <1>7
  <2>5. J.slot \notin W
    BY <1>1, <1>3, <1>9 DEF SlotsIn
  <2>6. AfterStore(K, z, y)
    BY <2>1, <2>4, <2>5, <1>2, <1>3, <1>5, <1>9, StoreReplaced
  <2> QED
    BY <2>6, <1>6, <1>9, <1>k DEF GoesOn
<1>10. CASE J.mem = "none"
  <2>i. PICK I : I = At(G, a.p)
    OBVIOUS
  <2>1. /\ ReadsAlike(I, J, a)
        /\ \A p \in NextPoints(G, a.p) : \E e \in R : e.p = p /\ AfterBoth(I, J, a, e)
    BY <2>i, <1>1, <1>10 DEF GoesOn
  <2>2. I \in Instr
    BY <2>i, <1>1, <1>3, InstrAt
  <2>3. I.blockOps = J.blockOps
    BY <2>1 DEF ReadsAlike
  <2>4. ReadsAlike(I, K, z) /\ OtherFollows(I, J, K, W, uq, a, z)
    BY <2>1, <2>2, <1>2, <1>3, <1>5, OtherReplaced
  <2>5. ASSUME NEW p \in NextPoints(G, z.p) PROVE \E y \in T : y.p = p /\ AfterBoth(I, K, z, y)
    <3>1. p \in NextPoints(G, a.p)
      BY <1>6
    <3>2. PICK e \in R : e.p = p /\ AfterBoth(I, J, a, e)
      BY <3>1, <2>1
    <3>3. e.q = IF J.blockOps = {} THEN <<q[1], q[2] + 1>> ELSE <<e.p[1], 1>>
      BY <3>2, <2>3 DEF AfterBoth
    <3>4. PICK y \in T : /\ Delivered(J, W, uq, e, y)
                         /\ y.q = (IF J.blockOps = {} THEN <<z.q[1], z.q[2] + 1>> ELSE <<e.p[1], 1>>)
      BY <3>3, <1>7
    <3>5. AfterBoth(I, K, z, y)
      BY <3>2, <3>4, <2>3, <2>4 DEF OtherFollows
    <3>6. y.p = p
      BY <3>2, <3>4 DEF Delivered
    <3> QED
      BY <3>5, <3>6
  <2> QED
    BY <2>i, <2>4, <2>5, <1>6, <1>10, <1>k DEF GoesOn
<1> QED
  BY <1>2, <1>8, <1>9, <1>10

LEMMA SimulatesSpilled ==
  ASSUME NEW G, NEW H, NEW H2, NEW R, NEW S, NEW W, NEW at, NEW t, NEW u,
         Spills(G, H, H2, R, S, W, at, t, u)
  PROVE  \E R2 : Simulates(G, H2, R2, S \cup W)
<1>t. PICK T : T = ArrivedPoints(G, H, H2, R, S, W, at, t, u)
  OBVIOUS
<1>1. T \subseteq LockPoints(G, H2, S \cup W) /\ \A z \in T : Arrived(H, R, W, at, t, u, z)
  BY <1>t DEF ArrivedPoints
<1>2. /\ IsFunction(H) /\ W \in SUBSET VirtRegs /\ Spliced(H, H2, W, at, t, u)
      /\ \E a \in R : Starts(G, a)
  BY DEF Spills, Simulates
<1>3. ASSUME NEW z \in T PROVE z.q[1] = z.p[1] /\ GoesOn(G, H2, T, z)
  <2>1. CASE \E a \in R : \E j \in 0 .. Len(Loads(At(H, a.q), W)) : z = Loading(H, W, at, t, a, j)
    <3>1. PICK a \in R : \E j \in 0 .. Len(Loads(At(H, a.q), W)) : z = Loading(H, W, at, t, a, j)
      BY <2>1
    <3>2. PICK q, J : q = a.q /\ J = At(H, q)
      OBVIOUS
    <3>3. PICK l : l = Len(Loads(J, W))
      OBVIOUS
    <3>4. PICK j \in 0 .. l : z = Loading(H, W, at, t, a, j)
      BY <3>1, <3>2, <3>3
    <3>5. q \in Points(H) /\ q[1] = a.p[1]
      BY <3>2, SpillsPoint
    <3>6. l \in Nat
      BY <3>2, <3>3, <3>5, SpillsAt
    <3>7. j \in 0 .. Len(Loads(At(H, a.q), W))
      BY <3>2, <3>3
    <3>8. LoadsTo(G, H, H2, S, W, at, t, a, j, z)
      BY <3>4, <3>7, LoadingPoint
    <3>9. z.q[1] = z.p[1]
      BY <3>2, <3>5, <3>8 DEF LoadsTo
    <3>10. CASE j = l
      <4>1. z = Loading(H, W, at, t, a, l)
        BY <3>4, <3>10
      <4> QED
        BY <4>1, <3>2, <3>3, <3>9, <1>t, SpilledGoesOn
    <3>11. CASE j # l
      <4>1. j \in Nat /\ j < Len(Loads(At(H, a.q), W)) /\ j + 1 \in 0 .. l
        BY <3>2, <3>3, <3>6, <3>11
      <4>2. PICK i : i = j + 1
        OBVIOUS
      <4>3. PICK y : y = Loading(H, W, at, t, a, i)
        OBVIOUS
      <4>4. At(H2, z.q).mem = "load" /\ AfterLoad(At(H2, z.q), z, y)
        BY <3>4, <4>1, <4>2, <4>3, LoadingGoesOn
      <4>5. i \in 0 .. Len(Loads(At(H, a.q), W))
        BY <3>2, <3>3, <4>1, <4>2
      <4>6. LoadsTo(G, H, H2, S, W, at, t, a, i, y)
        BY <4>3, <4>5, LoadingPoint
      <4>7. y \in LockPoints(G, H2, S \cup W)
        BY <4>6 DEF LoadsTo
      <4>8. Arrived(H, R, W, at, t, u, y)
        BY <4>3, <4>5 DEF Arrived
      <4>9. y \in T
        BY <4>7, <4>8, <1>t DEF ArrivedPoints
      <4> QED
        BY <4>4, <4>9, <3>9 DEF GoesOn
    <3> QED
      BY <3>10, <3>11
  <2>2. CASE \E e \in R : \E q \in Points(H) :
               e.q = <<q[1], q[2] + 1>> /\ DstsIn(At(H, q), W) # {} /\ z = Storing(H, W, at, u, e, q)
    <3>1. PICK e \in R : \E q \in Points(H) :
               e.q = <<q[1], q[2] + 1>> /\ DstsIn(At(H, q), W) # {} /\ z = Storing(H, W, at, u, e, q)
      BY <2>2
    <3>2. PICK q \in Points(H) :
               e.q = <<q[1], q[2] + 1>> /\ DstsIn(At(H, q), W) # {} /\ z = Storing(H, W, at, u, e, q)
      BY <3>1
    <3>3. PICK d : d \in DstsIn(At(H, q), W)
      BY <3>2
    <3>4. StoresTo(G, H, H2, S, W, at, u, e, q, d, z)
      BY <3>2, <3>3, StoringPoint
    <3>5. e.q \in Points(H) /\ e.q[1] = e.p[1]
      BY SpillsPoint
    <3>6. z.q[1] = z.p[1]
      BY <3>2, <3>4, <3>5 DEF StoresTo
    <3>7. PICK y : y = Loading(H, W, at, t, e, 0)
      OBVIOUS
    <3>8. 0 \in 0 .. Len(Loads(At(H, e.q), W))
      BY <3>5, SpillsAt
    <3>9. At(H2, z.q).mem = "store" /\ AfterStore(At(H2, z.q), z, y)
      BY <3>2, <3>3, <3>7, StoringGoesOn
    <3>10. LoadsTo(G, H, H2, S, W, at, t, e, 0, y)
      BY <3>7, <3>8, LoadingPoint
    <3>11. y \in LockPoints(G, H2, S \cup W)
      BY <3>10 DEF LoadsTo
    <3>12. Arrived(H, R, W, at, t, u, y)
      BY <3>7, <3>8 DEF Arrived
    <3>13. y \in T
      BY <3>11, <3>12, <1>t DEF ArrivedPoints
    <3> QED
      BY <3>6, <3>9, <3>13 DEF GoesOn
  <2> QED
    BY <2>1, <2>2, <1>1 DEF Arrived
<1>4. \E z \in T : Starts(G, z)
  <2>1. PICK a \in R : Starts(G, a)
    BY <1>2
  <2>2. a.q \in Points(H)
    BY SpillsPoint
  <2>3. 0 \in 0 .. Len(Loads(At(H, a.q), W))
    BY <2>2, SpillsAt
  <2>4. PICK z : z = Loading(H, W, at, t, a, 0)
    OBVIOUS
  <2>5. LoadsTo(G, H, H2, S, W, at, t, a, 0, z)
    BY <2>3, <2>4, LoadingPoint
  <2>6. Arrived(H, R, W, at, t, u, z)
    BY <2>3, <2>4 DEF Arrived
  <2>7. z \in T
    BY <2>5, <2>6, <1>t DEF ArrivedPoints, LoadsTo
  <2>8. at[a.q] = 1
    BY <2>1, <2>2, <1>2 DEF Starts, Spliced
  <2>9. \A k : k \notin 1 .. 0
    OBVIOUS
  <2>10. /\ z.p = a.p /\ z.q = <<a.q[1], 1 + 0>>
         /\ \A x \in Regs : z.slots[x] = a.slots[x] \cup (a.regs[x] \cap W)
         /\ \A x \in Regs : \A y \in z.regs[x] : y \in a.regs[x]
    BY <2>5, <2>8, <2>9 DEF LoadsTo
  <2>11. /\ a.p = <<Entry(G), 1>> /\ PhysRegs \subseteq Regs
         /\ \A x \in PhysRegs : a.slots[x] = {} /\ \A y \in a.regs[x] : y = x
    BY <2>1 DEF Starts, Regs
  <2>12. \A x \in PhysRegs : z.slots[x] = {}
    BY <2>10, <2>11, <1>2, RegsAssumption
  <2>13. Starts(G, z)
    BY <2>10, <2>11, <2>12 DEF Starts
  <2> QED
    BY <2>7, <2>13
<1> QED
  BY <1>1, <1>3, <1>4 DEF Simulates

\* Some relation shows that H simulates G; nothing is in slots named by registers of N.
Simulable(G, H, N) ==
  \E R, S : Simulates(G, H, R, S) /\ S \subseteq VirtRegs /\ S \cap N = {}

LEMMA SimulableRenamed ==
  ASSUME NEW G, IsFunction(G), IsCode(G), NEW H, IsFunction(H), IsPlain(H), NEW N,
         Simulable(G, H, N), NEW m, IsRenaming(m), KeepsOverlapApart(H, m),
         NEW H2, H2 = [H EXCEPT !.code = RenameAll(H, m)]
  PROVE  Simulable(G, H2, N)
<1>1. PICK R, S : Simulates(G, H, R, S) /\ S \subseteq VirtRegs /\ S \cap N = {}
  BY DEF Simulable
<1>2. \E R2 : Simulates(G, H2, R2, S)
  BY <1>1, SimulatesRenamed
<1> QED
  BY <1>1, <1>2 DEF Simulable

LEMMA SimulableSpilled ==
  ASSUME NEW G, IsFunction(G), IsCode(G), NEW H, IsFunction(H), IsPlain(H), NEW N,
         Simulable(G, H, N), NEW W \in SUBSET VirtRegs, W \subseteq N, VirtRegsOf(H) \subseteq W,
         SlotsIn(H) \cap W = {}, NEW o, NEW n \in Nat, n > Len(LayoutPoints(H)),
         Rewritten(H, o, n, SpillPieces(H, W)), NEW H2, H2 = [H EXCEPT !.code = o],
         NEW N2, N2 \subseteq N \ W
  PROVE  Simulable(G, H2, N2)
<1>1. PICK R, S : Simulates(G, H, R, S) /\ S \subseteq VirtRegs /\ S \cap N = {}
  BY DEF Simulable
<1>2. IsFunction(H2)
  BY SpilledFunction
<1>3. \E at, t, u : Spliced(H, H2, W, at, t, u)
  BY SplicedExists
<1>4. PICK at, t, u : Spliced(H, H2, W, at, t, u)
  BY <1>3
<1>5. Spills(G, H, H2, R, S, W, at, t, u)
  BY <1>1, <1>2, <1>4 DEF Spills
<1>6. \E R2 : Simulates(G, H2, R2, S \cup W)
  BY <1>5, SimulatesSpilled
<1>7. (S \cup W) \subseteq VirtRegs /\ (S \cup W) \cap N2 = {}
  BY <1>1
<1> QED
  BY <1>6, <1>7 DEF Simulable

\* The function of the round runs in lockstep with the one that was given; registers that
\* may still be spilled have no slot.
SimInv == original \in Funcs /\ Simulable(original, F, regs \cup spilled \cup Fresh)

LEMMA SimulableFewer ==
  ASSUME NEW G, NEW H, NEW N, Simulable(G, H, N), NEW N2, N2 \subseteq N
  PROVE  Simulable(G, H, N2)
BY DEF Simulable

LEMMA OriginalFacts ==
  ASSUME SimInv
  PROVE  IsFunction(original) /\ IsCode(original)
BY FuncsAssumption, CodeAssumption DEF SimInv

LEMMA SimInit == GCInit => SimInv
<1> SUFFICES ASSUME GCInit PROVE SimInv
  OBVIOUS
<1>1. original = F /\ F \in Funcs
  BY DEF GCInit, LVInit, Start
<1>2. PICK G : G = F
  OBVIOUS
<1>3. IsFunction(G) /\ IsCode(G)
  BY <1>1, <1>2, FuncsAssumption, CodeAssumption
<1>4. \E R : Simulates(G, G, R, {})
  BY <1>3, SimulatesItself
<1>5. \A N : Simulable(G, G, N)
  BY <1>4 DEF Simulable
<1> QED
  BY <1>1, <1>2, <1>5 DEF SimInv

LEMMA OverlapEdges ==
  ASSUME GCInv, RoundInv, HasGraph, NEW x \in PhysRegs \cup VirtRegsOf(F),
         NEW y \in PhysRegs \cup VirtRegsOf(F), x # y, Overlap(F, x, y)
  PROVE  /\ x \in DOMAIN interference /\ y \in DOMAIN interference
         /\ y \in interference[x] /\ x \in interference[y]
<1>1. x \in regs /\ y \in regs
  BY DEF RoundInv, NamesInv, HasGraph
<1>2. y \in interference[x]
  BY <1>1 DEF RoundInv, ColorsInv, GraphCovers
<1>3. /\ regs \subseteq DOMAIN interference
      /\ \A u \in DOMAIN interference : \A v \in interference[u] : u \in interference[v]
  BY DEF GCInv, CandidatesApart, AreApart, IsGraph
<1> QED
  BY <1>1, <1>2, <1>3

LEMMA MergeSim ==
  ASSUME GCInv, RoundInv, SimInv, step = "coalesce", NEW u \in todo, NEW v \in coalescence[u],
         Merge(u, v), UNCHANGED <<original, spilled, made>>
  PROVE  SimInv'
<1>1. /\ AreApart(interference, coalescence, regs) /\ u \in DOMAIN interference
      /\ u \in regs /\ u \in VirtRegs
  BY DEF GCInv, CandidatesApart, HasGraph, RoundInv, ColorsInv
<1>2. u # v /\ v \in regs /\ v \notin interference[u]
  BY <1>1 DEF AreApart, IsGraph
<1>3. PICK m : m = [x \in {u} |-> v]
  OBVIOUS
<1>4. IsRenaming(m) /\ \A x : Renamed(m, x) = IF x = u THEN v ELSE x
  BY <1>1, <1>2, <1>3 DEF RoundInv, NamesInv, IsRenaming, Renamed
<1>5. KeepsOverlapApart(F, m)
  <2> SUFFICES ASSUME NEW x \in PhysRegs \cup VirtRegsOf(F), NEW y \in PhysRegs \cup VirtRegsOf(F),
                      x # y, Overlap(F, x, y)
               PROVE  Renamed(m, x) # Renamed(m, y)
    BY DEF KeepsOverlapApart
  <2>1. y \in interference[x] /\ x \in interference[y]
    BY OverlapEdges DEF HasGraph
  <2> QED
    BY <2>1, <1>2, <1>4
<1>6. PICK G, H, N : G = original /\ H = F /\ N = regs \cup spilled \cup Fresh
  OBVIOUS
<1>7. IsFunction(G) /\ IsCode(G)
  BY <1>6, OriginalFacts
<1>8. IsFunction(H) /\ IsPlain(H)
  BY <1>6 DEF RoundInv, CodeInv, LVTypeOK
<1>9. Simulable(G, H, N) /\ KeepsOverlapApart(H, m)
  BY <1>5, <1>6 DEF SimInv
<1>10. PICK H2 : H2 = [H EXCEPT !.code = RenameAll(H, m)]
  OBVIOUS
<1>11. Simulable(G, H2, N)
  BY <1>4, <1>7, <1>8, <1>9, <1>10, SimulableRenamed
<1>12. F' = H2 /\ regs' = regs \ {u} /\ original' = G
  BY <1>3, <1>6, <1>10 DEF Merge
<1>13. PICK N2 : N2 = (regs \cup spilled \cup Fresh)'
  OBVIOUS
<1>14. N2 \subseteq N
  BY <1>6, <1>12, <1>13 DEF Fresh
<1>15. Simulable(G, H2, N2)
  BY <1>11, <1>14, SimulableFewer
<1>16. original' \in Funcs
  BY <1>6, <1>12 DEF SimInv
<1> QED
  BY <1>12, <1>13, <1>15, <1>16 DEF SimInv

LEMMA EndSelectSim ==
  ASSUME GCInv, RoundInv, SimInv, EndSelect
  PROVE  SimInv'
<1>1. /\ step = "simplify"
      /\ F' = [F EXCEPT !.code = RenameAll(F, allocation)]
      /\ regs' = regs \ VirtRegs /\ UNCHANGED <<original, spilled, made>>
  BY DEF EndSelect
<1>2. PICK m : m = allocation
  OBVIOUS
<1>3. IsRenaming(m)
  BY <1>2 DEF RoundInv, ColorsInv, IsRenaming, Regs
<1>4. \A x : Renamed(m, x) = IF x \in DOMAIN allocation THEN allocation[x] ELSE x
  BY <1>2 DEF Renamed
<1>5. KeepsOverlapApart(F, m)
  <2> SUFFICES ASSUME NEW x \in PhysRegs \cup VirtRegsOf(F), NEW y \in PhysRegs \cup VirtRegsOf(F),
                      x # y, Overlap(F, x, y)
               PROVE  Renamed(m, x) # Renamed(m, y)
    BY DEF KeepsOverlapApart
  <2>1. y \in interference[x] /\ x \in interference[y]
    BY <1>1, OverlapEdges DEF HasGraph
  <2>2. \A z \in DOMAIN allocation :
          /\ allocation[z] \notin interference[z]
          /\ \A v \in interference[z] \cap DOMAIN allocation : allocation[v] # allocation[z]
    BY DEF GCInv, ColoringSound
  <2> QED
    BY <2>1, <2>2, <1>4
<1>6. PICK G, H, N : G = original /\ H = F /\ N = regs \cup spilled \cup Fresh
  OBVIOUS
<1>7. IsFunction(G) /\ IsCode(G)
  BY <1>6, OriginalFacts
<1>8. IsFunction(H) /\ IsPlain(H)
  BY <1>6 DEF RoundInv, CodeInv, LVTypeOK
<1>9. Simulable(G, H, N) /\ KeepsOverlapApart(H, m)
  BY <1>5, <1>6 DEF SimInv
<1>10. PICK H2 : H2 = [H EXCEPT !.code = RenameAll(H, m)]
  OBVIOUS
<1>11. Simulable(G, H2, N)
  BY <1>3, <1>7, <1>8, <1>9, <1>10, SimulableRenamed
<1>12. F' = H2 /\ original' = G
  BY <1>1, <1>2, <1>6, <1>10
<1>13. PICK N2 : N2 = (regs \cup spilled \cup Fresh)'
  OBVIOUS
<1>14. N2 \subseteq N
  BY <1>1, <1>6, <1>13 DEF Fresh
<1>15. Simulable(G, H2, N2)
  BY <1>11, <1>14, SimulableFewer
<1>16. original' \in Funcs
  BY <1>6, <1>12 DEF SimInv
<1> QED
  BY <1>12, <1>13, <1>15, <1>16 DEF SimInv

LEMMA EndSpillSim ==
  ASSUME RoundInv, SimInv, EndSpill
  PROVE  SimInv'
<1>1. PICK G, H, N : G = original /\ H = F /\ N = regs \cup spilled \cup Fresh
  OBVIOUS
<1>2. PICK W, o, n : W = spilled /\ o = out /\ n = pos
  OBVIOUS
<1>3. PICK H2 : H2 = [H EXCEPT !.code = o]
  OBVIOUS
<1>4. /\ step = "spill" /\ n > Len(LayoutPoints(H)) /\ F' = H2 /\ spilled' = {}
      /\ UNCHANGED <<original, regs, made>>
  BY <1>1, <1>2, <1>3 DEF EndSpill, graphVars, spillVars
<1>5. IsFunction(G) /\ IsCode(G)
  BY <1>1, OriginalFacts
<1>6. IsFunction(H) /\ IsPlain(H)
  BY <1>1 DEF RoundInv, CodeInv, LVTypeOK
<1>7. Simulable(G, H, N)
  BY <1>1 DEF SimInv
<1>8. n \in Nat /\ Rewritten(H, o, n, SpillPieces(H, W))
  BY <1>1, <1>2, <1>4 DEF RoundInv, SpillInv
<1>9. /\ W \in SUBSET VirtRegs /\ VirtRegsOf(H) \subseteq W /\ SlotsIn(H) \cap W = {}
      /\ regs \cap W = {} /\ Fresh \cap W = {}
  BY <1>1, <1>2, <1>4 DEF RoundInv, NamesInv
<1>10. PICK N2 : N2 = (regs \cup spilled \cup Fresh)'
  OBVIOUS
<1>11. W \subseteq N /\ N2 \subseteq N \ W
  <2>1. Fresh' = Fresh
    BY <1>4 DEF Fresh
  <2> QED
    BY <2>1, <1>1, <1>2, <1>4, <1>9, <1>10
<1>12. Simulable(G, H2, N2)
  BY <1>3, <1>4, <1>5, <1>6, <1>7, <1>8, <1>9, <1>11, SimulableSpilled
<1>13. original' = G /\ original' \in Funcs
  BY <1>1, <1>4 DEF SimInv
<1> QED
  BY <1>4, <1>10, <1>12, <1>13 DEF SimInv

\* The other steps leave the function alone and add no name that is not fresh.
LEMMA KeepsSim ==
  ASSUME SimInv, UNCHANGED <<F, original>>,
         (regs \cup spilled \cup Fresh)' \subseteq regs \cup spilled \cup Fresh
  PROVE  SimInv'
<1>1. PICK G, H, N : G = original /\ H = F /\ N = regs \cup spilled \cup Fresh
  OBVIOUS
<1>2. PICK N2 : N2 = (regs \cup spilled \cup Fresh)'
  OBVIOUS
<1>3. Simulable(G, H, N) /\ N2 \subseteq N
  BY <1>1, <1>2 DEF SimInv
<1>4. Simulable(G, H, N2)
  BY <1>3, SimulableFewer
<1> QED
  BY <1>1, <1>2, <1>4 DEF SimInv

LEMMA SimStep == GCInv /\ RoundInv /\ SimInv /\ [GCNext]_vars => SimInv'
<1> SUFFICES ASSUME GCInv, RoundInv, SimInv, [GCNext]_vars PROVE SimInv'
  OBVIOUS
<1>1. CASE UNCHANGED <<F, original, regs, spilled, made>>
  <2>1. (regs \cup spilled \cup Fresh)' \subseteq regs \cup spilled \cup Fresh
    BY <1>1 DEF Fresh
  <2> QED
    BY <2>1, <1>1, KeepsSim
<1>2. CASE UNCHANGED vars
  BY <1>1, <1>2 DEF vars, lvVars, gcVars, graphVars, colorVars, spillVars
<1>3. CASE Analyse
  <2>1. F' = F
    BY <1>3 DEF Analyse, LVNext, VisitBlock, EndSweep, VisitInstruction, NextBlock
  <2> QED
    BY <2>1, <1>1, <1>3 DEF Analyse, gcVars, graphVars, colorVars, spillVars
<1>4. CASE Build
  BY <1>1, <1>4 DEF Build, lvVars, colorVars, spillVars
<1>5. CASE ReadDestroyed
  BY <1>1, <1>5 DEF ReadDestroyed, lvVars, graphVars, colorVars, spillVars
<1>6. CASE Coalesce
  <2>1. /\ step = "coalesce" /\ UNCHANGED <<original, spilled, made>>
        /\ \E u \in todo : \/ \E v \in coalescence[u] : Merge(u, v)
                           \/ UNCHANGED <<F, regs>>
    BY <1>6 DEF Coalesce, lvVars, colorVars, spillVars
  <2>2. CASE UNCHANGED <<F, regs>>
    BY <2>1, <2>2, <1>1
  <2>3. CASE \E u \in todo : \E v \in coalescence[u] : Merge(u, v)
    <3>1. PICK u \in todo : \E v \in coalescence[u] : Merge(u, v)
      BY <2>3
    <3>2. PICK v \in coalescence[u] : Merge(u, v)
      BY <3>1
    <3> QED
      BY <2>1, <3>2, MergeSim
  <2> QED
    BY <2>1, <2>2, <2>3
<1>7. CASE EndCoalescing
  BY <1>1, <1>7 DEF EndCoalescing, lvVars, graphVars, spillVars
<1>8. CASE Simplify
  BY <1>1, <1>8 DEF Simplify, lvVars, graphVars, spillVars
<1>9. CASE Select
  <2>1. /\ step = "simplify" /\ stack # <<>> /\ UNCHANGED <<F, original, regs, made>>
        /\ spilled' = spilled \/ spilled' = spilled \cup {Head(stack)}
    BY <1>9 DEF Select, lvVars, graphVars, spillVars
  <2>2. Head(stack) \in regs
    BY <2>1 DEF GCInv
  <2>3. (regs \cup spilled \cup Fresh)' \subseteq regs \cup spilled \cup Fresh
    BY <2>1, <2>2 DEF Fresh
  <2> QED
    BY <2>1, <2>3, KeepsSim
<1>10. CASE EndSelect
  BY <1>10, EndSelectSim
<1>11. CASE SpillInstruction
  <2>1. UNCHANGED <<F, original, spilled>>
    BY <1>11 DEF SpillInstruction, lvVars, colorVars
  <2>2. (regs \cup Fresh)' \subseteq regs \cup Fresh
    BY <1>11, SpillInstructionRound
  <2> QED
    BY <2>1, <2>2, KeepsSim
<1>12. CASE EndSpill
  BY <1>12, EndSpillSim
<1> QED
  BY <1>2, <1>3, <1>4, <1>5, <1>6, <1>7, <1>8, <1>9, <1>10, <1>11, <1>12 DEF GCNext

-----------------------------------------------------------------------------
(* The execution of the result.                                            *)

\* What a says holds now, up to poison.
HoldsAt(a) ==
  /\ pc = a.p /\ newPc = a.q[2]
  /\ DOMAIN oldRegs = Regs /\ DOMAIN newRegs = PhysRegs /\ DOMAIN slots = VirtRegs
  /\ \A x \in Regs :
       /\ \A y \in a.regs[x] : y \in PhysRegs => Exec!StandsFor(newRegs[y], oldRegs[x])
       /\ \A v \in a.slots[x] : Exec!StandsFor(slots[v], oldRegs[x])

Runs(G, H) ==
  \E R, S : Simulates(G, H, R, S) /\ S \subseteq VirtRegs /\ \E a \in R : HoldsAt(a)

RunInv ==
  /\ step # "done" => Exec!ExecInit
  /\ step = "done" => Exec!Returned \/ Runs(original, F)

LEMMA ExecNames ==
  /\ Exec!Regs = Regs
  /\ \A G : Exec!Entry(G) = Entry(G)
  /\ \A G, p : Exec!At(G, p) = At(G, p)
BY DEF Exec!Regs, Regs, Exec!Entry, Entry, Exec!At, At

\* A value stands for itself.
LEMMA StandsForItself == \A x : Exec!StandsFor(x, x)
BY DEF Exec!StandsFor

LEMMA StartsRun ==
  ASSUME NEW G, NEW H, NEW N, Simulable(G, H, N), IsFunction(H), G = original, Exec!ExecInit
  PROVE  Runs(G, H)
<1>1. PICK R, S : Simulates(G, H, R, S) /\ S \subseteq VirtRegs
  BY DEF Simulable
<1>2. PICK a \in R : Starts(G, a)
  BY <1>1 DEF Simulates
<1>3. /\ a.p = <<Entry(G), 1>> /\ a.q[2] = 1
      /\ \A x \in PhysRegs : a.slots[x] = {} /\ \A y \in a.regs[x] : y = x
  BY <1>2 DEF Starts
<1>4. /\ pc = <<Entry(G), 1>> /\ newPc = 1
      /\ oldRegs = [r \in Regs |-> Exec!InitialValue(r)]
      /\ newRegs = [r \in PhysRegs |-> Exec!InitialValue(r)]
      /\ DOMAIN slots = VirtRegs
  BY ExecNames DEF Exec!ExecInit
<1>5. ASSUME NEW x \in PhysRegs, NEW y \in a.regs[x]
      PROVE  Exec!StandsFor(newRegs[y], oldRegs[x])
  BY <1>3, <1>4, <1>5, StandsForItself DEF Regs
<1>6. \A x \in VirtRegs : \A i : Exec!StandsFor(i, oldRegs[x])
  <2>1. \A x \in VirtRegs : oldRegs[x] \in Exec!Poison
    BY <1>4 DEF Exec!Poison, Regs
  <2> QED
    BY <2>1 DEF Exec!StandsFor
<1>7. HoldsAt(a)
  BY <1>3, <1>4, <1>5, <1>6 DEF HoldsAt, Regs
<1> QED
  BY <1>1, <1>7 DEF Runs

\* At a point of R the run of H, which has no virtual registers left.
LEMMA RunsAt ==
  ASSUME NEW G, NEW H, IsFunction(G), IsFunction(H), IsPlain(H), VirtRegsOf(H) = {},
         NEW R, NEW S, Simulates(G, H, R, S), S \subseteq VirtRegs, NEW a \in R
  PROVE  /\ a.p \in Points(G) /\ a.q \in Points(H) /\ a.q = <<a.p[1], a.q[2]>>
         /\ GoesOn(G, H, R, a)
         /\ At(G, a.p) \in Instr /\ At(H, a.q) \in Instr /\ Plain(At(H, a.q))
         /\ \A y \in use(At(H, a.q)) \cup def(At(H, a.q)) : y \in PhysRegs
         /\ \A x \in Regs : a.slots[x] \subseteq VirtRegs
<1>1. a \in LockPoints(G, H, S) /\ a.q[1] = a.p[1] /\ GoesOn(G, H, R, a)
  BY DEF Simulates
<1>2. /\ a.p \in Points(G) /\ a.q \in Points(H)
      /\ \A x \in Regs : a.slots[x] \subseteq S
  BY <1>1 DEF LockPoints
<1>3. a.q = <<a.p[1], a.q[2]>>
  BY <1>1, <1>2, PointFacts
<1>4. /\ At(G, a.p) \in Instr /\ At(H, a.q) \in Instr /\ Plain(At(H, a.q))
      /\ use(At(H, a.q)) \subseteq Regs /\ def(At(H, a.q)) \subseteq Regs
  BY <1>2, InstrAt DEF IsPlain
<1>5. \A y \in use(At(H, a.q)) \cup def(At(H, a.q)) : y \in PhysRegs
  BY <1>2, <1>4 DEF VirtRegsOf, Regs
<1> QED
  BY <1>1, <1>2, <1>3, <1>4, <1>5

\* Where the run goes.
LEMMA RunsOnTo ==
  ASSUME NEW G, IsFunction(G), IsCode(G), NEW p \in Points(G), NEW n,
         \/ At(G, p).blockOps = {} /\ n = <<p[1], p[2] + 1>>
         \/ \E b \in At(G, p).blockOps : n = <<b, 1>>
  PROVE  n \in NextPoints(G, p) \/ (n[1] = p[1] /\ n[2] > Len(G.code[p[1]]))
<1>1. /\ p[1] \in BlocksOf(G) /\ Len(G.code[p[1]]) \in Nat /\ p[2] \in 1 .. Len(G.code[p[1]])
  BY PointFacts, FunctionFacts
<1>2. CASE At(G, p).blockOps = {} /\ n = <<p[1], p[2] + 1>>
  <2>1. CASE p[2] < Len(G.code[p[1]])
    BY <2>1, <1>2 DEF NextPoints
  <2>2. CASE ~(p[2] < Len(G.code[p[1]]))
    BY <2>2, <1>1, <1>2
  <2> QED
    BY <2>1, <2>2
<1>3. CASE \E b \in At(G, p).blockOps : n = <<b, 1>>
  <2>1. p[2] = Len(G.code[p[1]])
    BY <1>3 DEF IsCode
  <2>2. At(G, p).blockOps = successors(G, p[1])
    BY <2>1 DEF At, successors
  <2> QED
    BY <2>1, <2>2, <1>1, <1>3 DEF NextPoints
<1> QED
  BY <1>2, <1>3

\* Both instructions leave the same in what e says belongs together.
LEMMA RunsBoth ==
  ASSUME NEW I \in Instr, NEW J \in Instr, Len(I.dsts) <= 1, I.implicitDsts # {} => I.dsts = <<>>,
         I.coalescent => Len(I.srcs) = 1,
         \A y \in use(J) : y \in PhysRegs,
         I = At(original, pc), NEW a, NEW e, ReadsAlike(I, J, a), AfterBoth(I, J, a, e), HoldsAt(a),
         NEW value, oldRegs' = Exec!Written(I, oldRegs, value), newRegs' = Exec!Written(J, newRegs, value),
         slots' = slots, pc' = e.p, newPc' = e.q[2]
  PROVE  HoldsAt(e)'
<1>1. /\ DOMAIN I.dsts = DOMAIN J.dsts /\ J.coalescent = I.coalescent /\ J.implicitDsts = I.implicitDsts
      /\ \A k \in DOMAIN I.srcs : k \in DOMAIN J.srcs /\ J.srcs[k] \in a.regs[I.srcs[k]]
  BY DEF ReadsAlike
<1>2. /\ DOMAIN oldRegs = Regs /\ DOMAIN newRegs = PhysRegs /\ DOMAIN slots = VirtRegs
      /\ \A x \in Regs :
           /\ \A y \in a.regs[x] : y \in PhysRegs => Exec!StandsFor(newRegs[y], oldRegs[x])
           /\ \A v \in a.slots[x] : Exec!StandsFor(slots[v], oldRegs[x])
  BY DEF HoldsAt
<1>3. \A x \in Regs :
        /\ \A y \in e.regs[x] :
             \/ x \notin def(I) /\ y \notin def(J) /\ y \in a.regs[x]
             \/ \E k \in DOMAIN I.dsts : x = I.dsts[k] /\ y = J.dsts[k]
             \/ x \in I.implicitDsts /\ y = x
        /\ \A v \in e.slots[x] : x \notin def(I) /\ v \in a.slots[x]
  BY DEF AfterBoth
<1>4. I.dsts \in Seq(Regs) /\ I.srcs \in Seq(Regs)
  BY DEF Instr
<1>5. \A k \in DOMAIN I.dsts : k = 1
  BY <1>4
<1>6. /\ I.coalescent => 1 \in DOMAIN I.srcs /\ I.srcs[1] \in Regs
      /\ I.implicitDsts # {} => DOMAIN I.dsts = {}
  <2>1. ASSUME I.coalescent PROVE 1 \in DOMAIN I.srcs /\ I.srcs[1] \in Regs
    BY <2>1, <1>4
  <2>2. ASSUME I.implicitDsts # {} PROVE DOMAIN I.dsts = {}
    <3>1. I.dsts = <<>>
      BY <2>2
    <3> QED
      BY <3>1
  <2> QED
    BY <2>1, <2>2
<1>7. ASSUME NEW K, K = I \/ K = J, NEW f
      PROVE  LET g == Exec!Written(K, f, value)
             IN  /\ DOMAIN g = DOMAIN f
                 /\ \A r \in DOMAIN f : r \notin def(K) => g[r] = f[r]
                 /\ \A r \in DOMAIN f : r \in K.implicitDsts => g[r] = value[r]
                 /\ \A k \in DOMAIN I.dsts : K.dsts[k] \in DOMAIN f =>
                      g[K.dsts[k]] = IF I.coalescent THEN f[K.srcs[1]] ELSE value[I.dsts[1]]
  <2> DEFINE g == Exec!Written(K, f, value)
  <2>1. /\ DOMAIN g = DOMAIN f
        /\ \A r \in DOMAIN f :
             g[r] = IF \E k \in DOMAIN K.dsts : K.dsts[k] = r
                    THEN IF K.coalescent THEN f[K.srcs[1]]
                         ELSE value[I.dsts[CHOOSE k \in DOMAIN K.dsts : K.dsts[k] = r]]
                    ELSE IF r \in K.implicitDsts THEN value[r] ELSE f[r]
    BY ExecNames DEF Exec!Written
  <2> HIDE DEF g
  <2>2. DOMAIN K.dsts = DOMAIN I.dsts /\ K.coalescent = I.coalescent /\ K.implicitDsts = I.implicitDsts
    BY <1>1, <1>7
  <2>3. ASSUME NEW r \in DOMAIN f, r \notin def(K) PROVE g[r] = f[r]
    <3>1. r \notin K.implicitDsts /\ \A k \in DOMAIN K.dsts : K.dsts[k] # r
      BY <2>3 DEF def, Range
    <3> QED
      BY <3>1, <2>1
  <2>4. ASSUME NEW r \in DOMAIN f, r \in K.implicitDsts PROVE g[r] = value[r]
    <3>1. \A k \in DOMAIN K.dsts : FALSE
      BY <2>2, <2>4, <1>6
    <3> QED
      BY <3>1, <2>1, <2>4
  <2>5. ASSUME NEW k \in DOMAIN I.dsts, K.dsts[k] \in DOMAIN f
        PROVE  g[K.dsts[k]] = IF I.coalescent THEN f[K.srcs[1]] ELSE value[I.dsts[1]]
    <3>1. PICK r : r = K.dsts[k]
      OBVIOUS
    <3>2. \E j \in DOMAIN K.dsts : K.dsts[j] = r
      BY <3>1, <2>2, <2>5
    <3>3. (CHOOSE j \in DOMAIN K.dsts : K.dsts[j] = r) \in DOMAIN K.dsts
      BY <3>2
    <3>4. (CHOOSE j \in DOMAIN K.dsts : K.dsts[j] = r) = 1
      BY <3>3, <2>2, <1>5
    <3>5. g[r] = IF K.coalescent THEN f[K.srcs[1]]
                 ELSE value[I.dsts[CHOOSE j \in DOMAIN K.dsts : K.dsts[j] = r]]
      BY <3>1, <3>2, <2>1, <2>5
    <3>6. g[r] = IF K.coalescent THEN f[K.srcs[1]] ELSE value[I.dsts[1]]
      BY <3>4, <3>5
    <3> QED
      BY <3>1, <3>6, <2>2
  <2> QED
    BY <2>1, <2>3, <2>4, <2>5 DEF g
<1>8. ASSUME NEW x \in Regs, NEW y \in e.regs[x], y \in PhysRegs
      PROVE  Exec!StandsFor(newRegs'[y], oldRegs'[x])
  <2>1. CASE x \notin def(I) /\ y \notin def(J) /\ y \in a.regs[x]
    BY <2>1, <1>2, <1>7, <1>8
  <2>2. CASE \E k \in DOMAIN I.dsts : x = I.dsts[k] /\ y = J.dsts[k]
    <3>1. PICK k \in DOMAIN I.dsts : x = I.dsts[k] /\ y = J.dsts[k]
      BY <2>2
    <3>2. oldRegs'[x] = IF I.coalescent THEN oldRegs[I.srcs[1]] ELSE value[I.dsts[1]]
      BY <3>1, <1>2, <1>7
    <3>3. newRegs'[y] = IF I.coalescent THEN newRegs[J.srcs[1]] ELSE value[I.dsts[1]]
      BY <3>1, <1>2, <1>7, <1>8
    <3>4. CASE I.coalescent
      <4>1. 1 \in DOMAIN J.srcs /\ J.srcs[1] \in a.regs[I.srcs[1]] /\ I.srcs[1] \in Regs
        BY <3>4, <1>1, <1>6
      <4>2. J.srcs[1] \in PhysRegs
        BY <4>1 DEF use, Range
      <4> QED
        BY <4>1, <4>2, <3>2, <3>3, <3>4, <1>2
    <3> QED
      BY <3>2, <3>3, <3>4, StandsForItself
  <2>3. CASE x \in I.implicitDsts /\ y = x
    BY <2>3, <1>1, <1>2, <1>7, <1>8, StandsForItself
  <2> QED
    BY <2>1, <2>2, <2>3, <1>3
<1>9. ASSUME NEW x \in Regs, NEW v \in e.slots[x] PROVE Exec!StandsFor(slots'[v], oldRegs'[x])
  BY <1>2, <1>3, <1>7
<1>10. DOMAIN oldRegs' = Regs /\ DOMAIN newRegs' = PhysRegs /\ DOMAIN slots' = VirtRegs
  BY <1>2, <1>7
<1> QED
  BY <1>8, <1>9, <1>10 DEF HoldsAt

LEMMA RunsStep ==
  ASSUME NEW G, NEW H, IsFunction(G), IsCode(G), IsFunction(H), IsPlain(H), VirtRegsOf(H) = {},
         G = original, H = F, UNCHANGED <<original, F>>, Runs(G, H), Exec!ExecNext(F.code)
  PROVE  Exec!Returned' \/ Runs(G, H)'
<1>1. PICK R, S : Simulates(G, H, R, S) /\ S \subseteq VirtRegs /\ \E a \in R : HoldsAt(a)
  BY DEF Runs
<1>2. PICK a \in R : HoldsAt(a)
  BY <1>1
<1>3. ASSUME NEW e \in R, HoldsAt(e)' PROVE Runs(G, H)'
  BY <1>1, <1>3 DEF Runs
<1>4. PICK I, J : I = At(G, a.p) /\ J = At(H, a.q)
  OBVIOUS
<1>5. /\ a.p \in Points(G) /\ a.q \in Points(H) /\ a.q = <<a.p[1], a.q[2]>>
      /\ GoesOn(G, H, R, a)
      /\ I \in Instr /\ J \in Instr /\ Plain(J)
      /\ \A y \in use(J) \cup def(J) : y \in PhysRegs
      /\ \A x \in Regs : a.slots[x] \subseteq VirtRegs
  BY <1>1, <1>4, RunsAt
<1>6. /\ pc = a.p /\ newPc = a.q[2]
      /\ DOMAIN oldRegs = Regs /\ DOMAIN newRegs = PhysRegs /\ DOMAIN slots = VirtRegs
      /\ \A x \in Regs :
           /\ \A y \in a.regs[x] : y \in PhysRegs => Exec!StandsFor(newRegs[y], oldRegs[x])
           /\ \A v \in a.slots[x] : Exec!StandsFor(slots[v], oldRegs[x])
  BY <1>2 DEF HoldsAt
<1>7. F.code[pc[1]][newPc] = J /\ Exec!At(original, pc) = I
  <2>1. J = H.code[a.q[1]][a.q[2]] /\ a.q[1] = a.p[1]
    <3>1. a.q[1] = a.p[1]
      BY <1>5
    <3>2. J = H.code[a.q[1]][a.q[2]]
      BY <1>4 DEF At
    <3> QED
      BY <3>1, <3>2
  <2>2. F.code[pc[1]][newPc] = J
    BY <2>1, <1>6
  <2>3. Exec!At(original, pc) = At(G, a.p)
    BY <1>6, ExecNames
  <2> QED
    BY <2>2, <2>3, <1>4
<1>8. CASE Exec!SpillCode(F.code)
  <2>1. /\ \/ /\ J.mem = "load"
              /\ newRegs' = [newRegs EXCEPT ![J.dsts[1]] = slots[J.slot]]
              /\ UNCHANGED slots
           \/ /\ J.mem = "store"
              /\ slots' = [slots EXCEPT ![J.slot] = newRegs[J.srcs[1]]]
              /\ UNCHANGED newRegs
        /\ newPc' = newPc + 1
        /\ UNCHANGED <<pc, oldRegs>>
    BY <1>7, <1>8 DEF Exec!SpillCode
  <2>2. CASE J.mem = "load" /\ newRegs' = [newRegs EXCEPT ![J.dsts[1]] = slots[J.slot]] /\ UNCHANGED slots
    <3>1. PICK e \in R : AfterLoad(J, a, e)
      BY <2>2, <1>4, <1>5 DEF GoesOn
    <3>2. /\ e.p = a.p /\ e.q[2] = a.q[2] + 1
          /\ \A x \in Regs :
               /\ \A y \in e.regs[x] : IF y = J.dsts[1] THEN J.slot \in a.slots[x] ELSE y \in a.regs[x]
               /\ \A v \in e.slots[x] : v \in a.slots[x]
      BY <3>1 DEF AfterLoad
    <3>3. \A x \in Regs : \A y \in e.regs[x] : y \in PhysRegs => Exec!StandsFor(newRegs'[y], oldRegs'[x])
      BY <3>2, <2>1, <2>2, <1>6
    <3>4. \A x \in Regs : \A v \in e.slots[x] : Exec!StandsFor(slots'[v], oldRegs'[x])
      BY <3>2, <2>1, <2>2, <1>6
    <3>5. /\ pc' = e.p /\ newPc' = e.q[2]
          /\ DOMAIN oldRegs' = Regs /\ DOMAIN newRegs' = PhysRegs /\ DOMAIN slots' = VirtRegs
      BY <3>2, <2>1, <2>2, <1>6
    <3>6. HoldsAt(e)'
      BY <3>3, <3>4, <3>5 DEF HoldsAt
    <3> QED
      BY <3>6, <1>3
  <2>3. CASE J.mem = "store" /\ slots' = [slots EXCEPT ![J.slot] = newRegs[J.srcs[1]]] /\ UNCHANGED newRegs
    <3>1. PICK e \in R : AfterStore(J, a, e)
      BY <2>3, <1>4, <1>5 DEF GoesOn
    <3>2. /\ e.p = a.p /\ e.q[2] = a.q[2] + 1
          /\ \A x \in Regs :
               /\ \A y \in e.regs[x] : y \in a.regs[x]
               /\ \A v \in e.slots[x] : IF v = J.slot THEN J.srcs[1] \in a.regs[x] ELSE v \in a.slots[x]
      BY <3>1 DEF AfterStore
    <3>3. J.srcs[1] \in PhysRegs /\ J.slot \in VirtRegs
      <4>1. Len(J.srcs) = 1 /\ J.srcs \in Seq(Regs) /\ J.slot \in VirtRegs
        BY <2>3, <1>5 DEF Plain, Instr
      <4>2. J.srcs[1] \in use(J)
        BY <4>1 DEF use, Range
      <4> QED
        BY <4>1, <4>2, <1>5
    <3>4. \A x \in Regs : \A y \in e.regs[x] : y \in PhysRegs => Exec!StandsFor(newRegs'[y], oldRegs'[x])
      BY <3>2, <2>1, <2>3, <1>6
    <3>5. ASSUME NEW x \in Regs, NEW v \in e.slots[x] PROVE Exec!StandsFor(slots'[v], oldRegs'[x])
      BY <3>2, <3>3, <2>1, <2>3, <1>6
    <3>6. /\ pc' = e.p /\ newPc' = e.q[2]
          /\ DOMAIN oldRegs' = Regs /\ DOMAIN newRegs' = PhysRegs /\ DOMAIN slots' = VirtRegs
      BY <3>2, <2>1, <2>3, <1>6
    <3>7. HoldsAt(e)'
      BY <3>4, <3>5, <3>6 DEF HoldsAt
    <3> QED
      BY <3>7, <1>3
  <2> QED
    BY <2>1, <2>2, <2>3
<1>9. CASE Exec!Execute(F.code)
  <2>1. PICK bit \in {0, 1} : LET value == [r \in Exec!Regs |-> <<pc, r, bit>>]
                              IN  /\ oldRegs' = Exec!Written(I, oldRegs, value)
                                  /\ newRegs' = Exec!Written(J, newRegs, value)
    BY <1>7, <1>9 DEF Exec!Execute
  <2>2. PICK value : /\ oldRegs' = Exec!Written(I, oldRegs, value)
                     /\ newRegs' = Exec!Written(J, newRegs, value)
    BY <2>1
  <2>3. /\ J.mem = "none" /\ slots' = slots
        /\ \/ I.blockOps = {} /\ pc' = <<pc[1], pc[2] + 1>> /\ newPc' = newPc + 1
           \/ \E b \in I.blockOps : pc' = <<b, 1>> /\ newPc' = 1
    BY <1>7, <1>9 DEF Exec!Execute
  <2>4. /\ ReadsAlike(I, J, a)
        /\ \A p \in NextPoints(G, a.p) : \E e \in R : e.p = p /\ AfterBoth(I, J, a, e)
    BY <2>3, <1>4, <1>5 DEF GoesOn
  <2>5. PICK n : n = pc'
    OBVIOUS
  <2>6. \/ At(G, a.p).blockOps = {} /\ n = <<a.p[1], a.p[2] + 1>>
        \/ \E b \in At(G, a.p).blockOps : n = <<b, 1>>
    BY <2>3, <2>5, <1>4, <1>6
  <2>7. n \in NextPoints(G, a.p) \/ (n[1] = a.p[1] /\ n[2] > Len(G.code[a.p[1]]))
    BY <2>6, <1>5, RunsOnTo
  <2>8. CASE n[1] = a.p[1] /\ n[2] > Len(G.code[a.p[1]])
    <3>1. Exec!Returned'
      BY <2>5, <2>8 DEF Exec!Returned
    <3> QED
      BY <3>1
  <2>9. CASE n \in NextPoints(G, a.p)
    <3>1. PICK e \in R : e.p = n /\ AfterBoth(I, J, a, e)
      BY <2>4, <2>9
    <3>2. pc' = e.p
      BY <3>1, <2>5
    <3>3. newPc' = e.q[2]
      <4>1. e.q = IF I.blockOps = {} THEN <<a.q[1], a.q[2] + 1>> ELSE <<e.p[1], 1>>
        BY <3>1 DEF AfterBoth
      <4> QED
        BY <4>1, <2>3, <1>6
    <3>4. /\ Len(I.dsts) <= 1 /\ (I.implicitDsts # {} => I.dsts = <<>>)
          /\ (I.coalescent => Len(I.srcs) = 1)
      BY <1>4, <1>5 DEF IsCode
    <3>5. /\ I = At(original, pc) /\ \A y \in use(J) : y \in PhysRegs
      BY <1>4, <1>5, <1>6
    <3>6. HoldsAt(e)'
      BY <3>1, <3>2, <3>3, <3>4, <3>5, <2>2, <2>3, <2>4, <1>2, <1>5, RunsBoth
    <3> QED
      BY <3>6, <1>3
  <2> QED
    BY <2>7, <2>8, <2>9
<1> QED
  BY <1>8, <1>9 DEF Exec!ExecNext

LEMMA RunsReads ==
  ASSUME NEW G, NEW H, IsFunction(G), IsFunction(H), IsPlain(H), VirtRegsOf(H) = {},
         G = original, H = F, Runs(G, H)
  PROVE  Exec!ReadsAgreeAt(F.code)
<1>1. PICK R, S : Simulates(G, H, R, S) /\ S \subseteq VirtRegs /\ \E a \in R : HoldsAt(a)
  BY DEF Runs
<1>2. PICK a \in R : HoldsAt(a)
  BY <1>1
<1>4. PICK I, J : I = At(G, a.p) /\ J = At(H, a.q)
  OBVIOUS
<1>5. /\ a.q = <<a.p[1], a.q[2]>> /\ GoesOn(G, H, R, a) /\ I \in Instr /\ J \in Instr
      /\ \A y \in use(J) \cup def(J) : y \in PhysRegs
  BY <1>1, <1>4, RunsAt
<1>6. /\ pc = a.p /\ newPc = a.q[2]
      /\ \A x \in Regs : \A y \in a.regs[x] : y \in PhysRegs => Exec!StandsFor(newRegs[y], oldRegs[x])
  BY <1>2 DEF HoldsAt
<1>7. F.code[pc[1]][newPc] = J /\ Exec!At(original, pc) = I
  <2>1. J = H.code[a.q[1]][a.q[2]] /\ a.q[1] = a.p[1]
    BY <1>4, <1>5 DEF At
  <2> QED
    BY <2>1, <1>4, <1>6, ExecNames
<1>8. ASSUME J.mem = "none"
      PROVE  /\ J.implicitSrcs = I.implicitSrcs /\ Len(J.srcs) = Len(I.srcs)
             /\ \A k \in DOMAIN I.srcs : Exec!StandsFor(newRegs[J.srcs[k]], oldRegs[I.srcs[k]])
             /\ \A r \in I.implicitSrcs : Exec!StandsFor(newRegs[r], oldRegs[r])
  <2>1. ReadsAlike(I, J, a)
    BY <1>4, <1>5, <1>8 DEF GoesOn
  <2>2. /\ J.implicitSrcs = I.implicitSrcs /\ Len(J.srcs) = Len(I.srcs)
        /\ DOMAIN J.srcs = DOMAIN I.srcs
        /\ \A k \in DOMAIN I.srcs : J.srcs[k] \in a.regs[I.srcs[k]]
        /\ \A r \in I.implicitSrcs : r \in a.regs[r]
    BY <2>1 DEF ReadsAlike
  <2>3. I.srcs \in Seq(Regs) /\ I.implicitSrcs \subseteq PhysRegs /\ PhysRegs \subseteq Regs
    BY <1>5 DEF Instr, Regs
  <2>4. \A k \in DOMAIN I.srcs : I.srcs[k] \in Regs /\ J.srcs[k] \in PhysRegs
    BY <2>2, <2>3, <1>5 DEF use, Range
  <2> QED
    BY <2>2, <2>3, <2>4, <1>6
<1> QED
  BY <1>7, <1>8 DEF Exec!ReadsAgreeAt

GXInv == GCInv /\ RoundInv /\ SimInv /\ RunInv

LEMMA GXStart == GXInit => GXInv
<1>1. GCInit => step # "done"
  BY DEF GCInit
<1> QED
  BY <1>1, GCInitInv, RoundInitInv, SimInit DEF GXInit, GXInv, RunInv

LEMMA GXStep == GXInv /\ [GXNext]_<<vars, execVars>> => GXInv'
<1> SUFFICES ASSUME GXInv, [GXNext]_<<vars, execVars>> PROVE GXInv'
  OBVIOUS
<1>1. GCInv /\ RoundInv /\ SimInv /\ RunInv
  BY DEF GXInv
<1>2. [GCNext]_vars
  BY DEF GXNext, Allocate, Run
<1>3. GCInv' /\ RoundInv' /\ SimInv'
  BY <1>1, <1>2, GCStepInv, RoundStepInv, SimStep
<1>4. PICK G, H, N : G = original /\ H = F' /\ N = (regs \cup spilled \cup Fresh)'
  OBVIOUS
<1>5. original' = G /\ original' \in Funcs /\ Simulable(G, H, N)
  <2>1. original' = original
    BY <1>2 DEF GCNext, Analyse, Build, ReadDestroyed, Coalesce, EndCoalescing, Simplify, Select,
                EndSelect, SpillInstruction, EndSpill, vars, gcVars
  <2> QED
    BY <2>1, <1>3, <1>4 DEF SimInv
<1>6. IsFunction(H) /\ IsPlain(H)
  BY <1>3, <1>4 DEF RoundInv, CodeInv, LVTypeOK
<1>7. IsFunction(G) /\ IsCode(G)
  BY <1>5, FuncsAssumption, CodeAssumption
<1>8. CASE Run
  <2>1. step = "done" /\ Exec!ExecNext(F.code) /\ UNCHANGED <<original, F, step>>
    BY <1>8 DEF Run, vars, lvVars, gcVars
  <2>2. H = F /\ VirtRegsOf(H) = {}
    BY <2>1, <1>1, <1>4 DEF RoundInv, NamesInv
  <2>3. ~Exec!Returned
    BY <2>1 DEF Exec!ExecNext
  <2>4. Runs(G, H)
    BY <2>1, <2>2, <2>3, <1>1, <1>4 DEF RunInv
  <2>5. Exec!Returned' \/ Runs(G, H)'
    BY <2>1, <2>2, <2>4, <1>4, <1>6, <1>7, RunsStep
  <2>6. RunInv'
    BY <2>1, <2>2, <2>5, <1>4 DEF RunInv
  <2> QED
    BY <2>6, <1>3 DEF GXInv
<1>9. CASE UNCHANGED execVars
  <2>1. UNCHANGED <<pc, newPc, oldRegs, newRegs, slots>>
    BY <1>9 DEF execVars
  <2>2. CASE step = "done"
    <3>1. UNCHANGED <<original, F, step>>
      <4>1. ~GCNext
        BY <2>2, <1>1 DEF GCNext, Analyse, Build, ReadDestroyed, Coalesce, EndCoalescing, Simplify, Select,
                EndSelect, SpillInstruction, EndSpill
      <4> QED
        BY <4>1, <1>2 DEF vars, lvVars, gcVars
    <3>2. Exec!Returned' = Exec!Returned
      BY <2>1, <3>1 DEF Exec!Returned
    <3>3. Runs(G, H) => Runs(G, H)'
      BY <2>1 DEF Runs, HoldsAt
    <3> QED
      BY <2>2, <3>1, <3>2, <3>3, <1>1, <1>3, <1>4 DEF RunInv, GXInv
  <2>3. CASE step # "done"
    <3>1. Exec!ExecInit
      BY <2>3, <1>1 DEF RunInv
    <3>2. Exec!ExecInit'
      BY <2>1, <3>1, <1>4, <1>5 DEF Exec!ExecInit
    <3>3. Runs(G, H)'
      <4>1. Runs(G, H)
        BY <3>1, <1>4, <1>5, <1>6, StartsRun
      <4> QED
        BY <4>1, <2>1 DEF Runs, HoldsAt
    <3>4. RunInv'
      BY <3>2, <3>3, <1>4, <1>5 DEF RunInv
    <3> QED
      BY <3>4, <1>3 DEF GXInv
  <2> QED
    BY <2>2, <2>3
<1> QED
  BY <1>8, <1>9 DEF GXNext, Allocate, execVars

LEMMA GXReads ==
  ASSUME GXInv
  PROVE  GXReadsAgree
<1> SUFFICES ASSUME step = "done" PROVE Exec!ReadsAgreeAt(F.code)
  BY DEF GXReadsAgree
<1>1. PICK G, H : G = original /\ H = F
  OBVIOUS
<1>2. /\ IsFunction(G) /\ IsFunction(H) /\ IsPlain(H) /\ VirtRegsOf(H) = {}
  BY <1>1, OriginalFacts DEF GXInv, RoundInv, CodeInv, LVTypeOK, NamesInv
<1>3. CASE Exec!Returned
  BY <1>3 DEF Exec!ReadsAgreeAt
<1>4. CASE Runs(G, H)
  BY <1>1, <1>2, <1>4, RunsReads
<1> QED
  BY <1>1, <1>3, <1>4 DEF GXInv, RunInv

-----------------------------------------------------------------------------
(* The theorems.                                                           *)

(* In every round the liveness sets are those of the function the round    *)
(* works on, the graphs connect its registers, colours are physical        *)
(* registers and the code rewritten so far is code.                        *)
THEOREM GCTypeCorrect == GCSpec => []GCTypeOK
BY GCRounds, RoundTypeOK, PTL

(* Two registers that clash on some path of the function as it is now are  *)
(* neighbours in the graph, after any sequence of merges and in every      *)
(* round: addEdge and removeEdge keep up with the operands that are        *)
(* replaced, without a second look at the code.                            *)
THEOREM GCGraphCovers == GCSpec => []GraphCoversClashes
BY GCRounds, RoundCovers, PTL

(* What may be merged never interferes, after any sequence of merges: the  *)
(* updates of the two graphs in the loop over coalescence are complete.    *)
THEOREM GCCandidatesApart == GCSpec => []CandidatesApart
BY GCCorrect, PTL DEF GCInv

(* However ties are broken and registers merged, neighbours in the graph   *)
(* get different physical registers.                                       *)
THEOREM GCColoringSound == GCSpec => []ColoringSound
BY GCCorrect, PTL DEF GCInv

(* The allocated function computes what the original computes: after any   *)
(* sequence of merges, however ties are broken, and over as many rounds of *)
(* spilling as it takes, every instruction reads the same values on every  *)
(* path. In particular the values a merge, a colour or a spill moves are   *)
(* never overwritten while they are needed.                                *)
THEOREM GXAgrees == GXSpec => []GXReadsAgree
BY GXStart, GXStep, GXReads, PTL DEF GXSpec
=============================================================================
