---------------------- MODULE LockstepExecution_proof ----------------------
(***************************************************************************)
(* Proofs about LockstepExecution: code in which every instruction has     *)
(* become loads, the renamed instruction and stores, and whose registers   *)
(* are kept apart from what is live, runs in agreement with the original.  *)
(* That an allocator returns such code is proved where the allocator is.   *)
(***************************************************************************)
EXTENDS LockstepExecution, RegisterAllocator_proof

-----------------------------------------------------------------------------
(* The code of one instruction.                                            *)

\* al and W are the result of an allocation: the registers it put in physical
\* registers, and those it put on the stack.
Allocation(al, W) ==
  /\ DOMAIN al \subseteq VirtRegs /\ W \subseteq VirtRegs /\ DOMAIN al \cap W = {}
  /\ VirtRegsOf(F) \subseteq DOMAIN al \cup W
  /\ \A v \in DOMAIN al : al[v] \in PhysRegs

\* What is allocated is kept apart from what is live after p or written there.
KeepsApart(G, p, al, out) ==
  LET occupied == out \cup def(At(G, p))
  IN  /\ \A v \in occupied \cap DOMAIN al : al[v] \notin occupied
      /\ \A v, w \in occupied \cap DOMAIN al : al[v] = al[w] => v = w

\* The spilled operands of the instruction at p fit in the registers m gives them:
\* nothing is in a register that is loaded, nothing lives on in one that is written.
FitsAt(G, p, al, W, m, in, out) ==
  LET S == SrcsIn(At(G, p), W)
      D == DstsIn(At(G, p), W)
  IN  /\ DOMAIN m = S \cup D
      /\ \A v \in DOMAIN m : m[v] \in PhysRegs
      /\ \A v, w \in S : m[v] = m[w] => v = w
      /\ \A v \in S : m[v] \notin in /\ \A w \in in \cap DOMAIN al : al[w] # m[v]
      /\ \A v \in D : m[v] \notin out /\ \A w \in out \cap DOMAIN al : al[w] # m[v]

\* The register an operand x is in while its instruction runs.
Home(al, m, x) ==
  IF x \in DOMAIN al THEN al[x] ELSE IF x \in DOMAIN m THEN m[x] ELSE x

LEMMA HomeOf ==
  ASSUME NEW s \in Seq(Regs), NEW al, NEW m, DOMAIN al \subseteq VirtRegs,
         DOMAIN m \subseteq VirtRegs, \A v \in DOMAIN al : al[v] \in PhysRegs
  PROVE  \A k \in DOMAIN s : RenameSeq(RenameSeq(s, al), m)[k] = Home(al, m, s[k])
<1> SUFFICES ASSUME NEW k \in DOMAIN s
             PROVE  RenameSeq(RenameSeq(s, al), m)[k] = Home(al, m, s[k])
  OBVIOUS
<1>1. DOMAIN RenameSeq(s, al) = DOMAIN s
      /\ RenameSeq(s, al)[k] = IF s[k] \in DOMAIN al THEN al[s[k]] ELSE s[k]
  BY DEF RenameSeq
<1>2. RenameSeq(RenameSeq(s, al), m)[k] =
        IF RenameSeq(s, al)[k] \in DOMAIN m THEN m[RenameSeq(s, al)[k]] ELSE RenameSeq(s, al)[k]
  BY <1>1 DEF RenameSeq
<1>3. s[k] \in DOMAIN al => al[s[k]] \notin DOMAIN m
  BY RegsAssumption
<1> QED
  BY <1>1, <1>2, <1>3 DEF Home

LEMMA RenamedRange ==
  ASSUME NEW s \in Seq(Regs), NEW al, NEW W \in SUBSET VirtRegs, DOMAIN al \cap W = {},
         \A v \in DOMAIN al : al[v] \in PhysRegs
  PROVE  Range(RenameSeq(s, al)) \cap W = Range(s) \cap W
<1> DEFINE t == RenameSeq(s, al)
<1>1. DOMAIN t = DOMAIN s
      /\ \A k \in DOMAIN s : t[k] = IF s[k] \in DOMAIN al THEN al[s[k]] ELSE s[k]
  BY DEF RenameSeq
<1> HIDE DEF t
<1>2. ASSUME NEW x \in W, x \in Range(t) PROVE x \in Range(s)
  <2>1. PICK k \in DOMAIN s : t[k] = x
    BY <1>1, <1>2 DEF Range
  <2>2. s[k] \notin DOMAIN al
    BY <2>1, <1>1, RegsAssumption
  <2> QED
    BY <2>1, <2>2, <1>1 DEF Range
<1>3. ASSUME NEW x \in W, x \in Range(s) PROVE x \in Range(t)
  <2>1. PICK k \in DOMAIN s : s[k] = x
    BY <1>3 DEF Range
  <2>2. t[k] = x
    BY <2>1, <1>1
  <2> QED
    BY <2>1, <2>2, <1>1 DEF Range
<1> QED
  BY <1>2, <1>3 DEF t

\* The code of an instruction: the loads of its spilled sources, the instruction
\* on the homes of its operands, the stores of its spilled destinations.
LEMMA ExpandedFacts ==
  ASSUME IsFunction(F), NEW p \in Points(F), NEW al, NEW W, Allocation(al, W), NEW m,
         NEW in, NEW out, FitsAt(F, p, al, W, m, in, out)
  PROVE  LET I  == At(F, p)
             ss == SetToSeq(SrcsIn(I, W))
             ds == SetToSeq(DstsIn(I, W))
             c  == Expanded(F, p, al, W, m)
             K  == c[Len(ss) + 1]
         IN  /\ Len(ss) \in Nat /\ Len(ds) \in Nat /\ Len(c) = Len(ss) + 1 + Len(ds)
             /\ \A k \in 1 .. Len(ss) : c[k] = LoadFrom(ss[k], m[ss[k]])
             /\ \A k \in 1 .. Len(ds) : c[Len(ss) + 1 + k] = StoreTo(ds[k], m[ds[k]])
             /\ K \in Instr /\ Len(K.srcs) = Len(I.srcs)
             /\ K.mem = I.mem /\ K.coalescent = I.coalescent /\ K.blockOps = I.blockOps
             /\ K.implicitSrcs = I.implicitSrcs /\ K.implicitDsts = I.implicitDsts
             /\ DOMAIN K.srcs = DOMAIN I.srcs /\ DOMAIN K.dsts = DOMAIN I.dsts
             /\ \A k \in DOMAIN I.srcs : K.srcs[k] = Home(al, m, I.srcs[k])
             /\ \A k \in DOMAIN I.dsts : K.dsts[k] = Home(al, m, I.dsts[k])
<1> DEFINE I == At(F, p)
           J == Rename(I, al, al)
           K == Rename(J, m, m)
<1>1. I \in Instr
  BY InstrAt
<1>2. /\ DOMAIN al \subseteq VirtRegs /\ W \in SUBSET VirtRegs /\ DOMAIN al \cap W = {}
      /\ \A v \in DOMAIN al : al[v] \in PhysRegs
  BY DEF Allocation
<1>3. /\ DOMAIN m = SrcsIn(I, W) \cup DstsIn(I, W)
      /\ \A v \in DOMAIN m : m[v] \in PhysRegs
  BY DEF FitsAt
<1>4. DOMAIN m \subseteq VirtRegs
  BY <1>2, <1>3 DEF SrcsIn, DstsIn
<1>5. \A v \in DOMAIN al : al[v] \in Regs
  BY <1>2 DEF Regs
<1>6. \A v \in DOMAIN m : m[v] \in Regs
  BY <1>3 DEF Regs
<1>7. /\ J \in Instr /\ J.srcs = RenameSeq(I.srcs, al) /\ J.dsts = RenameSeq(I.dsts, al)
      /\ DOMAIN J.srcs = DOMAIN I.srcs /\ DOMAIN J.dsts = DOMAIN I.dsts
      /\ J.implicitSrcs = I.implicitSrcs /\ J.implicitDsts = I.implicitDsts
      /\ J.coalescent = I.coalescent /\ J.blockOps = I.blockOps /\ J.mem = I.mem
  BY <1>1, <1>5, RenameFacts
<1> HIDE DEF J
<1>8. /\ K \in Instr /\ K.srcs = RenameSeq(J.srcs, m) /\ K.dsts = RenameSeq(J.dsts, m)
      /\ DOMAIN K.srcs = DOMAIN J.srcs /\ DOMAIN K.dsts = DOMAIN J.dsts
      /\ K.implicitSrcs = J.implicitSrcs /\ K.implicitDsts = J.implicitDsts
      /\ K.coalescent = J.coalescent /\ K.blockOps = J.blockOps /\ K.mem = J.mem
  BY <1>6, <1>7, RenameFacts
<1>9. I.srcs \in Seq(Regs) /\ I.dsts \in Seq(Regs) /\ K.srcs \in Seq(Regs)
  BY <1>1, <1>8 DEF Instr
<1> HIDE DEF I, K
<1>l. Len(K.srcs) = Len(I.srcs)
  <2>1. \A a, b \in Nat : 1 .. a = 1 .. b => a = b
    OBVIOUS
  <2>2. /\ Len(K.srcs) \in Nat /\ DOMAIN K.srcs = 1 .. Len(K.srcs)
        /\ Len(I.srcs) \in Nat /\ DOMAIN I.srcs = 1 .. Len(I.srcs)
    BY <1>9
  <2> QED
    BY <2>1, <2>2, <1>7, <1>8
<1>10. /\ \A k \in DOMAIN I.srcs : K.srcs[k] = Home(al, m, I.srcs[k])
       /\ \A k \in DOMAIN I.dsts : K.dsts[k] = Home(al, m, I.dsts[k])
  BY <1>2, <1>4, <1>7, <1>8, <1>9, HomeOf
<1>11. SrcsIn(J, W) = SrcsIn(I, W) /\ DstsIn(J, W) = DstsIn(I, W)
  BY <1>2, <1>7, <1>9, RenamedRange DEF SrcsIn, DstsIn
<1> DEFINE ss == SetToSeq(SrcsIn(I, W))
           ds == SetToSeq(DstsIn(I, W))
           c  == Expanded(F, p, al, W, m)
<1>12. SrcsIn(J, W) \cup DstsIn(J, W) \subseteq DOMAIN m
  BY <1>3, <1>11
<1>13. c = Spilled(J, m, m, W)
  BY DEF Expanded, J, I
<1> HIDE DEF c
<1>14. /\ Len(ss) \in Nat /\ Len(ds) \in Nat /\ Len(c) = Len(ss) + 1 + Len(ds)
       /\ \A k \in 1 .. Len(ss) : c[k] = LoadFrom(ss[k], m[ss[k]])
       /\ c[Len(ss) + 1] = K
       /\ \A k \in 1 .. Len(ds) : c[Len(ss) + 1 + k] = StoreTo(ds[k], m[ds[k]])
  <2> DEFINE sj == SetToSeq(SrcsIn(J, W))
             dj == SetToSeq(DstsIn(J, W))
  <2>1. /\ Len(sj) \in Nat /\ Len(dj) \in Nat /\ Len(Spilled(J, m, m, W)) = Len(sj) + 1 + Len(dj)
        /\ \A k \in 1 .. Len(sj) : Spilled(J, m, m, W)[k] = LoadFrom(sj[k], m[sj[k]])
        /\ Spilled(J, m, m, W)[Len(sj) + 1] = Rename(J, m, m)
        /\ \A k \in 1 .. Len(dj) :
             Spilled(J, m, m, W)[Len(sj) + 1 + k] = StoreTo(dj[k], m[dj[k]])
    BY <1>2, <1>3, <1>7, <1>12, SpilledFacts DEF Regs
  <2>2. sj = ss /\ dj = ds
    BY <1>11
  <2> HIDE DEF sj, dj, ss, ds
  <2> QED
    BY <2>1, <2>2, <1>13 DEF K
<1> HIDE DEF ss, ds
<1> QED
  BY <1>7, <1>8, <1>l, <1>10, <1>14 DEF ss, ds, c, I

-----------------------------------------------------------------------------
(* One step of the two functions.                                          *)

\* A value stands for itself.
LEMMA StandsForItself == \A x : StandsFor(x, x)
BY DEF StandsFor

\* The registers of L hold the same in both functions, up to poison: physical
\* registers where they are, virtual ones where the allocation put them.
Agree(al, W, L) ==
  /\ DOMAIN oldRegs = Regs /\ DOMAIN newRegs = PhysRegs /\ DOMAIN slots = VirtRegs
  /\ \A r \in L \cap PhysRegs : StandsFor(newRegs[r], oldRegs[r])
  /\ \A v \in L \cap DOMAIN al : StandsFor(newRegs[al[v]], oldRegs[v])
  /\ \A v \in L \cap W : StandsFor(slots[v], oldRegs[v])

\* The code of the instruction at p lies where at says, and its spilled operands
\* fit.
InPiece(G, code, al, W, at, p, m, in, out) ==
  /\ FitsAt(G, p, al, W, m, in, out)
  /\ Lies(code[p[1]], at[p[2]], Expanded(G, p, al, W, m))
  /\ at[p[2]] \in Nat /\ at[p[2] + 1] = at[p[2]] + Len(Expanded(G, p, al, W, m))

\* The first t spilled sources of the instruction at pc are loaded.
Loaded(W, m, t) ==
  LET ss == SetToSeq(SrcsIn(At(F, pc), W))
  IN  \A k \in 1 .. t : StandsFor(newRegs[m[ss[k]]], oldRegs[ss[k]])

\* The sequences the spill code of an instruction goes through.
LEMMA OperandSeqs ==
  ASSUME IsFunction(F), NEW p \in Points(F), NEW W
  PROVE  LET S == SrcsIn(At(F, p), W)
             D == DstsIn(At(F, p), W)
         IN  /\ SetToSeq(S) \in Seq(S) /\ Range(SetToSeq(S)) = S /\ IsInjective(SetToSeq(S))
             /\ SetToSeq(D) \in Seq(D) /\ Range(SetToSeq(D)) = D /\ IsInjective(SetToSeq(D))
<1>1. IsFiniteSet(SrcsIn(At(F, p), W)) /\ IsFiniteSet(DstsIn(At(F, p), W))
  BY InstrAt, OperandSets
<1> QED
  BY <1>1, SetToSeqFacts

\* The virtual registers among the operands are spilled or allocated.
LEMMA OperandRegs ==
  ASSUME IsFunction(F), NEW p \in Points(F), NEW al, NEW W, Allocation(al, W)
  PROVE  \A x \in use(At(F, p)) \cup def(At(F, p)) :
           x \in PhysRegs \/ x \in DOMAIN al \/ x \in W
<1>1. use(At(F, p)) \subseteq Regs /\ def(At(F, p)) \subseteq Regs
  BY InstrAt
<1>2. \A x \in use(At(F, p)) \cup def(At(F, p)) : x \in VirtRegs => x \in VirtRegsOf(F)
  BY DEF VirtRegsOf
<1> QED
  BY <1>1, <1>2 DEF Allocation, Regs

\* While a spilled source is not loaded, its load is next.
LEMMA NextLoad ==
  ASSUME IsFunction(F), pc \in Points(F), NEW o, NEW al, NEW W, Allocation(al, W),
         NEW at, NEW m, NEW in, NEW out, InPiece(F, o, al, W, at, pc, m, in, out),
         NEW t \in Nat, t < Len(SetToSeq(SrcsIn(At(F, pc), W))), newPc = at[pc[2]] + t
  PROVE  LET v == SetToSeq(SrcsIn(At(F, pc), W))[t + 1]
         IN  o[pc[1]][newPc] = LoadFrom(v, m[v])
<1> DEFINE I  == At(F, pc)
           ss == SetToSeq(SrcsIn(I, W))
           c  == Expanded(F, pc, al, W, m)
<1>1. FitsAt(F, pc, al, W, m, in, out) /\ at[pc[2]] \in Nat
      /\ Lies(o[pc[1]], at[pc[2]], c)
  BY DEF InPiece
<1>2. /\ Len(ss) \in Nat /\ Len(SetToSeq(DstsIn(I, W))) \in Nat
      /\ Len(c) = Len(ss) + 1 + Len(SetToSeq(DstsIn(I, W)))
      /\ \A k \in 1 .. Len(ss) : c[k] = LoadFrom(ss[k], m[ss[k]])
  BY <1>1, ExpandedFacts
<1>3. newPc = at[pc[2]] + t /\ t < Len(ss)
  OBVIOUS
<1> HIDE DEF c, ss
<1>4. t + 1 \in 1 .. Len(ss) /\ t + 1 \in 1 .. Len(c)
  BY <1>2, <1>3
<1>5. at[pc[2]] + (t + 1) - 1 = newPc
  BY <1>1, <1>3
<1>6. o[pc[1]][newPc] = c[t + 1]
  BY <1>5, <1>1, <1>4 DEF Lies
<1> QED
  BY <1>6, <1>2, <1>4 DEF ss

\* A load takes a spilled source from its slot and disturbs nothing that is live.
LEMMA LoadStep ==
  ASSUME IsFunction(F), pc \in Points(F), NEW o, NEW al, NEW W, Allocation(al, W),
         NEW at, NEW m, NEW in, NEW out, use(At(F, pc)) \subseteq in,
         InPiece(F, o, al, W, at, pc, m, in, out),
         NEW t \in Nat, t < Len(SetToSeq(SrcsIn(At(F, pc), W))),
         newPc = at[pc[2]] + t, Agree(al, W, in), Loaded(W, m, t),
         SpillCode(o) \/ Execute(o), F' = F
  PROVE  /\ pc' = pc /\ newPc' = at[pc[2]] + (t + 1)
         /\ Agree(al, W, in)' /\ Loaded(W, m, t + 1)'
<1> DEFINE I  == At(F, pc)
           S  == SrcsIn(I, W)
           ss == SetToSeq(S)
           v  == ss[t + 1]
           J  == o[pc[1]][newPc]
<1>1. FitsAt(F, pc, al, W, m, in, out) /\ at[pc[2]] \in Nat
  BY DEF InPiece
<1>3. ss \in Seq(S) /\ Range(ss) = S /\ IsInjective(ss)
  BY OperandSeqs
<1>4. S \subseteq W /\ S \subseteq use(I) /\ W \subseteq VirtRegs
  BY DEF SrcsIn, use, Allocation
<1>8. J = LoadFrom(v, m[v])
  BY NextLoad
<1>z. newPc = at[pc[2]] + t /\ t < Len(ss) /\ Agree(al, W, in) /\ use(I) \subseteq in
  OBVIOUS
<1> HIDE DEF ss
<1>5. /\ Len(ss) \in Nat /\ DOMAIN ss = 1 .. Len(ss) /\ \A k \in 1 .. Len(ss) : ss[k] \in S
      /\ \A k, l \in 1 .. Len(ss) : ss[k] = ss[l] => k = l
  BY <1>3 DEF IsInjective
<1>6. t + 1 \in 1 .. Len(ss)
  BY <1>5, <1>z
<1>7. v \in S
  BY <1>5, <1>6
<1>9. J.mem = "load" /\ J.slot = v /\ J.dsts[1] = m[v]
  BY <1>8 DEF LoadFrom
<1> HIDE DEF v, J, I
<1>10. /\ newRegs' = [newRegs EXCEPT ![m[v]] = slots[v]]
       /\ newPc' = newPc + 1 /\ UNCHANGED <<slots, pc, oldRegs>>
  BY <1>9 DEF SpillCode, Execute, J
<1>11. /\ DOMAIN m = S \cup DstsIn(I, W) /\ \A x \in DOMAIN m : m[x] \in PhysRegs
       /\ \A x, y \in S : m[x] = m[y] => x = y
       /\ \A x \in S : m[x] \notin in /\ \A w \in in \cap DOMAIN al : al[w] # m[x]
  BY <1>1 DEF FitsAt, I
<1>12. /\ DOMAIN oldRegs = Regs /\ DOMAIN newRegs = PhysRegs /\ DOMAIN slots = VirtRegs
       /\ \A r \in in \cap PhysRegs : StandsFor(newRegs[r], oldRegs[r])
       /\ \A x \in in \cap DOMAIN al : StandsFor(newRegs[al[x]], oldRegs[x])
       /\ \A x \in in \cap W : StandsFor(slots[x], oldRegs[x])
  BY DEF Agree
<1>13. /\ DOMAIN newRegs' = PhysRegs /\ newRegs'[m[v]] = slots[v]
       /\ \A r \in PhysRegs : r # m[v] => newRegs'[r] = newRegs[r]
  BY <1>7, <1>10, <1>11, <1>12
<1>14. StandsFor(slots[v], oldRegs[v])
  BY <1>4, <1>7, <1>12, <1>z
<1>15. Agree(al, W, in)'
  <2>1. \A r \in in \cap PhysRegs : StandsFor(newRegs'[r], oldRegs'[r])
    BY <1>7, <1>10, <1>11, <1>12, <1>13
  <2>2. \A x \in in \cap DOMAIN al : StandsFor(newRegs'[al[x]], oldRegs'[x])
    BY <1>7, <1>10, <1>11, <1>12, <1>13 DEF Allocation
  <2> QED
    BY <2>1, <2>2, <1>10, <1>12, <1>13 DEF Agree
<1>16. Loaded(W, m, t + 1)'
  <2>1. ASSUME NEW k \in 1 .. (t + 1) PROVE StandsFor(newRegs'[m[ss[k]]], oldRegs[ss[k]])
    <3>1. CASE k = t + 1
      BY <3>1, <1>13, <1>14 DEF v
    <3>2. CASE k # t + 1
      <4>1. k \in 1 .. t /\ k \in 1 .. Len(ss) /\ k # t + 1
        BY <3>2, <1>5, <1>z
      <4>2. StandsFor(newRegs[m[ss[k]]], oldRegs[ss[k]])
        BY <4>1 DEF Loaded, ss, I
      <4>3. ss[k] \in S /\ ss[k] # v
        BY <4>1, <1>5, <1>6 DEF v
      <4>4. m[ss[k]] # m[v] /\ m[ss[k]] \in PhysRegs
        BY <4>3, <1>7, <1>11
      <4> QED
        BY <4>2, <4>4, <1>13
    <3> QED
      BY <3>1, <3>2
  <2>2. At(F', pc') = I /\ oldRegs' = oldRegs
    BY <1>10 DEF I
  <2> QED
    BY <2>1, <2>2 DEF Loaded, ss
<1>17. newPc + 1 = at[pc[2]] + (t + 1)
  <2>1. \A x, y \in Nat : (x + y) + 1 = x + (y + 1)
    OBVIOUS
  <2> QED
    BY <2>1, <1>1, <1>z
<1> QED
  BY <1>10, <1>15, <1>16, <1>17

\* The next instruction of o is that of F on the homes of its operands, where the
\* values F reads are.
ReadsAs(o, al, m) ==
  LET I == At(F, pc)
      J == o[pc[1]][newPc]
  IN  /\ J.mem = I.mem /\ J.coalescent = I.coalescent /\ J.blockOps = I.blockOps
      /\ J.implicitSrcs = I.implicitSrcs /\ J.implicitDsts = I.implicitDsts
      /\ Len(J.srcs) = Len(I.srcs) /\ DOMAIN J.srcs = DOMAIN I.srcs
      /\ DOMAIN J.dsts = DOMAIN I.dsts
      /\ \A k \in DOMAIN I.srcs : J.srcs[k] = Home(al, m, I.srcs[k])
      /\ \A k \in DOMAIN I.dsts : J.dsts[k] = Home(al, m, I.dsts[k])
      /\ \A k \in DOMAIN I.srcs : StandsFor(newRegs[J.srcs[k]], oldRegs[I.srcs[k]])
      /\ \A r \in I.implicitSrcs : StandsFor(newRegs[r], oldRegs[r])

\* Once its spilled sources are loaded the renamed instruction is next, and it reads
\* what the original reads.
LEMMA ReadsHome ==
  ASSUME IsFunction(F), pc \in Points(F), NEW o, NEW al, NEW W, Allocation(al, W),
         NEW at, NEW m, NEW in, NEW out, use(At(F, pc)) \subseteq in,
         InPiece(F, o, al, W, at, pc, m, in, out),
         newPc = at[pc[2]] + Len(SetToSeq(SrcsIn(At(F, pc), W))),
         Agree(al, W, in), Loaded(W, m, Len(SetToSeq(SrcsIn(At(F, pc), W))))
  PROVE  ReadsAs(o, al, m)
<1> DEFINE I  == At(F, pc)
           S  == SrcsIn(I, W)
           ss == SetToSeq(S)
           c  == Expanded(F, pc, al, W, m)
           J  == o[pc[1]][newPc]
           K  == c[Len(ss) + 1]
<1>1. FitsAt(F, pc, al, W, m, in, out) /\ at[pc[2]] \in Nat
      /\ Lies(o[pc[1]], at[pc[2]], c)
  BY DEF InPiece
<1>2. /\ Len(ss) \in Nat /\ Len(SetToSeq(DstsIn(I, W))) \in Nat
      /\ Len(c) = Len(ss) + 1 + Len(SetToSeq(DstsIn(I, W)))
      /\ K.mem = I.mem /\ K.coalescent = I.coalescent /\ K.blockOps = I.blockOps
      /\ K.implicitSrcs = I.implicitSrcs /\ K.implicitDsts = I.implicitDsts
      /\ Len(K.srcs) = Len(I.srcs) /\ DOMAIN K.srcs = DOMAIN I.srcs
      /\ DOMAIN K.dsts = DOMAIN I.dsts
      /\ \A k \in DOMAIN I.srcs : K.srcs[k] = Home(al, m, I.srcs[k])
      /\ \A k \in DOMAIN I.dsts : K.dsts[k] = Home(al, m, I.dsts[k])
  BY <1>1, ExpandedFacts
<1>3. ss \in Seq(S) /\ Range(ss) = S
  BY OperandSeqs
<1>4. S = Range(I.srcs) \cap W /\ use(I) = Range(I.srcs) \cup I.implicitSrcs
  BY DEF SrcsIn, use
<1>5. /\ DOMAIN al \subseteq VirtRegs /\ W \subseteq VirtRegs /\ DOMAIN al \cap W = {}
      /\ \A x \in use(I) : x \in PhysRegs \/ x \in DOMAIN al \/ x \in W
  BY OperandRegs DEF Allocation
<1>6. DOMAIN m = S \cup DstsIn(I, W) /\ DstsIn(I, W) \subseteq W
  BY <1>1 DEF FitsAt, DstsIn
<1>7. /\ \A r \in in \cap PhysRegs : StandsFor(newRegs[r], oldRegs[r])
      /\ \A x \in in \cap DOMAIN al : StandsFor(newRegs[al[x]], oldRegs[x])
      /\ use(I) \subseteq in
  BY DEF Agree
<1>8. I.implicitSrcs \subseteq PhysRegs
  <2>1. I \in Instr
    BY InstrAt
  <2> QED
    BY <2>1 DEF Instr
<1>z. newPc = at[pc[2]] + Len(ss) /\ Loaded(W, m, Len(ss))
  OBVIOUS
<1> HIDE DEF c, ss, S
<1>9. J = K
  <2>1. Len(ss) + 1 \in 1 .. Len(c)
    BY <1>2
  <2>2. \A x, y \in Nat : x + (y + 1) - 1 = x + y
    OBVIOUS
  <2> QED
    BY <2>1, <2>2, <1>1, <1>2, <1>z DEF Lies
<1>10. \A x \in S : StandsFor(newRegs[m[x]], oldRegs[x])
  <2> SUFFICES ASSUME NEW x \in S PROVE StandsFor(newRegs[m[x]], oldRegs[x])
    OBVIOUS
  <2>1. PICK k \in 1 .. Len(ss) : ss[k] = x
    BY <1>3 DEF Range
  <2> QED
    BY <2>1, <1>z DEF Loaded, ss, S
<1> HIDE DEF I, J, K
<1>11. \A x \in Range(I.srcs) : StandsFor(newRegs[Home(al, m, x)], oldRegs[x])
  <2> SUFFICES ASSUME NEW x \in Range(I.srcs) PROVE StandsFor(newRegs[Home(al, m, x)], oldRegs[x])
    OBVIOUS
  <2>1. x \in in /\ (x \in PhysRegs \/ x \in DOMAIN al \/ x \in W)
    BY <1>4, <1>5, <1>7
  <2>2. CASE x \in PhysRegs
    BY <2>1, <2>2, <1>4, <1>5, <1>6, <1>7, RegsAssumption DEF Home
  <2>3. CASE x \in DOMAIN al
    BY <2>1, <2>3, <1>7 DEF Home
  <2>4. CASE x \in W
    <3>1. x \in S /\ x \notin DOMAIN al
      BY <2>4, <1>4, <1>5
    <3> QED
      BY <3>1, <1>6, <1>10 DEF Home
  <2> QED
    BY <2>1, <2>2, <2>3, <2>4
<1>12. \A k \in DOMAIN I.srcs : I.srcs[k] \in Range(I.srcs)
  BY DEF Range
<1>13. \A r \in I.implicitSrcs : StandsFor(newRegs[r], oldRegs[r])
  BY <1>4, <1>7, <1>8
<1> QED
  BY <1>2, <1>9, <1>11, <1>12, <1>13 DEF I, J, ReadsAs

\* An instruction with at most one destination writes that one and the implicit ones.
LEMMA WrittenBy ==
  ASSUME NEW J, At(F, pc) \in Instr, Len(At(F, pc).dsts) <= 1,
         DOMAIN J.dsts = DOMAIN At(F, pc).dsts, NEW regs, NEW value
  PROVE  /\ DOMAIN Written(J, regs, value) = DOMAIN regs
         /\ \A r \in DOMAIN regs :
              Written(J, regs, value)[r] =
                IF 1 \in DOMAIN At(F, pc).dsts /\ J.dsts[1] = r
                THEN IF J.coalescent THEN regs[J.srcs[1]] ELSE value[At(F, pc).dsts[1]]
                ELSE IF r \in J.implicitDsts THEN value[r] ELSE regs[r]
<1> DEFINE I == At(F, pc)
           N == DOMAIN I.dsts
<1>1. N = {} \/ N = {1}
  <2>1. I.dsts \in Seq(Regs)
    BY DEF Instr
  <2>2. Len(I.dsts) \in Nat /\ N = 1 .. Len(I.dsts)
    BY <2>1
  <2>3. Len(I.dsts) = 0 \/ Len(I.dsts) = 1
    <3>1. \A n \in Nat : n <= 1 => n = 0 \/ n = 1
      OBVIOUS
    <3> QED
      BY <3>1, <2>2
  <2> QED
    BY <2>2, <2>3
<1>2. \A r : (\E k \in N : J.dsts[k] = r) <=> 1 \in N /\ J.dsts[1] = r
  BY <1>1
<1>3. ASSUME NEW r, 1 \in N, J.dsts[1] = r
      PROVE  (CHOOSE k \in DOMAIN J.dsts : J.dsts[k] = r) = 1
  <2>1. DOMAIN J.dsts = {1}
    BY <1>1, <1>3
  <2> QED
    BY <2>1, <1>3
<1>4. DOMAIN Written(J, regs, value) = DOMAIN regs
  BY DEF Written
<1>5. ASSUME NEW r \in DOMAIN regs, 1 \in N, J.dsts[1] = r
      PROVE  Written(J, regs, value)[r]
               = IF J.coalescent THEN regs[J.srcs[1]] ELSE value[I.dsts[1]]
  <2>1. \E k \in DOMAIN J.dsts : J.dsts[k] = r
    BY <1>5
  <2>2. Written(J, regs, value)[r]
          = IF J.coalescent THEN regs[J.srcs[1]]
            ELSE value[I.dsts[CHOOSE k \in DOMAIN J.dsts : J.dsts[k] = r]]
    BY <2>1 DEF Written
  <2> QED
    BY <2>2, <1>3, <1>5
<1>6. ASSUME NEW r \in DOMAIN regs, ~(1 \in N /\ J.dsts[1] = r)
      PROVE  Written(J, regs, value)[r] = IF r \in J.implicitDsts THEN value[r] ELSE regs[r]
  <2>1. ~ \E k \in DOMAIN J.dsts : J.dsts[k] = r
    BY <1>2, <1>6
  <2> QED
    BY <2>1 DEF Written
<1> HIDE DEF N
<1>7. ASSUME NEW r \in DOMAIN regs
      PROVE  Written(J, regs, value)[r] =
                IF 1 \in N /\ J.dsts[1] = r
                THEN IF J.coalescent THEN regs[J.srcs[1]] ELSE value[I.dsts[1]]
                ELSE IF r \in J.implicitDsts THEN value[r] ELSE regs[r]
  BY <1>5, <1>6
<1> QED
  BY <1>4, <1>7 DEF N

\* The registers of L hold the same, those of D where m has them.
Computed(al, W, L, D, m) ==
  Agree(al, W, L \ D) /\ \A x \in D : StandsFor(newRegs[m[x]], oldRegs[x])

\* The instruction itself writes corresponding registers in both functions, and
\* what lives on is not overwritten.
LEMMA ExecStep ==
  ASSUME IsFunction(F), IsCode(F), pc \in Points(F), NEW o, NEW al, NEW W, Allocation(al, W),
         NEW at, NEW m, NEW in, NEW out, use(At(F, pc)) \subseteq in,
         out \subseteq in \cup def(At(F, pc)), KeepsApart(F, pc, al, out),
         InPiece(F, o, al, W, at, pc, m, in, out),
         newPc = at[pc[2]] + Len(SetToSeq(SrcsIn(At(F, pc), W))),
         Agree(al, W, in), Loaded(W, m, Len(SetToSeq(SrcsIn(At(F, pc), W)))),
         SpillCode(o) \/ Execute(o)
  PROVE  /\ \A D : D = DstsIn(At(F, pc), W) => Computed(al, W, out, D, m)'
         /\ IF At(F, pc).blockOps = {}
            THEN pc' = <<pc[1], pc[2] + 1>> /\ newPc' = newPc + 1
            ELSE \E b \in At(F, pc).blockOps : pc' = <<b, 1>> /\ newPc' = 1
<1> DEFINE I == At(F, pc)
           J == o[pc[1]][newPc]
           n == 1 \in DOMAIN I.dsts
           d == I.dsts[1]
           h == J.dsts[1]
<1>1. /\ J.mem = I.mem /\ J.coalescent = I.coalescent /\ J.blockOps = I.blockOps
      /\ J.implicitDsts = I.implicitDsts
      /\ DOMAIN J.srcs = DOMAIN I.srcs /\ DOMAIN J.dsts = DOMAIN I.dsts
      /\ \A k \in DOMAIN I.dsts : J.dsts[k] = Home(al, m, I.dsts[k])
      /\ \A k \in DOMAIN I.srcs : J.srcs[k] = Home(al, m, I.srcs[k])
      /\ \A k \in DOMAIN I.srcs : StandsFor(newRegs[J.srcs[k]], oldRegs[I.srcs[k]])
  <2>1. ReadsAs(o, al, m)
    BY ReadsHome
  <2> QED
    BY <2>1 DEF ReadsAs
<1> SUFFICES ASSUME NEW D, D = DstsIn(At(F, pc), W)
             PROVE  /\ Computed(al, W, out, D, m)'
                    /\ IF I.blockOps = {}
                       THEN pc' = <<pc[1], pc[2] + 1>> /\ newPc' = newPc + 1
                       ELSE \E b \in I.blockOps : pc' = <<b, 1>> /\ newPc' = 1
  OBVIOUS
<1>2. /\ I \in Instr /\ I.mem = "none" /\ Len(I.dsts) <= 1
      /\ I.coalescent => Len(I.srcs) = 1
  BY InstrAt DEF IsCode
<1>3. /\ I.srcs \in Seq(Regs) /\ I.dsts \in Seq(Regs) /\ I.implicitDsts \subseteq PhysRegs
  BY <1>2 DEF Instr
<1>4. /\ DOMAIN oldRegs = Regs /\ DOMAIN newRegs = PhysRegs /\ DOMAIN slots = VirtRegs
      /\ \A r \in in \cap PhysRegs : StandsFor(newRegs[r], oldRegs[r])
      /\ \A x \in in \cap DOMAIN al : StandsFor(newRegs[al[x]], oldRegs[x])
      /\ \A x \in in \cap W : StandsFor(slots[x], oldRegs[x])
  BY DEF Agree
<1>5. /\ DOMAIN m = SrcsIn(I, W) \cup D
      /\ \A v \in DOMAIN m : m[v] \in PhysRegs
      /\ \A v \in D : m[v] \notin out /\ \A w \in out \cap DOMAIN al : al[w] # m[v]
  BY DEF InPiece, FitsAt
<1>D. D = Range(I.dsts) \cap W
  BY DEF DstsIn
<1>6. /\ DOMAIN al \subseteq VirtRegs /\ W \subseteq VirtRegs /\ DOMAIN al \cap W = {}
      /\ \A v \in DOMAIN al : al[v] \in PhysRegs
      /\ \A x \in use(I) \cup def(I) : x \in PhysRegs \/ x \in DOMAIN al \/ x \in W
  BY OperandRegs DEF Allocation
<1>7. /\ \A v \in (out \cup def(I)) \cap DOMAIN al : al[v] \notin out \cup def(I)
      /\ \A v, w \in (out \cup def(I)) \cap DOMAIN al : al[v] = al[w] => v = w
      /\ out \subseteq in \cup def(I)
  BY DEF KeepsApart
<1> HIDE DEF I, J
<1>8. n => /\ d \in def(I) /\ d \in Regs /\ h = Home(al, m, d)
           /\ \A x \in def(I) : x = d \/ x \in I.implicitDsts
           /\ \A x \in D : x = d
  <2> SUFFICES ASSUME n PROVE /\ d \in def(I) /\ d \in Regs /\ h = Home(al, m, d)
                              /\ \A x \in def(I) : x = d \/ x \in I.implicitDsts
                              /\ \A x \in D : x = d
    OBVIOUS
  <2>1. DOMAIN I.dsts = 1 .. Len(I.dsts) /\ Len(I.dsts) \in Nat
    BY <1>3
  <2>2. \A k \in DOMAIN I.dsts : k = 1
    BY <2>1, <1>2
  <2>3. d \in Range(I.dsts) /\ \A x \in Range(I.dsts) : x = d
    BY <2>2 DEF Range
  <2>4. h = Home(al, m, d) /\ d \in Regs
    BY <2>1, <2>2, <1>1, <1>3
  <2>5. d \in def(I) /\ \A x \in def(I) : x = d \/ x \in I.implicitDsts
    BY <2>3 DEF def
  <2>6. \A x \in D : x = d
    BY <2>3, <1>D
  <2> QED
    BY <2>4, <2>5, <2>6
<1>9. ~n => D = {} /\ def(I) = I.implicitDsts
  <2> SUFFICES ASSUME ~n PROVE D = {} /\ def(I) = I.implicitDsts
    OBVIOUS
  <2>1. DOMAIN I.dsts = 1 .. Len(I.dsts) /\ Len(I.dsts) \in Nat
    BY <1>3
  <2>2. DOMAIN I.dsts = {}
    BY <2>1, <1>2
  <2> QED
    BY <2>2, <1>D DEF Range, def
<1>10. J.mem = "none"
  BY <1>1, <1>2
<1>z. \E bit \in {0, 1} :
        /\ oldRegs' = Written(I, oldRegs, [r \in Regs |-> <<pc, r, bit>>])
        /\ newRegs' = Written(J, newRegs, [r \in Regs |-> <<pc, r, bit>>])
  BY <1>10 DEF SpillCode, Execute, I, J
<1>11. /\ slots' = slots
       /\ IF I.blockOps = {}
          THEN pc' = <<pc[1], pc[2] + 1>> /\ newPc' = newPc + 1
          ELSE \E b \in I.blockOps : pc' = <<b, 1>> /\ newPc' = 1
  BY <1>10 DEF SpillCode, Execute, I, J
<1>12. PICK bit \in {0, 1} :
         /\ oldRegs' = Written(I, oldRegs, [r \in Regs |-> <<pc, r, bit>>])
         /\ newRegs' = Written(J, newRegs, [r \in Regs |-> <<pc, r, bit>>])
  BY <1>z
<1> DEFINE value == [r \in Regs |-> <<pc, r, bit>>]
           here == IF I.coalescent THEN oldRegs[I.srcs[1]] ELSE value[d]
           there == IF I.coalescent THEN newRegs[J.srcs[1]] ELSE value[d]
<1>w. oldRegs' = Written(I, oldRegs, value) /\ newRegs' = Written(J, newRegs, value)
  BY <1>12
<1> HIDE DEF value
<1>13. /\ DOMAIN oldRegs' = Regs
       /\ \A r \in Regs : oldRegs'[r] =
            IF n /\ d = r THEN here ELSE IF r \in I.implicitDsts THEN value[r] ELSE oldRegs[r]
  <2>1. DOMAIN I.dsts = DOMAIN At(F, pc).dsts
    BY DEF I
  <2>2. /\ DOMAIN Written(I, oldRegs, value) = DOMAIN oldRegs
        /\ \A r \in DOMAIN oldRegs : Written(I, oldRegs, value)[r] =
             IF n /\ d = r THEN IF I.coalescent THEN oldRegs[I.srcs[1]] ELSE value[d]
             ELSE IF r \in I.implicitDsts THEN value[r] ELSE oldRegs[r]
    BY <1>2, <2>1, WrittenBy DEF I
  <2> QED
    BY <2>2, <1>4, <1>w
<1>14. StandsFor(there, here)
  <2>1. CASE I.coalescent
    <3>1. 1 \in DOMAIN I.srcs
      BY <2>1, <1>2, <1>3
    <3>2. StandsFor(newRegs[J.srcs[1]], oldRegs[I.srcs[1]])
      BY <3>1, <1>1
    <3> QED
      BY <2>1, <3>2
  <2>2. CASE ~I.coalescent
    BY <2>2, StandsForItself
  <2> QED
    BY <2>1, <2>2
<1>15. /\ DOMAIN newRegs' = PhysRegs
       /\ \A r \in PhysRegs : newRegs'[r] =
            IF n /\ h = r THEN there ELSE IF r \in I.implicitDsts THEN value[r] ELSE newRegs[r]
  <2>1. /\ DOMAIN Written(J, newRegs, value) = DOMAIN newRegs
        /\ \A r \in DOMAIN newRegs : Written(J, newRegs, value)[r] =
             IF n /\ h = r THEN IF J.coalescent THEN newRegs[J.srcs[1]] ELSE value[d]
             ELSE IF r \in J.implicitDsts THEN value[r] ELSE newRegs[r]
    BY <1>1, <1>2, WrittenBy DEF I
  <2> QED
    BY <2>1, <1>1, <1>4, <1>w
<1> HIDE DEF here, there, n, d, h
<1>p. n => /\ d \in PhysRegs => h = d
           /\ d \in DOMAIN al => h = al[d]
           /\ d \in W => d \in D /\ h = m[d]
           /\ d \in PhysRegs \/ d \in DOMAIN al \/ d \in W
  <2> SUFFICES ASSUME n PROVE /\ d \in PhysRegs => h = d
                              /\ d \in DOMAIN al => h = al[d]
                              /\ d \in W => d \in D /\ h = m[d]
                              /\ d \in PhysRegs \/ d \in DOMAIN al \/ d \in W
    OBVIOUS
  <2>1. d \in Range(I.dsts)
    BY DEF n, d, Range
  <2>2. d \in W => d \in D
    BY <2>1, <1>D
  <2>3. DOMAIN m \subseteq W
    BY <1>5, <1>D DEF SrcsIn
  <2> QED
    BY <2>2, <2>3, <1>5, <1>6, <1>8, RegsAssumption DEF Home
<1>16. ASSUME NEW x \in out, x \notin D, x \in PhysRegs PROVE StandsFor(newRegs'[x], oldRegs'[x])
  <2>0. x \in Regs
    BY <1>16 DEF Regs
  <2>1. n /\ h = x => d = x
    BY <1>16, <1>p, <1>5, <1>6, <1>7, <1>8
  <2>2. n /\ d = x => h = x
    BY <1>16, <1>p
  <2>3. CASE n /\ d = x
    BY <2>0, <2>2, <2>3, <1>13, <1>14, <1>15, <1>16
  <2>4. CASE ~(n /\ d = x) /\ x \in I.implicitDsts
    BY <2>0, <2>1, <2>4, <1>13, <1>15, <1>16, StandsForItself
  <2>5. CASE ~(n /\ d = x) /\ x \notin I.implicitDsts
    <3>1. x \in in
      BY <2>5, <1>7, <1>8, <1>9
    <3> QED
      BY <3>1, <2>0, <2>1, <2>5, <1>4, <1>13, <1>15, <1>16
  <2> QED
    BY <2>3, <2>4, <2>5
<1>17. ASSUME NEW x \in out, x \notin D, x \in DOMAIN al
       PROVE  StandsFor(newRegs'[al[x]], oldRegs'[x])
  <2>0. x \in Regs /\ x \notin PhysRegs /\ al[x] \in PhysRegs
    BY <1>17, <1>6, RegsAssumption DEF Regs
  <2>1. n /\ h = al[x] => d = x
    BY <1>17, <1>p, <1>5, <1>6, <1>7, <1>8
  <2>2. n /\ d = x => h = al[x]
    BY <1>17, <1>p
  <2>3. CASE n /\ d = x
    BY <2>0, <2>2, <2>3, <1>13, <1>14, <1>15
  <2>4. CASE ~(n /\ d = x)
    <3>1. x \notin I.implicitDsts /\ al[x] \notin I.implicitDsts
      BY <2>0, <1>3, <1>7, <1>17 DEF def
    <3>2. x \in in
      BY <3>1, <2>4, <1>7, <1>8, <1>9
    <3> QED
      BY <3>1, <3>2, <2>0, <2>1, <2>4, <1>4, <1>13, <1>15, <1>17
  <2> QED
    BY <2>3, <2>4
<1>18. ASSUME NEW x \in out, x \notin D, x \in W PROVE StandsFor(slots'[x], oldRegs'[x])
  <2>0. x \in Regs /\ x \notin PhysRegs
    BY <1>18, <1>6, RegsAssumption DEF Regs
  <2>1. ~(n /\ d = x) /\ x \notin I.implicitDsts
    BY <2>0, <1>3, <1>18, <1>p
  <2>2. x \in in
    BY <2>1, <1>7, <1>8, <1>9
  <2> QED
    BY <2>0, <2>1, <2>2, <1>4, <1>11, <1>13, <1>18
<1>19. ASSUME NEW x \in D PROVE StandsFor(newRegs'[m[x]], oldRegs'[x])
  <2>1. n /\ x = d /\ x \in W
    BY <1>8, <1>9, <1>D
  <2>2. x \in Regs /\ m[x] \in PhysRegs /\ h = m[x]
    BY <2>1, <1>5, <1>8, <1>p
  <2> QED
    BY <2>1, <2>2, <1>13, <1>14, <1>15
<1>20. Agree(al, W, out \ D)'
  <2>1. DOMAIN slots' = VirtRegs
    BY <1>4, <1>11
  <2>2. \A r \in (out \ D) \cap PhysRegs : StandsFor(newRegs'[r], oldRegs'[r])
    BY <1>16
  <2>3. \A x \in (out \ D) \cap DOMAIN al : StandsFor(newRegs'[al[x]], oldRegs'[x])
    BY <1>17
  <2>4. \A x \in (out \ D) \cap W : StandsFor(slots'[x], oldRegs'[x])
    BY <1>18
  <2> QED
    BY <2>1, <2>2, <2>3, <2>4, <1>13, <1>15 DEF Agree
<1> QED
  BY <1>11, <1>19, <1>20 DEF I, Computed

\* From position n of s on, up to e, there is one store if there is a register in D.
StoresLie(s, n, e, D, m) ==
  \/ D = {} /\ e = n
  \/ \E d \in D : D = {d} /\ e = n + 1 /\ s[n] = StoreTo(d, m[d])

\* There is a store after the instruction if its destination is spilled.
LEMMA NextStore ==
  ASSUME IsFunction(F), IsCode(F), pc \in Points(F), NEW o, NEW al, NEW W, Allocation(al, W),
         NEW at, NEW m, NEW in, NEW out, InPiece(F, o, al, W, at, pc, m, in, out)
  PROVE  StoresLie(o[pc[1]], at[pc[2]] + Len(SetToSeq(SrcsIn(At(F, pc), W))) + 1,
                   at[pc[2] + 1], DstsIn(At(F, pc), W), m)
<1> DEFINE I  == At(F, pc)
           D  == DstsIn(I, W)
           ss == SetToSeq(SrcsIn(I, W))
           ds == SetToSeq(D)
           c  == Expanded(F, pc, al, W, m)
           a  == at[pc[2]]
           b  == at[pc[2] + 1]
<1>1. FitsAt(F, pc, al, W, m, in, out) /\ a \in Nat /\ b = a + Len(c)
      /\ Lies(o[pc[1]], a, c)
  BY DEF InPiece
<1>2. /\ Len(ss) \in Nat /\ Len(ds) \in Nat
      /\ Len(c) = Len(ss) + 1 + Len(ds)
      /\ \A k \in 1 .. Len(ds) : c[Len(ss) + 1 + k] = StoreTo(ds[k], m[ds[k]])
  BY <1>1, ExpandedFacts
<1>3. ds \in Seq(D) /\ Range(ds) = D /\ IsInjective(ds)
  BY OperandSeqs
<1>4. \A x, y \in D : x = y
  <2>1. I.dsts \in Seq(Regs) /\ Len(I.dsts) <= 1
    BY InstrAt DEF IsCode, Instr
  <2>2. \A k, l \in DOMAIN I.dsts : k = l
    BY <2>1
  <2> QED
    BY <2>2 DEF DstsIn, Range
<1> HIDE DEF c, ss, ds, D, I, a, b
<1>5. Len(ds) = 0 \/ Len(ds) = 1
  <2> SUFFICES ASSUME Len(ds) # 0, Len(ds) # 1 PROVE FALSE
    OBVIOUS
  <2>n. \A n \in Nat : n # 0 /\ n # 1 => n >= 2
    OBVIOUS
  <2>m. Len(ds) \in Nat /\ DOMAIN ds = 1 .. Len(ds)
    BY <1>3
  <2>0. Len(ds) >= 2 /\ DOMAIN ds = 1 .. Len(ds) /\ Len(ds) \in Nat
    BY <2>n, <2>m
  <2>1. 1 \in DOMAIN ds /\ 2 \in DOMAIN ds
    BY <2>0
  <2>2. ds[1] \in D /\ ds[2] \in D
    BY <1>3, <2>1
  <2>3. ds[1] = ds[2]
    BY <1>4, <2>2
  <2> QED
    BY <2>1, <2>3, <1>3 DEF IsInjective
<1>6. CASE Len(ds) = 0
  <2>1. D = {}
    BY <1>3, <1>6 DEF Range
  <2>2. b = (a + Len(ss)) + 1
    BY <1>1, <1>2, <1>6
  <2> QED
    BY <2>1, <2>2 DEF D, I, a, b, ss, StoresLie
<1>7. CASE Len(ds) = 1
  <2>1. 1 \in 1 .. Len(ds) /\ ds[1] \in D
    BY <1>3, <1>7
  <2>2. D = {ds[1]}
    BY <2>1, <1>4
  <2>3. /\ b = ((a + Len(ss)) + 1) + 1 /\ a + ((Len(ss) + 1) + 1) - 1 = (a + Len(ss)) + 1
        /\ Len(ss) + 1 + 1 \in 1 .. Len(c)
    BY <1>1, <1>2, <1>7
  <2>4. o[pc[1]][(a + Len(ss)) + 1] = c[Len(ss) + 1 + 1]
    BY <2>3, <1>1 DEF Lies
  <2>5. c[Len(ss) + 1 + 1] = StoreTo(ds[1], m[ds[1]])
    BY <2>1, <1>2
  <2> QED
    BY <2>1, <2>2, <2>3, <2>4, <2>5 DEF D, I, a, b, ss, StoresLie
<1> QED
  BY <1>5, <1>6, <1>7

-----------------------------------------------------------------------------
(* The two functions side by side.                                         *)

\* o is code in which the instructions control can reach have become theirs; the
\* code of the i-th instruction of block b starts at AT[b][i].
Assembled(o, al, W, AT) ==
  /\ Allocation(al, W)
  /\ \A b \in Reachable(F) : AT[b][1] = 1
  /\ \A p \in {q \in Points(F) : q[1] \in Reachable(F)} :
       /\ KeepsApart(F, p, al, liveOut2[p])
       /\ \E m : InPiece(F, o, al, W, AT[p[1]], p, m, liveIn2[p], liveOut2[p])

\* The rewritten function loads what the instruction at pc reads; what is live
\* there is the same in both.
Loading(o, al, W, AT) ==
  \E m : \E t \in 0 .. Len(SetToSeq(SrcsIn(At(F, pc), W))) :
    /\ InPiece(F, o, al, W, AT[pc[1]], pc, m, liveIn2[pc], liveOut2[pc])
    /\ newPc = AT[pc[1]][pc[2]] + t
    /\ Agree(al, W, liveIn2[pc]) /\ Loaded(W, m, t)

\* It is about to store what the instruction before pc wrote.
Storing(o, al, W, AT) ==
  \E d \in W : \E r \in PhysRegs :
    /\ newPc \in Nat /\ newPc + 1 = AT[pc[1]][pc[2]]
    /\ o[pc[1]][newPc] = StoreTo(d, r) /\ StandsFor(newRegs[r], oldRegs[d])
    /\ Agree(al, W, liveIn2[pc] \ {d})

InLockstep(o, al, W) ==
  \E AT : /\ Assembled(o, al, W, AT)
          /\ \/ Returned
             \/ /\ pc \in Points(F) /\ pc[1] \in Reachable(F)
                /\ Loading(o, al, W, AT) \/ Storing(o, al, W, AT)

LEMMA ReachableClosed ==
  ASSUME NEW G, IsFunction(G)
  PROVE  /\ Entry(G) \in Reachable(G) /\ Reachable(G) \subseteq BlocksOf(G)
         /\ \A b \in Reachable(G) : successors(G, b) \subseteq Reachable(G)
<1>1. Entry(G) \in BlocksOf(G) /\ \A b \in BlocksOf(G) : successors(G, b) \subseteq BlocksOf(G)
  BY FunctionFacts
<1> QED
  BY <1>1 DEF Reachable, Closed

\* At the entry both have what the caller passes, and the virtual registers hold
\* poison.
LEMMA InLockstepStart ==
  ASSUME IsFunction(F), IsCode(F), LVInv, phase = "done", ExecInit,
         NEW o, NEW al, NEW W, NEW AT, Assembled(o, al, W, AT)
  PROVE  InLockstep(o, al, W)
<1> DEFINE e == Entry(F)
<1>1. e \in Reachable(F) /\ e \in BlocksOf(F) /\ pc = <<e, 1>> /\ newPc = 1 /\ AT[e][1] = 1
  BY ReachableClosed DEF ExecInit, Assembled
<1>2. pc \in Points(F)
  <2>1. Len(F.code[e]) \in Nat /\ Len(F.code[e]) > 0
    BY <1>1, FunctionFacts
  <2>2. 1 \in 1 .. Len(F.code[e])
    BY <2>1
  <2> QED
    BY <2>2, <1>1, PointFacts
<1>3. PICK m : InPiece(F, o, al, W, AT[pc[1]], pc, m, liveIn2[pc], liveOut2[pc])
  BY <1>1, <1>2 DEF Assembled
<1>4. Len(SetToSeq(SrcsIn(At(F, pc), W))) \in Nat
  <2>1. SetToSeq(SrcsIn(At(F, pc), W)) \in Seq(SrcsIn(At(F, pc), W))
    BY <1>2, OperandSeqs
  <2> QED
    BY <2>1
<1>5. \A v \in VirtRegs : \A x : StandsFor(x, oldRegs[v])
  <2>1. \A v \in VirtRegs : oldRegs[v] \in Poison
    BY DEF ExecInit, Poison, Regs
  <2> QED
    BY <2>1 DEF StandsFor
<1>6. Agree(al, W, liveIn2[pc])
  <2>1. DOMAIN al \subseteq VirtRegs /\ W \subseteq VirtRegs
    BY DEF Assembled, Allocation
  <2>2. /\ DOMAIN oldRegs = Regs /\ DOMAIN newRegs = PhysRegs /\ DOMAIN slots = VirtRegs
        /\ \A r \in PhysRegs : StandsFor(newRegs[r], oldRegs[r])
    BY StandsForItself DEF ExecInit, Regs
  <2> QED
    BY <2>1, <2>2, <1>5 DEF Agree
<1>7. Loaded(W, m, 0)
  BY DEF Loaded
<1>8. Loading(o, al, W, AT)
  <2>1. 0 \in 0 .. Len(SetToSeq(SrcsIn(At(F, pc), W))) /\ newPc = AT[pc[1]][pc[2]] + 0
    BY <1>1, <1>4
  <2> QED
    BY <2>1, <1>3, <1>6, <1>7 DEF Loading
<1> QED
  BY <1>1, <1>2, <1>8 DEF InLockstep

\* Instructions side by side read the same.
LEMMA InLockstepReads ==
  ASSUME IsFunction(F), IsCode(F), LVInv, phase = "done", NEW o, NEW al, NEW W, InLockstep(o, al, W)
  PROVE  ReadsAgreeAt(o)
<1> SUFFICES ASSUME ~Returned, o[pc[1]][newPc].mem = "none"
             PROVE  ReadsAgreeAt(o)
  BY DEF ReadsAgreeAt
<1>1. PICK AT : /\ Assembled(o, al, W, AT) /\ pc \in Points(F)
                /\ Loading(o, al, W, AT) \/ Storing(o, al, W, AT)
  BY DEF InLockstep
<1>2. ~Storing(o, al, W, AT)
  <2>1. \A d, r : StoreTo(d, r).mem = "store"
    BY DEF StoreTo
  <2> QED
    BY <2>1 DEF Storing
<1>3. PICK m : \E t \in 0 .. Len(SetToSeq(SrcsIn(At(F, pc), W))) :
        /\ InPiece(F, o, al, W, AT[pc[1]], pc, m, liveIn2[pc], liveOut2[pc])
        /\ newPc = AT[pc[1]][pc[2]] + t
        /\ Agree(al, W, liveIn2[pc]) /\ Loaded(W, m, t)
  BY <1>1, <1>2 DEF Loading
<1> DEFINE ss == SetToSeq(SrcsIn(At(F, pc), W))
           at == AT[pc[1]]
<1>4. PICK t \in 0 .. Len(ss) :
        /\ InPiece(F, o, al, W, at, pc, m, liveIn2[pc], liveOut2[pc])
        /\ newPc = at[pc[2]] + t
        /\ Agree(al, W, liveIn2[pc]) /\ Loaded(W, m, t)
  BY <1>3
<1>5. Allocation(al, W) /\ Len(ss) \in Nat
  <2>1. ss \in Seq(SrcsIn(At(F, pc), W))
    BY <1>1, OperandSeqs
  <2> QED
    BY <2>1, <1>1 DEF Assembled
<1>6. use(At(F, pc)) \subseteq liveIn2[pc]
  BY <1>1, LiveAlongPaths DEF LiveBefore
<1> HIDE DEF at
<1>7. t = Len(ss)
  <2> SUFFICES ASSUME t < Len(ss) PROVE FALSE
    BY <1>5
  <2>1. t \in Nat
    BY <1>5
  <2>2. o[pc[1]][newPc] = LoadFrom(ss[t + 1], m[ss[t + 1]])
    BY <1>1, <1>4, <1>5, <2>1, NextLoad
  <2> QED
    BY <2>2 DEF LoadFrom
<1> QED
  BY <1>1, <1>4, <1>5, <1>6, <1>7, ReadsHome DEF ReadsAgreeAt, ReadsAs

\* The store of the register in D, if there is one, is next.
StoreLeft(o, W, AT, D) ==
  \/ D = {} /\ newPc = AT[pc[1]][pc[2]]
  \/ \E d \in W : \E r \in PhysRegs :
       /\ D = {d} /\ newPc \in Nat /\ newPc + 1 = AT[pc[1]][pc[2]]
       /\ o[pc[1]][newPc] = StoreTo(d, r) /\ StandsFor(newRegs[r], oldRegs[d])

\* What is live after an instruction is live before the next, and control stays
\* where it can reach.
LEMMA NextInLockstep ==
  ASSUME IsFunction(F), LVInv, phase = "done", lvVars' = lvVars, pc \in Points(F),
         NEW o, NEW al, NEW W, NEW AT, Assembled(o, al, W, AT),
         pc' \in NextPoints(F, pc), pc'[1] \in Reachable(F),
         NEW L, NEW D, liveOut2[pc] \subseteq L, Agree(al, W, L \ D)',
         StoreLeft(o, W, AT, D)'
  PROVE  InLockstep(o, al, W)'
<1>1. pc' \in Points(F) /\ liveIn2[pc'] \subseteq liveOut2[pc]
  BY LiveAlongPaths
<1>2. Assembled(o, al, W, AT)'
  BY DEF Assembled, lvVars, Allocation
<1>3. /\ F' = F /\ liveIn2' = liveIn2 /\ liveOut2' = liveOut2
  BY DEF lvVars
<1>4. Agree(al, W, liveIn2[pc] \ D)'
  <2>1. /\ DOMAIN oldRegs' = Regs /\ DOMAIN newRegs' = PhysRegs /\ DOMAIN slots' = VirtRegs
        /\ \A r \in (L \ D) \cap PhysRegs : StandsFor(newRegs'[r], oldRegs'[r])
        /\ \A v \in (L \ D) \cap DOMAIN al : StandsFor(newRegs'[al[v]], oldRegs'[v])
        /\ \A v \in (L \ D) \cap W : StandsFor(slots'[v], oldRegs'[v])
    BY DEF Agree
  <2> HIDE DEF Agree
  <2>2. liveIn2'[pc'] \ D \subseteq L \ D
    BY <1>1, <1>3
  <2>3. /\ \A r \in (liveIn2'[pc'] \ D) \cap PhysRegs : StandsFor(newRegs'[r], oldRegs'[r])
        /\ \A v \in (liveIn2'[pc'] \ D) \cap DOMAIN al : StandsFor(newRegs'[al[v]], oldRegs'[v])
        /\ \A v \in (liveIn2'[pc'] \ D) \cap W : StandsFor(slots'[v], oldRegs'[v])
    BY <2>1, <2>2
  <2> QED
    BY <2>1, <2>3 DEF Agree
<1>5. CASE D = {} /\ newPc' = AT[pc'[1]][pc'[2]]
  <2> DEFINE q == pc'
  <2>1. PICK m : InPiece(F, o, al, W, AT[pc'[1]], pc', m, liveIn2[pc'], liveOut2[pc'])
    BY <1>1 DEF Assembled
  <2>2. 0 \in 0 .. Len(SetToSeq(SrcsIn(At(F, pc'), W)))
    <3>1. SetToSeq(SrcsIn(At(F, q), W)) \in Seq(SrcsIn(At(F, q), W))
      BY <1>1, OperandSeqs
    <3> QED
      BY <3>1
  <2>3. newPc' = AT[pc'[1]][pc'[2]] + 0
    BY <1>1, <1>5, <2>1 DEF InPiece
  <2>4. Loaded(W, m, 0)'
    BY DEF Loaded
  <2>a. Agree(al, W, liveIn2[pc])'
    <3>1. liveIn2'[pc'] \ D = liveIn2'[pc']
      BY <1>5
    <3> QED
      BY <3>1, <1>4
  <2>b. InPiece(F, o, al, W, AT[pc[1]], pc, m, liveIn2[pc], liveOut2[pc])'
    BY <2>1, <1>3
  <2>c. 0 \in 0 .. Len(SetToSeq(SrcsIn(At(F', pc'), W)))
    BY <2>2, <1>3
  <2>5. Loading(o, al, W, AT)'
    BY <2>a, <2>b, <2>c, <2>3, <2>4 DEF Loading
  <2> QED
    BY <1>1, <1>2, <1>3, <2>5 DEF InLockstep
<1>6. CASE \E d \in W : \E r \in PhysRegs :
             /\ D = {d} /\ newPc' \in Nat /\ newPc' + 1 = AT[pc'[1]][pc'[2]]
             /\ o[pc'[1]][newPc'] = StoreTo(d, r) /\ StandsFor(newRegs'[r], oldRegs'[d])
  <2>0. PICK d \in W : \E r \in PhysRegs :
             /\ D = {d} /\ newPc' \in Nat /\ newPc' + 1 = AT[pc'[1]][pc'[2]]
             /\ o[pc'[1]][newPc'] = StoreTo(d, r) /\ StandsFor(newRegs'[r], oldRegs'[d])
    BY <1>6
  <2>a. Agree(al, W, liveIn2[pc] \ {d})'
    BY <2>0, <1>4
  <2>1. Storing(o, al, W, AT)'
    BY <2>0, <2>a DEF Storing
  <2> QED
    BY <1>1, <1>2, <1>3, <2>1 DEF InLockstep
<1> QED
  BY <1>5, <1>6 DEF StoreLeft

\* The store after an instruction puts what it wrote where it is expected.
LEMMA StoreStep ==
  ASSUME IsFunction(F), LVInv, phase = "done", lvVars' = lvVars,
         pc \in Points(F), pc[1] \in Reachable(F),
         NEW o, NEW al, NEW W, NEW AT, Assembled(o, al, W, AT), Storing(o, al, W, AT),
         SpillCode(o) \/ Execute(o)
  PROVE  InLockstep(o, al, W)'
<1>1. PICK d \in W : \E r \in PhysRegs :
        /\ newPc \in Nat /\ newPc + 1 = AT[pc[1]][pc[2]]
        /\ o[pc[1]][newPc] = StoreTo(d, r) /\ StandsFor(newRegs[r], oldRegs[d])
        /\ Agree(al, W, liveIn2[pc] \ {d})
  BY DEF Storing
<1>2. PICK r \in PhysRegs :
        /\ newPc \in Nat /\ newPc + 1 = AT[pc[1]][pc[2]]
        /\ o[pc[1]][newPc] = StoreTo(d, r) /\ StandsFor(newRegs[r], oldRegs[d])
        /\ Agree(al, W, liveIn2[pc] \ {d})
  BY <1>1
<1>3. LET J == o[pc[1]][newPc] IN J.mem = "store" /\ J.slot = d /\ J.srcs[1] = r
  BY <1>2 DEF StoreTo
<1>4. /\ slots' = [slots EXCEPT ![d] = newRegs[r]]
      /\ newPc' = newPc + 1 /\ UNCHANGED <<newRegs, pc, oldRegs>>
  BY <1>3 DEF SpillCode, Execute
<1>5. F' = F /\ liveIn2' = liveIn2 /\ liveOut2' = liveOut2
  BY DEF lvVars
<1>6. DOMAIN al \subseteq VirtRegs /\ W \subseteq VirtRegs /\ DOMAIN al \cap W = {}
  BY DEF Assembled, Allocation
<1>7. Agree(al, W, liveIn2[pc])'
  <2>1. /\ DOMAIN oldRegs = Regs /\ DOMAIN newRegs = PhysRegs /\ DOMAIN slots = VirtRegs
        /\ \A x \in (liveIn2[pc] \ {d}) \cap PhysRegs : StandsFor(newRegs[x], oldRegs[x])
        /\ \A v \in (liveIn2[pc] \ {d}) \cap DOMAIN al : StandsFor(newRegs[al[v]], oldRegs[v])
        /\ \A v \in (liveIn2[pc] \ {d}) \cap W : StandsFor(slots[v], oldRegs[v])
    BY <1>2 DEF Agree
  <2>2. d \in VirtRegs /\ d \notin PhysRegs /\ d \notin DOMAIN al
    BY <1>6, RegsAssumption
  <2>3. DOMAIN slots' = VirtRegs /\ StandsFor(slots'[d], oldRegs[d])
        /\ \A v \in VirtRegs : v # d => slots'[v] = slots[v]
    BY <2>1, <2>2, <1>2, <1>4
  <2>4. \A x \in liveIn2[pc] \cap PhysRegs : StandsFor(newRegs[x], oldRegs[x])
    BY <2>1, <2>2
  <2>5. \A v \in liveIn2[pc] \cap DOMAIN al : StandsFor(newRegs[al[v]], oldRegs[v])
    BY <2>1, <2>2
  <2>6. \A v \in liveIn2[pc] \cap W : StandsFor(slots'[v], oldRegs[v])
    BY <2>1, <2>3, <1>6
  <2> QED
    BY <2>1, <2>3, <2>4, <2>5, <2>6, <1>4, <1>5 DEF Agree
<1>8. PICK m : InPiece(F, o, al, W, AT[pc[1]], pc, m, liveIn2[pc], liveOut2[pc])
  BY DEF Assembled
<1>9. 0 \in 0 .. Len(SetToSeq(SrcsIn(At(F, pc), W)))
  <2>1. SetToSeq(SrcsIn(At(F, pc), W)) \in Seq(SrcsIn(At(F, pc), W))
    BY OperandSeqs
  <2> QED
    BY <2>1
<1>10. newPc' = AT[pc[1]][pc[2]] + 0
  BY <1>2, <1>4
<1>11. Loaded(W, m, 0)'
  BY DEF Loaded
<1>12. Loading(o, al, W, AT)'
  BY <1>4, <1>5, <1>7, <1>8, <1>9, <1>10, <1>11 DEF Loading
<1>13. Assembled(o, al, W, AT)'
  BY DEF Assembled, lvVars, Allocation
<1> QED
  BY <1>4, <1>5, <1>12, <1>13 DEF InLockstep

\* Every step keeps the two functions side by side.
LEMMA InLockstepStep ==
  ASSUME IsFunction(F), IsCode(F), LVInv, phase = "done", lvVars' = lvVars,
         NEW o, NEW al, NEW W, InLockstep(o, al, W), ExecNext(o)
  PROVE  InLockstep(o, al, W)'
<1>1. PICK AT : /\ Assembled(o, al, W, AT) /\ pc \in Points(F) /\ pc[1] \in Reachable(F)
                /\ Loading(o, al, W, AT) \/ Storing(o, al, W, AT)
  BY DEF InLockstep, ExecNext
<1>2. SpillCode(o) \/ Execute(o)
  BY DEF ExecNext
<1>3. CASE Storing(o, al, W, AT)
  BY <1>1, <1>2, <1>3, StoreStep
<1>4. CASE Loading(o, al, W, AT)
  <2> DEFINE I  == At(F, pc)
             ss == SetToSeq(SrcsIn(I, W))
             at == AT[pc[1]]
  <2>1. PICK m : \E t \in 0 .. Len(ss) :
          /\ InPiece(F, o, al, W, at, pc, m, liveIn2[pc], liveOut2[pc])
          /\ newPc = at[pc[2]] + t
          /\ Agree(al, W, liveIn2[pc]) /\ Loaded(W, m, t)
    BY <1>4 DEF Loading
  <2>2. PICK t \in 0 .. Len(ss) :
          /\ InPiece(F, o, al, W, at, pc, m, liveIn2[pc], liveOut2[pc])
          /\ newPc = at[pc[2]] + t
          /\ Agree(al, W, liveIn2[pc]) /\ Loaded(W, m, t)
    BY <2>1
  <2>3. Allocation(al, W) /\ Len(ss) \in Nat
    <3>1. ss \in Seq(SrcsIn(I, W))
      BY <1>1, OperandSeqs
    <3> QED
      BY <3>1, <1>1 DEF Assembled
  <2>4. use(I) \subseteq liveIn2[pc] /\ liveOut2[pc] \subseteq liveIn2[pc] \cup def(I)
        /\ liveOut2[pc] = UNION {liveIn2[q] : q \in NextPoints(F, pc)}
        /\ NextPoints(F, pc) \subseteq Points(F)
    BY <1>1, LiveAlongPaths DEF LiveBefore
  <2>5. F' = F /\ liveIn2' = liveIn2 /\ liveOut2' = liveOut2
    BY DEF lvVars
  <2>6. t \in Nat /\ t <= Len(ss)
    BY <2>3
  <2> SUFFICES ASSUME NEW in, in = liveIn2[pc], NEW out, out = liveOut2[pc],
                      NEW a, a = at
               PROVE  InLockstep(o, al, W)'
    OBVIOUS
  <2>7. /\ InPiece(F, o, al, W, a, pc, m, in, out)
        /\ Agree(al, W, in) /\ Loaded(W, m, t)
        /\ use(I) \subseteq in /\ out \subseteq in \cup def(I)
    BY <2>2, <2>4
  <2>8. newPc = a[pc[2]] + t
    BY <2>2
  <2>9. CASE t < Len(ss)
    <3>1. /\ pc' = pc /\ newPc' = a[pc[2]] + (t + 1)
          /\ Agree(al, W, in)' /\ Loaded(W, m, t + 1)'
      BY <1>1, <1>2, <2>3, <2>5, <2>6, <2>7, <2>8, <2>9, LoadStep
    <3>2. t + 1 \in 0 .. Len(ss)
      BY <2>3, <2>6, <2>9
    <3>3. Loading(o, al, W, AT)'
      BY <2>2, <2>5, <3>1, <3>2 DEF Loading
    <3>4. Assembled(o, al, W, AT)'
      BY <1>1 DEF Assembled, lvVars, Allocation
    <3> QED
      BY <1>1, <2>5, <3>1, <3>3, <3>4 DEF InLockstep
  <2>10. CASE t = Len(ss)
    <3>0. /\ KeepsApart(F, pc, al, out)
          /\ newPc = a[pc[2]] + Len(ss) /\ Loaded(W, m, Len(ss))
      BY <1>1, <2>7, <2>8, <2>10 DEF Assembled
    <3>1. newPc = a[pc[2]] + Len(SetToSeq(SrcsIn(At(F, pc), W)))
          /\ Loaded(W, m, Len(SetToSeq(SrcsIn(At(F, pc), W))))
          /\ use(At(F, pc)) \subseteq in /\ out \subseteq in \cup def(At(F, pc))
      BY <2>7, <3>0
    <3>a. IF At(F, pc).blockOps = {}
             THEN pc' = <<pc[1], pc[2] + 1>> /\ newPc' = newPc + 1
             ELSE \E b \in At(F, pc).blockOps : pc' = <<b, 1>> /\ newPc' = 1
      BY <1>1, <1>2, <2>3, <2>7, <3>0, <3>1, ExecStep
    <3>b. \A D : D = DstsIn(At(F, pc), W) => Computed(al, W, out, D, m)'
      BY <1>1, <1>2, <2>3, <2>7, <3>0, <3>1, ExecStep
    <3>2. StoresLie(o[pc[1]], a[pc[2]] + Len(SetToSeq(SrcsIn(At(F, pc), W))) + 1,
                    a[pc[2] + 1], DstsIn(At(F, pc), W), m)
      BY <1>1, <2>3, <2>7, NextStore
    <3>3. /\ pc[1] \in BlocksOf(F) /\ pc[2] \in 1 .. Len(F.code[pc[1]])
          /\ Len(F.code[pc[1]]) \in Nat /\ pc[2] \in Nat /\ newPc \in Nat
          /\ \A v \in DOMAIN m : m[v] \in PhysRegs
          /\ DstsIn(I, W) \subseteq DOMAIN m /\ DstsIn(I, W) \subseteq W
      <4>1. /\ pc[1] \in BlocksOf(F) /\ pc[2] \in 1 .. Len(F.code[pc[1]])
            /\ Len(F.code[pc[1]]) \in Nat
        BY <1>1, PointFacts, FunctionFacts
      <4>2. /\ DOMAIN m = SrcsIn(I, W) \cup DstsIn(I, W)
            /\ \A v \in DOMAIN m : m[v] \in PhysRegs
            /\ a[pc[2]] \in Nat
        BY <2>7 DEF InPiece, FitsAt
      <4>3. DstsIn(I, W) \subseteq W
        BY DEF DstsIn
      <4>4. newPc \in Nat
        <5>1. a[pc[2]] \in Nat /\ Len(ss) \in Nat
          BY <2>3, <4>2
        <5> HIDE DEF ss
        <5> QED
          BY <3>0, <5>1
      <4> QED
        BY <4>1, <4>2, <4>3, <4>4
    <3> SUFFICES ASSUME NEW D, D = DstsIn(I, W) PROVE InLockstep(o, al, W)'
      OBVIOUS
    <3>4. Computed(al, W, out, D, m)'
      BY <3>b
    <3>5. /\ Agree(al, W, out \ D)' /\ \A x \in D : StandsFor(newRegs'[m[x]], oldRegs'[x])
          /\ \A v \in D : m[v] \in PhysRegs /\ v \in W
      BY <3>3, <3>4 DEF Computed
    <3>6. StoresLie(o[pc[1]], newPc + 1, a[pc[2] + 1], D, m)
      BY <3>1, <3>2
    <3>7. CASE I.blockOps = {}
      <4>1. pc' = <<pc[1], pc[2] + 1>> /\ newPc' = newPc + 1
        BY <3>7, <3>a
      <4>2. CASE pc[2] = Len(F.code[pc[1]])
        <5>0. pc'[1] = pc[1] /\ pc'[2] = Len(F'.code[pc[1]]) + 1
          BY <4>1, <4>2, <2>5
        <5>1. Returned'
          <6>1. \A n \in Nat : n + 1 > n
            OBVIOUS
          <6> QED
            BY <5>0, <6>1, <2>5, <3>3 DEF Returned
        <5>2. Assembled(o, al, W, AT)'
          BY <1>1 DEF Assembled, lvVars, Allocation
        <5> QED
          BY <5>1, <5>2 DEF InLockstep
      <4>3. CASE pc[2] < Len(F.code[pc[1]])
        <5>1. pc' \in NextPoints(F, pc) /\ pc'[1] = pc[1]
          BY <4>1, <4>3 DEF NextPoints
        <5>2. AT[pc'[1]][pc'[2]] = a[pc[2] + 1] /\ newPc' \in Nat
          BY <4>1, <3>3
        <5>3. StoreLeft(o, W, AT, D)'
          <6>1. CASE D = {} /\ a[pc[2] + 1] = newPc + 1
            BY <6>1, <5>2, <4>1 DEF StoreLeft
          <6>2. CASE \E d \in D : /\ D = {d} /\ a[pc[2] + 1] = newPc + 1 + 1
                                  /\ o[pc[1]][newPc + 1] = StoreTo(d, m[d])
            BY <6>2, <5>1, <5>2, <4>1, <3>5 DEF StoreLeft
          <6> QED
            BY <6>1, <6>2, <3>6 DEF StoresLie
        <5>4. pc'[1] \in Reachable(F) /\ liveOut2[pc] \subseteq out
          BY <1>1, <5>1
        <5> QED
          BY <1>1, <3>5, <5>1, <5>3, <5>4, NextInLockstep
      <4> QED
        BY <4>2, <4>3, <3>3
    <3>8. CASE I.blockOps # {}
      <4>1. PICK b \in I.blockOps : pc' = <<b, 1>> /\ newPc' = 1
        BY <3>8, <3>a
      <4>2. pc[2] = Len(F.code[pc[1]]) /\ I.dsts = <<>>
        BY <1>1, <3>8 DEF IsCode
      <4>3. D = {}
        BY <4>2 DEF DstsIn, Range
      <4>4. b \in successors(F, pc[1])
        BY <4>1, <4>2 DEF successors, At
      <4>5. b \in Reachable(F) /\ AT[b][1] = 1
        BY <1>1, <4>4, ReachableClosed DEF Assembled
      <4>6. pc' \in NextPoints(F, pc)
        BY <4>1, <4>2, <4>4 DEF NextPoints
      <4>7. pc'[1] \in Reachable(F) /\ newPc' = AT[pc'[1]][pc'[2]]
        BY <4>1, <4>5
      <4>8. StoreLeft(o, W, AT, D)' /\ liveOut2[pc] \subseteq out
        BY <4>3, <4>7 DEF StoreLeft
      <4> QED
        BY <1>1, <3>5, <4>8, <4>6, <4>7, NextInLockstep
    <3> QED
      BY <3>7, <3>8
  <2> QED
    BY <2>6, <2>9, <2>10
<1> QED
  BY <1>1, <1>3, <1>4

\* Every block is the pieces of its instructions, and the pieces fit.
AllPlaced(o, P) ==
  \A b \in BlocksOf(F) : \E at : Placed(o[b], b, Len(F.code[b]), at, P)

PiecesFit(al, W, P) ==
  \A p \in {q \in Points(F) : q[1] \in Reachable(F)} :
    /\ KeepsApart(F, p, al, liveOut2[p])
    /\ \A c \in P[p] : \E m : /\ c = Expanded(F, p, al, W, m)
                              /\ FitsAt(F, p, al, W, m, liveIn2[p], liveOut2[p])

LEMMA PutTogether ==
  ASSUME IsFunction(F), NEW o, NEW al, NEW W, Allocation(al, W), NEW P,
         AllPlaced(o, P), PiecesFit(al, W, P)
  PROVE  \E AT : Assembled(o, al, W, AT)
<1> DEFINE AT == [b \in BlocksOf(F) |-> CHOOSE at : Placed(o[b], b, Len(F.code[b]), at, P)]
<1>1. \A b \in BlocksOf(F) : Placed(o[b], b, Len(F.code[b]), AT[b], P)
  BY DEF AllPlaced
<1> HIDE DEF AT
<1>2. \A b \in Reachable(F) : AT[b][1] = 1
  BY <1>1, ReachableClosed DEF Placed
<1>3. ASSUME NEW p \in Points(F), p[1] \in Reachable(F)
      PROVE  /\ KeepsApart(F, p, al, liveOut2[p])
             /\ \E m : InPiece(F, o, al, W, AT[p[1]], p, m, liveIn2[p], liveOut2[p])
  <2> DEFINE b == p[1]
             i == p[2]
             at == AT[b]
             n == Len(F.code[b])
  <2>1. b \in BlocksOf(F) /\ i \in 1 .. n /\ p = <<b, i>>
    BY PointFacts
  <2>2. Placed(o[b], b, n, at, P)
    BY <2>1, <1>1
  <2> HIDE DEF at, n
  <2>3. /\ at \in [1 .. (n + 1) -> 1 .. (Len(o[b]) + 1)]
        /\ \E c \in P[<<b, i>>] : Lies(o[b], at[i], c) /\ at[i + 1] = at[i] + Len(c)
    BY <2>1, <2>2 DEF Placed
  <2>4. PICK c \in P[p] : Lies(o[b], at[i], c) /\ at[i + 1] = at[i] + Len(c)
    BY <2>1, <2>3
  <2>5. PICK m : c = Expanded(F, p, al, W, m) /\ FitsAt(F, p, al, W, m, liveIn2[p], liveOut2[p])
    BY <1>3, <2>4 DEF PiecesFit
  <2>6. at[i] \in Nat
    <3>1. n \in Nat
      BY <2>1, FunctionFacts DEF n
    <3>2. i \in 1 .. (n + 1)
      BY <3>1, <2>1
    <3> QED
      BY <3>2, <2>3
  <2>7. InPiece(F, o, al, W, at, p, m, liveIn2[p], liveOut2[p])
    BY <2>4, <2>5, <2>6 DEF InPiece
  <2> QED
    BY <2>7, <1>3 DEF PiecesFit, at
<1> QED
  BY <1>2, <1>3 DEF Assembled

\* What nothing changes stays side by side.
LEMMA InLockstepKept ==
  ASSUME lvVars' = lvVars, execVars' = execVars, NEW o, NEW al, NEW W, InLockstep(o, al, W)
  PROVE  InLockstep(o, al, W)'
<1>1. /\ F' = F /\ liveIn2' = liveIn2 /\ liveOut2' = liveOut2 /\ pc' = pc /\ newPc' = newPc
      /\ oldRegs' = oldRegs /\ newRegs' = newRegs /\ slots' = slots
  BY DEF lvVars, execVars
<1>2. PICK AT : /\ Assembled(o, al, W, AT)
                /\ \/ Returned
                   \/ /\ pc \in Points(F) /\ pc[1] \in Reachable(F)
                      /\ Loading(o, al, W, AT) \/ Storing(o, al, W, AT)
  BY DEF InLockstep
<1>3. Assembled(o, al, W, AT)'
  BY <1>2 DEF Assembled, lvVars, Allocation
<1>4. Returned => Returned'
  BY <1>1 DEF Returned
<1>5. Loading(o, al, W, AT) => Loading(o, al, W, AT)'
  BY <1>1 DEF Loading, Agree, Loaded
<1>6. Storing(o, al, W, AT) => Storing(o, al, W, AT)'
  BY <1>1 DEF Storing, Agree
<1> QED
  BY <1>1, <1>2, <1>3, <1>4, <1>5, <1>6 DEF InLockstep
=============================================================================
