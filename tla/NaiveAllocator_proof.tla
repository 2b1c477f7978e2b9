------------------------ MODULE NaiveAllocator_proof ------------------------
(***************************************************************************)
(* Proofs about NaiveAllocator: the code it returns computes what the      *)
(* original computes, and it gives up only where no choice of registers    *)
(* would have done.                                                        *)
(***************************************************************************)
EXTENDS NaiveAllocator, LockstepExecution_proof

\* What the point p may become. Nothing is renamed: al is empty.
Pieces ==
  [p \in Points(F) |-> {Expanded(F, p, <<>>, virtRegs, m) : m \in OperandMaps(p)}]

\* Nothing is rewritten before the analysis has finished; then the loop goes
\* through the points in layout order.
NAInv ==
  /\ LVInv /\ F \in Funcs
  /\ step \in {"rewrite", "done", "failed"} /\ pos \in Nat \ {0}
  /\ phase # "done" => step = "rewrite" /\ pos = 1 /\ out = [b \in BlocksOf(F) |-> <<>>]
  /\ phase = "done" => Rewritten(F, out, pos, Pieces)
  /\ step = "done" => pos > Len(LayoutPoints(F))
  /\ step = "failed" => /\ pos <= Len(LayoutPoints(F))
                        /\ OperandMaps(LayoutPoints(F)[pos]) = {}

\* The rewritten code runs side by side with the original.
NXInv ==
  /\ step # "done" => ExecInit
  /\ step = "done" => \E o, al, W : /\ o = out /\ al = <<>> /\ W = virtRegs
                                    /\ InLockstep(o, al, W)

-----------------------------------------------------------------------------
(* The code of an instruction.                                             *)

LEMMA NoneRenamed ==
  ASSUME NEW I \in Instr
  PROVE  Rename(I, <<>>, <<>>) = I
<1>1. ASSUME NEW s \in Seq(Regs) PROVE RenameSeq(s, <<>>) = s
  <2>1. DOMAIN <<>> = {}
    OBVIOUS
  <2>2. RenameSeq(s, <<>>) = [k \in DOMAIN s |-> s[k]]
    BY <2>1 DEF RenameSeq
  <2> QED
    BY <2>2
<1>2. I.srcs \in Seq(Regs) /\ I.dsts \in Seq(Regs)
  BY DEF Instr
<1>3. RenameSeq(I.srcs, <<>>) = I.srcs /\ RenameSeq(I.dsts, <<>>) = I.dsts
  BY <1>1, <1>2
<1>4. Rename(I, <<>>, <<>>) = [I EXCEPT !.srcs = I.srcs, !.dsts = I.dsts]
  BY <1>3 DEF Rename
<1>5. [I EXCEPT !.srcs = I.srcs, !.dsts = I.dsts] = I
  BY DEF Instr
<1> QED
  BY <1>4, <1>5

\* The registers the operands at p borrow hold nothing that is needed.
LEMMA OperandMapFacts ==
  ASSUME IsFunction(F), NEW p \in Points(F), NEW m \in OperandMaps(p)
  PROVE  FitsAt(F, p, <<>>, virtRegs, m, liveIn2[p], liveOut2[p])
<1> DEFINE S == SrcsIn(At(F, p), virtRegs)
           D == DstsIn(At(F, p), virtRegs)
           A == BestOf(Cardinality(S \cap D), PhysRegs \ (liveIn2[p] \cup liveOut2[p]))
           B == BestOf(Cardinality(S \ D), (PhysRegs \ liveIn2[p]) \ A)
           C == BestOf(Cardinality(D \ S), (PhysRegs \ liveOut2[p]) \ A)
<1>1. m \in Borrowed(S, D, A, B, C)
  BY DEF OperandMaps
<1>2. /\ A \subseteq PhysRegs \ (liveIn2[p] \cup liveOut2[p])
      /\ B \subseteq (PhysRegs \ liveIn2[p]) \ A /\ C \subseteq (PhysRegs \ liveOut2[p]) \ A
  BY DEF BestOf
<1> HIDE DEF S, D, A, B, C
<1>3. \A r \in A : r \notin B /\ r \notin C
  BY <1>2
<1>4. /\ \A v : v \in DOMAIN m <=> v \in S \/ v \in D
      /\ \A v \in S \cap D : m[v] \in A
      /\ \A v \in S \ D : m[v] \in B
      /\ \A v \in D \ S : m[v] \in C
      /\ \A v, w \in S : m[v] = m[w] => v = w
  BY <1>1, <1>3, BorrowedFacts
<1>5. DOMAIN m = S \cup D /\ \A v \in DOMAIN m : m[v] \in PhysRegs
  BY <1>2, <1>4
<1>6. \A v \in S : m[v] \notin liveIn2[p]
  BY <1>2, <1>4
<1>7. \A v \in D : m[v] \notin liveOut2[p]
  BY <1>2, <1>4
<1>8. DOMAIN <<>> = {}
  OBVIOUS
<1> QED
  BY <1>4, <1>5, <1>6, <1>7, <1>8 DEF FitsAt, S, D

LEMMA PieceOf ==
  ASSUME IsFunction(F), NEW p \in Points(F), NEW m \in OperandMaps(p)
  PROVE  /\ Spilled(At(F, p), m, m, virtRegs) = Expanded(F, p, <<>>, virtRegs, m)
         /\ Spilled(At(F, p), m, m, virtRegs) \in Seq(Instr)
<1>1. At(F, p) \in Instr
  BY InstrAt
<1>2. Spilled(At(F, p), m, m, virtRegs) = Expanded(F, p, <<>>, virtRegs, m)
  BY <1>1, NoneRenamed DEF Expanded
<1>3. /\ DOMAIN m = SrcsIn(At(F, p), virtRegs) \cup DstsIn(At(F, p), virtRegs)
      /\ \A v \in DOMAIN m : m[v] \in PhysRegs
  BY OperandMapFacts DEF FitsAt
<1>4. virtRegs \in SUBSET VirtRegs
  BY DEF virtRegs, VirtRegsOf
<1>5. Spilled(At(F, p), m, m, virtRegs) \in Seq(Instr)
  BY <1>1, <1>3, <1>4, SpilledFacts DEF Regs
<1> QED
  BY <1>2, <1>5

\* The pieces fit together.
LEMMA NAPiecesFit ==
  ASSUME IsFunction(F)
  PROVE  Allocation(<<>>, virtRegs) /\ PiecesFit(<<>>, virtRegs, Pieces)
<1>1. DOMAIN <<>> = {}
  OBVIOUS
<1>2. virtRegs \subseteq VirtRegs /\ VirtRegsOf(F) \subseteq virtRegs
  BY DEF virtRegs, VirtRegsOf
<1>3. Allocation(<<>>, virtRegs)
  BY <1>1, <1>2 DEF Allocation
<1>4. ASSUME NEW p \in Points(F)
      PROVE  KeepsApart(F, p, <<>>, liveOut2[p])
  BY <1>1 DEF KeepsApart
<1>5. ASSUME NEW p \in Points(F), NEW c \in Pieces[p]
      PROVE  \E m : /\ c = Expanded(F, p, <<>>, virtRegs, m)
                    /\ FitsAt(F, p, <<>>, virtRegs, m, liveIn2[p], liveOut2[p])
  <2>1. PICK m \in OperandMaps(p) : c = Expanded(F, p, <<>>, virtRegs, m)
    BY <1>5 DEF Pieces
  <2> QED
    BY <2>1, OperandMapFacts
<1> QED
  BY <1>3, <1>4, <1>5 DEF PiecesFit

-----------------------------------------------------------------------------
(* Giving up.                                                              *)

\* If the operands fit in free registers in some way, the three greedy choices,
\* which never take one back, find registers for all of them.
LEMMA OperandsFit ==
  ASSUME IsFunction(F), NEW p \in Points(F), NEW f,
         LET S == SrcsIn(At(F, p), virtRegs)
             D == DstsIn(At(F, p), virtRegs)
         IN  /\ f \in [S \cup D -> PhysRegs]
             /\ \A v, w \in S : f[v] \notin liveIn2[p] /\ (f[v] = f[w] => v = w)
             /\ \A v, w \in D : f[v] \notin liveOut2[p] /\ (f[v] = f[w] => v = w)
  PROVE  OperandMaps(p) # {}
<1> DEFINE S == SrcsIn(At(F, p), virtRegs)
           D == DstsIn(At(F, p), virtRegs)
           FA == PhysRegs \ (liveIn2[p] \cup liveOut2[p])
           FS == PhysRegs \ liveIn2[p]
           FD == PhysRegs \ liveOut2[p]
           A == BestOf(Cardinality(S \cap D), FA)
           B == BestOf(Cardinality(S \ D), FS \ A)
           C == BestOf(Cardinality(D \ S), FD \ A)
<1>0. OperandMaps(p) = Borrowed(S, D, A, B, C)
  BY DEF OperandMaps
<1>1. IsFiniteSet(S) /\ IsFiniteSet(D)
  BY InstrAt, OperandSets
<1>2. /\ f \in [S \cup D -> PhysRegs]
      /\ \A v, w \in S : f[v] \notin liveIn2[p] /\ (f[v] = f[w] => v = w)
      /\ \A v, w \in D : f[v] \notin liveOut2[p] /\ (f[v] = f[w] => v = w)
  OBVIOUS
<1>3. /\ IsFiniteSet(S \cap D) /\ IsFiniteSet(S \ D) /\ IsFiniteSet(D \ S)
      /\ Cardinality(S \cap D) \in Nat /\ Cardinality(S \ D) \in Nat
      /\ Cardinality(D \ S) \in Nat
  BY <1>1, FS_Subset, FS_CardinalityType
<1> HIDE DEF S, D
<1>4. FA \in SUBSET PhysRegs /\ FS \in SUBSET PhysRegs /\ FD \in SUBSET PhysRegs
      /\ FA \subseteq FS /\ FA \subseteq FD
  OBVIOUS
<1>5. ASSUME NEW T, NEW Free \in SUBSET PhysRegs, T \in SUBSET (S \cup D),
             \A v \in T : f[v] \in Free, \A v, w \in T : f[v] = f[w] => v = w
      PROVE  Cardinality(T) <= Cardinality(Free)
  <2> DEFINE g == [v \in T |-> f[v]]
  <2>1. g \in Injection(T, Free)
    BY <1>5 DEF Injection, IsInjective
  <2>2. IsFiniteSet(Free)
    BY RegsAssumption, FS_Subset
  <2> HIDE DEF g
  <2> QED
    BY <2>1, <2>2, FS_Injection
<1>6. Cardinality(S \cap D) <= Cardinality(FA)
  BY <1>2, <1>4, <1>5
<1>7. IsFiniteSet(A) /\ Cardinality(A) = Cardinality(S \cap D) /\ A \subseteq FA
  BY <1>3, <1>4, <1>6, BestOfSize DEF BestOf
<1> HIDE DEF A
\* The registers left after A was taken are enough for T.
<1>8. ASSUME NEW T, NEW Free \in SUBSET PhysRegs, A \subseteq Free, T \in {S, D},
             \A v \in T : f[v] \in Free, \A v, w \in T : f[v] = f[w] => v = w
      PROVE  Cardinality(T \ (S \cap D)) <= Cardinality(Free \ A)
  <2>1. IsFiniteSet(T) /\ S \cap D \in SUBSET T /\ T \in SUBSET (S \cup D)
    BY <1>8, <1>1
  <2>2. IsFiniteSet(Free)
    BY RegsAssumption, FS_Subset
  <2>3. Cardinality(T) <= Cardinality(Free)
    BY <2>1, <1>8, <1>5
  <2>4. Cardinality(T \ (S \cap D)) = Cardinality(T) - Cardinality(S \cap D)
    BY <2>1, SizeOfDifference
  <2>5. Cardinality(Free \ A) = Cardinality(Free) - Cardinality(A)
    BY <2>2, <1>8, SizeOfDifference
  <2>6. Cardinality(T) \in Nat /\ Cardinality(Free) \in Nat
    BY <2>1, <2>2, FS_CardinalityType
  <2>7. \A x, y, z \in Nat : x <= y => x - z <= y - z
    OBVIOUS
  <2> QED
    BY <2>3, <2>4, <2>5, <2>6, <2>7, <1>3, <1>7
<1>9. Cardinality(S \ D) <= Cardinality(FS \ A)
  <2>1. S \ (S \cap D) = S \ D /\ \A v \in S : f[v] \in FS
    BY <1>2
  <2> QED
    BY <2>1, <1>2, <1>4, <1>7, <1>8
<1>10. Cardinality(D \ S) <= Cardinality(FD \ A)
  <2>1. D \ (S \cap D) = D \ S /\ \A v \in D : f[v] \in FD
    BY <1>2
  <2> QED
    BY <2>1, <1>2, <1>4, <1>7, <1>8
<1>11. /\ IsFiniteSet(B) /\ Cardinality(B) = Cardinality(S \ D)
       /\ IsFiniteSet(C) /\ Cardinality(C) = Cardinality(D \ S)
  <2>1. FS \ A \in SUBSET PhysRegs /\ FD \ A \in SUBSET PhysRegs
    BY <1>4
  <2> QED
    BY <2>1, <1>3, <1>9, <1>10, BestOfSize
<1>12. /\ ExistsBijection(S \cap D, A) /\ ExistsBijection(S \ D, B)
       /\ ExistsBijection(D \ S, C)
  BY <1>3, <1>7, <1>11, FS_SameCardinalityBij
<1> HIDE DEF B, C
<1> QED
  BY <1>0, <1>12, BorrowedExists

-----------------------------------------------------------------------------
(* The rewriting loop.                                                     *)

LEMMA NASteps ==
  ASSUME [NANext]_vars
  PROVE  F' = F /\ (phase = "done" => UNCHANGED lvVars)
<1>1. CASE Analyse
  BY <1>1 DEF Analyse, LVNext, VisitBlock, EndSweep, VisitInstruction, NextBlock
<1>2. CASE ~Analyse
  BY <1>2 DEF NANext, vars, lvVars, RewriteInstruction, GiveUp, Return
<1> QED
  BY <1>1, <1>2

LEMMA NAInitInv == NAInit => NAInv
<1> SUFFICES ASSUME NAInit PROVE NAInv
  OBVIOUS
<1>1. LVInv /\ F \in Funcs /\ IsFunction(F)
  BY LVInitInv, FuncsAssumption DEF NAInit, LVInit, Start
<1>2. Rewritten(F, out, 1, Pieces)
  BY <1>1, RewriteInit DEF NAInit
<1> QED
  BY <1>1, <1>2 DEF NAInit, NAInv

LEMMA NAStepInv == NAInv /\ [NANext]_vars => NAInv'
<1> SUFFICES ASSUME NAInv, [NANext]_vars PROVE NAInv'
  OBVIOUS
<1>0. /\ IsFunction(F) /\ F' = F /\ F \in Funcs
      /\ phase = "done" => UNCHANGED lvVars
  BY NASteps, FuncsAssumption DEF NAInv
<1>1. LVInv'
  <2>1. [LVNext]_lvVars
    BY DEF NANext, vars, Analyse, RewriteInstruction, GiveUp, Return
  <2> QED
    BY <2>1, LVStepInv DEF NAInv
<1>p. UNCHANGED lvVars => Pieces' = Pieces /\ \A p : OperandMaps(p)' = OperandMaps(p)
  BY DEF Pieces, OperandMaps, virtRegs, lvVars
<1>2. CASE Analyse \/ UNCHANGED vars
  <2>1. UNCHANGED <<step, pos, out>>
    BY <1>2 DEF Analyse, naVars, vars
  <2>2. CASE phase = "done"
    BY <2>1, <2>2, <1>0, <1>1, <1>p DEF NAInv, lvVars
  <2>3. CASE phase # "done"
    <3>1. Rewritten(F, [b \in BlocksOf(F) |-> <<>>], 1, Pieces')
      BY <1>0, RewriteInit
    <3> QED
      BY <2>1, <2>3, <3>1, <1>0, <1>1 DEF NAInv
  <2> QED
    BY <2>2, <2>3
<1>3. CASE RewriteInstruction
  <2> DEFINE p == LayoutPoints(F)[pos]
  <2>1. /\ phase = "done" /\ step = "rewrite" /\ step' = step /\ pos' = pos + 1
        /\ pos <= Len(LayoutPoints(F)) /\ UNCHANGED lvVars
    BY <1>3 DEF RewriteInstruction, Rewriting
  <2>2. PICK m \in OperandMaps(p) :
          out' = [out EXCEPT ![p[1]] = @ \o Spilled(At(F, p), m, m, virtRegs)]
    BY <1>3 DEF RewriteInstruction
  <2> DEFINE c == Spilled(At(F, p), m, m, virtRegs)
  <2>3. pos \in 1 .. Len(LayoutPoints(F)) /\ p \in Points(F) /\ pos \in Nat
    <3>1. LayoutPoints(F) \in Seq(Points(F)) /\ pos \in Nat \ {0}
      BY <1>0, LayoutFacts DEF NAInv
    <3> QED
      BY <2>1, <3>1
  <2>4. c \in Seq(Instr) /\ c \in Pieces[p]
    BY <2>2, <2>3, <1>0, PieceOf DEF Pieces
  <2>5. Rewritten(F, out, pos, Pieces)
    BY <2>1 DEF NAInv
  <2> HIDE DEF c
  <2>6. Rewritten(F, [out EXCEPT ![p[1]] = @ \o c], pos + 1, Pieces)
    BY <2>3, <2>4, <2>5, <1>0, RewriteStep
  <2>7. Rewritten(F', out', pos', Pieces')
    BY <2>1, <2>2, <2>6, <1>0, <1>p DEF c
  <2>8. phase' = "done" /\ step' = "rewrite" /\ pos' \in Nat \ {0}
    BY <2>1, <2>3 DEF lvVars
  <2> QED
    BY <2>7, <2>8, <1>0, <1>1 DEF NAInv
<1>4. CASE GiveUp
  <2>1. /\ phase = "done" /\ step' = "failed" /\ pos <= Len(LayoutPoints(F))
        /\ OperandMaps(LayoutPoints(F)[pos]) = {} /\ UNCHANGED <<lvVars, pos, out>>
    BY <1>4 DEF GiveUp, Rewriting
  <2>2. OperandMaps(LayoutPoints(F)[pos])' = {}
    BY <2>1 DEF OperandMaps, virtRegs, lvVars
  <2>3. Rewritten(F, out, pos, Pieces) /\ pos \in Nat \ {0}
    BY <2>1 DEF NAInv
  <2> QED
    BY <2>1, <2>2, <2>3, <1>0, <1>1, <1>p DEF NAInv, lvVars
<1>5. CASE Return
  <2>1. /\ phase = "done" /\ step' = "done" /\ pos > Len(LayoutPoints(F))
        /\ UNCHANGED <<lvVars, pos, out>>
    BY <1>5 DEF Return, Rewriting
  <2>2. Rewritten(F, out, pos, Pieces) /\ pos \in Nat \ {0}
    BY <2>1 DEF NAInv
  <2> QED
    BY <2>1, <2>2, <1>0, <1>1, <1>p DEF NAInv, lvVars
<1> QED
  BY <1>2, <1>3, <1>4, <1>5 DEF NANext

-----------------------------------------------------------------------------
(* The execution.                                                          *)

LEMMA NXSteps == [NXNext]_<<vars, execVars>> => [NANext]_vars
BY DEF NXNext, Allocate, Run

LEMMA NXInitInv == NXInit => NAInv /\ NXInv
BY NAInitInv DEF NXInit, NAInit, NXInv

LEMMA NXStepInv == NAInv /\ NXInv /\ [NXNext]_<<vars, execVars>> => NXInv'
<1> SUFFICES ASSUME NAInv, NXInv, [NXNext]_<<vars, execVars>> PROVE NXInv'
  OBVIOUS
<1>1. /\ [NANext]_vars /\ F' = F /\ (phase = "done" => UNCHANGED lvVars)
      /\ IsFunction(F) /\ IsCode(F) /\ LVInv
  BY NXSteps, NASteps, FuncsAssumption, CodeAssumption DEF NAInv
<1>2. virtRegs' = virtRegs
  BY <1>1 DEF virtRegs
<1>3. CASE step = "done"
  <2>1. phase = "done" /\ UNCHANGED <<lvVars, step, out>>
    <3>1. phase = "done"
      BY <1>3 DEF NAInv
    <3>2. UNCHANGED <<step, out>>
      BY <1>1, <1>3, <3>1 DEF NANext, vars, naVars, Analyse, RewriteInstruction, GiveUp, Return, Rewriting
    <3> QED
      BY <1>1, <3>1, <3>2
  <2>2. PICK o, al, W : /\ o = out /\ al = <<>> /\ W = virtRegs
                        /\ InLockstep(o, al, W)
    BY <1>3 DEF NXInv
  <2>3. InLockstep(o, al, W)'
    <3>1. CASE Run
      <4>1. ExecNext(o)
        BY <3>1, <2>2 DEF Run
      <4> QED
        BY <4>1, <2>1, <2>2, <1>1, InLockstepStep
    <3>2. CASE UNCHANGED execVars
      BY <3>2, <2>1, <2>2, InLockstepKept
    <3> QED
      BY <3>1, <3>2 DEF NXNext, Allocate, execVars
  <2> QED
    BY <1>2, <1>3, <2>1, <2>2, <2>3 DEF NXInv
<1>4. CASE step # "done"
  <2>1. ExecInit /\ UNCHANGED execVars
    BY <1>4 DEF NXInv, NXNext, Allocate, Run
  <2>2. ExecInit'
    BY <2>1, <1>1 DEF ExecInit, execVars
  <2>3. CASE step' = "done"
    <3>1. /\ phase = "done" /\ pos > Len(LayoutPoints(F)) /\ UNCHANGED <<lvVars, out>>
      BY <1>1, <1>4, <2>3 DEF NANext, vars, naVars, Analyse, RewriteInstruction, GiveUp, Return, Rewriting
    <3>2. AllPlaced(out, Pieces)
      <4>1. Rewritten(F, out, pos, Pieces) /\ pos \in Nat
        BY <3>1 DEF NAInv
      <4>2. \A b \in BlocksOf(F) : \E at : Placed(out[b], b, Len(F.code[b]), at, Pieces)
        BY <4>1, <3>1, <1>1, RewriteDone
      <4> QED
        BY <4>2 DEF AllPlaced
    <3>3. Allocation(<<>>, virtRegs) /\ PiecesFit(<<>>, virtRegs, Pieces)
      BY <1>1, NAPiecesFit
    <3>4. \E AT : Assembled(out, <<>>, virtRegs, AT)
      BY <3>2, <3>3, <1>1, PutTogether
    <3>5. PICK o, al, W : o = out /\ al = <<>> /\ W = virtRegs
      OBVIOUS
    <3>6. PICK AT : Assembled(o, al, W, AT)
      BY <3>4, <3>5
    <3>7. InLockstep(o, al, W)
      BY <1>1, <2>1, <3>1, <3>6, InLockstepStart
    <3>8. InLockstep(o, al, W)'
      BY <2>1, <3>1, <3>7, InLockstepKept
    <3> QED
      BY <1>2, <2>3, <3>1, <3>5, <3>8 DEF NXInv
  <2> QED
    BY <2>2, <2>3 DEF NXInv
<1> QED
  BY <1>3, <1>4

LEMMA NXCorrect == NXSpec => [](NAInv /\ NXInv)
<1>1. NAInv /\ NXInv /\ [NXNext]_<<vars, execVars>> => NAInv' /\ NXInv'
  BY NXSteps, NAStepInv, NXStepInv
<1> QED
  BY <1>1, NXInitInv, PTL DEF NXSpec

-----------------------------------------------------------------------------
(* The theorems.                                                           *)

(* The inductive invariant of NaiveAllocator::allocate: the rewriting loop *)
(* turns every block into the code of its instructions, each with borrowed *)
(* registers its operands fit in.                                          *)
THEOREM NACorrect == NASpec => []NAInv
BY NAInitInv, NAStepInv, PTL DEF NASpec

(* The function the naive allocator returns computes what the original     *)
(* computes: every instruction reads the same values although every        *)
(* register lives on the stack and the registers borrowed for it also      *)
(* carry arguments and results.                                            *)
THEOREM NXAgrees == NXSpec => []NXReadsAgree
<1>1. NAInv /\ NXInv => NXReadsAgree
  <2> SUFFICES ASSUME NAInv, NXInv, step = "done" PROVE ReadsAgreeAt(out)
    BY DEF NXReadsAgree
  <2>1. PICK o, al, W : o = out /\ InLockstep(o, al, W)
    BY DEF NXInv
  <2>2. IsFunction(F) /\ IsCode(F) /\ LVInv /\ phase = "done"
    BY FuncsAssumption, CodeAssumption DEF NAInv
  <2>3. ReadsAgreeAt(o)
    BY <2>1, <2>2, InLockstepReads
  <2> QED
    BY <2>1, <2>3
<1> QED
  BY <1>1, NXCorrect, PTL

(* The naive allocator starts from exactly the registers some path reads   *)
(* before writing them.                                                    *)
THEOREM NXLiveness == NXSpec => []LivenessExact
<1>1. NAInv => LivenessExact
  BY LiveExact DEF NAInv, LivenessExact
<1> QED
  BY <1>1, NXCorrect, PTL

(* The naive allocator returns false only on an instruction whose operands *)
(* fit in the registers free there in no way at all: it never takes a      *)
(* choice back, and it need not.                                           *)
THEOREM NAGivesUp == NASpec => []GivesUpOnlyIfStuck
<1>1. NAInv => GivesUpOnlyIfStuck
  <2> SUFFICES ASSUME NAInv, step = "failed" PROVE GivesUpOnlyIfStuck
    BY DEF GivesUpOnlyIfStuck
  <2> DEFINE p == LayoutPoints(F)[pos]
  <2>1. IsFunction(F) /\ pos \in Nat \ {0} /\ pos <= Len(LayoutPoints(F)) /\ OperandMaps(p) = {}
    BY FuncsAssumption DEF NAInv
  <2>2. p \in Points(F)
    <3>1. LayoutPoints(F) \in Seq(Points(F))
      BY <2>1, LayoutFacts
    <3> QED
      BY <3>1, <2>1
  <2> HIDE DEF p
  <2> QED
    BY <2>1, <2>2, OperandsFit DEF GivesUpOnlyIfStuck, p
<1> QED
  BY <1>1, NACorrect, PTL
=============================================================================
