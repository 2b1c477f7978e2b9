--------------------- MODULE LiveVariableAnalysis_proof ---------------------
(***************************************************************************)
(* Proofs about LiveVariableAnalysis, for every set of machine functions,  *)
(* registers and blocks.                                                   *)
(***************************************************************************)
EXTENDS LiveVariableAnalysis, FiniteSetTheorems, TLAPS

\* What the proofs use of a well-formed function.
LEMMA FunctionFacts ==
  ASSUME NEW G, IsFunction(G)
  PROVE  /\ Len(G.layout) \in Nat /\ Len(G.layout) > 0
         /\ DOMAIN G.layout = 1 .. Len(G.layout)
         /\ \A i \in 1 .. Len(G.layout) : G.layout[i] \in BlocksOf(G)
         /\ \A b \in BlocksOf(G) : \E i \in 1 .. Len(G.layout) : G.layout[i] = b
         /\ Entry(G) \in BlocksOf(G)
         /\ \A i, j \in 1 .. Len(G.layout) : G.layout[i] = G.layout[j] => i = j
         /\ \A b \in BlocksOf(G) : Len(G.code[b]) \in Nat /\ Len(G.code[b]) > 0
         /\ \A b \in BlocksOf(G) : successors(G, b) \subseteq BlocksOf(G)
<1>1. /\ G.layout \in Seq(BlocksOf(G)) /\ Len(G.layout) > 0
      /\ Range(G.layout) = BlocksOf(G)
      /\ \A i, j \in DOMAIN G.layout : G.layout[i] = G.layout[j] => i = j
  BY DEF IsFunction
<1>2. \A b \in BlocksOf(G) : G.code[b] \in Seq(Instr) /\ Len(G.code[b]) > 0
                             /\ successors(G, b) \subseteq BlocksOf(G)
  BY DEF IsFunction
<1>3. DOMAIN G.layout = 1 .. Len(G.layout) /\ Len(G.layout) \in Nat
  BY <1>1
<1>4. \A b \in BlocksOf(G) : \E i \in 1 .. Len(G.layout) : G.layout[i] = b
  BY <1>1, <1>3 DEF Range
<1>5. \A i \in 1 .. Len(G.layout) : G.layout[i] \in BlocksOf(G)
  BY <1>1, <1>3
<1>6. \A b \in BlocksOf(G) : Len(G.code[b]) \in Nat
  BY <1>2
<1>7. Entry(G) \in BlocksOf(G)
  BY <1>1, <1>3, <1>5 DEF Entry
<1>8. \A i, j \in 1 .. Len(G.layout) : G.layout[i] = G.layout[j] => i = j
  BY <1>1, <1>3
<1> QED
  BY <1>1, <1>2, <1>3, <1>4, <1>5, <1>6, <1>7, <1>8, Zenon

\* Instructions mention registers only.
LEMMA InstructionRegs ==
  ASSUME NEW G, IsFunction(G), NEW b \in BlocksOf(G), NEW i \in 1 .. Len(G.code[b])
  PROVE  use(G.code[b][i]) \subseteq Regs /\ def(G.code[b][i]) \subseteq Regs
<1> DEFINE I == G.code[b][i]
<1>1. I \in Instr
  BY DEF IsFunction
<1>2. I.srcs \in Seq(Regs) /\ I.dsts \in Seq(Regs)
      /\ I.implicitSrcs \subseteq PhysRegs /\ I.implicitDsts \subseteq PhysRegs
  BY <1>1 DEF Instr
<1>3. Range(I.srcs) \subseteq Regs /\ Range(I.dsts) \subseteq Regs
  BY <1>2 DEF Range
<1> QED
  BY <1>2, <1>3 DEF use, def, Regs

\* The points of a function.
LEMMA PointFacts ==
  ASSUME NEW G, IsFunction(G)
  PROVE  /\ \A b \in BlocksOf(G) : \A i \in 1 .. Len(G.code[b]) : <<b, i>> \in Points(G)
         /\ \A p \in Points(G) : /\ p[1] \in BlocksOf(G)
                                 /\ p[2] \in 1 .. Len(G.code[p[1]])
                                 /\ p = <<p[1], p[2]>>
BY DEF Points, InstrsOf

\* The transfer functions return sets of registers and are monotone.
LEMMA FlowFacts ==
  ASSUME NEW b, NEW A \in [BlocksOf(F) -> SUBSET Regs],
         NEW B \in [BlocksOf(F) -> SUBSET Regs],
         successors(F, b) \subseteq BlocksOf(F)
  PROVE  /\ FlowOut(b, A) \subseteq Regs
         /\ \A S \in SUBSET Regs : FlowIn(b, S) \subseteq Regs
         /\ (\A c \in BlocksOf(F) : A[c] \subseteq B[c])
              => FlowOut(b, A) \subseteq FlowOut(b, B)
         /\ \A S, T \in SUBSET Regs : S \subseteq T => FlowIn(b, S) \subseteq FlowIn(b, T)
<1>1. FlowOut(b, A) \subseteq Regs
  BY DEF FlowOut
<1>2. \A S \in SUBSET Regs : FlowIn(b, S) \subseteq Regs
  BY DEF FlowIn, BlockUse
<1>3. (\A c \in BlocksOf(F) : A[c] \subseteq B[c])
         => FlowOut(b, A) \subseteq FlowOut(b, B)
  BY DEF FlowOut
<1>4. \A S, T \in SUBSET Regs : S \subseteq T => FlowIn(b, S) \subseteq FlowIn(b, T)
  BY DEF FlowIn
<1> QED
  BY <1>1, <1>2, <1>3, <1>4

-----------------------------------------------------------------------------
(* Induction over the natural numbers, from the well-foundedness of strict *)
(* inclusion between finite sets.                                          *)

LEMMA NatMin ==
  ASSUME NEW T \in SUBSET Nat, T # {}
  PROVE  \E n \in T : \A m \in T : n <= m
<1> DEFINE below(n) == 1 .. n
           U == {below(n) : n \in T}
<1>1. \A n \in T : below(n) \in FiniteSubsetsOf(Nat)
  BY FS_Interval DEF FiniteSubsetsOf
<1>2. U \subseteq FiniteSubsetsOf(Nat) /\ U # {}
  BY <1>1
<1>3. IsWellFoundedOn(StrictSubsetOrdering(Nat), FiniteSubsetsOf(Nat))
  BY FS_StrictSubsetOrderingWellFounded
<1> HIDE DEF U
<1>4. \E x \in U : \A y \in U : ~(<<y, x>> \in StrictSubsetOrdering(Nat))
  BY <1>2, <1>3, WFMin
<1> USE DEF U
<1>5. PICK n \in T : \A y \in U : ~(<<y, below(n)>> \in StrictSubsetOrdering(Nat))
  BY <1>4
<1>6. ASSUME NEW m \in T, m < n PROVE FALSE
  <2>1. below(m) \subseteq below(n)
    BY <1>6
  <2>2. n \in below(n) /\ n \notin below(m)
    BY <1>6
  <2> QED
    BY <1>1, <1>5, <2>1, <2>2 DEF StrictSubsetOrdering, FiniteSubsetsOf
<1> QED
  BY <1>6

LEMMA NatInd ==
  ASSUME NEW T, 0 \in T, \A n \in Nat : n \in T => n + 1 \in T
  PROVE  Nat \subseteq T
<1> SUFFICES ASSUME Nat \ T # {} PROVE FALSE
  OBVIOUS
<1>1. PICK n \in Nat \ T : \A m \in Nat \ T : n <= m
  BY NatMin
<1>2. n # 0 /\ n - 1 \in Nat
  BY <1>1
<1>3. n - 1 \in T
  BY <1>1, <1>2
<1> QED
  BY <1>1, <1>2, <1>3

-----------------------------------------------------------------------------
(* Type correctness: the cursors stay inside their loops and every set is  *)
(* a set of registers, along every run of the analysis.                    *)

LEMMA LVStartType ==
  ASSUME NEW G, IsFunction(G), Start(G)
  PROVE  LVTypeOK
<1>1. IsFunction(G) /\ F = G
  BY DEF Start
<1>2. Len(F.layout) \in Nat /\ Len(F.layout) > 0
  BY <1>1, FunctionFacts
<1>3. /\ liveIn \in [BlocksOf(F) -> SUBSET Regs] /\ liveOut \in [BlocksOf(F) -> SUBSET Regs]
      /\ liveIn2 \in [Points(F) -> SUBSET Regs] /\ liveOut2 \in [Points(F) -> SUBSET Regs]
  BY <1>1 DEF Start
<1>4. /\ phase = "blocks" /\ cursor = 1 /\ index = 0 /\ changed = FALSE /\ live = {}
  BY DEF Start
<1>5. changed \in BOOLEAN
  BY <1>4
<1> QED
  BY <1>1, <1>2, <1>3, <1>4, <1>5 DEF LVTypeOK

LEMMA LVStepType == LVTypeOK /\ [LVNext]_lvVars => LVTypeOK'
<1> SUFFICES ASSUME LVTypeOK, [LVNext]_lvVars PROVE LVTypeOK'
  OBVIOUS
<1>0. IsFunction(F)
  BY DEF LVTypeOK
<1> DEFINE L == Len(F.layout)
<1>e. Entry(F) = F.layout[1]
  BY DEF Entry
<1>f. /\ L \in Nat /\ L > 0
      /\ \A i \in 1 .. L : F.layout[i] \in BlocksOf(F)
      /\ \A b \in BlocksOf(F) : Len(F.code[b]) \in Nat /\ Len(F.code[b]) > 0
      /\ \A b \in BlocksOf(F) : successors(F, b) \subseteq BlocksOf(F)
  BY <1>0, FunctionFacts
<1> USE DEF LVTypeOK
<1>1. CASE VisitBlock
  <2> DEFINE b == F.layout[cursor]
             out == FlowOut(b, liveIn)
             in == FlowIn(b, out)
  <2>1. b \in BlocksOf(F) /\ successors(F, b) \subseteq BlocksOf(F)
    BY <1>1, <1>f DEF VisitBlock
  <2>2. out \in SUBSET Regs
    BY <2>1, FlowFacts
  <2>3. in \in SUBSET Regs
    BY <2>1, <2>2, FlowFacts
  <2>4. /\ liveOut' = [liveOut EXCEPT ![b] = out] /\ liveIn' = [liveIn EXCEPT ![b] = in]
        /\ changed' = (changed \/ out # liveOut[b] \/ in # liveIn[b])
        /\ cursor' = cursor + 1 /\ cursor <= L /\ phase = "blocks"
        /\ UNCHANGED <<F, phase, index, live, liveIn2, liveOut2>>
    BY <1>1 DEF VisitBlock
  <2>5. liveIn' \in [BlocksOf(F) -> SUBSET Regs] /\ liveOut' \in [BlocksOf(F) -> SUBSET Regs]
    BY <2>2, <2>3, <2>4
  <2>6. changed' \in BOOLEAN
    BY <2>4, Zenon
  <2>7. cursor' \in 1 .. (L + 1)
    BY <2>4, <1>f
  <2> HIDE DEF b, out, in
  <2> QED
    BY <2>4, <2>5, <2>6, <2>7
<1>2. CASE EndSweep
  <2>1. Entry(F) \in BlocksOf(F) /\ Entry(F) = F.layout[cursor'] /\ cursor' = 1
    BY <1>2, <1>e, <1>f DEF EndSweep
  <2>2. live' \in SUBSET Regs /\ index' \in Nat
        /\ (phase' = "instrs" => index' <= Len(F.code[F.layout[cursor']]))
    <3>1. CASE changed
      BY <1>2, <3>1 DEF EndSweep
    <3>2. CASE ~changed
      BY <1>2, <3>2, <2>1, <1>f DEF EndSweep
    <3> QED
      BY <3>1, <3>2
  <2>3. /\ cursor' \in 1 .. (L + 1) /\ cursor' <= L
        /\ phase' \in {"blocks", "instrs", "done"}
        /\ UNCHANGED <<F, liveIn, liveOut, liveIn2, liveOut2>>
    BY <1>2, <2>1, <1>f DEF EndSweep
  <2>4. changed' \in BOOLEAN
    BY <1>2 DEF EndSweep
  <2> QED
    BY <2>2, <2>3, <2>4
<1>3. CASE VisitInstruction
  <2> DEFINE b == F.layout[cursor]
             p == <<b, index>>
  <2>1. /\ phase = "instrs" /\ index > 0 /\ index' = index - 1
        /\ liveOut2' = [liveOut2 EXCEPT ![p] = live]
        /\ liveIn2' = [liveIn2 EXCEPT ![p] = live']
        /\ live' = LiveBefore(F.code[b][index], live)
        /\ UNCHANGED <<F, phase, cursor, changed, liveIn, liveOut>>
    BY <1>3 DEF VisitInstruction, At
  <2>2. b \in BlocksOf(F) /\ index \in 1 .. Len(F.code[b])
    BY <2>1, <1>f
  <2>3. live' \in SUBSET Regs
    BY <2>1, <2>2, <1>0, InstructionRegs DEF LiveBefore
  <2>4. liveIn2' \in [Points(F) -> SUBSET Regs] /\ liveOut2' \in [Points(F) -> SUBSET Regs]
    BY <2>1, <2>3
  <2>5. index' \in Nat /\ index' <= Len(F.code[b])
    BY <2>1, <2>2, <1>f
  <2> QED
    BY <2>1, <2>3, <2>4, <2>5
<1>4. CASE NextBlock
  <2>1. CASE cursor < L
    <3>1. F.layout[cursor + 1] \in BlocksOf(F) /\ cursor + 1 \in 1 .. L
      BY <2>1, <1>f
    <3>2. live' \in SUBSET Regs /\ index' \in Nat /\ cursor' = cursor + 1
          /\ index' <= Len(F.code[F.layout[cursor']])
      BY <1>4, <2>1, <3>1, <1>f DEF NextBlock
    <3> QED
      BY <1>4, <2>1, <3>1, <3>2, <1>f DEF NextBlock
  <2>2. CASE ~(cursor < L)
    BY <1>4, <2>2 DEF NextBlock
  <2> QED
    BY <2>1, <2>2
<1>5. CASE UNCHANGED lvVars
  BY <1>5 DEF lvVars
<1> QED
  BY <1>1, <1>2, <1>3, <1>4, <1>5 DEF LVNext

THEOREM LVTypeCorrect == LVSpec => []LVTypeOK
<1>1. LVInit => LVTypeOK
  BY LVStartType, FuncsAssumption DEF LVInit
<1>2. LVTypeOK /\ [LVNext]_lvVars => LVTypeOK'
  BY LVStepType
<1> QED
  BY <1>1, <1>2, PTL DEF LVSpec

-----------------------------------------------------------------------------
(* Leastness: no set ever exceeds a solution of the equations.             *)

LEMMA LVStartLeast ==
  ASSUME NEW G, Start(G)
  PROVE  NeverBeyondLeastSolution
<1> SUFFICES ASSUME NEW S \in [BlocksOf(F) -> SUBSET Regs], IsPostFix(S),
                    NEW b \in BlocksOf(F)
             PROVE  liveIn[b] \subseteq S[b] /\ liveOut[b] \subseteq FlowOut(b, S)
  BY DEF NeverBeyondLeastSolution
<1> QED
  BY DEF Start

LEMMA LVStepLeast ==
  LVTypeOK /\ NeverBeyondLeastSolution /\ [LVNext]_lvVars
    => NeverBeyondLeastSolution'
<1> SUFFICES ASSUME LVTypeOK, NeverBeyondLeastSolution, [LVNext]_lvVars
             PROVE  NeverBeyondLeastSolution'
  OBVIOUS
<1>1. F' = F
  BY DEF LVNext, VisitBlock, EndSweep, VisitInstruction, NextBlock, lvVars
<1>2. CASE VisitBlock
  <2>0. IsFunction(F)
    BY DEF LVTypeOK
  <2> DEFINE b == F.layout[cursor]
             out == FlowOut(b, liveIn)
             in == FlowIn(b, out)
  <2>1. /\ liveOut' = [liveOut EXCEPT ![b] = out] /\ liveIn' = [liveIn EXCEPT ![b] = in]
        /\ cursor \in 1 .. Len(F.layout)
    BY <1>2, <2>0, FunctionFacts DEF VisitBlock, LVTypeOK
  <2>2. b \in BlocksOf(F) /\ successors(F, b) \subseteq BlocksOf(F)
    BY <2>1, <2>0, FunctionFacts
  <2>3. SUFFICES ASSUME NEW S \in [BlocksOf(F) -> SUBSET Regs], IsPostFix(S)
                 PROVE  \A c \in BlocksOf(F) :
                          liveIn'[c] \subseteq S[c] /\ liveOut'[c] \subseteq FlowOut(c, S)
    BY <1>1 DEF NeverBeyondLeastSolution, IsPostFix, FlowIn, FlowOut, BlockDef, BlockUse,
                successors, BlocksOf, InstrsOf
  <2>4. \A c \in BlocksOf(F) : liveIn[c] \subseteq S[c] /\ liveOut[c] \subseteq FlowOut(c, S)
    BY <2>3 DEF NeverBeyondLeastSolution
  <2>5. liveIn \in [BlocksOf(F) -> SUBSET Regs] /\ liveOut \in [BlocksOf(F) -> SUBSET Regs]
    BY DEF LVTypeOK
  <2>6. out \subseteq FlowOut(b, S) /\ out \subseteq Regs /\ FlowOut(b, S) \subseteq Regs
    BY <2>2, <2>4, <2>5, FlowFacts
  <2>7. in \subseteq FlowIn(b, FlowOut(b, S))
    BY <2>2, <2>5, <2>6, FlowFacts
  <2>8. in \subseteq S[b]
    BY <2>2, <2>3, <2>7 DEF IsPostFix
  <2> HIDE DEF b, out, in
  <2> QED
    BY <2>1, <2>2, <2>4, <2>5, <2>6, <2>8
<1>3. CASE ~VisitBlock
  <2>1. UNCHANGED <<F, liveIn, liveOut>>
    BY <1>3 DEF LVNext, EndSweep, VisitInstruction, NextBlock, lvVars
  <2> QED
    BY <2>1 DEF NeverBeyondLeastSolution, IsPostFix, FlowIn, FlowOut, BlockDef, BlockUse,
                successors, BlocksOf, InstrsOf
<1> QED
  BY <1>2, <1>3

(* The block sets are never larger than what is live.                      *)
THEOREM LVLeast == LVSpec => []NeverBeyondLeastSolution
<1>1. LVInit => LVTypeOK /\ NeverBeyondLeastSolution
  BY LVStartType, LVStartLeast, FuncsAssumption DEF LVInit
<1>2. LVTypeOK /\ NeverBeyondLeastSolution /\ [LVNext]_lvVars
        => LVTypeOK' /\ NeverBeyondLeastSolution'
  BY LVStepType, LVStepLeast
<1> QED
  BY <1>1, <1>2, PTL DEF LVSpec

-----------------------------------------------------------------------------
(* Completeness: when the sweeps are over, no live register is missed.     *)

LEMMA LVStepSolved ==
  LVTypeOK /\ Swept /\ BlocksSolved /\ [LVNext]_lvVars => Swept' /\ BlocksSolved'
<1> SUFFICES ASSUME LVTypeOK, Swept, BlocksSolved, [LVNext]_lvVars
             PROVE  Swept' /\ BlocksSolved'
  OBVIOUS
<1>0. IsFunction(F)
  BY DEF LVTypeOK
<1>1. F' = F
  BY DEF LVNext, VisitBlock, EndSweep, VisitInstruction, NextBlock, lvVars
<1>2. UNCHANGED <<liveIn, liveOut>> => \A b : SolvedAt(b)' <=> SolvedAt(b)
  BY <1>1 DEF SolvedAt, FlowIn, FlowOut, BlockDef, BlockUse, successors, InstrsOf
<1>3. CASE VisitBlock
  <2> DEFINE b == F.layout[cursor]
             out == FlowOut(b, liveIn)
             in == FlowIn(b, out)
  <2>1. /\ liveOut' = [liveOut EXCEPT ![b] = out] /\ liveIn' = [liveIn EXCEPT ![b] = in]
        /\ changed' = (changed \/ out # liveOut[b] \/ in # liveIn[b])
        /\ cursor' = cursor + 1 /\ cursor \in 1 .. Len(F.layout)
        /\ phase = "blocks" /\ phase' = "blocks"
    BY <1>0, <1>3, FunctionFacts DEF VisitBlock, LVTypeOK
  <2>2. BlocksSolved'
    BY <2>1 DEF BlocksSolved
  <2>3. ASSUME ~changed', NEW j \in 1 .. (cursor' - 1)
        PROVE  SolvedAt(F.layout[j])'
    <3>1. out = liveOut[b] /\ in = liveIn[b] /\ ~changed
      BY <2>1, <2>3
    <3>2. liveIn' = liveIn /\ liveOut' = liveOut
      BY <2>1, <3>1 DEF LVTypeOK
    <3>3. SolvedAt(F.layout[j])
      <4>1. CASE j = cursor
        BY <3>1, <4>1 DEF SolvedAt
      <4>2. CASE j # cursor
        <5>1. j \in 1 .. (cursor - 1)
          BY <2>1, <4>2
        <5> QED
          BY <2>1, <3>1, <5>1 DEF Swept
      <4> QED
        BY <4>1, <4>2
    <3> QED
      BY <1>1, <1>2, <3>2, <3>3
  <2> QED
    BY <1>1, <2>2, <2>3 DEF Swept
<1>4. CASE EndSweep
  <2>1. UNCHANGED <<liveIn, liveOut>> /\ cursor' = 1 /\ ~(cursor <= Len(F.layout))
        /\ phase = "blocks" /\ cursor \in 1 .. (Len(F.layout) + 1)
    BY <1>0, <1>4, FunctionFacts DEF EndSweep, LVTypeOK
  <2>2. Swept'
    BY <2>1 DEF Swept
  <2>3. CASE changed
    BY <1>4, <2>1, <2>2, <2>3 DEF EndSweep, BlocksSolved
  <2>4. CASE ~changed
    <3>1. \A j \in 1 .. Len(F.layout) : SolvedAt(F.layout[j])
      BY <1>0, <2>1, <2>4, FunctionFacts DEF Swept
    <3>2. \A b \in BlocksOf(F) : SolvedAt(b)
      BY <1>0, <3>1, FunctionFacts
    <3> QED
      BY <1>1, <1>2, <2>1, <2>2, <3>2 DEF BlocksSolved, BlocksOf
  <2> QED
    BY <2>3, <2>4
<1>5. CASE VisitInstruction \/ NextBlock \/ UNCHANGED lvVars
  <2>1. /\ UNCHANGED <<liveIn, liveOut, changed>>
        /\ phase' = "blocks" => phase = "blocks" /\ cursor' = cursor
        /\ phase' # "blocks" => phase # "blocks"
    BY <1>5 DEF VisitInstruction, NextBlock, lvVars
  <2>2. Swept'
    BY <1>1, <1>2, <2>1 DEF Swept
  <2>3. BlocksSolved'
    BY <1>1, <1>2, <2>1 DEF BlocksSolved, BlocksOf
  <2> QED
    BY <2>2, <2>3
<1> QED
  BY <1>3, <1>4, <1>5 DEF LVNext

(* The block sets solve the data-flow equations when the sweeps are over.  *)
THEOREM LVBlocksSolved == LVSpec => []BlocksSolved
<1>1. LVInit => LVTypeOK /\ Swept /\ BlocksSolved
  <2>1. LVInit => Swept /\ BlocksSolved
    BY DEF LVInit, Start, Swept, BlocksSolved
  <2> QED
    BY <2>1, LVStartType, FuncsAssumption DEF LVInit
<1>2. LVTypeOK /\ Swept /\ BlocksSolved /\ [LVNext]_lvVars
        => LVTypeOK' /\ Swept' /\ BlocksSolved'
  BY LVStepType, LVStepSolved
<1> QED
  BY <1>1, <1>2, PTL DEF LVSpec

-----------------------------------------------------------------------------
(* The backward walk over a block agrees with the block's summary.         *)

\* One step of the walk, in terms of the rest of the block.
LEMMA LiveAfterStep ==
  ASSUME IsFunction(F), NEW b \in BlocksOf(F), NEW k \in 1 .. Len(F.code[b])
  PROVE  LiveBefore(F.code[b][k], LiveAfter(b, k)) = LiveAfter(b, k - 1)
<1> DEFINE n == Len(F.code[b])
           I(i) == F.code[b][i]
           Kill(m) == UNION {def(I(i)) : i \in m .. n}
           Gen(m) == {r \in Regs : \E i \in m .. n :
                        r \in use(I(i)) /\ \A j \in m .. (i - 1) : r \notin def(I(j))}
<1>0. n \in Nat /\ k \in Nat /\ k <= n /\ k > 0
  BY FunctionFacts
<1>1. LiveAfter(b, k) = (liveOut[b] \ Kill(k + 1)) \cup Gen(k + 1)
  BY DEF LiveAfter
<1>2. LiveAfter(b, k - 1) = (liveOut[b] \ Kill(k)) \cup Gen(k)
  <2>1. (k - 1) + 1 = k
    BY <1>0
  <2> QED
    BY <2>1 DEF LiveAfter
<1>3. k .. n = {k} \cup ((k + 1) .. n)
  BY <1>0
<1>4. Kill(k) = def(I(k)) \cup Kill(k + 1)
  BY <1>3
<1>5. \A i \in (k + 1) .. n : k .. (i - 1) = {k} \cup ((k + 1) .. (i - 1))
  BY <1>0
<1>6. Gen(k) = use(I(k)) \cup (Gen(k + 1) \ def(I(k)))
  <2>1. ASSUME NEW r \in Gen(k) PROVE r \in use(I(k)) \cup (Gen(k + 1) \ def(I(k)))
    <3>1. PICK i \in k .. n : r \in use(I(i)) /\ \A j \in k .. (i - 1) : r \notin def(I(j))
      BY <2>1
    <3>2. CASE i = k
      BY <3>1, <3>2
    <3>3. CASE i # k
      <4>1. i \in (k + 1) .. n
        BY <1>0, <3>3
      <4>2. r \notin def(I(k)) /\ \A j \in (k + 1) .. (i - 1) : r \notin def(I(j))
        BY <1>5, <3>1, <4>1
      <4> QED
        BY <2>1, <3>1, <4>1, <4>2
    <3> QED
      BY <3>2, <3>3
  <2>2. ASSUME NEW r \in use(I(k)) PROVE r \in Gen(k)
    <3>1. k .. (k - 1) = {} /\ k \in k .. n
      BY <1>0
    <3>2. r \in Regs
      BY <2>2, InstructionRegs
    <3> QED
      BY <2>2, <3>1, <3>2
  <2>3. ASSUME NEW r \in Gen(k + 1) \ def(I(k)) PROVE r \in Gen(k)
    <3>1. PICK i \in (k + 1) .. n : r \in use(I(i)) /\ \A j \in (k + 1) .. (i - 1) : r \notin def(I(j))
      BY <2>3
    <3>2. \A j \in k .. (i - 1) : r \notin def(I(j))
      BY <1>5, <2>3, <3>1
    <3>3. i \in k .. n
      BY <1>3
    <3> QED
      BY <2>3, <3>1, <3>2, <3>3
  <2> HIDE DEF Gen
  <2> QED
    BY <2>1, <2>2, <2>3
<1> HIDE DEF Kill, Gen, I
<1>7. LiveBefore(I(k), LiveAfter(b, k)) = LiveAfter(b, k - 1)
  BY <1>1, <1>2, <1>4, <1>6 DEF LiveBefore
<1> QED
  BY <1>7 DEF I

\* At the top of the block the walk has computed the block's transfer function.
LEMMA LiveAfterTop ==
  ASSUME NEW b
  PROVE  LiveAfter(b, 0) = FlowIn(b, liveOut[b])
<1>1. 0 + 1 = 1
  OBVIOUS
<1> QED
  BY <1>1 DEF LiveAfter, FlowIn, BlockDef, BlockUse, InstrsOf

\* At its end, the walk starts from the block's liveOut.
LEMMA LiveAfterEnd ==
  ASSUME IsFunction(F), NEW b \in BlocksOf(F)
  PROVE  LiveAfter(b, Len(F.code[b])) = liveOut[b]
<1>1. (Len(F.code[b]) + 1) .. Len(F.code[b]) = {}
  BY FunctionFacts
<1> QED
  BY <1>1 DEF LiveAfter

LEMMA LVStepWalked ==
  LVTypeOK /\ BlocksSolved /\ Walked /\ InstructionsSolved /\ [LVNext]_lvVars
    => Walked' /\ InstructionsSolved'
<1> SUFFICES ASSUME LVTypeOK, BlocksSolved, Walked, InstructionsSolved, [LVNext]_lvVars
             PROVE  Walked' /\ InstructionsSolved'
  OBVIOUS
<1>0. IsFunction(F)
  BY DEF LVTypeOK
<1>1. F' = F
  BY DEF LVNext, VisitBlock, EndSweep, VisitInstruction, NextBlock, lvVars
<1> DEFINE L == Len(F.layout)
<1>f. /\ L \in Nat /\ L > 0
      /\ \A i \in 1 .. L : F.layout[i] \in BlocksOf(F)
      /\ \A i, j \in 1 .. L : F.layout[i] = F.layout[j] => i = j
      /\ \A c \in BlocksOf(F) : \E i \in 1 .. L : F.layout[i] = c
      /\ \A c \in BlocksOf(F) : Len(F.code[c]) \in Nat /\ Len(F.code[c]) > 0
  BY <1>0, FunctionFacts
<1>2. CASE VisitBlock
  BY <1>2 DEF VisitBlock, Walked, InstructionsSolved
<1>3. CASE EndSweep
  <2>1. CASE changed
    BY <1>3, <2>1 DEF EndSweep, Walked, InstructionsSolved
  <2>2. CASE ~changed
    <3> DEFINE e == F.layout[1]
    <3>1. /\ phase' = "instrs" /\ cursor' = 1 /\ index' = Len(F.code[e])
          /\ live' = liveOut[e] /\ UNCHANGED liveOut
      BY <1>3, <2>2 DEF EndSweep, Entry
    <3>2. e \in BlocksOf(F) /\ Len(F.code[e]) \in Nat
      BY <1>f
    <3>3. LiveAfter(e, Len(F.code[e]))' = live'
      <4>1. LiveAfter(e, Len(F.code[e])) = liveOut[e]
        BY <1>0, <3>2, LiveAfterEnd
      <4>2. LiveAfter(e, Len(F.code[e]))' = LiveAfter(e, Len(F.code[e]))
        BY <1>1, <3>1 DEF LiveAfter
      <4> QED
        BY <3>1, <4>1, <4>2
    <3>4. (index' + 1) .. Len(F.code[e]) = {} /\ 1 .. (cursor' - 1) = {}
          /\ ~(index' < Len(F.code[e]))
      BY <3>1, <3>2
    <3>5. Walked'
      BY <1>1, <3>1, <3>3, <3>4 DEF Walked
    <3> QED
      BY <3>1, <3>5 DEF InstructionsSolved
  <2> QED
    BY <2>1, <2>2
<1>4. CASE VisitInstruction
  <2>0. /\ phase = "instrs" /\ cursor \in 1 .. L /\ F.layout[cursor] \in BlocksOf(F)
        /\ index \in 1 .. Len(F.code[F.layout[cursor]])
    BY <1>4, <1>f DEF LVTypeOK, VisitInstruction
  <2>a. PICK b, k, n, c : b = F.layout[cursor] /\ k = index /\ n = Len(F.code[b]) /\ c = cursor
    OBVIOUS
  <2> DEFINE p == <<b, k>>
  <2>1. /\ phase' = "instrs" /\ index' = k - 1 /\ c = cursor'
        /\ liveOut2' = [liveOut2 EXCEPT ![p] = live]
        /\ liveIn2' = [liveIn2 EXCEPT ![p] = live']
        /\ live' = LiveBefore(F.code[b][k], live)
        /\ UNCHANGED <<F, cursor, liveIn, liveOut>>
    BY <1>4, <2>a DEF VisitInstruction, At
  <2>2. /\ b \in BlocksOf(F) /\ n \in Nat /\ k \in 1 .. n /\ k \in Nat /\ k - 1 \in 0 .. n
        /\ n = Len(F.code[b]) /\ c \in 1 .. L
    BY <2>0, <2>a, <1>f
  <2>3. p \in Points(F) /\ DOMAIN liveIn2 = Points(F) /\ DOMAIN liveOut2 = Points(F)
    BY <1>0, <2>2, PointFacts DEF LVTypeOK
  <2>4. liveIn2'[p] = live' /\ liveOut2'[p] = live
    BY <2>1, <2>3
  <2>5. \A q : q # p => liveIn2'[q] = liveIn2[q] /\ liveOut2'[q] = liveOut2[q]
    BY <2>1, <2>3
  <2>6. /\ live = LiveAfter(b, k)
        /\ k = n => live = liveOut[b]
        /\ k < n => live = liveIn2[<<b, k + 1>>]
        /\ \A i \in (k + 1) .. n : PointSolved(b, i)
        /\ \A j \in 1 .. (c - 1) :
             \A i \in InstrsOf(F, F.layout[j]) : PointSolved(F.layout[j], i)
    BY <2>0, <2>a DEF Walked
  <2>7. live' = LiveAfter(b, k - 1)
    BY <1>0, <2>1, <2>2, <2>6, LiveAfterStep
  <2>8. live' = LiveAfter(b, k - 1)'
    BY <2>1, <2>7 DEF LiveAfter
  <2>9. PointSolved(b, k)'
    <3>1. k = 1 => live' = liveIn[b]
      <4>1. SolvedAt(b)
        BY <2>0, <2>2 DEF BlocksSolved
      <4> QED
        BY <2>7, <4>1, LiveAfterTop DEF SolvedAt
    <3>2. k < n => liveIn2'[<<b, k + 1>>] = liveIn2[<<b, k + 1>>]
      BY <2>5, <2>2
    <3> QED
      BY <2>1, <2>2, <2>4, <2>6, <3>1, <3>2 DEF PointSolved
  <2>10. ASSUME NEW d \in BlocksOf(F), NEW i \in 1 .. Len(F.code[d]), PointSolved(d, i),
                d # b \/ i > k
         PROVE  PointSolved(d, i)'
    <3>1. i \in Nat
      BY <1>f
    <3>2. <<d, i>> # p /\ <<d, i + 1>> # p
      BY <2>2, <2>10, <3>1
    <3> HIDE DEF p
    <3>3. /\ liveIn2'[<<d, i>>] = liveIn2[<<d, i>>] /\ liveOut2'[<<d, i>>] = liveOut2[<<d, i>>]
          /\ liveIn2'[<<d, i + 1>>] = liveIn2[<<d, i + 1>>]
      BY <2>5, <3>2
    <3> QED
      BY <2>1, <2>10, <3>3 DEF PointSolved
  <2>11. \A i \in k .. n : PointSolved(b, i)'
    <3>1. ASSUME NEW i \in k .. n, i # k PROVE PointSolved(b, i)'
      <4>1. i \in (k + 1) .. n /\ i \in 1 .. Len(F.code[b]) /\ i > k
        BY <2>2, <3>1
      <4>2. PointSolved(b, i)
        BY <2>6, <4>1
      <4> QED
        BY <2>2, <2>10, <4>1, <4>2
    <3> QED
      BY <2>9, <3>1
  <2>12. \A j \in 1 .. (c - 1) : \A i \in InstrsOf(F, F.layout[j]) :
           PointSolved(F.layout[j], i)'
    <3>1. ASSUME NEW j \in 1 .. (c - 1), NEW i \in InstrsOf(F, F.layout[j])
          PROVE  PointSolved(F.layout[j], i)'
      <4>a. PICK d : d = F.layout[j]
        OBVIOUS
      <4>1. j \in 1 .. L /\ j # c
        BY <2>2, <1>f
      <4>2. d \in BlocksOf(F) /\ d # b
        BY <2>a, <2>2, <4>a, <4>1, <1>f
      <4>3. PointSolved(d, i) /\ i \in 1 .. Len(F.code[d])
        BY <2>6, <4>a DEF InstrsOf
      <4>4. PointSolved(d, i)'
        BY <2>10, <4>2, <4>3
      <4> QED
        BY <2>1, <4>a, <4>4 DEF PointSolved
    <3> QED
      BY <3>1
  <2>13. k - 1 # n /\ (k - 1) + 1 = k
    BY <2>2
  <2>14. /\ b = F.layout[cursor]' /\ n = Len(F.code[b])' /\ F' = F
         /\ \A j : InstrsOf(F, F.layout[j])' = InstrsOf(F, F.layout[j])
    BY <2>a, <2>1 DEF InstrsOf
  <2>15. Walked'
    BY <2>1, <2>4, <2>8, <2>11, <2>12, <2>13, <2>14 DEF Walked
  <2> QED
    BY <2>1, <2>15 DEF InstructionsSolved
<1>5. CASE NextBlock
  <2> DEFINE b == F.layout[cursor]
  <2>1. /\ phase = "instrs" /\ index = 0
        /\ UNCHANGED <<F, changed, liveIn, liveOut, liveIn2, liveOut2>>
    BY <1>5 DEF NextBlock
  <2>2. \A c, i : PointSolved(c, i)' <=> PointSolved(c, i)
    BY <2>1 DEF PointSolved
  <2>3. cursor \in 1 .. L /\ b \in BlocksOf(F)
    BY <2>1, <1>f DEF LVTypeOK
  <2>4. \A j \in 1 .. cursor : \A i \in InstrsOf(F, F.layout[j]) : PointSolved(F.layout[j], i)
    <3>1. \A i \in InstrsOf(F, b) : PointSolved(b, i)
      <4>1. (index + 1) .. Len(F.code[b]) = InstrsOf(F, b)
        BY <2>1 DEF InstrsOf
      <4> QED
        BY <2>1, <4>1 DEF Walked
    <3>2. \A j \in 1 .. (cursor - 1) : \A i \in InstrsOf(F, F.layout[j]) :
            PointSolved(F.layout[j], i)
      BY <2>1 DEF Walked
    <3>3. \A j \in 1 .. cursor : j \in 1 .. (cursor - 1) \/ j = cursor
      BY <2>3
    <3> QED
      BY <3>1, <3>2, <3>3
  <2>5. CASE cursor < L
    <3>a. PICK d, m : d = F.layout[cursor + 1] /\ m = Len(F.code[d])
      OBVIOUS
    <3>1. /\ cursor' = cursor + 1 /\ index' = m /\ live' = liveOut[d] /\ phase' = "instrs"
      BY <1>5, <2>1, <2>5, <3>a DEF NextBlock
    <3>2. d \in BlocksOf(F) /\ m \in Nat /\ (m + 1) .. m = {} /\ ~(m < m)
          /\ (cursor + 1) - 1 = cursor
      <4>1. cursor + 1 \in 1 .. L /\ (cursor + 1) - 1 = cursor
        BY <2>3, <2>5, <1>f
      <4>2. d \in BlocksOf(F)
        BY <3>a, <4>1, <1>f
      <4>3. m \in Nat
        BY <3>a, <4>2, <1>f
      <4>4. (m + 1) .. m = {} /\ ~(m < m)
        BY <4>3
      <4> QED
        BY <4>1, <4>2, <4>3, <4>4
    <3>3. LiveAfter(d, m)' = live'
      <4>1. LiveAfter(d, m) = liveOut[d]
        BY <1>0, <3>a, <3>2, LiveAfterEnd
      <4>2. LiveAfter(d, m)' = LiveAfter(d, m)
        BY <2>1 DEF LiveAfter
      <4> QED
        BY <3>1, <4>1, <4>2
    <3>4. Walked'
      <4>1. /\ F.layout[cursor]' = d /\ Len(F.code[d])' = m /\ liveOut'[d] = liveOut[d]
            /\ cursor' - 1 = cursor
        BY <2>1, <3>a, <3>1, <3>2
      <4>2. \A j \in 1 .. cursor : \A i \in InstrsOf(F, F.layout[j])' :
              PointSolved(F.layout[j], i)'
        BY <2>1, <2>4 DEF InstrsOf, PointSolved
      <4> QED
        BY <2>1, <3>1, <3>2, <3>3, <4>1, <4>2 DEF Walked
    <3> QED
      BY <3>1, <3>4 DEF InstructionsSolved
  <2>6. CASE ~(cursor < L)
    <3>1. phase' = "done"
      BY <1>5, <2>6 DEF NextBlock
    <3>2. cursor = L
      BY <2>3, <2>6, <1>f
    <3>3. \A c \in BlocksOf(F) : \A i \in InstrsOf(F, c) : PointSolved(c, i)
      BY <2>4, <3>2, <1>f
    <3>4. InstructionsSolved'
      BY <2>1, <2>2, <3>3 DEF InstructionsSolved, BlocksOf, InstrsOf
    <3> QED
      BY <3>1, <3>4 DEF Walked
  <2> QED
    BY <2>5, <2>6
<1>6. CASE UNCHANGED lvVars
  <2>1. UNCHANGED <<F, phase, cursor, index, liveIn, liveOut, live, liveIn2, liveOut2>>
    BY <1>6 DEF lvVars
  <2> QED
    BY <2>1 DEF Walked, InstructionsSolved, LiveAfter, PointSolved, InstrsOf, BlocksOf
<1> QED
  BY <1>2, <1>3, <1>4, <1>5, <1>6 DEF LVNext

\* The inductive invariant, for the specifications the analysis is a part of.
LEMMA LVStartInv == \A G : IsFunction(G) /\ Start(G) => LVInv
<1> SUFFICES ASSUME NEW G, IsFunction(G), Start(G) PROVE LVInv
  OBVIOUS
<1>1. Swept /\ BlocksSolved /\ Walked /\ InstructionsSolved
  BY DEF Start, Swept, BlocksSolved, Walked, InstructionsSolved
<1> QED
  BY <1>1, LVStartType, LVStartLeast DEF LVInv

LEMMA LVInitInv == LVInit => LVInv
BY LVStartInv, FuncsAssumption DEF LVInit

LEMMA LVRestartInv == \A G : IsFunction(G) /\ Start(G)' => LVInv'
<1>1. (\A G : IsFunction(G) /\ Start(G) => LVInv)'
  BY LVStartInv, PTL
<1> QED
  BY <1>1

LEMMA LVStepInv == LVInv /\ [LVNext]_lvVars => LVInv'
BY LVStepType, LVStepLeast, LVStepSolved, LVStepWalked DEF LVInv

(* The whole inductive invariant, and what it says of a finished analysis. *)
THEOREM LVCorrect == LVSpec => []LVInv
BY LVInitInv, LVStepInv, PTL DEF LVSpec

THEOREM LVInstructionsSolved == LVSpec => []InstructionsSolved
<1>1. LVInv => InstructionsSolved
  BY DEF LVInv
<1> QED
  BY <1>1, LVCorrect, PTL

-----------------------------------------------------------------------------
(* What the analysis reports is what paths read.                           *)

\* A function has finitely many points, and at least one.
LEMMA PointsFinite ==
  ASSUME NEW G, IsFunction(G)
  PROVE  /\ IsFiniteSet(Points(G)) /\ Points(G) # {}
         /\ Cardinality(Points(G)) \in Nat /\ Cardinality(Points(G)) > 0
<1>1. IsFiniteSet(BlocksOf(G))
  <2> DEFINE L == 1 .. Len(G.layout)
  <2>1. L = DOMAIN G.layout /\ BlocksOf(G) = Range(G.layout) /\ Len(G.layout) \in Nat
    BY FunctionFacts DEF IsFunction
  <2>2. G.layout \in Surjection(L, BlocksOf(G))
    BY <2>1, FunctionFacts DEF Surjection, IsFunction
  <2>3. IsFiniteSet(L)
    BY <2>1, FS_Interval
  <2> QED
    BY <2>2, <2>3, FS_Surjection DEF ExistsSurjection
<1>2. \A b \in BlocksOf(G) : IsFiniteSet({b} \X InstrsOf(G, b))
  <2> TAKE b \in BlocksOf(G)
  <2>1. Len(G.code[b]) \in Nat
    BY FunctionFacts
  <2>2. IsFiniteSet(InstrsOf(G, b))
    BY <2>1, FS_Interval DEF InstrsOf
  <2>3. IsFiniteSet({b})
    BY FS_Singleton
  <2> QED
    BY <2>2, <2>3, FS_Product
<1>3. IsFiniteSet({{b} \X InstrsOf(G, b) : b \in BlocksOf(G)})
  <2> DEFINE T == {{b} \X InstrsOf(G, b) : b \in BlocksOf(G)}
             f == [b \in BlocksOf(G) |-> {b} \X InstrsOf(G, b)]
  <2>1. f \in Surjection(BlocksOf(G), T)
    BY DEF Surjection
  <2> QED
    BY <1>1, <2>1, FS_Surjection
<1>4. IsFiniteSet(Points(G))
  BY <1>2, <1>3, FS_UNION DEF Points
<1>5. <<Entry(G), 1>> \in Points(G)
  BY FunctionFacts DEF Points, InstrsOf
<1> QED
  BY <1>4, <1>5, FS_CardinalityType, FS_EmptySet

\* The recursive function Within(G, r) exists: each of its prefixes does.
LEMMA WithinDef ==
  ASSUME NEW G, IsFunction(G), NEW r
  PROVE  /\ Within(G, r)[0] = ReadsOf(G, r)
         /\ \A n \in 1 .. Cardinality(Points(G)) :
              Within(G, r)[n] = StepBefore(G, r, Within(G, r)[n - 1])
<1> DEFINE N == Cardinality(Points(G))
           Upto(g, n) == g = [i \in 0 .. n |-> IF i = 0 THEN ReadsOf(G, r)
                                               ELSE StepBefore(G, r, g[i - 1])]
           T == {n \in Nat : \E g : Upto(g, n)}
<1>n. N \in Nat
  BY PointsFinite
<1> HIDE DEF N
<1>1. 0 \in T
  <2> DEFINE g == [i \in 0 .. 0 |-> ReadsOf(G, r)]
  <2>1. Upto(g, 0)
    OBVIOUS
  <2> QED
    BY <2>1
<1>2. \A n \in Nat : n \in T => n + 1 \in T
  <2> SUFFICES ASSUME NEW n \in Nat, n \in T PROVE n + 1 \in T
    OBVIOUS
  <2>1. PICK g : Upto(g, n)
    OBVIOUS
  <2> DEFINE h == [i \in 0 .. (n + 1) |-> IF i <= n THEN g[i] ELSE StepBefore(G, r, g[n])]
  <2>2. ASSUME NEW i \in 0 .. (n + 1)
        PROVE  h[i] = IF i = 0 THEN ReadsOf(G, r) ELSE StepBefore(G, r, h[i - 1])
    <3>1. CASE i = 0
      BY <2>1, <3>1
    <3>2. CASE i \in 1 .. n
      BY <2>1, <3>2
    <3>3. CASE i = n + 1
      BY <3>3
    <3> QED
      BY <3>1, <3>2, <3>3
  <2>3. Upto(h, n + 1)
    BY <2>2, Zenon
  <2>4. n + 1 \in Nat
    OBVIOUS
  <2> HIDE DEF h, Upto
  <2> QED
    BY <2>3, <2>4
<1>3. N \in T
  <2> HIDE DEF T
  <2> QED
    BY <1>n, <1>1, <1>2, NatInd
<1>4. \E g : Upto(g, N)
  BY <1>3
<1>5. Upto(Within(G, r), N)
  BY <1>4 DEF Within, N
<1> QED
  BY <1>5, <1>n DEF N

\* It grows, until at the last step nothing is left to add.
LEMMA WithinGrows ==
  ASSUME NEW G, IsFunction(G), NEW r
  PROVE  /\ \A n \in 0 .. Cardinality(Points(G)) : Within(G, r)[n] \subseteq Points(G)
         /\ \A n \in 1 .. Cardinality(Points(G)) : Within(G, r)[n - 1] \subseteq Within(G, r)[n]
         /\ StepBefore(G, r, ReadWithin(G, r)) = ReadWithin(G, r)
<1> DEFINE N == Cardinality(Points(G))
           W == Within(G, r)
<1>n. N \in Nat /\ N > 0 /\ IsFiniteSet(Points(G))
  BY PointsFinite
<1>d. W[0] = ReadsOf(G, r) /\ \A n \in 1 .. N : W[n] = StepBefore(G, r, W[n - 1])
  BY WithinDef
<1>m. \A A, B : A \subseteq B => StepBefore(G, r, A) \subseteq StepBefore(G, r, B)
  BY DEF StepBefore, PointsBefore
<1>s. ReadsOf(G, r) \subseteq Points(G) /\ \A A : StepBefore(G, r, A) \subseteq Points(G)
  BY DEF StepBefore, ReadsOf, PointsBefore
<1> HIDE DEF N, W
<1>1. \A n \in 0 .. N : W[n] \subseteq Points(G)
  BY <1>d, <1>s, <1>n
<1>2. \A n \in 1 .. N : W[n - 1] \subseteq W[n]
  <2> DEFINE T == {n \in Nat : n + 1 \in 1 .. N => W[n] \subseteq W[n + 1]}
  <2>1. 0 \in T
    BY <1>d, <1>n DEF StepBefore
  <2>2. ASSUME NEW n \in Nat, n \in T PROVE n + 1 \in T
    <3> SUFFICES ASSUME (n + 1) + 1 \in 1 .. N PROVE W[n + 1] \subseteq W[(n + 1) + 1]
      OBVIOUS
    <3>1. W[n] \subseteq W[n + 1]
      BY <2>2, <1>n
    <3>2. W[n + 1] = StepBefore(G, r, W[n]) /\ W[(n + 1) + 1] = StepBefore(G, r, W[n + 1])
      BY <1>d, <1>n
    <3> QED
      BY <3>1, <3>2, <1>m
  <2>3. Nat \subseteq T
    <3> HIDE DEF T
    <3> QED
      BY <2>1, <2>2, NatInd
  <2> TAKE n \in 1 .. N
  <2>4. n - 1 \in T /\ (n - 1) + 1 = n
    BY <2>3, <1>n
  <2> QED
    BY <2>4
\* Either some step adds nothing, and then no later one does, or every step
\* adds a point.
<1>3. \A n \in 0 .. (N - 1) : W[n] = W[n + 1] \/ Cardinality(W[n + 1]) > n
  <2> DEFINE T == {n \in Nat : n <= N - 1 => (W[n] = W[n + 1] \/ Cardinality(W[n + 1]) > n)}
  <2>c. \A n \in 0 .. N : IsFiniteSet(W[n]) /\ Cardinality(W[n]) \in Nat
    BY <1>1, <1>n, FS_Subset, FS_CardinalityType
  <2>1. 0 \in T
    <3> SUFFICES ASSUME W[0] # W[0 + 1] PROVE Cardinality(W[0 + 1]) > 0
      OBVIOUS
    <3>1. W[0 + 1] # {}
      BY <1>2, <1>n
    <3> QED
      BY <3>1, <2>c, <1>n, FS_EmptySet
  <2>2. ASSUME NEW n \in Nat, n \in T PROVE n + 1 \in T
    <3> SUFFICES ASSUME n + 1 <= N - 1, W[n + 1] # W[(n + 1) + 1]
                 PROVE  Cardinality(W[(n + 1) + 1]) > n + 1
      OBVIOUS
    <3>1. W[n + 1] = StepBefore(G, r, W[n]) /\ W[(n + 1) + 1] = StepBefore(G, r, W[n + 1])
      BY <1>d, <1>n
    <3>2. Cardinality(W[n + 1]) > n
      BY <2>2, <3>1, <1>n
    <3>3. W[n + 1] \subseteq W[(n + 1) + 1]
      BY <1>2, <1>n
    <3>4. /\ IsFiniteSet(W[(n + 1) + 1]) /\ Cardinality(W[(n + 1) + 1]) \in Nat
          /\ Cardinality(W[n + 1]) \in Nat
      BY <2>c, <1>n
    <3>5. /\ Cardinality(W[n + 1]) <= Cardinality(W[(n + 1) + 1])
          /\ Cardinality(W[n + 1]) # Cardinality(W[(n + 1) + 1])
      BY <3>3, <3>4, FS_Subset
    <3> QED
      BY <3>2, <3>4, <3>5
  <2>3. Nat \subseteq T
    <3> HIDE DEF T
    <3> QED
      BY <2>1, <2>2, NatInd
  <2> QED
    BY <2>3, <1>n
<1>4. StepBefore(G, r, W[N]) = W[N]
  <2>1. W[N] = StepBefore(G, r, W[N - 1]) /\ N - 1 \in 0 .. (N - 1) /\ (N - 1) + 1 = N
    BY <1>d, <1>n
  <2>2. CASE W[N - 1] = W[N]
    BY <2>1, <2>2
  <2>3. CASE Cardinality(W[N]) > N - 1
    <3>1. W[N] \subseteq Points(G) /\ Cardinality(W[N]) \in Nat
      BY <1>1, <1>n, FS_Subset, FS_CardinalityType
    <3>2. Cardinality(W[N]) <= N /\ (N = Cardinality(W[N]) => Points(G) = W[N])
      BY <3>1, <1>n, FS_Subset DEF N
    <3>3. W[N] = Points(G)
      BY <3>1, <3>2, <2>3, <1>n
    <3>4. W[N] \subseteq StepBefore(G, r, W[N])
      BY <2>1, <1>2, <1>n, <1>m
    <3> QED
      BY <3>3, <3>4, <1>s
  <2> QED
    BY <2>1, <2>2, <2>3, <1>3
<1> QED
  BY <1>1, <1>2, <1>4 DEF N, W, ReadWithin

\* What is live after an instruction is live before one that can be next.
LEMMA LiveAlongPaths ==
  ASSUME LVInv, phase = "done", NEW p \in Points(F)
  PROVE  /\ NextPoints(F, p) \subseteq Points(F)
         /\ liveIn2[p] = LiveBefore(At(F, p), liveOut2[p])
         /\ liveOut2[p] = UNION {liveIn2[q] : q \in NextPoints(F, p)}
<1>0. IsFunction(F) /\ BlocksSolved /\ InstructionsSolved
  BY DEF LVInv, LVTypeOK
<1> DEFINE b == p[1]
           i == p[2]
<1>1. /\ b \in BlocksOf(F) /\ i \in 1 .. Len(F.code[b]) /\ p = <<b, i>>
      /\ Len(F.code[b]) \in Nat
  BY <1>0, PointFacts, FunctionFacts
<1>2. PointSolved(b, i)
  BY <1>0, <1>1 DEF InstructionsSolved, InstrsOf
<1>3. liveIn2[p] = LiveBefore(At(F, p), liveOut2[p])
  BY <1>1, <1>2 DEF PointSolved, At
<1>4. CASE i < Len(F.code[b])
  <2>1. NextPoints(F, p) = {<<b, i + 1>>} /\ <<b, i + 1>> \in Points(F)
    BY <1>1, <1>4 DEF NextPoints, Points, InstrsOf
  <2>2. liveOut2[p] = liveIn2[<<b, i + 1>>]
    BY <1>1, <1>2, <1>4 DEF PointSolved
  <2> QED
    BY <2>1, <2>2, <1>3
<1>5. CASE i = Len(F.code[b])
  <2>1. NextPoints(F, p) = {<<s, 1>> : s \in successors(F, b)}
    BY <1>1, <1>5 DEF NextPoints
  <2>2. \A s \in successors(F, b) : /\ s \in BlocksOf(F) /\ 1 \in InstrsOf(F, s)
                                    /\ <<s, 1>> \in Points(F)
    BY <1>0, <1>1, FunctionFacts DEF Points, InstrsOf
  <2>3. \A s \in successors(F, b) : liveIn2[<<s, 1>>] = liveIn[s]
    BY <1>0, <2>2 DEF InstructionsSolved, PointSolved
  <2>4. liveOut2[p] = liveOut[b] /\ liveOut[b] = FlowOut(b, liveIn)
    BY <1>0, <1>1, <1>2, <1>5 DEF PointSolved, BlocksSolved, SolvedAt
  <2>5. liveOut2[p] = UNION {liveIn2[q] : q \in NextPoints(F, p)}
    <3>1. \A x : x \in liveOut2[p] <=> \E s \in successors(F, b) : x \in liveIn[s]
      BY <2>4 DEF FlowOut
    <3>2. \A x : (\E s \in successors(F, b) : x \in liveIn[s])
                   <=> \E q \in NextPoints(F, p) : x \in liveIn2[q]
      BY <2>1, <2>3
    <3> QED
      BY <3>1, <3>2
  <2> QED
    BY <2>1, <2>2, <2>5, <1>3
<1> QED
  BY <1>1, <1>4, <1>5

\* A register that some path reads before writing it is reported live.
LEMMA ReadMeansLive ==
  ASSUME LVInv, phase = "done", NEW r
  PROVE  ReadWithin(F, r) \subseteq {p \in Points(F) : r \in liveIn2[p]}
<1> DEFINE N == Cardinality(Points(F))
           W == Within(F, r)
           L == {p \in Points(F) : r \in liveIn2[p]}
           T == {n \in Nat : n <= N => W[n] \subseteq L}
<1>0. IsFunction(F)
  BY DEF LVInv, LVTypeOK
<1>n. N \in Nat
  BY <1>0, PointsFinite
<1>d. W[0] = ReadsOf(F, r) /\ \A n \in 1 .. N : W[n] = StepBefore(F, r, W[n - 1])
  BY <1>0, WithinDef
<1>1. ReadsOf(F, r) \subseteq L
  BY LiveAlongPaths DEF ReadsOf, LiveBefore
<1>2. ASSUME NEW V, V \subseteq L PROVE StepBefore(F, r, V) \subseteq L
  <2> SUFFICES ASSUME NEW q \in V, NEW p \in Points(F), q \in NextPoints(F, p), r \notin def(At(F, p))
               PROVE  r \in liveIn2[p]
    BY <1>1 DEF StepBefore, PointsBefore
  <2>1. r \in liveIn2[q]
    BY <1>2
  <2>2. r \in liveOut2[p]
    BY <2>1, LiveAlongPaths
  <2> QED
    BY <2>2, LiveAlongPaths DEF LiveBefore
<1> HIDE DEF N, W, L
<1>3. 0 \in T
  BY <1>1, <1>d
<1>4. ASSUME NEW n \in Nat, n \in T PROVE n + 1 \in T
  <2> SUFFICES ASSUME n + 1 <= N PROVE W[n + 1] \subseteq L
    OBVIOUS
  <2>1. W[n] \subseteq L
    BY <1>4, <1>n
  <2>2. n + 1 \in 1 .. N /\ (n + 1) - 1 = n
    BY <1>n
  <2>3. W[n + 1] = StepBefore(F, r, W[n])
    BY <2>2, <1>d
  <2> QED
    BY <2>1, <2>3, <1>2
<1>5. N \in T
  <2> HIDE DEF T
  <2> QED
    BY <1>n, <1>3, <1>4, NatInd
<1> QED
  BY <1>5, <1>n DEF ReadWithin, N, W, L

\* Inside a block, what reaches a point without being written reaches the
\* block's start.
LEMMA BackToStart ==
  ASSUME IsFunction(F), NEW r, NEW b \in BlocksOf(F), NEW k \in InstrsOf(F, b),
         <<b, k>> \in ReadWithin(F, r), \A j \in 1 .. (k - 1) : r \notin def(F.code[b][j])
  PROVE  <<b, 1>> \in ReadWithin(F, r)
<1> DEFINE T == {n \in Nat : n < k => <<b, k - n>> \in ReadWithin(F, r)}
<1>0. Len(F.code[b]) \in Nat /\ k \in 1 .. Len(F.code[b])
  BY FunctionFacts DEF InstrsOf
<1>1. 0 \in T
  BY <1>0
<1>2. ASSUME NEW n \in Nat, n \in T PROVE n + 1 \in T
  <2> SUFFICES ASSUME n + 1 < k PROVE <<b, k - (n + 1)>> \in ReadWithin(F, r)
    OBVIOUS
  <2> DEFINE i == k - (n + 1)
  <2>1. <<b, k - n>> \in ReadWithin(F, r) /\ k - n = i + 1 /\ i \in 1 .. (k - 1)
    BY <1>0, <1>2
  <2>2. <<b, i>> \in Points(F) /\ <<b, i + 1>> \in NextPoints(F, <<b, i>>)
    BY <1>0, <2>1 DEF Points, InstrsOf, NextPoints
  <2>3. r \notin def(At(F, <<b, i>>))
    BY <2>1 DEF At
  <2>4. <<b, i>> \in StepBefore(F, r, ReadWithin(F, r))
    BY <2>1, <2>2, <2>3 DEF StepBefore, PointsBefore
  <2> QED
    BY <2>4, WithinGrows
<1>3. k - 1 \in T
  <2>1. Nat \subseteq T
    <3> HIDE DEF T
    <3> QED
      BY <1>1, <1>2, NatInd
  <2> QED
    BY <2>1, <1>0
<1>4. k - (k - 1) = 1 /\ k - 1 < k
  BY <1>0
<1> QED
  BY <1>3, <1>4

\* A register reported live is read by some path before it is written: the
\* registers that paths read solve the equations.
LEMMA LiveMeansReadBlocks ==
  ASSUME LVInv, NEW b \in BlocksOf(F), NEW r \in liveIn[b]
  PROVE  <<b, 1>> \in ReadWithin(F, r)
<1>0. IsFunction(F) /\ liveIn \in [BlocksOf(F) -> SUBSET Regs]
  BY DEF LVInv, LVTypeOK
<1> DEFINE S == [c \in BlocksOf(F) |-> {x \in Regs : <<c, 1>> \in ReadWithin(F, x)}]
<1>1. ASSUME NEW c \in BlocksOf(F), NEW x \in FlowIn(c, FlowOut(c, S))
      PROVE  x \in S[c]
  <2>0. x \in Regs /\ Len(F.code[c]) \in Nat /\ Len(F.code[c]) > 0
        /\ successors(F, c) \subseteq BlocksOf(F)
    <3>0. successors(F, c) \subseteq BlocksOf(F)
      BY <1>0, FunctionFacts
    <3>1. FlowOut(c, S) \subseteq Regs
      BY <3>0 DEF FlowOut
    <3>2. x \in Regs
      BY <3>1, <1>1 DEF FlowIn, BlockUse
    <3> QED
      BY <3>2, <1>0, FunctionFacts
  <2>s. StepBefore(F, x, ReadWithin(F, x)) = ReadWithin(F, x)
    BY <1>0, WithinGrows
  <2>1. CASE x \in BlockUse(F, c)
    <3>1. PICK k \in InstrsOf(F, c) : /\ x \in use(F.code[c][k])
                                      /\ \A j \in 1 .. (k - 1) : x \notin def(F.code[c][j])
      BY <2>1 DEF BlockUse
    <3>2. <<c, k>> \in ReadsOf(F, x)
      BY <3>1 DEF ReadsOf, Points, At
    <3>3. <<c, k>> \in ReadWithin(F, x)
      BY <3>2, <2>s DEF StepBefore
    <3> QED
      BY <3>1, <3>3, <1>0, <2>0, BackToStart
  <2>2. CASE x \notin BlockUse(F, c)
    <3>1. x \in FlowOut(c, S) /\ x \notin BlockDef(F, c)
      BY <2>2, <1>1 DEF FlowIn
    <3>2. PICK s \in successors(F, c) : x \in S[s]
      BY <3>1 DEF FlowOut
    <3> DEFINE k == Len(F.code[c])
    <3>3. <<s, 1>> \in ReadWithin(F, x)
      BY <3>2, <2>0
    <3>4. k \in InstrsOf(F, c) /\ \A j \in 1 .. k : x \notin def(F.code[c][j])
      BY <3>1, <2>0 DEF BlockDef, InstrsOf
    <3>5. <<c, k>> \in Points(F) /\ <<s, 1>> \in NextPoints(F, <<c, k>>)
      BY <3>4 DEF Points, NextPoints
    <3>6. <<c, k>> \in StepBefore(F, x, ReadWithin(F, x))
      BY <3>3, <3>4, <3>5, <2>0 DEF StepBefore, PointsBefore, At
    <3> QED
      BY <3>4, <3>6, <1>0, <2>0, <2>s, BackToStart
  <2> QED
    BY <2>1, <2>2
<1>2. S \in [BlocksOf(F) -> SUBSET Regs] /\ IsPostFix(S)
  BY <1>1 DEF IsPostFix
<1> HIDE DEF S
<1>3. liveIn[b] \subseteq S[b]
  BY <1>2 DEF LVInv, NeverBeyondLeastSolution
<1> QED
  BY <1>3 DEF S

LEMMA LiveIsRead ==
  ASSUME LVInv, phase = "done", NEW r, NEW b \in BlocksOf(F), NEW i \in InstrsOf(F, b),
         r \in liveIn2[<<b, i>>]
  PROVE  <<b, i>> \in ReadWithin(F, r)
<1>0. IsFunction(F) /\ BlocksSolved /\ InstructionsSolved
  BY DEF LVInv, LVTypeOK
<1> DEFINE n == Len(F.code[b])
           T == {k \in Nat : k < n => (r \in liveIn2[<<b, n - k>>] => <<b, n - k>> \in ReadWithin(F, r))}
<1>n. n \in Nat /\ n > 0 /\ InstrsOf(F, b) = 1 .. n
  BY <1>0, FunctionFacts DEF InstrsOf
<1>s. StepBefore(F, r, ReadWithin(F, r)) = ReadWithin(F, r)
  BY <1>0, WithinGrows
<1>p. ASSUME NEW j \in 1 .. n, r \in liveIn2[<<b, j>>],
             r \in liveOut2[<<b, j>>] =>
               \E q \in NextPoints(F, <<b, j>>) : q \in ReadWithin(F, r)
      PROVE  <<b, j>> \in ReadWithin(F, r)
  <2>1. <<b, j>> \in Points(F)
    BY <1>n DEF Points
  <2>2. r \in LiveBefore(At(F, <<b, j>>), liveOut2[<<b, j>>])
    BY <2>1, <1>p, LiveAlongPaths
  <2>3. CASE r \in use(At(F, <<b, j>>))
    BY <2>1, <2>3, <1>s DEF StepBefore, ReadsOf
  <2>4. CASE r \in liveOut2[<<b, j>>] /\ r \notin def(At(F, <<b, j>>))
    BY <2>1, <2>4, <1>p, <1>s DEF StepBefore, PointsBefore
  <2> QED
    BY <2>2, <2>3, <2>4 DEF LiveBefore
<1> HIDE DEF n
<1>1. 0 \in T
  <2> SUFFICES ASSUME r \in liveIn2[<<b, n>>], r \in liveOut2[<<b, n>>]
               PROVE  \E q \in NextPoints(F, <<b, n>>) : q \in ReadWithin(F, r)
    BY <1>n, <1>p
  <2>1. NextPoints(F, <<b, n>>) = {<<s, 1>> : s \in successors(F, b)}
    BY DEF NextPoints, n
  <2>2. liveOut2[<<b, n>>] = FlowOut(b, liveIn)
    <3>1. PointSolved(b, n) /\ SolvedAt(b)
      BY <1>0, <1>n DEF InstructionsSolved, BlocksSolved
    <3> QED
      BY <3>1 DEF PointSolved, SolvedAt, n
  <2>3. PICK s \in successors(F, b) : r \in liveIn[s]
    BY <2>2 DEF FlowOut
  <2>4. s \in BlocksOf(F)
    BY <1>0, <2>3, FunctionFacts
  <2> QED
    BY <2>1, <2>3, <2>4, LiveMeansReadBlocks
<1>2. ASSUME NEW k \in Nat, k \in T PROVE k + 1 \in T
  <2> DEFINE j == n - (k + 1)
  <2> SUFFICES ASSUME k + 1 < n, r \in liveIn2[<<b, j>>], r \in liveOut2[<<b, j>>]
               PROVE  \E q \in NextPoints(F, <<b, j>>) : q \in ReadWithin(F, r)
    BY <1>n, <1>p
  <2>1. j \in 1 .. n /\ j < n /\ j + 1 = n - k /\ k < n
    BY <1>n
  <2>2. NextPoints(F, <<b, j>>) = {<<b, j + 1>>}
    BY <2>1 DEF NextPoints, n
  <2>3. liveOut2[<<b, j>>] = liveIn2[<<b, j + 1>>]
    BY <1>0, <1>n, <2>1 DEF InstructionsSolved, PointSolved, n
  <2> QED
    BY <1>2, <2>1, <2>2, <2>3
<1>3. n - i \in T
  <2>1. Nat \subseteq T
    <3> HIDE DEF T
    <3> QED
      BY <1>1, <1>2, NatInd
  <2>2. n - i \in Nat
    BY <1>n
  <2> HIDE DEF T
  <2> QED
    BY <2>1, <2>2
<1>4. n - (n - i) = i /\ n - i < n
  BY <1>n
<1> QED
  BY <1>3, <1>4

LEMMA LiveExact == LVInv => LiveMeansRead
<1> SUFFICES ASSUME LVInv, phase = "done", NEW r \in Regs
             PROVE  {p \in Points(F) : r \in liveIn2[p]} = ReadWithin(F, r)
  BY DEF LiveMeansRead
<1>1. ASSUME NEW p \in Points(F), r \in liveIn2[p] PROVE p \in ReadWithin(F, r)
  BY <1>1, LiveIsRead DEF Points
<1> QED
  BY <1>1, ReadMeansLive

(* Live is exactly what some path reads before writing it: the liveness    *)
(* every allocator starts from has no register too few and none too many.  *)
THEOREM LVLiveMeansRead == LVSpec => []LiveMeansRead
BY LiveExact, LVCorrect, PTL

\* The same for the sets of a single instruction, in the form later proofs use.
LEMMA LiveInMeansRead ==
  ASSUME LVInv, phase = "done", NEW p \in Points(F), NEW r
  PROVE  r \in liveIn2[p] <=> p \in ReadWithin(F, r)
<1>1. r \in liveIn2[p] => p \in ReadWithin(F, r)
  BY LiveIsRead DEF Points
<1> QED
  BY <1>1, ReadMeansLive

LEMMA LiveOutMeansRead ==
  ASSUME LVInv, phase = "done", NEW p \in Points(F), NEW r
  PROVE  r \in liveOut2[p] <=> p \in PointsBefore(F, ReadWithin(F, r))
<1>1. NextPoints(F, p) \subseteq Points(F)
      /\ liveOut2[p] = UNION {liveIn2[q] : q \in NextPoints(F, p)}
  BY LiveAlongPaths
<1>2. r \in liveOut2[p] <=> \E q \in NextPoints(F, p) : r \in liveIn2[q]
  BY <1>1
<1>3. \A q \in NextPoints(F, p) : r \in liveIn2[q] <=> q \in ReadWithin(F, r)
  BY <1>1, LiveInMeansRead
<1>4. p \in PointsBefore(F, ReadWithin(F, r))
        <=> \E q \in ReadWithin(F, r) : q \in NextPoints(F, p)
  BY DEF PointsBefore
<1> QED
  BY <1>2, <1>3, <1>4
=============================================================================
