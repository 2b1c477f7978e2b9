-------------------------- MODULE LinearScan_proof --------------------------
(***************************************************************************)
(* Proofs about LinearScan, for every set of machine functions and every   *)
(* set of physical registers: the linear order lists every instruction     *)
(* once, the intervals cover what they stand for, registers that hold      *)
(* values at the same point never share a physical register, the scan      *)
(* implements RegisterAssignment, and its result runs in lockstep with the *)
(* function it was given.                                                  *)
(***************************************************************************)
EXTENDS LinearScan, LockstepExecution_proof

\* Once the allocator has left its first step the analysis does not move.
LEMMA AnalysisOver ==
  ASSUME AnalysisFirst, [LSNext]_vars, step # "reserve"
  PROVE  UNCHANGED lvVars
<1>1. CASE Analyse
  BY <1>1 DEF AnalysisFirst, Analyse, LVNext, VisitBlock, EndSweep, VisitInstruction, NextBlock
<1>2. CASE ~Analyse
  BY <1>2 DEF LSNext, vars, Reserve, VisitRoot, VisitSuccessor, LeaveBlock, EmitBlock,
     ExtendInterval, BuildIntervals, ScanInterval, EndScan, RewriteInstruction, Return,
     setupVars
<1> QED
  BY <1>1, <1>2

\* The function does not change at all.
LEMMA FunctionKept == [LSNext]_vars => F' = F
BY DEF LSNext, vars, lvVars, Analyse, LVNext, VisitBlock, EndSweep, VisitInstruction,
   NextBlock, Reserve, VisitRoot, VisitSuccessor, LeaveBlock, EmitBlock, ExtendInterval,
   BuildIntervals, ScanInterval, EndScan, RewriteInstruction, Return, setupVars

LEMMA LSInitAnalysis == LSInit => AnalysisFirst
BY DEF LSInit, LVInit, Start, AnalysisFirst

LEMMA LSStepAnalysis == AnalysisFirst /\ [LSNext]_vars => AnalysisFirst'
<1> SUFFICES ASSUME AnalysisFirst, [LSNext]_vars PROVE AnalysisFirst'
  OBVIOUS
<1>1. F' \in Funcs
  BY FunctionKept DEF AnalysisFirst
<1>2. CASE step # "reserve"
  BY <1>1, <1>2, AnalysisOver DEF AnalysisFirst, lvVars
<1>3. CASE step = "reserve"
  <2>1. step' # "reserve" => Reserve
    BY <1>3 DEF LSNext, vars, lsVars, Analyse, VisitRoot, VisitSuccessor, LeaveBlock,
       EmitBlock, ExtendInterval, BuildIntervals, ScanInterval, EndScan,
       RewriteInstruction, Return
  <2>2. Reserve => phase' = "done"
    BY DEF Reserve, lvVars
  <2> QED
    BY <1>1, <2>1, <2>2 DEF AnalysisFirst
<1> QED
  BY <1>2, <1>3

-----------------------------------------------------------------------------
(* The linear order.                                                       *)

LEMMA LSInitOrder == LSInit => OrderInv
<1> SUFFICES ASSUME LSInit PROVE OrderInv
  OBVIOUS
<1>1. step = "reserve" /\ stack = <<>> /\ order = <<>> /\ seq = <<>>
  BY DEF LSInit
<1> QED
  BY <1>1 DEF OrderInv, Steps, IsInjective, Range, Linearized

LEMMA LSStepOrder == AnalysisFirst /\ OrderInv /\ [LSNext]_vars => OrderInv'
<1> SUFFICES ASSUME AnalysisFirst, OrderInv, [LSNext]_vars PROVE OrderInv'
  OBVIOUS
<1>0. IsFunction(F) /\ F' = F
  BY FunctionKept, FuncsAssumption DEF AnalysisFirst
<1>b. /\ \A k \in DOMAIN F.layout : F.layout[k] \in BlocksOf(F)
      /\ \A b \in BlocksOf(F) : successors(F, b) \subseteq BlocksOf(F)
  BY <1>0 DEF IsFunction
<1>s. /\ stack \in Seq(BlocksOf(F)) /\ order \in Seq(BlocksOf(F)) /\ seq \in Seq(Points(F))
      /\ IsInjective(stack) /\ IsInjective(order) /\ IsInjective(seq)
      /\ Range(stack) \cap Range(order) = {}
      /\ \A n \in DOMAIN seq : seq[n][1] \notin Range(order)
      /\ step \in Steps
  BY DEF OrderInv
<1> DEFINE early == {"reserve", "linearize", "failed"}
<1>k. ASSUME UNCHANGED <<stack, order, seq>>, step' \in Steps,
             (step' \in early) <=> (step \in early),
             Linearized' => order = <<>>
      PROVE  OrderInv'
  <2>1. /\ stack' \in Seq(BlocksOf(F')) /\ order' \in Seq(BlocksOf(F'))
        /\ seq' \in Seq(Points(F'))
        /\ IsInjective(stack') /\ IsInjective(order') /\ IsInjective(seq')
        /\ Range(stack') \cap Range(order') = {}
        /\ \A n \in DOMAIN seq' : seq'[n][1] \notin Range(order')
    BY <1>0, <1>k, <1>s
  <2>2. step' \in early => seq' = <<>>
    BY <1>k DEF OrderInv
  <2>3. step' \notin early =>
          /\ stack' = <<>>
          /\ \A b \in BlocksOf(F') : \/ b \in Range(order')
                                    \/ \A i \in InstrsOf(F', b) : <<b, i>> \in Range(seq')
    BY <1>0, <1>k DEF OrderInv
  <2> HIDE DEF early
  <2>4. step' \in Steps /\ (Linearized' => order' = <<>>)
    BY <1>k
  <2> QED
    BY <2>1, <2>2, <2>3, <2>4 DEF OrderInv, early
<1> HIDE DEF early
<1> USE DEF Steps
<1>1. CASE Analyse \/ UNCHANGED vars
  <2>1. UNCHANGED <<step, stack, order, seq>>
    BY <1>1 DEF Analyse, vars, lsVars
  <2> QED
    BY <2>1, <1>k, <1>s DEF OrderInv, Linearized
<1>2. CASE Reserve
  <2>1. UNCHANGED <<stack, order, seq>> /\ step = "reserve"
        /\ step' \in {"failed", "linearize"}
    BY <1>2 DEF Reserve
  <2> QED
    BY <2>1, <1>k DEF Linearized, early
<1>3. CASE VisitRoot
  <2>1. PICK k \in DOMAIN F.layout :
          F.layout[k] \notin Visited /\ stack' = <<F.layout[k]>>
    BY <1>3 DEF VisitRoot
  <2>2. step = "linearize" /\ step' = step /\ UNCHANGED <<order, seq>>
    BY <1>3 DEF VisitRoot
  <2>3. stack' \in Seq(BlocksOf(F)) /\ IsInjective(stack')
        /\ Range(stack') = {F.layout[k]}
    BY <2>1, <1>b DEF IsInjective, Range
  <2>4. Range(stack') \cap Range(order) = {}
    BY <2>1, <2>3 DEF Visited
  <2> QED
    BY <2>2, <2>3, <2>4, <1>0 DEF OrderInv, IsInjective, Linearized, BlocksOf, Points, InstrsOf
<1>4. CASE VisitSuccessor
  <2>1. PICK s \in successors(F, stack[Len(stack)]) \ Visited : stack' = Append(stack, s)
    BY <1>4 DEF VisitSuccessor
  <2>2. step = "linearize" /\ step' = step /\ UNCHANGED <<order, seq>> /\ stack # <<>>
    BY <1>4 DEF VisitSuccessor
  <2>3. stack[Len(stack)] \in BlocksOf(F)
    BY <2>2, <1>s
  <2>4. s \in BlocksOf(F) /\ s \notin Range(stack) /\ s \notin Range(order)
    BY <2>1, <2>3, <1>b DEF Visited
  <2>5. stack' \in Seq(BlocksOf(F)) /\ IsInjective(stack') /\ Range(stack') = Range(stack) \cup {s}
    BY <2>1, <2>4, <1>s, AppendDistinct
  <2> QED
    BY <2>2, <2>4, <2>5, <1>0 DEF OrderInv, IsInjective, Linearized, BlocksOf, Points, InstrsOf
<1>5. CASE LeaveBlock
  <2> DEFINE b == stack[Len(stack)]
  <2>1. /\ step = "linearize" /\ step' = step /\ stack # <<>> /\ UNCHANGED seq
        /\ order' = Append(order, b) /\ stack' = SubSeq(stack, 1, Len(stack) - 1)
    BY <1>5 DEF LeaveBlock
  <2>2. /\ stack' \in Seq(BlocksOf(F)) /\ IsInjective(stack') /\ b \in BlocksOf(F)
        /\ b \notin Range(stack') /\ Range(stack) = Range(stack') \cup {b}
    BY <2>1, <1>s, FrontDistinct
  <2>3. b \notin Range(order)
    BY <2>2, <1>s
  <2>4. order' \in Seq(BlocksOf(F)) /\ IsInjective(order') /\ Range(order') = Range(order) \cup {b}
    BY <2>1, <2>2, <2>3, <1>s, AppendDistinct
  <2>5. seq = <<>> /\ seq' = <<>>
    BY <2>1 DEF OrderInv
  <2> HIDE DEF b
  <2>6. Range(stack') \cap Range(order') = {}
    BY <2>2, <2>3, <2>4, <1>s
  <2> QED
    BY <2>1, <2>2, <2>4, <2>5, <2>6, <1>0, <1>s
    DEF OrderInv, IsInjective, Linearized, BlocksOf
<1>6. CASE EmitBlock
  <2> DEFINE b == order[Len(order)]
             n == Len(order)
             c == [i \in InstrsOf(F, b) |-> <<b, i>>]
  <2>1. /\ order # <<>> /\ UNCHANGED stack
        /\ seq' = seq \o c /\ order' = SubSeq(order, 1, n - 1)
        /\ step' = IF n = 1 THEN "endpoints" ELSE "emit"
    BY <1>6 DEF EmitBlock
  <2>2. (step = "linearize" /\ stack = <<>> /\ BlocksOf(F) \subseteq Visited) \/ step = "emit"
    BY <1>6 DEF EmitBlock
  <2>4. /\ order' \in Seq(BlocksOf(F)) /\ IsInjective(order') /\ b \in BlocksOf(F)
        /\ Range(order) = Range(order') \cup {b} /\ b \notin Range(order')
        /\ Len(order') = n - 1
    BY <2>1, <1>s, FrontDistinct
  <2>3. b \in BlocksOf(F) /\ b \in Range(order)
    BY <2>4
  <2>5. n = 1 => order' = <<>>
    BY <2>4
  <2>6. Len(F.code[b]) \in Nat
    BY <2>3, <1>0 DEF IsFunction
  <2>7. c \in Seq(Points(F)) /\ Len(c) = Len(F.code[b])
    BY <2>3, <2>6 DEF InstrsOf, Points
  <2>8. IsInjective(c) /\ Range(c) = {<<b, i>> : i \in InstrsOf(F, b)}
    BY <2>6 DEF IsInjective, Range, InstrsOf
  <2>9. \A i \in DOMAIN c : c[i][1] = b
    OBVIOUS
  <2>10. \A i \in DOMAIN seq : seq[i][1] # b
    BY <2>3, <1>s
  <2> HIDE DEF c, b, n
  <2>11. /\ seq' \in Seq(Points(F)) /\ Range(seq') = Range(seq) \cup Range(c)
         /\ IsInjective(seq')
         /\ \A i \in DOMAIN seq' : seq'[i][1] = b
                \/ \E j \in DOMAIN seq : seq'[i] = seq[j]
    <3>1. Range(seq) \cap Range(c) = {}
      BY <2>8, <2>10 DEF Range
    <3>2. /\ seq' \in Seq(Points(F)) /\ Range(seq') = Range(seq) \cup Range(c)
          /\ IsInjective(seq')
      BY <3>1, <2>1, <2>7, <2>8, <1>s, ConcatDistinct
    <3>3. \A i \in DOMAIN seq' : seq'[i] \in Range(seq) \cup Range(c)
      BY <3>2 DEF Range
    <3>4. \A p \in Range(c) : p[1] = b
      BY <2>8
    <3> QED
      BY <3>2, <3>3, <3>4 DEF Range
  <2>12. \A i \in DOMAIN seq' : seq'[i][1] \notin Range(order')
    BY <2>11, <2>4, <1>s
  <2>13. stack' = <<>> /\ stack = <<>>
    BY <2>1, <2>2 DEF OrderInv
  <2>14. \A d \in BlocksOf(F) : \/ d \in Range(order)
                                \/ \A i \in InstrsOf(F, d) : <<d, i>> \in Range(seq)
    <3>1. CASE step = "emit"
      BY <3>1 DEF OrderInv
    <3>2. CASE step = "linearize" /\ stack = <<>> /\ BlocksOf(F) \subseteq Visited
      BY <3>2 DEF Visited, Range
    <3> QED
      BY <3>1, <3>2, <2>2
  <2>15. \A d \in BlocksOf(F) : \/ d \in Range(order')
                                \/ \A i \in InstrsOf(F, d) : <<d, i>> \in Range(seq')
    BY <2>14, <2>4, <2>8, <2>11
  <2>16. Linearized' => order' = <<>>
    BY <2>1, <2>5 DEF Linearized
  <2>17. Range(stack') \cap Range(order') = {} /\ stack' \in Seq(BlocksOf(F)) /\ IsInjective(stack')
    BY <2>13 DEF Range, IsInjective
  <2>18. step' \in Steps /\ step' \notin {"reserve", "linearize", "failed"}
    BY <2>1
  <2>19. /\ BlocksOf(F') = BlocksOf(F) /\ Points(F') = Points(F)
         /\ \A d : InstrsOf(F', d) = InstrsOf(F, d)
    BY <1>0
  <2>20. /\ \A d \in BlocksOf(F') : \/ d \in Range(order')
                                    \/ \A i \in InstrsOf(F', d) : <<d, i>> \in Range(seq')
         /\ seq' \in Seq(Points(F')) /\ order' \in Seq(BlocksOf(F'))
         /\ stack' \in Seq(BlocksOf(F'))
    BY <2>4, <2>11, <2>15, <2>17, <2>19
  <2> QED
    BY <2>4, <2>11, <2>12, <2>13, <2>16, <2>17, <2>18, <2>20
    DEF OrderInv
<1>7. CASE ExtendInterval \/ BuildIntervals \/ ScanInterval \/ EndScan
           \/ RewriteInstruction \/ Return
  <2>1. /\ UNCHANGED <<stack, order, seq>> /\ step \in {"endpoints", "scan", "rewrite"}
        /\ step' \in {"endpoints", "scan", "rewrite", "done", "aborted"}
    BY <1>7 DEF ExtendInterval, BuildIntervals, ScanInterval, EndScan,
       RewriteInstruction, Return, setupVars
  <2> QED
    BY <2>1, <1>k DEF OrderInv, Linearized, early
<1> QED
  BY <1>1, <1>2, <1>3, <1>4, <1>5, <1>6, <1>7 DEF LSNext

LEMMA OrderComplete == IsFunction(F) /\ OrderInv => LinearOrderComplete
<1> SUFFICES ASSUME IsFunction(F), OrderInv, Linearized
             PROVE  Range(seq) = Points(F) /\ IsInjective(seq)
  BY DEF LinearOrderComplete
<1>1. Range(seq) \subseteq Points(F) /\ IsInjective(seq)
  BY DEF OrderInv, Range
<1>2. ASSUME NEW p \in Points(F) PROVE p \in Range(seq)
  <2>1. p[1] \in BlocksOf(F) /\ p[2] \in InstrsOf(F, p[1]) /\ p = <<p[1], p[2]>>
    BY DEF Points
  <2>2. Range(order) = {} /\ step \notin {"reserve", "linearize", "failed"}
    BY DEF OrderInv, Linearized, Range
  <2> QED
    BY <2>1, <2>2 DEF OrderInv
<1> QED
  BY <1>1, <1>2

-----------------------------------------------------------------------------
(* The intervals.                                                          *)

LEMMA LSInitCover == LSInit => CoverInv
BY DEF LSInit, CoverInv, Built, IntervalsCover

\* What a point occupies depends on the function and its liveness only.
LEMMA OccupiedKept ==
  ASSUME UNCHANGED lvVars
  PROVE  \A p : Occupied(p)' = Occupied(p)
BY DEF lvVars, Occupied, virtRegs, VirtRegsOf, Points, At, InstrsOf, BlocksOf, use, def

LEMMA LSStepCover == AnalysisFirst /\ OrderInv /\ CoverInv /\ [LSNext]_vars => CoverInv'
<1> SUFFICES ASSUME AnalysisFirst, OrderInv, CoverInv, [LSNext]_vars PROVE CoverInv'
  OBVIOUS
<1>s. seq \in Seq(Points(F)) /\ Len(seq) \in Nat /\ DOMAIN seq = 1 .. Len(seq) /\ step \in Steps
  BY DEF OrderInv
<1>p. pos \in Nat \ {0}
  BY DEF CoverInv
<1>1. ASSUME step \in {"reserve", "linearize", "emit", "failed"},
             UNCHANGED <<pos, endpoints>>,
             step' \in {"reserve", "linearize", "emit", "failed", "endpoints"},
             step = "failed" => step' = "failed"
      PROVE  CoverInv'
  <2>1. pos' \in Nat \ {0} /\ (step # "failed" => pos' = 1 /\ DOMAIN endpoints' = {})
    BY <1>1 DEF CoverInv
  <2>2. ~Built'
    BY <1>1 DEF Built
  <2>3. step' = "endpoints" => \A n \in Nat \ {0} : ~(n < pos')
    BY <1>1, <2>1
  <2>4. seq' \in Seq(Points(F)) => \A n \in DOMAIN seq' : n \in Nat \ {0}
    OBVIOUS
  <2>5. seq' \in Seq(Points(F))
    <3>1. F' = F
      BY FunctionKept
    <3>2. OrderInv'
      BY LSStepOrder
    <3>3. Points(F') = Points(F)
      BY <3>1
    <3> QED
      BY <3>2, <3>3 DEF OrderInv
  <2>6. step' # "aborted"
    BY <1>1
  <2> QED
    BY <1>1, <2>1, <2>2, <2>3, <2>4, <2>5, <2>6 DEF CoverInv, IntervalsCover
<1>2. ASSUME UNCHANGED <<endpoints, seq>>, UNCHANGED lvVars, pos' \in Nat \ {0},
             Built, Built'
      PROVE  CoverInv'
  <2>1. IntervalsCover'
    BY <1>2, OccupiedKept DEF CoverInv, IntervalsCover, start, end
  <2>2. \A v \in DOMAIN endpoints' : start(v)' \in Nat /\ end(v)' \in Nat
    BY <1>2 DEF CoverInv, start, end
  <2> QED
    BY <1>2, <2>1, <2>2 DEF CoverInv, Built
<1> USE DEF Steps
<1>3. CASE Analyse \/ UNCHANGED vars
  <2>1. UNCHANGED <<step, seq, pos, endpoints>>
    BY <1>3 DEF Analyse, vars, lsVars
  <2>2. CASE step \in {"reserve", "linearize", "emit", "failed"}
    BY <2>1, <2>2, <1>1
  <2>3. CASE step \in {"scan", "rewrite", "done"}
    <3>1. UNCHANGED lvVars
      BY <2>3, AnalysisOver
    <3> QED
      BY <2>1, <2>3, <3>1, <1>2, <1>p DEF Built
  <2>4. CASE step \in {"endpoints", "aborted"}
    <3>1. UNCHANGED lvVars
      BY <2>4, AnalysisOver
    <3>2. ~Built'
      BY <2>1, <2>4 DEF Built
    <3>3. \A p : Occupied(p)' = Occupied(p)
      BY <3>1, OccupiedKept
    <3> QED
      BY <2>1, <2>4, <3>2, <3>3 DEF CoverInv, IntervalsCover, start, end
  <2> QED
    BY <2>2, <2>3, <2>4, <1>s
<1>4. CASE Reserve \/ VisitRoot \/ VisitSuccessor \/ LeaveBlock \/ EmitBlock
  <2>1. /\ step \in {"reserve", "linearize", "emit"} /\ UNCHANGED <<pos, endpoints>>
        /\ step' \in {"reserve", "linearize", "emit", "failed", "endpoints"}
    BY <1>4 DEF Reserve, VisitRoot, VisitSuccessor, LeaveBlock, EmitBlock, scanVars
  <2> QED
    BY <2>1, <1>1
<1>5. CASE ExtendInterval
  <2>1. /\ step = "endpoints" /\ step' = step /\ pos <= Len(seq) /\ pos' = pos + 1
        /\ UNCHANGED <<lvVars, seq>>
        /\ endpoints' = [v \in DOMAIN endpoints \cup Occupied(seq[pos]) |->
             IF v \notin DOMAIN endpoints THEN <<pos, pos>>
             ELSE IF v \in Occupied(seq[pos]) THEN <<endpoints[v][1], pos>>
             ELSE endpoints[v]]
    BY <1>5 DEF ExtendInterval, setupVars
  <2>2. DOMAIN endpoints' = DOMAIN endpoints \cup Occupied(seq[pos])
    BY <2>1
  <2>3. \A v \in DOMAIN endpoints :
          start(v) \in Nat /\ end(v) \in Nat /\ start(v) <= end(v) /\ end(v) < pos
    BY <2>1 DEF CoverInv
  <2>4. ASSUME NEW v \in DOMAIN endpoints
        PROVE  start(v)' = start(v) /\ end(v)' \in Nat /\ end(v)' >= end(v) /\ end(v)' <= pos
    <3>1. endpoints'[v] = IF v \in Occupied(seq[pos]) THEN <<endpoints[v][1], pos>>
                                                      ELSE endpoints[v]
      BY <2>1
    <3> QED
      BY <3>1, <2>3, <1>p DEF start, end
  <2>5. ASSUME NEW v \in Occupied(seq[pos])
        PROVE  start(v)' \in Nat /\ start(v)' <= pos /\ end(v)' = pos
    <3>1. CASE v \notin DOMAIN endpoints
      <4>1. endpoints'[v] = <<pos, pos>>
        BY <3>1, <2>1
      <4> QED
        BY <4>1, <1>p DEF start, end
    <3>2. CASE v \in DOMAIN endpoints
      <4>1. endpoints'[v] = <<endpoints[v][1], pos>>
        BY <3>2, <2>1
      <4> QED
        BY <3>2, <4>1, <2>3, <1>p DEF start, end
    <3> QED
      BY <3>1, <3>2
  <2>6. \A v \in DOMAIN endpoints' :
          start(v)' \in Nat /\ end(v)' \in Nat /\ start(v)' <= end(v)' /\ end(v)' < pos'
    BY <2>1, <2>2, <2>3, <2>4, <2>5, <1>p
  <2>7. ASSUME NEW n \in DOMAIN seq, n < pos + 1, NEW v \in Occupied(seq[n])
        PROVE  v \in DOMAIN endpoints' /\ start(v)' <= n /\ n <= end(v)'
    <3>1. CASE n < pos
      <4>1. v \in DOMAIN endpoints /\ start(v) <= n /\ n <= end(v)
        BY <2>1, <2>7, <3>1 DEF CoverInv
      <4> QED
        BY <4>1, <2>2, <2>3, <2>4, <2>7, <1>s
    <3>2. CASE n = pos
      BY <3>2, <2>2, <2>5, <2>7, <1>p
    <3> QED
      BY <3>1, <3>2, <2>7, <1>p, <1>s
  <2>8. \A p : Occupied(p)' = Occupied(p)
    BY <2>1, OccupiedKept
  <2>9. ~Built'
    BY <2>1 DEF Built
  <2>10. pos' \in Nat \ {0} /\ step' = "endpoints"
    BY <2>1, <1>p
  <2>11. \A n \in DOMAIN seq : n < pos' => \A v \in Occupied(seq[n]) :
           v \in DOMAIN endpoints' /\ start(v)' <= n /\ n <= end(v)'
    BY <2>1, <2>7
  <2> QED
    BY <2>1, <2>6, <2>8, <2>9, <2>10, <2>11 DEF CoverInv, IntervalsCover
<1>6. CASE BuildIntervals
  <2>1. /\ step = "endpoints" /\ step' \in {"scan", "aborted"} /\ pos > Len(seq)
        /\ UNCHANGED <<lvVars, seq, pos, endpoints>>
    BY <1>6 DEF BuildIntervals, setupVars
  <2>2. \A p : Occupied(p)' = Occupied(p)
    BY <2>1, OccupiedKept
  <2>3. \A v : start(v)' = start(v) /\ end(v)' = end(v)
    BY <2>1 DEF start, end
  <2>4. \A n \in DOMAIN seq : n < pos
    BY <2>1, <1>s, <1>p
  <2>5. \A n \in DOMAIN seq : \A v \in Occupied(seq[n]) :
          v \in DOMAIN endpoints /\ start(v) <= n /\ n <= end(v)
    BY <2>1, <2>4 DEF CoverInv
  <2>6. \A v \in DOMAIN endpoints :
          start(v) \in Nat /\ end(v) \in Nat /\ start(v) <= end(v) /\ end(v) < pos
    BY <2>1 DEF CoverInv
  <2> QED
    BY <2>1, <2>2, <2>3, <2>5, <2>6, <1>p DEF CoverInv, IntervalsCover, Built
<1>7. CASE ScanInterval \/ EndScan \/ RewriteInstruction \/ Return
  <2>1. /\ step \in {"scan", "rewrite"} /\ step' \in {"scan", "rewrite", "done"}
        /\ UNCHANGED <<lvVars, seq, endpoints>> /\ pos' \in {pos, 1, pos + 1}
    BY <1>7 DEF ScanInterval, EndScan, RewriteInstruction, Return, setupVars, scanVars
  <2> QED
    BY <2>1, <1>2, <1>p DEF Built
<1> QED
  BY <1>3, <1>4, <1>5, <1>6, <1>7 DEF LSNext

-----------------------------------------------------------------------------
(* The scan.                                                               *)

LEMMA LSInitScan == LSInit => ScanInv
BY DEF LSInit, ScanInv, Built

\* One iteration of the scan keeps the allocation apart.
LEMMA ScanKeepsApart ==
  ASSUME ScanInv, CoverInv, step = "scan", NEW v \in pending, Scan(v), UNCHANGED <<step, endpoints>>
  PROVE  ScanInv'
<1> DEFINE kept == {w \in active : end(w) >= start(v)}
           freed == free \cup {allocation[w] : w \in active \ kept}
<1>b. Built /\ Built'
  BY DEF Built
<1>i. /\ active \subseteq DOMAIN allocation
      /\ DOMAIN allocation \cap pending = {}
      /\ DOMAIN allocation \cup pending \subseteq DOMAIN endpoints
      /\ \A w \in active : allocation[w] \notin free
      /\ \A x, w \in active : x # w => allocation[x] # allocation[w]
      /\ \A x \in DOMAIN allocation \ active : \A w \in pending : end(x) < start(w)
      /\ \A x, w \in DOMAIN allocation :
           (x # w /\ allocation[x] = allocation[w]) =>
             end(x) < start(w) \/ end(w) < start(x)
  BY <1>b DEF ScanInv
<1>n. /\ \A w \in DOMAIN endpoints : start(w) \in Nat /\ end(w) \in Nat
      /\ \A w : start(w)' = start(w) /\ end(w)' = end(w)
  BY <1>b DEF CoverInv, start, end
<1>1. pending' = pending \ {v} /\ \A w \in pending : start(v) <= start(w)
  <2>1. \A w \in pending : start(v) < start(w) \/ start(v) = start(w)
    BY DEF Scan, StartsFirst
  <2> QED
    BY <2>1, <1>i, <1>n DEF Scan
<1>2. ASSUME NEW w \in active \ kept, NEW x \in pending PROVE end(w) < start(x)
  <2>1. end(w) < start(v)
    BY <1>2, <1>i, <1>n
  <2> QED
    BY <2>1, <1>1, <1>2, <1>i, <1>n
<1>3. \A w \in DOMAIN allocation \ kept : \A x \in pending : end(w) < start(x)
  BY <1>2, <1>i
<1>4. \A w \in kept : allocation[w] \notin freed
  BY <1>i
<1>5. CASE \E r \in freed : /\ free' = freed \ {r}
                            /\ allocation' = Put(allocation, v, r)
                            /\ active' = kept \cup {v}
  <2>1. PICK r \in freed : /\ free' = freed \ {r}
                           /\ allocation' = Put(allocation, v, r)
                           /\ active' = kept \cup {v}
    BY <1>5
  <2> HIDE DEF kept, freed
  <2>2. v \notin DOMAIN allocation
    BY <1>i
  <2>3. /\ DOMAIN allocation' = DOMAIN allocation \cup {v}
        /\ allocation'[v] = r
        /\ \A w \in DOMAIN allocation : allocation'[w] = allocation[w]
    BY <2>1, <2>2 DEF Put
  <2>4. kept \subseteq active
    BY DEF kept
  <2>5. \A w \in active' : allocation'[w] \notin free'
    BY <2>1, <2>3, <2>4, <1>4, <1>i
  <2>6. \A x, w \in active' : x # w => allocation'[x] # allocation'[w]
    BY <2>1, <2>2, <2>3, <2>4, <1>4, <1>i
  <2>7. \A x \in DOMAIN allocation' \ active' : \A w \in pending' : end(x) < start(w)
    BY <2>1, <2>3, <1>1, <1>3
  <2>8. ASSUME NEW w \in DOMAIN allocation, allocation[w] = r PROVE end(w) < start(v)
    BY <2>8, <1>3, <1>4
  <2>9. \A x, w \in DOMAIN allocation' :
          (x # w /\ allocation'[x] = allocation'[w]) =>
            end(x) < start(w) \/ end(w) < start(x)
    BY <2>3, <2>8, <1>i
  <2> QED
    BY <2>1, <2>3, <2>4, <2>5, <2>6, <2>7, <2>9, <1>1, <1>b, <1>i, <1>n DEF ScanInv
<1>6. CASE free' = freed /\ active' = kept /\ UNCHANGED allocation
  <2> HIDE DEF kept, freed
  <2>1. kept \subseteq active
    BY DEF kept
  <2> QED
    BY <2>1, <1>1, <1>3, <1>4, <1>6, <1>b, <1>i, <1>n DEF ScanInv
<1>7. (\E r \in freed : /\ free' = freed \ {r}
                        /\ allocation' = Put(allocation, v, r)
                        /\ active' = kept \cup {v})
      \/ (free' = freed /\ active' = kept /\ UNCHANGED allocation)
  BY DEF Scan
<1> QED
  BY <1>5, <1>6, <1>7

LEMMA LSStepScan ==
  AnalysisFirst /\ OrderInv /\ CoverInv /\ ScanInv /\ [LSNext]_vars => ScanInv'
<1> SUFFICES ASSUME AnalysisFirst, OrderInv, CoverInv, ScanInv, [LSNext]_vars PROVE ScanInv'
  OBVIOUS
<1>1. ASSUME UNCHANGED <<pending, active, free, allocation, endpoints>>,
             Built' <=> Built
      PROVE  ScanInv'
  <2>1. \A v : start(v)' = start(v) /\ end(v)' = end(v)
    BY <1>1 DEF start, end
  <2> QED
    BY <1>1, <2>1 DEF ScanInv
<1>2. CASE Analyse \/ UNCHANGED vars
  <2>1. UNCHANGED <<step, pending, active, free, allocation, endpoints>>
    BY <1>2 DEF Analyse, vars, lsVars
  <2> QED
    BY <2>1, <1>1 DEF Built
<1>3. CASE Reserve \/ VisitRoot \/ VisitSuccessor \/ LeaveBlock \/ EmitBlock \/ ExtendInterval
  <2>1. step \notin {"scan", "rewrite", "done"} /\ step' \notin {"scan", "rewrite", "done"}
        /\ UNCHANGED <<allocation, active>>
    BY <1>3 DEF Reserve, VisitRoot, VisitSuccessor, LeaveBlock, EmitBlock, ExtendInterval,
       scanVars
  <2> QED
    BY <2>1 DEF ScanInv, Built
<1>4. CASE BuildIntervals
  <2>1. step = "endpoints" /\ UNCHANGED <<active, allocation, endpoints>>
    BY <1>4 DEF BuildIntervals
  <2>2. allocation = <<>> /\ active = {}
    BY <2>1 DEF ScanInv, Built
  <2>3. CASE step' = "aborted"
    BY <2>1, <2>2, <2>3 DEF ScanInv, Built
  <2>4. CASE virtRegs \subseteq DOMAIN endpoints /\ pending' = virtRegs /\ step' = "scan"
    BY <2>1, <2>2, <2>4 DEF ScanInv, Built
  <2> QED
    BY <1>4, <2>3, <2>4 DEF BuildIntervals
<1>5. CASE ScanInterval
  BY <1>5, ScanKeepsApart DEF ScanInterval
<1>6. CASE EndScan \/ RewriteInstruction \/ Return
  <2>1. /\ UNCHANGED <<pending, active, free, allocation, endpoints>>
        /\ step \in {"scan", "rewrite"} /\ step' \in {"rewrite", "done"}
    BY <1>6 DEF EndScan, RewriteInstruction, Return, scanVars
  <2> QED
    BY <2>1, <1>1 DEF Built
<1> QED
  BY <1>2, <1>3, <1>4, <1>5, <1>6 DEF LSNext

-----------------------------------------------------------------------------
(* What a register may get, and that none is forgotten.                    *)

\* The allocator's steps are steps of the analysis, or leave it alone.
LEMMA LSStepLiveness == LVInv /\ [LSNext]_vars => LVInv'
<1>1. [LSNext]_vars => [LVNext]_lvVars
  BY DEF LSNext, vars, lvVars, Analyse, Reserve, VisitRoot, VisitSuccessor, LeaveBlock,
     EmitBlock, ExtendInterval, BuildIntervals, ScanInterval, EndScan, RewriteInstruction,
     Return, setupVars
<1> QED
  BY <1>1, LVStepInv

LEMMA LSInitAlloc == LSInit => AllocInv
BY DEF LSInit, AllocInv, Linearized, Built

\* What a scanned register may get does not change while registers are scanned.
LEMMA AllocatableKept ==
  ASSUME UNCHANGED <<lvVars, reserved, seq, endpoints>>
  PROVE  /\ virtRegs' = virtRegs /\ Untouched' = Untouched
         /\ \A v : allocatable(v)' = allocatable(v)
<1>1. virtRegs' = virtRegs
  BY DEF lvVars, virtRegs
<1>2. Untouched' = Untouched
  BY DEF lvVars, Untouched
<1>3. \A v : allocatable(v)' = allocatable(v)
  BY DEF lvVars, allocatable, start, end
<1> QED
  BY <1>1, <1>2, <1>3

LEMMA LSStepAlloc ==
  AnalysisFirst /\ OrderInv /\ CoverInv /\ ScanInv /\ AllocInv /\ [LSNext]_vars => AllocInv'
<1> SUFFICES ASSUME AnalysisFirst, OrderInv, CoverInv, ScanInv, AllocInv, [LSNext]_vars
             PROVE  AllocInv'
  OBVIOUS
<1> USE DEF Linearized, Built
<1>f. F' = F /\ virtRegs' = virtRegs
  BY FunctionKept DEF virtRegs
<1>1. CASE Analyse \/ UNCHANGED vars
  <2>1. UNCHANGED lsVars
    BY <1>1 DEF Analyse, vars
  <2>2. CASE step = "reserve"
    BY <2>1, <2>2, <1>f DEF lsVars, AllocInv, ScanInv
  <2>3. CASE step # "reserve"
    <3>1. UNCHANGED lvVars
      BY <2>3, AnalysisOver
    <3> QED
      BY <2>1, <3>1, <1>f, AllocatableKept DEF lsVars, AllocInv
  <2> QED
    BY <2>2, <2>3
<1>2. CASE Reserve
  <2>1. /\ step = "reserve" /\ step' \in {"failed", "linearize"}
        /\ UNCHANGED <<lvVars, endpoints, pending, active, free, allocation, spilled>>
        /\ reserved' \subseteq Untouched
    BY <1>2 DEF Reserve, scanVars, WorstOf
  <2>2. Untouched' = Untouched /\ Untouched \subseteq PhysRegs
    BY <2>1 DEF lvVars, Untouched
  <2>3. allocation' = <<>> /\ DOMAIN endpoints' = {}
    BY <2>1 DEF ScanInv, AllocInv
  <2> QED
    BY <2>1, <2>2, <2>3 DEF AllocInv
<1>3. CASE VisitRoot \/ VisitSuccessor \/ LeaveBlock \/ EmitBlock
  <2>1. /\ step \in {"linearize", "emit"} /\ step' \in {"linearize", "emit", "endpoints"}
        /\ UNCHANGED <<lvVars, reserved, endpoints, pending, active, free, allocation, spilled>>
    BY <1>3 DEF VisitRoot, VisitSuccessor, LeaveBlock, EmitBlock, scanVars
  <2>2. Untouched' = Untouched
    BY <2>1 DEF lvVars, Untouched
  <2>3. allocation' = <<>> /\ DOMAIN endpoints' = {}
    BY <2>1 DEF ScanInv, AllocInv
  <2> QED
    BY <2>1, <2>2, <2>3, <1>f DEF AllocInv
<1>4. CASE ExtendInterval
  <2>1. /\ step = "endpoints" /\ step' = step /\ pos <= Len(seq)
        /\ UNCHANGED <<lvVars, reserved, seq, pending, free, allocation, spilled>>
        /\ endpoints' = [v \in DOMAIN endpoints \cup Occupied(seq[pos]) |->
             IF v \notin DOMAIN endpoints THEN <<pos, pos>>
             ELSE IF v \in Occupied(seq[pos]) THEN <<endpoints[v][1], pos>>
             ELSE endpoints[v]]
    BY <1>4 DEF ExtendInterval, setupVars
  <2>2. Untouched' = Untouched
    BY <2>1 DEF lvVars, Untouched
  <2>3. pos \in DOMAIN seq
    BY <2>1 DEF OrderInv, CoverInv
  <2>4. DOMAIN endpoints' \subseteq virtRegs
    BY <2>1 DEF AllocInv, Occupied
  <2>5. \A v \in DOMAIN endpoints' : endpoints'[v] \in (DOMAIN seq) \X (DOMAIN seq)
    BY <2>1, <2>3 DEF AllocInv
  <2>6. allocation' = <<>>
    BY <2>1 DEF ScanInv
  <2> QED
    <3>1. /\ step' = "endpoints" /\ DOMAIN allocation' = {} /\ seq' = seq /\ reserved' = reserved
          /\ free' = free /\ pending' = pending /\ spilled' = spilled
      BY <2>1, <2>6
    <3>2. /\ reserved \subseteq PhysRegs /\ reserved \subseteq Untouched
          /\ free \subseteq PhysRegs \ reserved /\ pending = {} /\ spilled = {}
      BY <2>1 DEF AllocInv
    <3> QED
      BY <3>1, <3>2, <2>2, <2>4, <2>5, <1>f DEF AllocInv
<1>5. CASE BuildIntervals
  <2>1. /\ step = "endpoints" /\ UNCHANGED <<lvVars, reserved, seq, endpoints, allocation, spilled>>
        /\ \/ /\ virtRegs \subseteq DOMAIN endpoints
              /\ step' = "scan" /\ pending' = virtRegs /\ free' = PhysRegs \ reserved
           \/ step' = "aborted" /\ UNCHANGED <<pending, free>>
    BY <1>5 DEF BuildIntervals, setupVars
  <2>2. allocation' = <<>> /\ spilled' = {} /\ DOMAIN allocation' = {}
    BY <2>1 DEF ScanInv, AllocInv
  <2> QED
    BY <2>1, <2>2, <1>f, AllocatableKept DEF AllocInv
<1>6. CASE ScanInterval
  <2>1. PICK v \in pending : Scan(v)
    BY <1>6 DEF ScanInterval
  <2>2. /\ step = "scan" /\ UNCHANGED <<lvVars, reserved, seq, step, endpoints>>
    BY <1>6 DEF ScanInterval, setupVars
  <2> DEFINE kept == {w \in active : end(w) >= start(v)}
             freed == free \cup {allocation[w] : w \in active \ kept}
  <2>3. /\ active \subseteq DOMAIN allocation
        /\ \A w \in DOMAIN allocation : allocation[w] \in allocatable(w)
        /\ free \subseteq PhysRegs \ reserved
    BY <2>2 DEF ScanInv, AllocInv
  <2>4. \A w : allocatable(w) \subseteq PhysRegs \ reserved
    BY DEF allocatable
  <2>5. freed \subseteq PhysRegs \ reserved
    BY <2>3, <2>4
  <2>6. /\ pending' = pending \ {v}
        /\ \/ \E r \in freed \cap allocatable(v) :
                free' = freed \ {r} /\ allocation' = Put(allocation, v, r) /\ spilled' = spilled
           \/ free' = freed /\ allocation' = allocation /\ spilled' = spilled \cup {v}
    BY <2>1 DEF Scan
  <2> HIDE DEF kept, freed
  <2>7. v \notin DOMAIN allocation /\ v \notin spilled
    BY <2>2 DEF ScanInv, AllocInv
  <2>8. CASE \E r \in freed \cap allocatable(v) :
               free' = freed \ {r} /\ allocation' = Put(allocation, v, r) /\ spilled' = spilled
    <3>1. PICK r \in freed \cap allocatable(v) :
            free' = freed \ {r} /\ allocation' = Put(allocation, v, r) /\ spilled' = spilled
      BY <2>8
    <3>2. /\ DOMAIN allocation' = DOMAIN allocation \cup {v} /\ allocation'[v] = r
          /\ \A w \in DOMAIN allocation : allocation'[w] = allocation[w]
      BY <3>1, <2>7 DEF Put
    <3>3. \A w \in DOMAIN allocation' : allocation'[w] \in allocatable(w)
      BY <3>1, <3>2, <2>3
    <3> QED
      BY <2>2, <2>5, <2>6, <2>7, <3>1, <3>2, <3>3, <1>f, AllocatableKept DEF AllocInv
  <2>9. CASE free' = freed /\ allocation' = allocation /\ spilled' = spilled \cup {v}
    BY <2>2, <2>5, <2>6, <2>7, <2>9, <1>f, AllocatableKept DEF AllocInv
  <2> QED
    BY <2>6, <2>8, <2>9
<1>7. CASE EndScan \/ RewriteInstruction \/ Return
  <2>1. /\ UNCHANGED <<lvVars, reserved, seq, endpoints, pending, free, allocation, spilled>>
        /\ \/ step = "scan" /\ pending = {} /\ step' = "rewrite"
           \/ step = "rewrite" /\ step' \in {"rewrite", "done"}
    BY <1>7 DEF EndScan, RewriteInstruction, Return, setupVars, scanVars
  <2> QED
    BY <2>1, <1>f, AllocatableKept DEF AllocInv
<1> QED
  BY <1>1, <1>2, <1>3, <1>4, <1>5, <1>6, <1>7 DEF LSNext

-----------------------------------------------------------------------------
(* Where intervals and the linear order start.                             *)

LEMMA LSStepStart ==
  AnalysisFirst /\ AllocInv /\ StartInv /\ [LSNext]_vars => StartInv'
<1> SUFFICES ASSUME AnalysisFirst, AllocInv, StartInv, [LSNext]_vars PROVE StartInv'
  OBVIOUS
<1>1. CASE ExtendInterval
  <2>1. /\ UNCHANGED <<lvVars, seq>>
        /\ endpoints' = [v \in DOMAIN endpoints \cup Occupied(seq[pos]) |->
             IF v \notin DOMAIN endpoints THEN <<pos, pos>>
             ELSE IF v \in Occupied(seq[pos]) THEN <<endpoints[v][1], pos>>
             ELSE endpoints[v]]
    BY <1>1 DEF ExtendInterval, setupVars
  <2>2. \A v \in DOMAIN endpoints' :
          start(v)' = IF v \in DOMAIN endpoints THEN start(v) ELSE pos
    BY <2>1 DEF start
  <2>3. \A v \in DOMAIN endpoints' : v \in DOMAIN endpoints \/ v \in Occupied(seq[pos])
    BY <2>1
  <2>4. \A v \in DOMAIN endpoints' :
          v \in Occupied(seq[IF v \in DOMAIN endpoints THEN start(v) ELSE pos])
    BY <2>3 DEF StartInv
  <2> QED
    BY <2>1, <2>2, <2>4, OccupiedKept DEF StartInv
<1>2. CASE ~ExtendInterval
  <2>1. UNCHANGED endpoints
    BY <1>2 DEF LSNext, vars, lsVars, Analyse, Reserve, VisitRoot, VisitSuccessor, LeaveBlock,
       EmitBlock, BuildIntervals, ScanInterval, EndScan, RewriteInstruction, Return, scanVars
  <2>2. CASE step \in {"reserve", "linearize", "emit"}
    <3>1. DOMAIN endpoints = {}
      BY <2>2 DEF AllocInv, Linearized
    <3> QED
      BY <2>1, <3>1 DEF StartInv
  <2>3. CASE step \notin {"reserve", "linearize", "emit"}
    <3>1. UNCHANGED lvVars
      BY <2>3, AnalysisOver
    <3>2. UNCHANGED seq
      BY <1>2, <2>3 DEF LSNext, vars, lsVars, Analyse, Reserve, VisitRoot, VisitSuccessor,
         LeaveBlock, EmitBlock, BuildIntervals, ScanInterval, EndScan, RewriteInstruction,
         Return, setupVars
    <3> QED
      BY <2>1, <3>1, <3>2, OccupiedKept DEF StartInv, start
  <2> QED
    BY <2>2, <2>3
<1> QED
  BY <1>1, <1>2

\* What cannot be left contains every block control can reach.
LEMMA ReachableLeast ==
  ASSUME NEW G, NEW S \in SUBSET BlocksOf(G), Closed(G, S)
  PROVE  Reachable(G) \subseteq S
BY DEF Reachable

LEMMA LSInitEntry == LSInit => StartInv /\ EntryInv
BY DEF LSInit, StartInv, EntryInv, BlockByBlock

LEMMA LSStepEntry ==
  AnalysisFirst /\ OrderInv /\ EntryInv /\ [LSNext]_vars => EntryInv'
<1> SUFFICES ASSUME AnalysisFirst, OrderInv, EntryInv, [LSNext]_vars PROVE EntryInv'
  OBVIOUS
<1> DEFINE E == Entry(F)
<1>0. IsFunction(F) /\ F' = F /\ E' = E
  BY FunctionKept, FuncsAssumption DEF AnalysisFirst
<1>b. /\ \A k \in DOMAIN F.layout : F.layout[k] \in BlocksOf(F)
      /\ \A b \in BlocksOf(F) : successors(F, b) \subseteq BlocksOf(F)
      /\ E \in BlocksOf(F) /\ E = F.layout[1] /\ DOMAIN F.layout = 1 .. Len(F.layout)
      /\ Len(F.layout) \in Nat
  BY <1>0, FunctionFacts DEF IsFunction, Entry
<1>s. /\ stack \in Seq(BlocksOf(F)) /\ order \in Seq(BlocksOf(F)) /\ seq \in Seq(Points(F))
      /\ IsInjective(stack) /\ IsInjective(order) /\ IsInjective(seq)
      /\ Range(stack) \cap Range(order) = {}
      /\ \A n \in DOMAIN seq : seq[n][1] \notin Range(order)
      /\ step \in Steps
  BY DEF OrderInv
<1>e. /\ BlockByBlock(F, seq)
      /\ step = "reserve" => stack = <<>> /\ order = <<>>
      /\ step = "linearize" =>
           /\ \A b \in Range(order) : successors(F, b) \subseteq Visited
           /\ stack # <<>> => stack[1] = E \/ E \in Range(order)
           /\ stack = <<>> /\ order # <<>> => E \in Range(order)
      /\ \A k \in DOMAIN order : order[k] = E => Closed(F, {order[i] : i \in 1 .. k})
      /\ \A n \in DOMAIN seq : seq[n][1] = E =>
           \A m \in 1 .. n : seq[m][1] \in Reachable(F) => seq[m][1] = E
  BY DEF EntryInv
<1> HIDE DEF E
<1>k. ASSUME UNCHANGED <<stack, order, seq>>,
             step' = "linearize" => step = "linearize" \/ (stack = <<>> /\ order = <<>>),
             step' = "reserve" => step = "reserve"
      PROVE  EntryInv'
  <2>1. Visited' = Visited
    BY <1>k DEF Visited
  <2>2. stack = <<>> /\ order = <<>> => Range(order) = {}
    BY DEF Range
  <2> QED
    BY <1>0, <1>e, <1>k, <2>1, <2>2 DEF EntryInv, E
<1>q. ASSUME UNCHANGED seq, step' # "reserve",
             step' = "linearize" =>
               /\ \A b \in Range(order') : successors(F, b) \subseteq Visited'
               /\ stack' # <<>> => stack'[1] = E \/ E \in Range(order')
               /\ stack' = <<>> /\ order' # <<>> => E \in Range(order'),
             \A k \in DOMAIN order' : order'[k] = E => Closed(F, {order'[i] : i \in 1 .. k})
      PROVE  EntryInv'
  BY <1>0, <1>e, <1>q DEF EntryInv, E
<1>1. CASE ~(VisitRoot \/ VisitSuccessor \/ LeaveBlock \/ EmitBlock)
  <2>1. UNCHANGED <<stack, order, seq>>
    BY <1>1 DEF LSNext, vars, lsVars, Analyse, Reserve, ExtendInterval, BuildIntervals,
       ScanInterval, EndScan, RewriteInstruction, Return, setupVars
  <2>2. step' = "linearize" => step \in {"linearize", "reserve"}
    BY <1>1 DEF LSNext, vars, lsVars, Analyse, Reserve, ExtendInterval, BuildIntervals,
       ScanInterval, EndScan, RewriteInstruction, Return, setupVars
  <2>3. step = "reserve" => stack = <<>> /\ order = <<>>
    BY <1>e
  <2>4. step' = "reserve" => step = "reserve"
    BY <1>1 DEF LSNext, vars, lsVars, Analyse, Reserve, ExtendInterval, BuildIntervals,
       ScanInterval, EndScan, RewriteInstruction, Return, setupVars
  <2> QED
    BY <2>1, <2>2, <2>3, <2>4, <1>k
<1>2. CASE VisitRoot
  <2>1. PICK k \in DOMAIN F.layout :
          /\ F.layout[k] \notin Visited
          /\ \A j \in 1 .. (k - 1) : F.layout[j] \in Visited
          /\ stack' = <<F.layout[k]>>
    BY <1>2 DEF VisitRoot
  <2>2. step = "linearize" /\ step' = step /\ UNCHANGED <<order, seq>> /\ stack = <<>>
    BY <1>2 DEF VisitRoot
  <2>3. Visited \subseteq Visited' /\ Visited = Range(order)
    BY <2>2 DEF Visited, Range
  <2>4. k \in Nat /\ k >= 1 /\ (k # 1 => 1 \in 1 .. (k - 1))
    BY <1>b
  <2>5. k # 1 => E \in Range(order)
    BY <2>1, <2>3, <2>4, <1>b
  <2>6. stack'[1] = E \/ E \in Range(order')
    BY <2>1, <2>2, <2>5, <1>b
  <2> QED
    BY <2>1, <2>2, <2>3, <2>6, <1>e, <1>q
<1>3. CASE VisitSuccessor
  <2>1. PICK s \in successors(F, stack[Len(stack)]) \ Visited : stack' = Append(stack, s)
    BY <1>3 DEF VisitSuccessor
  <2>2. step = "linearize" /\ step' = step /\ UNCHANGED <<order, seq>> /\ stack # <<>>
    BY <1>3 DEF VisitSuccessor
  <2>3. s \in BlocksOf(F) /\ s \notin Range(stack)
    BY <2>1, <2>2, <1>s, <1>b DEF Visited
  <2>4. Range(stack') = Range(stack) \cup {s}
    BY <2>1, <2>3, <1>s, AppendDistinct
  <2>5. Visited \subseteq Visited'
    BY <2>2, <2>4 DEF Visited
  <2>6. stack'[1] = stack[1] /\ stack' # <<>>
    BY <2>1, <2>2, <2>3, <1>s
  <2> QED
    BY <2>2, <2>5, <2>6, <1>e, <1>q
<1>4. CASE LeaveBlock
  <2> DEFINE b == stack[Len(stack)]
             l == Len(order)
  <2>1. /\ step = "linearize" /\ step' = step /\ stack # <<>> /\ UNCHANGED seq
        /\ successors(F, b) \subseteq Visited
        /\ order' = Append(order, b) /\ stack' = SubSeq(stack, 1, Len(stack) - 1)
    BY <1>4 DEF LeaveBlock
  <2>2. /\ stack' \in Seq(BlocksOf(F)) /\ b \in BlocksOf(F)
        /\ b \notin Range(stack') /\ Range(stack) = Range(stack') \cup {b}
        /\ Len(stack') = Len(stack) - 1
    BY <2>1, <1>s, FrontDistinct
  <2>3. b \notin Range(order)
    BY <2>2, <1>s
  <2>4. /\ order' \in Seq(BlocksOf(F)) /\ Range(order') = Range(order) \cup {b}
        /\ l \in Nat /\ DOMAIN order' = 1 .. (l + 1) /\ order'[l + 1] = b
        /\ \A i \in 1 .. l : order'[i] = order[i]
    <3>1. Range(order') = Range(order) \cup {b}
      BY <2>1, <2>2, <2>3, <1>s, AppendDistinct
    <3> QED
      BY <3>1, <2>1, <2>2, <1>s
  <2>5. Visited' = Visited
    BY <2>2, <2>4 DEF Visited
  <2>6. stack[1] = E \/ E \in Range(order)
    BY <2>1, <1>e
  <2>7. Len(stack) \in Nat /\ Len(stack) > 0
    BY <2>1, <1>s
  <2>8. stack' # <<>> => stack'[1] = stack[1]
    BY <2>1, <2>2, <2>7, <1>s
  <2>9. stack' = <<>> => b = stack[1]
    <3>1. stack' = <<>> => Len(stack') = 0
      OBVIOUS
    <3>2. stack' = <<>> => Len(stack) = 1
      BY <3>1, <2>2, <2>7
    <3> QED
      BY <3>2
  <2>10. b = E => Range(stack') = {}
    <3> SUFFICES ASSUME b = E PROVE Range(stack') = {}
      OBVIOUS
    <3>1. stack[1] = stack[Len(stack)]
      BY <2>3, <2>6
    <3>2. Len(stack) = 1
      <4>1. 1 \in DOMAIN stack /\ Len(stack) \in DOMAIN stack
        BY <2>7, <1>s
      <4> QED
        BY <4>1, <3>1, <1>s DEF IsInjective
    <3>3. DOMAIN stack' = {}
      BY <2>2, <3>2
    <3> QED
      BY <3>3 DEF Range
  <2> HIDE DEF b, l
  <2>11. ASSUME NEW k \in DOMAIN order', order'[k] = E
         PROVE  Closed(F, {order'[i] : i \in 1 .. k})
    <3>1. CASE k \in 1 .. l
      <4>1. order[k] = E /\ k \in DOMAIN order
        BY <2>4, <2>11, <3>1, <1>s DEF l
      <4>2. \A i \in 1 .. k : order'[i] = order[i]
        BY <2>4, <3>1
      <4>3. {order'[i] : i \in 1 .. k} = {order[i] : i \in 1 .. k}
        BY <4>2
      <4> QED
        BY <4>1, <4>3, <1>e
    <3>2. CASE k = l + 1
      <4>1. b = E
        BY <2>4, <2>11, <3>2
      <4>2. {order'[i] : i \in 1 .. k} = Range(order')
        BY <2>4, <3>2 DEF Range
      <4>3. Visited = Range(order')
        BY <2>5, <2>10, <4>1 DEF Visited
      <4>4. \A c \in Range(order') : successors(F, c) \subseteq Range(order')
        BY <2>1, <2>4, <4>3, <1>e
      <4>5. E \in Range(order')
        BY <2>4, <4>1
      <4> QED
        BY <4>2, <4>4, <4>5 DEF Closed, E
    <3> QED
      BY <2>4, <3>1, <3>2
  <2>12. \A c \in Range(order') : successors(F, c) \subseteq Visited'
    BY <2>1, <2>4, <2>5, <1>e
  <2>13. stack' # <<>> => stack'[1] = E \/ E \in Range(order')
    BY <2>4, <2>6, <2>8
  <2>14. stack' = <<>> => E \in Range(order')
    BY <2>4, <2>6, <2>9
  <2> QED
    BY <2>1, <2>11, <2>12, <2>13, <2>14, <1>q
<1>5. CASE EmitBlock
  <2> DEFINE b == order[Len(order)]
             n == Len(order)
             l == Len(seq)
             c == [i \in InstrsOf(F, b) |-> <<b, i>>]
  <2>1. /\ order # <<>> /\ seq' = seq \o c /\ order' = SubSeq(order, 1, n - 1)
        /\ step' \notin {"reserve", "linearize"}
    BY <1>5 DEF EmitBlock
  <2>2. /\ n \in Nat /\ n > 0 /\ b \in BlocksOf(F) /\ DOMAIN order = 1 .. n
        /\ DOMAIN order' = 1 .. (n - 1) /\ \A i \in 1 .. (n - 1) : order'[i] = order[i]
    BY <2>1, <1>s
  <2>3. Len(F.code[b]) \in Nat
    BY <2>2, <1>0 DEF IsFunction
  <2>4. c \in Seq(Points(F)) /\ DOMAIN c = InstrsOf(F, b)
    BY <2>2, <2>3 DEF InstrsOf, Points
  <2>5. \A i \in DOMAIN c : c[i] = <<b, i>>
    OBVIOUS
  <2>6. BlockByBlock(F, c)
    <3> SUFFICES ASSUME NEW m \in DOMAIN c, NEW j \in InstrsOf(F, c[m][1])
                 PROVE  m - c[m][2] + j \in DOMAIN c /\ c[m - c[m][2] + j] = <<c[m][1], j>>
      BY DEF BlockByBlock
    <3>1. c[m] = <<b, m>> /\ j \in InstrsOf(F, b)
      BY <2>5
    <3>2. m \in Nat /\ j \in Nat
      BY <3>1, <2>3, <2>4 DEF InstrsOf
    <3>3. m - c[m][2] + j = j
      BY <3>1, <3>2
    <3> QED
      BY <3>1, <3>3, <2>4, <2>5
  <2>7. l \in Nat /\ DOMAIN seq = 1 .. l
    BY <1>s
  <2>8. /\ \A i \in 1 .. l : seq'[i] = seq[i]
        /\ \A i \in DOMAIN seq' : i \notin 1 .. l => seq'[i][1] = b
        /\ \A i \in DOMAIN seq' : i \in Nat /\ 1 .. i \subseteq DOMAIN seq'
    <3>1. /\ DOMAIN seq' = 1 .. (l + Len(c)) /\ Len(c) \in Nat
          /\ \A i \in 1 .. (l + Len(c)) : seq'[i] = IF i <= l THEN seq[i] ELSE c[i - l]
      <4>1. Len(c) \in Nat
        BY <2>4
      <4> QED
        BY <4>1, <2>1, <2>4, <1>s
    <3>2. DOMAIN c = 1 .. Len(c)
      BY <2>4
    <3> QED
      BY <3>1, <3>2, <2>5, <2>7
  <2>9. BlockByBlock(F, seq')
    BY <2>1, <2>4, <2>6, <1>0, <1>e, <1>s, ConcatBlocks
  <2>10. b = E => Reachable(F) \cap {seq[m][1] : m \in DOMAIN seq} = {}
    <3> SUFFICES ASSUME b = E PROVE \A m \in DOMAIN seq : seq[m][1] \notin Reachable(F)
      OBVIOUS
    <3>1. n \in DOMAIN order /\ order[n] = E
      BY <2>2
    <3>2. Closed(F, {order[i] : i \in 1 .. n})
      BY <3>1, <1>e
    <3>3. {order[i] : i \in 1 .. n} = Range(order)
      BY <2>2 DEF Range
    <3>4. Range(order) \subseteq BlocksOf(F)
      BY <1>s DEF Range
    <3>5. Reachable(F) \subseteq Range(order)
      BY <3>2, <3>3, <3>4, ReachableLeast
    <3> QED
      BY <3>5, <1>s
  <2> HIDE DEF b, c, n, l
  <2>11. ASSUME NEW k \in DOMAIN seq', seq'[k][1] = E, NEW m \in 1 .. k,
                seq'[m][1] \in Reachable(F)
         PROVE  seq'[m][1] = E
    <3>1. m \in DOMAIN seq' /\ k \in Nat
      BY <2>8
    <3>2. CASE k \in 1 .. l
      <4>1. m \in 1 .. l
        BY <2>7, <3>1, <3>2
      <4>2. seq'[m] = seq[m] /\ seq'[k] = seq[k] /\ k \in DOMAIN seq
        BY <4>1, <2>7, <2>8, <3>2
      <4> QED
        BY <4>2, <2>11, <1>e
    <3>3. CASE k \notin 1 .. l
      <4>1. b = E
        BY <2>8, <2>11, <3>3
      <4>2. m \notin 1 .. l
        BY <4>1, <2>7, <2>8, <2>10, <2>11
      <4> QED
        BY <4>1, <4>2, <3>1, <2>8
    <3> QED
      BY <3>2, <3>3
  <2>12. ASSUME NEW k \in DOMAIN order', order'[k] = E
         PROVE  Closed(F, {order'[i] : i \in 1 .. k})
    <3>1. k \in DOMAIN order /\ \A i \in 1 .. k : order'[i] = order[i]
      BY <2>2
    <3>2. {order'[i] : i \in 1 .. k} = {order[i] : i \in 1 .. k}
      BY <3>1
    <3> QED
      BY <3>1, <3>2, <2>2, <2>12, <1>e
  <2> QED
    BY <1>0, <2>1, <2>9, <2>11, <2>12 DEF EntryInv, E
<1> QED
  BY <1>1, <1>2, <1>3, <1>4, <1>5

-----------------------------------------------------------------------------
(* What the registers of the function itself are kept apart from.          *)

\* A register that is occupied at a point is held there.
LEMMA OccupiedHeld ==
  ASSUME LVInv, phase = "done", NEW p \in Points(F), NEW v \in Occupied(p)
  PROVE  v \in VirtRegs /\ p \in Held(F, v)
BY LiveOutMeansRead DEF Occupied, Held, virtRegs, VirtRegsOf

LEMMA KeptApart ==
  ASSUME LSInv, NEW v \in DOMAIN allocation, NEW p \in Points(F), v \in Occupied(p)
  PROVE  allocation[v] \notin liveOut2[p] \cup def(At(F, p))
<1> DEFINE r == allocation[v]
           s == start(v)
           b == p[1]
           i == p[2]
<1>1. LVInv /\ AnalysisFirst /\ OrderInv /\ CoverInv /\ ScanInv /\ AllocInv /\ StartInv
      /\ EntryInv
  BY DEF LSInv
<1>2. Built
  BY <1>1 DEF ScanInv
<1>3. phase = "done" /\ IsFunction(F) /\ PhysRegsLocal(F) /\ Linearized
  BY <1>1, <1>2, FuncsAssumption, PhysRegsAssumption DEF AnalysisFirst, Built, Linearized
<1>4. Range(seq) = Points(F) /\ IsInjective(seq)
  BY <1>1, <1>3, OrderComplete DEF LinearOrderComplete
<1>5. PICK n \in DOMAIN seq : seq[n] = p
  BY <1>4 DEF Range
<1>6. v \in DOMAIN endpoints /\ s <= n /\ n <= end(v)
  BY <1>1, <1>2, <1>5 DEF CoverInv, IntervalsCover
<1>7. s \in Nat /\ end(v) \in Nat /\ n \in Nat /\ s \in DOMAIN seq
  <2>1. endpoints[v] \in (DOMAIN seq) \X (DOMAIN seq)
    BY <1>1, <1>3, <1>6 DEF AllocInv
  <2>2. \A k \in DOMAIN seq : k \in Nat
    BY <1>1 DEF OrderInv
  <2> QED
    BY <2>1, <2>2 DEF start, end
<1>8. r \in PhysRegs /\ r \notin liveOut2[seq[s]]
      /\ \A k \in s .. end(v) : r \notin def(At(F, seq[k]))
  BY <1>1 DEF AllocInv, allocatable
<1>9. r \notin def(At(F, p))
  BY <1>5, <1>6, <1>7, <1>8
<1>10. b \in BlocksOf(F) /\ i \in InstrsOf(F, b) /\ p = <<b, i>>
       /\ i \in Nat /\ i >= 1 /\ Len(F.code[b]) \in Nat /\ i <= Len(F.code[b])
  BY <1>3, PointFacts, FunctionFacts DEF InstrsOf
<1>11. \A j \in InstrsOf(F, b) : n - i + j \in DOMAIN seq /\ seq[n - i + j] = <<b, j>>
  BY <1>1, <1>5 DEF EntryInv, BlockByBlock
<1> SUFFICES ASSUME r \in liveOut2[p] PROVE FALSE
  BY <1>9
\* Going back from p, r stays live as long as positions are in the interval.
<1> DEFINE T == {k \in Nat : (k < i /\ s <= n - k) => r \in liveOut2[<<b, i - k>>]}
<1>12. Nat \subseteq T
  <2>1. 0 \in T
    BY <1>10
  <2>2. ASSUME NEW k \in Nat, k \in T PROVE k + 1 \in T
    <3> SUFFICES ASSUME k + 1 < i, s <= n - (k + 1)
                 PROVE  r \in liveOut2[<<b, i - (k + 1)>>]
      OBVIOUS
    <3>1. r \in liveOut2[<<b, i - k>>]
      BY <2>2, <1>7, <1>10
    <3>a. i - k \in 1 .. i /\ n - i + (i - k) = n - k
      BY <1>7, <1>10
    <3>2. i - k \in InstrsOf(F, b) /\ n - i + (i - k) = n - k
      BY <3>a, <1>10 DEF InstrsOf
    <3>3. seq[n - k] = <<b, i - k>> /\ n - k \in s .. end(v)
      BY <3>2, <1>6, <1>7, <1>11
    <3>4. r \notin def(At(F, <<b, i - k>>))
      BY <3>3, <1>8
    <3>5. PointSolved(b, i - (k + 1)) /\ PointSolved(b, i - k)
      <4>1. i - (k + 1) \in InstrsOf(F, b)
        BY <1>10 DEF InstrsOf
      <4> QED
        BY <4>1, <3>2, <1>1, <1>3, <1>10 DEF LVInv, InstructionsSolved
    <3>6. i - (k + 1) < Len(F.code[b]) /\ (i - (k + 1)) + 1 = i - k
      BY <1>10
    <3>7. liveOut2[<<b, i - (k + 1)>>] = liveIn2[<<b, i - k>>]
      BY <3>5, <3>6 DEF PointSolved
    <3>8. r \in liveIn2[<<b, i - k>>]
      BY <3>1, <3>4, <3>5 DEF PointSolved, LiveBefore, At
    <3> QED
      BY <3>7, <3>8
  <2> HIDE DEF T
  <2> QED
    BY <2>1, <2>2, NatInd
<1>13. CASE s > n - i
  <2>1. n - s \in Nat /\ n - s < i /\ s <= n - (n - s)
    BY <1>6, <1>7, <1>10, <1>13
  <2>2. n - s \in T
    BY <2>1, <1>12
  <2>3. r \in liveOut2[<<b, i - (n - s)>>]
    BY <2>1, <2>2
  <2>i. i - (n - s) \in 1 .. i /\ n - i + (i - (n - s)) = s
    BY <2>1, <1>6, <1>7, <1>10
  <2>4. i - (n - s) \in InstrsOf(F, b) /\ n - i + (i - (n - s)) = s
    BY <2>i, <1>10 DEF InstrsOf
  <2>5. seq[s] = <<b, i - (n - s)>>
    BY <2>4, <1>11
  <2> QED
    BY <2>3, <2>5, <1>8
<1>14. CASE s <= n - i
  <2>1. i - 1 \in Nat /\ i - 1 < i /\ s <= n - (i - 1) /\ i - (i - 1) = 1
    BY <1>7, <1>10, <1>14
  <2>2. i - 1 \in T
    BY <2>1, <1>12
  <2>3. r \in liveOut2[<<b, 1>>]
    BY <2>1, <2>2
  <2>4. 1 \in InstrsOf(F, b) /\ n - i + 1 \in s .. end(v)
    BY <1>6, <1>7, <1>10, <1>14 DEF InstrsOf
  <2>5. r \notin def(At(F, <<b, 1>>))
    BY <2>4, <1>8, <1>11
  <2>6. PointSolved(b, 1)
    BY <2>4, <1>1, <1>3, <1>10 DEF LVInv, InstructionsSolved
  <2>7. r \in liveIn2[<<b, 1>>]
    BY <2>3, <2>5, <2>6 DEF PointSolved, LiveBefore, At
  <2>8. <<b, 1>> \in ReadWithin(F, r) /\ <<b, 1>> \in Points(F)
    BY <2>4, <2>7, <1>1, <1>3, <1>10, LiveIsRead, PointFacts DEF InstrsOf
  <2>9. v \in VirtRegs /\ p \in Held(F, v)
    BY <1>1, <1>3, OccupiedHeld
  <2>10. b = Entry(F) /\ \A q \in Held(F, v) : q[1] \in Reachable(F)
    <3>1. b \in {q[1] : q \in {o \in ReadWithin(F, r) : o[2] = 1}}
      BY <2>8
    <3>2. b \in {q[1] : q \in Held(F, v)}
      BY <2>9
    <3> QED
      BY <3>1, <3>2, <2>9, <1>3, <1>8 DEF PhysRegsLocal
  <2>11. seq[s] \in Points(F) /\ seq[s] \in Held(F, v)
    <3>1. seq[s] \in Points(F) /\ v \in Occupied(seq[s])
      BY <1>1, <1>4, <1>6, <1>7 DEF StartInv, Range
    <3> QED
      BY <3>1, <1>1, <1>3, OccupiedHeld
  <2>12. seq[s][1] = b
    <3>1. seq[n][1] = Entry(F) /\ s \in 1 .. n /\ seq[s][1] \in Reachable(F)
      <4>1. s >= 1
        BY <1>1, <1>7 DEF OrderInv
      <4> QED
        BY <4>1, <2>10, <2>11, <1>5, <1>6, <1>7
    <3> QED
      BY <3>1, <2>10, <1>1 DEF EntryInv
  <2>13. PICK j \in InstrsOf(F, b) : seq[s] = <<b, j>>
    BY <2>11, <2>12, <1>3, PointFacts DEF InstrsOf
  <2>14. s = n - i + j
    <3>1. n - i + j \in DOMAIN seq /\ seq[n - i + j] = seq[s]
      BY <2>13, <1>11
    <3> QED
      BY <3>1, <1>4, <1>7 DEF IsInjective
  <2>15. j \in Nat /\ j >= 1
    BY <1>10 DEF InstrsOf
  <2> QED
    BY <2>14, <2>15, <1>7, <1>10, <1>14
<1> QED
  BY <1>7, <1>10, <1>13, <1>14

\* Equal registers mean disjoint intervals, the intervals cover the points, and every
\* point is in the linear order.
LEMMA SharedApart == LSInv => NoSharing
<1> SUFFICES ASSUME LSInv, NEW v \in DOMAIN allocation, NEW w \in DOMAIN allocation, v # w,
                    NEW p \in Points(F), {v, w} \subseteq Occupied(p),
                    allocation[v] = allocation[w]
             PROVE  FALSE
  BY DEF NoSharing
<1>1. Built
  BY DEF LSInv, ScanInv
<1>2. LinearOrderComplete /\ Linearized
  BY <1>1, OrderComplete, FuncsAssumption DEF LSInv, AnalysisFirst, Built, Linearized
<1>3. PICK n \in DOMAIN seq : seq[n] = p
  BY <1>2 DEF LinearOrderComplete, Range
<1>4. /\ v \in DOMAIN endpoints /\ start(v) <= n /\ n <= end(v)
      /\ w \in DOMAIN endpoints /\ start(w) <= n /\ n <= end(w)
  BY <1>1, <1>3 DEF LSInv, CoverInv, IntervalsCover
<1>5. start(v) \in Nat /\ end(v) \in Nat /\ start(w) \in Nat /\ end(w) \in Nat
  BY <1>1, <1>4 DEF LSInv, CoverInv
<1>6. end(v) < start(w) \/ end(w) < start(v)
  BY <1>1 DEF LSInv, ScanInv
<1>7. n \in Nat
  BY DEF LSInv, OrderInv
<1> QED
  BY <1>4, <1>5, <1>6, <1>7

LEMMA ReservedApart == LSInv => ReservedUntouched
<1> SUFFICES ASSUME LSInv PROVE ReservedUntouched
  OBVIOUS
<1>1. \A v \in DOMAIN allocation : allocation[v] \notin reserved
  BY DEF LSInv, AllocInv, allocatable
<1>2. ASSUME step # "reserve", NEW p \in Points(F), p[1] \in Reachable(F), NEW r \in reserved
      PROVE  r \notin liveIn2[p] \cup liveOut2[p] \cup def(At(F, p))
  <2> DEFINE S == {c \in BlocksOf(F) : r \notin liveIn[c]}
             b == p[1]
             i == p[2]
  <2>1. LVInv /\ phase = "done" /\ IsFunction(F) /\ r \in Untouched
    BY <1>2, FuncsAssumption DEF LSInv, AnalysisFirst, AllocInv
  <2>2. r \notin liveIn[Entry(F)] /\ \A q \in Points(F) : r \notin def(At(F, q))
    BY <2>1 DEF Untouched
  <2>3. ASSUME NEW c \in BlocksOf(F) PROVE r \notin BlockDef(F, c)
    <3>1. \A j \in InstrsOf(F, c) : <<c, j>> \in Points(F)
      BY DEF Points
    <3> QED
      BY <3>1, <2>2 DEF BlockDef, At
  <2>4. Closed(F, S)
    <3>1. Entry(F) \in S
      BY <2>1, <2>2, FunctionFacts
    <3>2. ASSUME NEW c \in S, NEW d \in successors(F, c) PROVE d \in S
      <4>1. c \in BlocksOf(F) /\ d \in BlocksOf(F) /\ SolvedAt(c)
        BY <2>1 DEF IsFunction, LVInv, BlocksSolved
      <4>2. r \in liveIn[d] => r \in liveOut[c]
        BY <4>1 DEF SolvedAt, FlowOut
      <4>3. r \in liveOut[c] => r \in liveIn[c]
        BY <4>1, <2>3 DEF SolvedAt, FlowIn
      <4> QED
        BY <4>1, <4>2, <4>3
    <3> QED
      BY <3>1, <3>2 DEF Closed
  <2>5. r \notin liveIn[b]
    <3>1. S \in SUBSET BlocksOf(F)
      OBVIOUS
    <3>2. Reachable(F) \subseteq S
      BY <2>4, <3>1, ReachableLeast
    <3> QED
      BY <3>2, <1>2
  <2>6. b \in BlocksOf(F) /\ i \in InstrsOf(F, b) /\ p = <<b, i>>
        /\ i \in Nat /\ i >= 1 /\ Len(F.code[b]) \in Nat /\ Len(F.code[b]) > 0
        /\ i <= Len(F.code[b])
    BY <2>1, PointFacts, FunctionFacts DEF InstrsOf
  <2>7. r \notin liveIn2[p]
    <3> SUFFICES ASSUME r \in liveIn2[p] PROVE FALSE
      OBVIOUS
    <3>1. <<b, i>> \in ReadWithin(F, r)
      BY <2>1, <2>6, LiveIsRead
    <3>2. \A j \in 1 .. (i - 1) : <<b, j>> \in Points(F)
      BY <2>1, <2>6, PointFacts
    <3>3. \A j \in 1 .. (i - 1) : r \notin def(F.code[b][j])
      BY <3>2, <2>2 DEF At
    <3>4. <<b, 1>> \in ReadWithin(F, r)
      BY <3>1, <3>3, <2>1, <2>6, BackToStart
    <3>5. r \in liveIn2[<<b, 1>>]
      BY <3>4, <2>1, ReadMeansLive
    <3>6. 1 \in InstrsOf(F, b)
      BY <2>6 DEF InstrsOf
    <3>7. PointSolved(b, 1)
      BY <3>6, <2>1, <2>6 DEF LVInv, InstructionsSolved
    <3>8. liveIn2[<<b, 1>>] = liveIn[b]
      BY <3>7 DEF PointSolved
    <3> QED
      BY <3>5, <3>8, <2>5
  <2>8. r \notin liveOut2[p]
    <3>1. liveIn2[p] = LiveBefore(At(F, p), liveOut2[p])
      BY <2>1, LiveAlongPaths
    <3> QED
      BY <3>1, <2>2, <2>7 DEF LiveBefore
  <2> QED
    BY <2>2, <2>7, <2>8
<1> QED
  BY <1>1, <1>2 DEF ReservedUntouched

-----------------------------------------------------------------------------
(* The rewritten code.                                                     *)

\* What the point p may become, once every register has been scanned.
Pieces ==
  [p \in Points(F) |->
     {Expanded(F, p, allocation, spilled, m) :
        m \in SpillMaps(Rename(At(F, p), allocation, allocation))}]

OutInv ==
  /\ step \in {"rewrite", "done"} => Rewritten(F, out, pos, Pieces)
  /\ step = "done" => pos > Len(LayoutPoints(F))
  /\ step \notin {"rewrite", "done"} => out = [b \in BlocksOf(F) |-> <<>>]

\* The reserved registers the spilled operands of an instruction get differ where
\* they have to.
LEMMA SpillMapFacts ==
  ASSUME NEW I, NEW m \in SpillMaps(I)
  PROVE  /\ DOMAIN m = SrcsIn(I, spilled) \cup DstsIn(I, spilled)
         /\ \A v \in DOMAIN m : m[v] \in reserved
         /\ \A v, w \in SrcsIn(I, spilled) : m[v] = m[w] => v = w
<1> DEFINE S == SrcsIn(I, spilled)
           D == DstsIn(I, spilled)
           A == BestOf(Cardinality(S \cap D), reserved)
           B == BestOf(Cardinality(S \ D), reserved \ A)
           C == BestOf(Cardinality(D \ S), reserved \ A)
<1>1. m \in Borrowed(S, D, A, B, C)
  BY DEF SpillMaps
<1>2. A \subseteq reserved /\ B \subseteq reserved \ A /\ C \subseteq reserved \ A
  BY DEF BestOf
<1> HIDE DEF A, B, C, S, D
<1>3. \A r \in A : r \notin B /\ r \notin C
  BY <1>2
<1>4. /\ \A v : v \in DOMAIN m <=> v \in S \/ v \in D
      /\ \A v \in S \cap D : m[v] \in A
      /\ \A v \in S \ D : m[v] \in B
      /\ \A v \in D \ S : m[v] \in C
      /\ \A v, w \in S : m[v] = m[w] => v = w
  BY <1>1, <1>3, BorrowedFacts
<1> QED
  BY <1>2, <1>4 DEF S, D

\* What the invariant says of the allocation the rewriting uses.
LEMMA AllocationFacts ==
  ASSUME LSInv
  PROVE  /\ DOMAIN allocation \subseteq virtRegs /\ spilled \subseteq virtRegs
         /\ DOMAIN allocation \cap spilled = {}
         /\ \A v \in DOMAIN allocation : allocation[v] \in PhysRegs \ reserved
         /\ reserved \subseteq PhysRegs
<1>1. DOMAIN allocation \subseteq virtRegs
  BY DEF LSInv, AllocInv, ScanInv
<1> QED
  BY <1>1 DEF LSInv, AllocInv, ScanInv, allocatable

LEMMA PiecesFacts ==
  ASSUME LSInv, NEW p \in Points(F), NEW m \in SpillMaps(Rename(At(F, p), allocation, allocation))
  PROVE  /\ Expanded(F, p, allocation, spilled, m) \in Seq(Instr)
         /\ \A v \in DOMAIN m : m[v] \in PhysRegs
<1> DEFINE I == Rename(At(F, p), allocation, allocation)
<1>1. /\ \A v \in DOMAIN allocation : allocation[v] \in Regs
      /\ spilled \in SUBSET VirtRegs /\ reserved \subseteq PhysRegs
  BY AllocationFacts DEF Regs, virtRegs, VirtRegsOf
<1>2. At(F, p) \in Instr
  BY InstrAt, FuncsAssumption DEF LSInv, AnalysisFirst
<1>3. I \in Instr
  BY <1>1, <1>2, RenameFacts
<1>4. /\ DOMAIN m = SrcsIn(I, spilled) \cup DstsIn(I, spilled)
      /\ \A v \in DOMAIN m : m[v] \in PhysRegs
  BY <1>1, SpillMapFacts
<1> HIDE DEF I
<1>5. Spilled(I, m, m, spilled) \in Seq(Instr)
  BY <1>1, <1>3, <1>4, SpilledFacts DEF Regs
<1> QED
  BY <1>4, <1>5 DEF Expanded, I

LEMMA LSInitOut == LSInit => OutInv
BY DEF LSInit, OutInv

LEMMA LSStepOut == LSInv /\ OutInv /\ [LSNext]_vars => OutInv'
<1> SUFFICES ASSUME LSInv, OutInv, [LSNext]_vars PROVE OutInv'
  OBVIOUS
<1>0. IsFunction(F) /\ F' = F /\ AnalysisFirst
  BY FunctionKept, FuncsAssumption DEF AnalysisFirst, LSInv
<1>p. UNCHANGED <<F, reserved, allocation, spilled>> => Pieces' = Pieces
  BY DEF Pieces, SpillMaps
<1>1. CASE EndScan
  <2>1. step = "scan" /\ step' = "rewrite" /\ pos' = 1 /\ out' = out
    BY <1>1 DEF EndScan
  <2>2. out = [b \in BlocksOf(F) |-> <<>>]
    BY <2>1 DEF OutInv
  <2>3. Rewritten(F, out, 1, Pieces')
    BY <2>2, <1>0, RewriteInit
  <2> QED
    BY <2>1, <2>3, <1>0 DEF OutInv
<1>2. CASE RewriteInstruction
  <2> DEFINE p == LayoutPoints(F)[pos]
  <2>1. /\ step = "rewrite" /\ step' = step /\ pos' = pos + 1 /\ pos <= Len(LayoutPoints(F))
        /\ UNCHANGED <<F, reserved, allocation, spilled>>
    BY <1>2 DEF RewriteInstruction, setupVars, lvVars
  <2>2. PICK m \in SpillMaps(Rename(At(F, p), allocation, allocation)) :
          out' = [out EXCEPT ![p[1]] = @ \o Expanded(F, p, allocation, spilled, m)]
    BY <1>2 DEF RewriteInstruction, Expanded
  <2> DEFINE c == Expanded(F, p, allocation, spilled, m)
  <2>3. pos \in 1 .. Len(LayoutPoints(F)) /\ p \in Points(F)
    <3>1. LayoutPoints(F) \in Seq(Points(F)) /\ pos \in Nat \ {0}
      BY <1>0, LayoutFacts DEF LSInv, CoverInv
    <3> QED
      BY <2>1, <3>1
  <2>4. c \in Seq(Instr)
    BY <2>2, <2>3, PiecesFacts
  <2>5. c \in Pieces[p]
    BY <2>2, <2>3 DEF Pieces
  <2>6. Rewritten(F, out, pos, Pieces)
    BY <2>1 DEF OutInv
  <2> HIDE DEF c
  <2>7. Rewritten(F, [out EXCEPT ![p[1]] = @ \o c], pos + 1, Pieces)
    BY <2>3, <2>4, <2>5, <2>6, <1>0, RewriteStep
  <2> QED
    BY <2>1, <2>2, <2>7, <1>p DEF OutInv, c
<1>3. CASE ~(EndScan \/ RewriteInstruction)
  <2>1. out' = out
    BY <1>3 DEF LSNext, vars, lsVars, Analyse, Reserve, VisitRoot, VisitSuccessor, LeaveBlock,
       EmitBlock, ExtendInterval, BuildIntervals, ScanInterval, Return, scanVars
  <2>2. CASE step \notin {"rewrite", "done"}
    <3>1. step' \notin {"rewrite", "done"}
      BY <1>3, <2>2 DEF LSNext, vars, lsVars, Analyse, Reserve, VisitRoot, VisitSuccessor,
         LeaveBlock, EmitBlock, ExtendInterval, BuildIntervals, ScanInterval, Return
    <3> QED
      BY <2>1, <2>2, <3>1, <1>0 DEF OutInv
  <2>3. CASE step \in {"rewrite", "done"}
    <3>1. UNCHANGED lvVars
      BY <2>3, <1>0, AnalysisOver
    <3>2. /\ UNCHANGED <<pos, reserved, allocation, spilled>>
          /\ step' \in {"rewrite", "done"}
          /\ step' = "done" => step = "done" \/ pos > Len(LayoutPoints(F))
      BY <1>3, <2>3 DEF LSNext, vars, lsVars, Analyse, Reserve, VisitRoot, VisitSuccessor,
         LeaveBlock, EmitBlock, ExtendInterval, BuildIntervals, ScanInterval, Return,
         setupVars, scanVars
    <3>3. Pieces' = Pieces
      BY <1>0, <1>p, <3>2
    <3> QED
      BY <2>1, <2>3, <3>2, <3>3, <1>0 DEF OutInv
  <2> QED
    BY <2>2, <2>3
<1> QED
  BY <1>1, <1>2, <1>3

LEMMA LSInitInv == LSInit => LSInv /\ OutInv
<1>1. LSInit => LVInv
  BY LVInitInv DEF LSInit
<1> QED
  BY <1>1, LSInitAnalysis, LSInitOrder, LSInitCover, LSInitScan, LSInitAlloc, LSInitEntry,
     LSInitOut DEF LSInv

LEMMA LSStepInv == LSInv /\ OutInv /\ [LSNext]_vars => LSInv' /\ OutInv'
<1>1. LSInv /\ [LSNext]_vars => LSInv'
  BY LSStepLiveness, LSStepAnalysis, LSStepOrder, LSStepCover, LSStepScan, LSStepAlloc,
     LSStepStart, LSStepEntry DEF LSInv
<1> QED
  BY <1>1, LSStepOut

-----------------------------------------------------------------------------
(* The execution of what the allocator returns.                            *)

LEMMA LSPiecesFit ==
  ASSUME LSInv, step \in {"rewrite", "done"}
  PROVE  Allocation(allocation, spilled) /\ PiecesFit(allocation, spilled, Pieces)
<1>1. /\ IsFunction(F) /\ Built /\ phase = "done"
      /\ NoSharing /\ ReservedUntouched /\ reserved \subseteq PhysRegs
  BY FuncsAssumption, SharedApart, ReservedApart, AllocationFacts DEF LSInv, AnalysisFirst, Built
<1>2. Allocation(allocation, spilled)
  BY <1>1, AllocationFacts DEF LSInv, AllocInv, Allocation, virtRegs, VirtRegsOf
<1>3. ASSUME NEW p \in Points(F), p[1] \in Reachable(F)
      PROVE  KeepsApart(F, p, allocation, liveOut2[p])
  <2>1. \A v \in (liveOut2[p] \cup def(At(F, p))) \cap DOMAIN allocation : v \in Occupied(p)
    BY AllocationFacts DEF Occupied
  <2>2. \A v \in DOMAIN allocation : v \in Occupied(p) =>
          allocation[v] \notin liveOut2[p] \cup def(At(F, p))
    BY KeptApart
  <2>3. \A v, w \in DOMAIN allocation :
          v \in Occupied(p) /\ w \in Occupied(p) /\ allocation[v] = allocation[w] => v = w
    BY <1>1 DEF NoSharing
  <2> QED
    BY <2>1, <2>2, <2>3 DEF KeepsApart
<1>4. ASSUME NEW p \in Points(F), p[1] \in Reachable(F), NEW c \in Pieces[p]
      PROVE  \E m : /\ c = Expanded(F, p, allocation, spilled, m)
                    /\ FitsAt(F, p, allocation, spilled, m, liveIn2[p], liveOut2[p])
  <2> DEFINE I == At(F, p)
             J == Rename(I, allocation, allocation)
             S == SrcsIn(I, spilled)
             D == DstsIn(I, spilled)
  <2>1. PICK m \in SpillMaps(J) : c = Expanded(F, p, allocation, spilled, m)
    BY <1>4 DEF Pieces
  <2>2. /\ DOMAIN m = SrcsIn(J, spilled) \cup DstsIn(J, spilled)
        /\ \A v \in DOMAIN m : m[v] \in reserved
        /\ \A v, w \in SrcsIn(J, spilled) : m[v] = m[w] => v = w
    BY <2>1, SpillMapFacts
  <2>3. SrcsIn(J, spilled) = S /\ DstsIn(J, spilled) = D
    <3>1. I \in Instr
      BY <1>1, InstrAt
    <3>2. I.srcs \in Seq(Regs) /\ I.dsts \in Seq(Regs)
      BY <3>1 DEF Instr
    <3>3. /\ DOMAIN allocation \cap spilled = {} /\ spilled \in SUBSET VirtRegs
          /\ \A v \in DOMAIN allocation : allocation[v] \in PhysRegs
          /\ \A v \in DOMAIN allocation : allocation[v] \in Regs
      BY <1>2 DEF Allocation, Regs
    <3>4. J.srcs = RenameSeq(I.srcs, allocation) /\ J.dsts = RenameSeq(I.dsts, allocation)
      BY <3>1, <3>3, RenameFacts
    <3> QED
      BY <3>2, <3>3, <3>4, RenamedRange DEF SrcsIn, DstsIn
  <2>4. /\ \A r \in reserved : r \notin liveIn2[p] /\ r \notin liveOut2[p]
        /\ \A v \in DOMAIN allocation : allocation[v] \notin reserved
    BY <1>1, <1>4 DEF ReservedUntouched, Built
  <2>5. FitsAt(F, p, allocation, spilled, m, liveIn2[p], liveOut2[p])
    <3> HIDE DEF S, D, J, I
    <3>1. DOMAIN m = S \cup D /\ \A v \in DOMAIN m : m[v] \in reserved
      BY <2>2, <2>3
    <3>2. \A v, w \in S : m[v] = m[w] => v = w
      BY <2>2, <2>3
    <3>3. \A v \in S : m[v] \notin liveIn2[p]
                       /\ \A w \in liveIn2[p] \cap DOMAIN allocation : allocation[w] # m[v]
      BY <3>1, <2>4
    <3>4. \A v \in D : m[v] \notin liveOut2[p]
                       /\ \A w \in liveOut2[p] \cap DOMAIN allocation : allocation[w] # m[v]
      BY <3>1, <2>4
    <3> QED
      BY <3>1, <3>2, <3>3, <3>4, <1>1 DEF FitsAt, S, D, I
  <2> QED
    BY <2>1, <2>5
<1> QED
  BY <1>2, <1>3, <1>4 DEF PiecesFit

\* Before the allocator returns nothing runs; then the two functions are side by side.
LXInv ==
  /\ step # "done" => ExecInit
  /\ step = "done" => \E o, al, W : /\ o = out /\ al = allocation /\ W = spilled
                                    /\ InLockstep(o, al, W)

LEMMA LXInitInv == LXInit => LSInv /\ OutInv /\ LXInv
BY LSInitInv DEF LXInit, LRInit, LXInv, LSInit

LEMMA LXSteps == [LXNext]_<<vars, clashes, execVars>> => [LSNext]_vars
BY DEF LXNext, Allocate, LRNext, Run

LEMMA LXStepInv ==
  LSInv /\ OutInv /\ LXInv /\ [LXNext]_<<vars, clashes, execVars>> => LXInv'
<1> SUFFICES ASSUME LSInv, OutInv, LXInv, [LXNext]_<<vars, clashes, execVars>>
             PROVE  LXInv'
  OBVIOUS
<1>1. [LSNext]_vars /\ F' = F
  BY LXSteps, FunctionKept
<1>2. /\ IsFunction(F) /\ IsCode(F) /\ LVInv /\ (step # "reserve" => phase = "done")
  BY FuncsAssumption, CodeAssumption DEF LSInv, AnalysisFirst
<1>3. CASE step = "done"
  <2>1. UNCHANGED <<lvVars, step, out, allocation, spilled>>
    <3>1. UNCHANGED lvVars
      BY <1>1, <1>3, AnalysisOver DEF LSInv
    <3>2. UNCHANGED <<step, out, allocation, spilled>>
      BY <1>1, <1>3 DEF LSNext, vars, lsVars, Analyse, Reserve, VisitRoot, VisitSuccessor,
         LeaveBlock, EmitBlock, ExtendInterval, BuildIntervals, ScanInterval, EndScan,
         RewriteInstruction, Return
    <3> QED
      BY <3>1, <3>2
  <2>2. PICK o, al, W : /\ o = out /\ al = allocation /\ W = spilled
                        /\ InLockstep(o, al, W)
    BY <1>3 DEF LXInv
  <2>3. InLockstep(o, al, W)'
    <3>1. CASE Run
      <4>1. ExecNext(o)
        BY <3>1, <2>2 DEF Run
      <4> QED
        BY <4>1, <2>1, <2>2, <1>2, <1>3, InLockstepStep
    <3>2. CASE UNCHANGED execVars
      BY <3>2, <2>1, <2>2, InLockstepKept
    <3> QED
      BY <3>1, <3>2 DEF LXNext, Allocate, execVars
  <2> QED
    BY <1>3, <2>1, <2>2, <2>3 DEF LXInv
<1>4. CASE step # "done"
  <2>1. ExecInit /\ UNCHANGED execVars
    BY <1>4 DEF LXInv, LXNext, Allocate, Run
  <2>2. ExecInit'
    BY <2>1, <1>1 DEF ExecInit, execVars
  <2>3. CASE step' = "done"
    <3>1. step = "rewrite" /\ pos > Len(LayoutPoints(F))
          /\ UNCHANGED <<lvVars, out, allocation, spilled>>
      BY <1>1, <1>4, <2>3 DEF LSNext, vars, lsVars, Analyse, Reserve, VisitRoot, VisitSuccessor,
         LeaveBlock, EmitBlock, ExtendInterval, BuildIntervals, ScanInterval, EndScan,
         RewriteInstruction, Return, setupVars, scanVars
    <3>2. phase = "done" /\ AllPlaced(out, Pieces)
      <4>1. Rewritten(F, out, pos, Pieces) /\ pos \in Nat
        BY <3>1 DEF OutInv, LSInv, CoverInv
      <4>2. \A b \in BlocksOf(F) : \E at : Placed(out[b], b, Len(F.code[b]), at, Pieces)
        BY <4>1, <3>1, <1>2, RewriteDone
      <4> QED
        BY <4>2, <3>1, <1>2 DEF AllPlaced
    <3>3. Allocation(allocation, spilled) /\ PiecesFit(allocation, spilled, Pieces)
      BY <3>1, LSPiecesFit
    <3>4. \E AT : Assembled(out, allocation, spilled, AT)
      BY <3>2, <3>3, <1>2, PutTogether
    <3>5. PICK o, al, W : o = out /\ al = allocation /\ W = spilled
      OBVIOUS
    <3>6. PICK AT : Assembled(o, al, W, AT)
      BY <3>4, <3>5
    <3>7. InLockstep(o, al, W)
      BY <1>2, <2>1, <3>2, <3>6, InLockstepStart
    <3>8. InLockstep(o, al, W)'
      BY <2>1, <3>1, <3>7, InLockstepKept
    <3> QED
      BY <2>3, <3>1, <3>5, <3>8 DEF LXInv
  <2> QED
    BY <2>2, <2>3 DEF LXInv
<1> QED
  BY <1>3, <1>4

-----------------------------------------------------------------------------
(* The theorems.                                                           *)

(* The inductive invariant of LinearScanAllocator::allocate. Part of it is *)
(* that the rewriting loop turns every block into the code of its          *)
(* instructions, one after the other.                                      *)
THEOREM LSCorrect == LSSpec => [](LSInv /\ OutInv)
BY LSInitInv, LSStepInv, PTL DEF LSSpec

(* Linearize lists every instruction of every function exactly once.       *)
THEOREM LSOrderComplete == LSSpec => []LinearOrderComplete
<1>1. LSInv => LinearOrderComplete
  BY OrderComplete, FuncsAssumption DEF LSInv, AnalysisFirst
<1> QED
  BY <1>1, LSCorrect, PTL

(* An interval spans every position at which its register holds a value.   *)
THEOREM LSIntervalsCover == LSSpec => []IntervalsCover
<1>1. LSInv => IntervalsCover
  BY DEF LSInv, CoverInv
<1> QED
  BY <1>1, LSCorrect, PTL

(* Registers that hold values at the same point never share a physical     *)
(* register.                                                               *)
THEOREM LSNoSharing == LSSpec => []NoSharing
<1>1. LSInv => NoSharing
  BY SharedApart
<1> QED
  BY <1>1, LSCorrect, PTL

(* Every register allocate() looks up has an interval, so HashMap's        *)
(* assertion never fails, when each virtual register is written somewhere  *)
(* or read by an instruction that another comes before: the intervals are  *)
(* made of what is written and what is live after an instruction. Nothing  *)
(* writes the register RISCVMIRGen::getRegister makes for poison, but      *)
(* something comes before the instruction that reads it: the entry block   *)
(* begins with the prologue, which reads no virtual register, and          *)
(* UnreachableBlockElimination, with which the passes before allocation    *)
(* end, leaves no other block without a predecessor.                       *)
THEOREM LSNeverAborts ==
  ASSUME \A G \in Funcs : \A v \in VirtRegsOf(G) : \E p \in Points(G) :
           \/ v \in def(At(G, p))
           \/ v \in use(At(G, p)) /\ \E q \in Points(G) : p \in NextPoints(G, q)
  PROVE  LSSpec => []NeverAborts
<1>1. LSInit => NeverAborts
  BY DEF LSInit, NeverAborts
<1>2. LSInv /\ NeverAborts /\ [LSNext]_vars => NeverAborts'
  <2> SUFFICES ASSUME LSInv, NeverAborts, [LSNext]_vars, step' = "aborted" PROVE FALSE
    BY DEF NeverAborts
  <2>1. BuildIntervals /\ ~(virtRegs \subseteq DOMAIN endpoints)
    BY DEF NeverAborts, LSNext, vars, lsVars, Analyse, Reserve, VisitRoot, VisitSuccessor,
       LeaveBlock, EmitBlock, ExtendInterval, BuildIntervals, ScanInterval, EndScan,
       RewriteInstruction, Return
  <2>2. step = "endpoints" /\ pos > Len(seq)
    BY <2>1 DEF BuildIntervals
  <2>3. PICK v \in VirtRegsOf(F) : v \notin DOMAIN endpoints
    BY <2>1 DEF virtRegs
  <2>4. PICK p \in Points(F) : v \in Occupied(p)
    <3>1. PICK p \in Points(F) :
            \/ v \in def(At(F, p))
            \/ v \in use(At(F, p)) /\ \E q \in Points(F) : p \in NextPoints(F, q)
      BY DEF LSInv, AnalysisFirst
    <3>2. CASE v \in def(At(F, p))
      BY <3>2 DEF Occupied, virtRegs
    \* A register that is read is live after the instruction before.
    <3>3. CASE v \in use(At(F, p)) /\ \E q \in Points(F) : p \in NextPoints(F, q)
      <4>1. PICK q \in Points(F) : p \in NextPoints(F, q)
        BY <3>3
      <4>2. LVInv /\ phase = "done"
        BY <2>2 DEF LSInv, AnalysisFirst
      <4>3. v \in liveIn2[p]
        BY <3>3, <4>2, LiveAlongPaths DEF LiveBefore
      <4>4. v \in liveOut2[q]
        BY <4>1, <4>2, <4>3, LiveAlongPaths
      <4> QED
        BY <4>4 DEF Occupied, virtRegs
    <3> QED
      BY <3>1, <3>2, <3>3
  <2>5. LinearOrderComplete
    BY OrderComplete, FuncsAssumption DEF LSInv, AnalysisFirst
  <2>6. PICK n \in DOMAIN seq : seq[n] = p
    BY <2>2, <2>5 DEF LinearOrderComplete, Linearized, Range
  <2>7. v \in Occupied(seq[n])
    BY <2>4, <2>6
  <2>8. n < pos
    BY <2>2 DEF LSInv, OrderInv, CoverInv
  <2> QED
    BY <2>2, <2>3, <2>7, <2>8 DEF LSInv, CoverInv
<1> QED
  BY <1>1, <1>2, LSCorrect, PTL DEF LSSpec

(* The linear scan never gives a virtual register a physical register the  *)
(* function uses while the virtual one holds a value.                      *)
THEOREM LSPhysRegsKept == LSSpec => []PhysRegsKept
<1>1. LSInv => PhysRegsKept
  BY KeptApart DEF PhysRegsKept
<1> QED
  BY <1>1, LSCorrect, PTL

(* Where control can reach, nothing of the function is in a register the   *)
(* spilled registers are loaded into.                                      *)
THEOREM LSReservedUntouched == LSSpec => []ReservedUntouched
<1>1. LSInv => ReservedUntouched
  BY ReservedApart
<1> QED
  BY <1>1, LSCorrect, PTL

(* The type invariant.                                                     *)
THEOREM LSTypeCorrect == LSSpec => []LSTypeOK
<1>1. LSInv /\ OutInv => LSTypeOK
  <2> SUFFICES ASSUME LSInv, OutInv PROVE LSTypeOK
    OBVIOUS
  <2>0. LVTypeOK /\ IsFunction(F)
    BY DEF LSInv, LVInv, LVTypeOK
  <2>1. /\ step \in Steps
        /\ stack \in Seq(BlocksOf(F)) /\ order \in Seq(BlocksOf(F)) /\ seq \in Seq(Points(F))
        /\ pos \in Nat \ {0}
    BY DEF LSInv, OrderInv, CoverInv
  <2>2. /\ DOMAIN allocation \subseteq VirtRegs /\ spilled \subseteq VirtRegs
        /\ \A v \in DOMAIN allocation : allocation[v] \in PhysRegs
        /\ reserved \subseteq PhysRegs
    BY AllocationFacts DEF virtRegs, VirtRegsOf
  <2>3. /\ DOMAIN endpoints \subseteq virtRegs /\ virtRegs \subseteq VirtRegs
        /\ \A v \in DOMAIN endpoints : endpoints[v] \in (DOMAIN seq) \X (DOMAIN seq)
        /\ free \subseteq PhysRegs
    BY DEF LSInv, AllocInv, virtRegs, VirtRegsOf
  <2>4. pending \subseteq VirtRegs
    <3>1. Built => pending \subseteq virtRegs
      BY DEF LSInv, AllocInv
    <3>2. ~Built => pending = {}
      BY DEF LSInv, AllocInv
    <3> QED
      BY <2>3, <3>1, <3>2
  <2>5. active \subseteq VirtRegs
    <3>1. Built => active \subseteq DOMAIN allocation
      BY DEF LSInv, ScanInv
    <3>2. ~Built => active = {}
      BY DEF LSInv, ScanInv
    <3> QED
      BY <2>2, <3>1, <3>2
  <2>6. DOMAIN out = BlocksOf(F) /\ \A b \in BlocksOf(F) : out[b] \in Seq(Instr)
    <3>1. CASE step \in {"rewrite", "done"}
      BY <3>1 DEF OutInv, Rewritten
    <3>2. CASE step \notin {"rewrite", "done"}
      <4>1. out = [b \in BlocksOf(F) |-> <<>>] /\ <<>> \in Seq(Instr)
        BY <3>2 DEF OutInv
      <4> QED
        BY <4>1
    <3> QED
      BY <3>1, <3>2
  <2> QED
    BY <2>0, <2>1, <2>2, <2>3, <2>4, <2>5, <2>6 DEF LSTypeOK
<1> QED
  BY <1>1, LSCorrect, PTL

LEMMA LXCorrect == LXSpec => [](LSInv /\ OutInv /\ LXInv)
<1>1. LSInv /\ OutInv /\ LXInv /\ [LXNext]_<<vars, clashes, execVars>>
        => LSInv' /\ OutInv' /\ LXInv'
  BY LXSteps, LSStepInv, LXStepInv
<1> QED
  BY <1>1, LXInitInv, PTL DEF LXSpec

(* The function the linear scan returns computes what the original         *)
(* computes: every instruction reads the same values, on every path,       *)
(* through spilled registers, calls and loops.                             *)
THEOREM LXReadsAgree == LXSpec => []ReadsAgree
<1>1. LSInv /\ LXInv => ReadsAgree
  <2> SUFFICES ASSUME LSInv, LXInv, step = "done" PROVE ReadsAgreeAt(out)
    BY DEF ReadsAgree
  <2>1. PICK o, al, W : o = out /\ InLockstep(o, al, W)
    BY DEF LXInv
  <2>2. IsFunction(F) /\ IsCode(F) /\ LVInv /\ phase = "done"
    BY FuncsAssumption, CodeAssumption DEF LSInv, AnalysisFirst
  <2>3. ReadsAgreeAt(o)
    BY <2>1, <2>2, InLockstepReads
  <2> QED
    BY <2>1, <2>3
<1> QED
  BY <1>1, LXCorrect, PTL

-----------------------------------------------------------------------------
(* The refinement.                                                         *)

\* Registers that clash are both needed after some instruction, or written by it.
LEMMA ClashPoints ==
  ASSUME LVInv, phase = "done", NEW a, NEW b, <<a, b>> \in Clashes
  PROVE  \E q \in Points(F) : /\ a \in liveOut2[q] \cup def(At(F, q))
                              /\ b \in liveOut2[q] \cup def(At(F, q))
<1>1. ASSUME NEW r, NEW s \in WrittenWhileNeeded(r)
      PROVE  \E q \in Points(F) : /\ r \in liveOut2[q] \cup def(At(F, q))
                                  /\ s \in liveOut2[q] \cup def(At(F, q))
  <2>1. PICK q \in {x \in PointsBefore(F, ReadWithin(F, r)) : ~PassesOn(x, r)}
                     \cup {x \in Points(F) : r \in def(At(F, x))} : s \in def(At(F, q))
    BY DEF WrittenWhileNeeded
  <2>2. q \in Points(F)
    BY DEF PointsBefore
  <2>3. r \in liveOut2[q] \cup def(At(F, q))
    BY <2>2, LiveOutMeansRead
  <2> QED
    BY <2>1, <2>2, <2>3
<1>2. \/ b \in WrittenWhileNeeded(a)
      \/ a \in WrittenWhileNeeded(b)
  BY DEF Clashes
<1> QED
  BY <1>1, <1>2

LEMMA ClashRegs == IsFunction(F) => Clashes \in SUBSET (VirtRegs \X Regs)
<1> SUFFICES ASSUME IsFunction(F), NEW c \in Clashes PROVE c \in VirtRegs \X Regs
  BY DEF Clashes
<1>1. \A r : WrittenWhileNeeded(r) \subseteq Regs
  <2> SUFFICES ASSUME NEW r, NEW s \in WrittenWhileNeeded(r) PROVE s \in Regs
    OBVIOUS
  <2>1. PICK q \in {x \in PointsBefore(F, ReadWithin(F, r)) : ~PassesOn(x, r)}
                     \cup {x \in Points(F) : r \in def(At(F, x))} : s \in def(At(F, q))
    BY DEF WrittenWhileNeeded
  <2>2. q \in Points(F)
    BY DEF PointsBefore
  <2> QED
    BY <2>1, <2>2, InstrAt
<1>2. c[1] \in VirtRegs
  BY DEF Clashes
<1>3. c = <<c[1], c[2]>> /\ c[2] \in Regs
  <2> DEFINE pairs == UNION {{r} \X WrittenWhileNeeded(r) : r \in Regs}
  <2>1. \A d \in pairs : d \in Regs \X Regs
    BY <1>1
  <2>2. c \in pairs \cup {<<d[2], d[1]>> : d \in pairs}
    BY DEF Clashes
  <2> QED
    BY <2>1, <2>2
<1> QED
  BY <1>2, <1>3

LEMMA LRInitRefines == LXInit => Assignment!RAInit /\ clashes = Clashes
<1> SUFFICES ASSUME LXInit PROVE Assignment!RAInit /\ clashes = Clashes
  OBVIOUS
<1>1. clashes = Clashes /\ F \in Funcs /\ allocation = <<>> /\ spilled = {}
  BY DEF LXInit, LRInit, LSInit, LVInit, Start
<1>2. Clashes \in SUBSET (VirtRegs \X Regs)
  BY <1>1, ClashRegs, FuncsAssumption
<1>3. home = [v \in VirtRegs |-> "none"]
  BY <1>1 DEF home
<1> QED
  BY <1>1, <1>2, <1>3 DEF Assignment!RAInit, Regs

\* The choice the scan makes for v fits.
LEMMA ScanFits ==
  ASSUME LSInv, NoSharing', PhysRegsKept', clashes = Clashes, UNCHANGED <<F, liveOut2>>,
         phase = "done", NEW v \in virtRegs, NEW r \in PhysRegs, v \notin DOMAIN allocation,
         allocation' = Put(allocation, v, r)
  PROVE  Assignment!Fits(v, r)
<1>1. /\ DOMAIN allocation' = DOMAIN allocation \cup {v} /\ allocation'[v] = r
      /\ \A w \in DOMAIN allocation : allocation'[w] = allocation[w] /\ w # v
  BY DEF Put
<1>2. /\ LVInv /\ F' = F /\ liveOut2' = liveOut2 /\ virtRegs' = virtRegs
      /\ DOMAIN allocation \subseteq virtRegs
  BY AllocationFacts DEF LSInv, virtRegs
<1>3. \A x : \A q : (x \in virtRegs /\ x \in liveOut2[q] \cup def(At(F, q))) => x \in Occupied(q)'
  BY <1>2 DEF Occupied
<1>4. <<v, r>> \notin clashes
  <2> SUFFICES ASSUME <<v, r>> \in Clashes PROVE FALSE
    OBVIOUS
  <2>1. PICK q \in Points(F) : /\ v \in liveOut2[q] \cup def(At(F, q))
                               /\ r \in liveOut2[q] \cup def(At(F, q))
    BY <1>2, ClashPoints
  <2>2. v \in Occupied(q)'
    BY <2>1, <1>3
  <2> QED
    BY <2>1, <2>2, <1>1, <1>2 DEF PhysRegsKept
<1>5. ASSUME NEW w \in VirtRegs, <<v, w>> \in clashes \/ <<w, v>> \in clashes
      PROVE  home[w] # r
  <2> SUFFICES ASSUME home[w] = r PROVE FALSE
    OBVIOUS
  <2>1. w \in DOMAIN allocation /\ allocation[w] = r
    BY HomesAssumption DEF home
  <2>2. PICK q \in Points(F) : /\ v \in liveOut2[q] \cup def(At(F, q))
                               /\ w \in liveOut2[q] \cup def(At(F, q))
    BY <1>2, <1>5, ClashPoints
  <2>3. v \in Occupied(q)' /\ w \in Occupied(q)'
    BY <2>1, <2>2, <1>2, <1>3
  <2>4. v # w /\ v \in DOMAIN allocation' /\ w \in DOMAIN allocation' /\ q \in Points(F)'
        /\ allocation'[v] = allocation'[w]
    BY <2>1, <1>1, <1>2
  <2> QED
    BY <2>3, <2>4 DEF NoSharing
<1> QED
  BY <1>4, <1>5 DEF Assignment!Fits

LEMMA LXStepRefines ==
  LSInv /\ NoSharing' /\ PhysRegsKept' /\ clashes = Clashes /\ [LXNext]_<<vars, clashes, execVars>>
    => [Assignment!RANext]_<<clashes, home>> /\ (clashes = Clashes)'
<1> SUFFICES ASSUME LSInv, NoSharing', PhysRegsKept', clashes = Clashes,
                    [LXNext]_<<vars, clashes, execVars>>
             PROVE  [Assignment!RANext]_<<clashes, home>> /\ (clashes = Clashes)'
  OBVIOUS
<1>1. [LSNext]_vars /\ F' = F /\ clashes' = clashes
  BY LXSteps, FunctionKept DEF LXNext, Allocate, LRNext, Run
<1>2. (clashes = Clashes)'
  <2>1. Clashes' = Clashes
    BY <1>1 DEF Clashes, WrittenWhileNeeded, PassesOn
  <2> QED
    BY <2>1, <1>1
<1>3. CASE ScanInterval
  <2>1. PICK v \in pending : Scan(v)
    BY <1>3 DEF ScanInterval
  <2>2. step = "scan" /\ UNCHANGED <<F, liveOut2>> /\ phase = "done"
    BY <1>3 DEF ScanInterval, setupVars, lvVars, LSInv, AnalysisFirst
  <2>3. /\ v \in virtRegs /\ v \in VirtRegs /\ v \notin DOMAIN allocation /\ v \notin spilled
        /\ DOMAIN allocation \cap spilled = {}
    BY <2>1, <2>2 DEF LSInv, AllocInv, ScanInv, Built, virtRegs, VirtRegsOf
  <2>4. home[v] = "none"
    BY <2>3 DEF home
  <2>5. CASE \E r \in PhysRegs : allocation' = Put(allocation, v, r) /\ UNCHANGED spilled
    <3>1. PICK r \in PhysRegs : allocation' = Put(allocation, v, r) /\ UNCHANGED spilled
      BY <2>5
    <3>2. Assignment!Fits(v, r)
      BY <2>2, <2>3, <3>1, ScanFits
    <3>3. home' = [home EXCEPT ![v] = r]
      BY <2>3, <3>1 DEF home, Put
    <3>4. Assignment!Assign(v)
      BY <1>1, <2>4, <3>2, <3>3 DEF Assignment!Assign
    <3> QED
      BY <1>2, <2>3, <3>4 DEF Assignment!RANext
  <2>6. CASE spilled' = spilled \cup {v} /\ UNCHANGED allocation
    <3>1. home' = [home EXCEPT ![v] = "stack"]
      BY <2>3, <2>6 DEF home
    <3>2. Assignment!Assign(v)
      BY <1>1, <2>4, <3>1 DEF Assignment!Assign
    <3> QED
      BY <1>2, <2>3, <3>2 DEF Assignment!RANext
  <2>7. \/ \E r \in PhysRegs : allocation' = Put(allocation, v, r) /\ UNCHANGED spilled
        \/ spilled' = spilled \cup {v} /\ UNCHANGED allocation
    BY <2>1 DEF Scan, allocatable
  <2> QED
    BY <2>5, <2>6, <2>7
<1>4. CASE ~ScanInterval
  <2>1. UNCHANGED <<allocation, spilled>>
    BY <1>1, <1>4 DEF LSNext, vars, lsVars, Analyse, Reserve, VisitRoot, VisitSuccessor,
       LeaveBlock, EmitBlock, ExtendInterval, BuildIntervals, EndScan, RewriteInstruction,
       Return, scanVars
  <2>2. home' = home
    BY <2>1 DEF home
  <2> QED
    BY <2>2, <1>1, <1>2
<1> QED
  BY <1>3, <1>4

(* What the scan decides is an assignment: every register gets its home    *)
(* once, and no two registers that clash on some path get the same one.    *)
THEOREM LXImplements == LXSpec => ImplementsAssignment
<1>1. LXInit => Assignment!RAInit /\ clashes = Clashes
  BY LRInitRefines
<1>2. LSInv => NoSharing /\ PhysRegsKept
  BY SharedApart, KeptApart DEF PhysRegsKept
<1>3. LSInv /\ NoSharing' /\ PhysRegsKept' /\ clashes = Clashes
        /\ [LXNext]_<<vars, clashes, execVars>>
        => [Assignment!RANext]_<<clashes, home>> /\ (clashes = Clashes)'
  BY LXStepRefines
<1> QED
  BY <1>1, <1>2, <1>3, LXCorrect, PTL DEF LXSpec, ImplementsAssignment, Assignment!RASpec
=============================================================================
