----------------------------- MODULE LinearScan -----------------------------
(***************************************************************************)
(* LinearScanAllocator::allocate (lib/codegen/register_allocators/         *)
(* LinearScanAllocator.cpp) on one machine function, after its liveness    *)
(* analysis (the actions of LiveVariableAnalysis). The function is         *)
(* linearised, every virtual register gets one interval of positions, the  *)
(* intervals are scanned by increasing start, and the code is rewritten.   *)
(* Iteration over an unordered set is a nondeterministic choice.           *)
(***************************************************************************)
EXTENDS LockstepExecution

\* Where physical registers carry values. One that is needed where a block starts
\* carries an argument into the entry block, or the result past blocks in which
\* virtual registers hold nothing; and what the entry block computes is not used
\* in blocks it does not lead to.
PhysRegsLocal(G) ==
  \A r \in PhysRegs : \A b \in {p[1] : p \in {q \in ReadWithin(G, r) : q[2] = 1}} :
    \A v \in VirtRegs :
      LET held == Held(G, v)
      IN  b \in {p[1] : p \in held} =>
            b = Entry(G) /\ \A p \in held : p[1] \in Reachable(G)

ASSUME PhysRegsAssumption == \A G \in Funcs : PhysRegsLocal(G)

VARIABLES
  step,        \* the loop of allocate() that is running
  reserved,    \* registers set aside for the operands of spilled registers
  stack, order,   \* Linearize: the pending visit() calls, and seq_
  seq,         \* the points of the function in linear order
  pos,         \* position the endpoints loop, then the rewriting loop has reached
  endpoints,   \* virtual register -> <<start, end>>, positions in seq
  pending,     \* registers whose interval has not been scanned
  active,      \* registers whose interval may still hold its register
  free,        \* registers no active interval holds
  allocation,  \* virtual register -> physical register
  spilled,
  out          \* the rewritten code, block by block

lsVars == <<step, reserved, stack, order, seq, pos, endpoints, pending,
            active, free, allocation, spilled, out>>
vars == <<lvVars, lsVars>>

\* What the first loops leave alone, and what the last ones do.
scanVars == <<pos, endpoints, pending, active, free, allocation, spilled, out>>
setupVars == <<lvVars, reserved, stack, order, seq>>

virtRegs == VirtRegsOf(F)

LSInit ==
  /\ LVInit
  /\ step = "reserve"
  /\ reserved = {} /\ stack = <<>> /\ order = <<>> /\ seq = <<>> /\ pos = 1
  /\ endpoints = <<>> /\ pending = {} /\ active = {} /\ free = {}
  /\ allocation = <<>> /\ spilled = {}
  /\ out = [b \in BlocksOf(F) |-> <<>>]

Analyse == LVNext /\ UNCHANGED lsVars

-----------------------------------------------------------------------------
(* Reserved registers.                                                     *)

\* Mutant: only what instructions write is counted.
numReservedForWrites ==
  LET sizes == {Cardinality(DstsIn(At(F, p), virtRegs)) : p \in Points(F)}
  IN  CHOOSE n \in sizes : \A m \in sizes : m <= n

\* The most virtual registers one instruction reads, or writes.
numReserved ==
  LET sizes == {Cardinality(SrcsIn(At(F, p), virtRegs)) : p \in Points(F)}
               \cup {Cardinality(DstsIn(At(F, p), virtRegs)) : p \in Points(F)}
  IN  CHOOSE n \in sizes : \A m \in sizes : m <= n

\* Mutant: registers the function writes (a call's, say) are not excluded.
UntouchedOnEntry == PhysRegs \ liveIn[Entry(F)]

\* Physical registers no instruction writes and the caller passes nothing in.
Untouched ==
  PhysRegs \ (liveIn[Entry(F)] \cup UNION {def(At(F, p)) : p \in Points(F)})

Reserve ==
  /\ phase = "done" /\ step = "reserve"
  /\ reserved' = WorstOf(numReserved, Untouched)
  /\ step' = IF Cardinality(Untouched) < numReserved THEN "failed" ELSE "linearize"
  /\ UNCHANGED <<lvVars, stack, order, seq, scanVars>>

-----------------------------------------------------------------------------
(* Linearize: reverse postorder of a depth-first search that starts at     *)
(* every block not yet visited, in layout order.                           *)

Visited == Range(stack) \cup Range(order)

VisitRoot ==
  /\ step = "linearize" /\ stack = <<>>
  /\ \E k \in DOMAIN F.layout :
       /\ F.layout[k] \notin Visited
       /\ \A j \in 1 .. (k - 1) : F.layout[j] \in Visited
       /\ stack' = <<F.layout[k]>>
  /\ UNCHANGED <<lvVars, step, reserved, order, seq, scanVars>>

VisitSuccessor ==
  /\ step = "linearize" /\ stack # <<>>
  /\ \E s \in successors(F, stack[Len(stack)]) \ Visited : stack' = Append(stack, s)
  /\ UNCHANGED <<lvVars, step, reserved, order, seq, scanVars>>

LeaveBlock ==
  /\ step = "linearize" /\ stack # <<>>
  /\ successors(F, stack[Len(stack)]) \subseteq Visited
  /\ order' = Append(order, stack[Len(stack)])
  /\ stack' = SubSeq(stack, 1, Len(stack) - 1)
  /\ UNCHANGED <<lvVars, step, reserved, seq, scanVars>>

\* for B in reverse(seq_): append its instructions. order shrinks from its end.
EmitBlock ==
  /\ \/ step = "linearize" /\ stack = <<>> /\ BlocksOf(F) \subseteq Visited
     \/ step = "emit"
  /\ order # <<>>
  /\ LET b == order[Len(order)]
     IN  seq' = seq \o [i \in InstrsOf(F, b) |-> <<b, i>>]
  /\ order' = SubSeq(order, 1, Len(order) - 1)
  /\ step' = IF Len(order) = 1 THEN "endpoints" ELSE "emit"
  /\ UNCHANGED <<lvVars, reserved, stack, scanVars>>

-----------------------------------------------------------------------------
(* Intervals.                                                              *)

\* Mutants: the cast to VirtualRegister is left out; a register that is
\* written and never read has no position.
OccupiedByAny(p) == liveOut2[p] \cup def(At(F, p))
OccupiedWhileLive(p) == liveOut2[p] \cap virtRegs

\* Virtual registers that hold a value right after point p, or that p writes.
Occupied(p) == (liveOut2[p] \cup def(At(F, p))) \cap virtRegs

\* Mutant: an interval is never extended.
ExtendIntervalOnce ==
  /\ step = "endpoints" /\ pos <= Len(seq)
  /\ endpoints' = [v \in DOMAIN endpoints \cup Occupied(seq[pos]) |->
       IF v \notin DOMAIN endpoints THEN <<pos, pos>> ELSE endpoints[v]]
  /\ pos' = pos + 1
  /\ UNCHANGED <<setupVars, step, pending, active, free, allocation, spilled, out>>

ExtendInterval ==
  /\ step = "endpoints" /\ pos <= Len(seq)
  /\ endpoints' = [v \in DOMAIN endpoints \cup Occupied(seq[pos]) |->
       IF v \notin DOMAIN endpoints THEN <<pos, pos>>
       ELSE IF v \in Occupied(seq[pos]) THEN <<endpoints[v][1], pos>>
       ELSE endpoints[v]]
  /\ pos' = pos + 1
  /\ UNCHANGED <<setupVars, step, pending, active, free, allocation, spilled, out>>

\* endpoints[virtReg] of a register with no interval fails HashMap's assertion.
BuildIntervals ==
  /\ step = "endpoints" /\ pos > Len(seq)
  /\ IF virtRegs \subseteq DOMAIN endpoints
     THEN step' = "scan" /\ pending' = virtRegs /\ free' = PhysRegs \ reserved
     ELSE step' = "aborted" /\ UNCHANGED <<pending, free>>
  /\ UNCHANGED <<setupVars, pos, endpoints, active, allocation, spilled, out>>

-----------------------------------------------------------------------------
(* The scan.                                                               *)

start(v) == endpoints[v][1]

\* Mutant: the last position of an interval is taken for the one after it.
endExclusive(v) == endpoints[v][2] - 1

end(v) == endpoints[v][2]

\* Mutant: what instructions within the interval write is not excluded.
allocatableAtStart(v) == (PhysRegs \ reserved) \ liveOut2[seq[start(v)]]

\* Registers v may get: not live where its interval starts, not written in it.
allocatable(v) ==
  (PhysRegs \ reserved)
    \ (liveOut2[seq[start(v)]] \cup UNION {def(At(F, seq[i])) : i \in start(v) .. end(v)})

preferred(v) ==
  (MovedWith(F, v) \cap PhysRegs)
    \cup {allocation[w] : w \in MovedWith(F, v) \cap DOMAIN allocation}

\* compareStart; registers with equal intervals are ordered by address.
StartsFirst(v) ==
  \A w \in pending : \/ start(v) < start(w)
                     \/ start(v) = start(w) /\ end(v) <= end(w)

Scan(v) ==
  LET kept    == {w \in active : end(w) >= start(v)}
      freed   == free \cup {allocation[w] : w \in active \ kept}
      choices == freed \cap allocatable(v)
  IN  /\ StartsFirst(v)
      /\ pending' = pending \ {v}
      /\ \/ \E r \in choices :
              /\ \A q \in choices \ {r} : isBetterFor(preferred(v), r, q)
              /\ free' = freed \ {r}
              /\ allocation' = Put(allocation, v, r)
              /\ active' = kept \cup {v}
              /\ UNCHANGED spilled
         \/ /\ choices = {}
            /\ free' = freed /\ active' = kept
            /\ spilled' = spilled \cup {v}
            /\ UNCHANGED allocation

ScanInterval ==
  /\ step = "scan"
  /\ \E v \in pending : Scan(v)
  /\ UNCHANGED <<setupVars, step, pos, endpoints, out>>

EndScan ==
  /\ step = "scan" /\ pending = {}
  /\ step' = "rewrite" /\ pos' = 1
  /\ UNCHANGED <<setupVars, endpoints, pending, active, free, allocation, spilled, out>>

-----------------------------------------------------------------------------
(* Rewriting. Allocated operands are renamed; a spilled register gets a    *)
(* reserved one for the instruction, the best one not yet taken on the     *)
(* side (source or destination) it is on. Which of several spilled         *)
(* registers comes first is the order of an unordered set.                 *)

\* The reserved registers the spilled operands of I may get.
SpillMaps(I) ==
  LET S == SrcsIn(I, spilled)
      D == DstsIn(I, spilled)
      taken == BestOf(Cardinality(S \cap D), reserved)
      rest(n) == BestOf(n, reserved \ taken)
  IN  Borrowed(S, D, taken, rest(Cardinality(S \ D)), rest(Cardinality(D \ S)))

RewriteInstruction ==
  /\ step = "rewrite" /\ pos <= Len(LayoutPoints(F))
  /\ LET p == LayoutPoints(F)[pos]
         I == Rename(At(F, p), allocation, allocation)
     IN  \E m \in SpillMaps(I) :
           out' = [out EXCEPT ![p[1]] = @ \o Spilled(I, m, m, spilled)]
  /\ pos' = pos + 1
  /\ UNCHANGED <<setupVars, step, endpoints, pending, active, free, allocation, spilled>>

Return ==
  /\ step = "rewrite" /\ pos > Len(LayoutPoints(F))
  /\ step' = "done"
  /\ UNCHANGED <<setupVars, scanVars>>

LSNext ==
  \/ Analyse \/ Reserve
  \/ VisitRoot \/ VisitSuccessor \/ LeaveBlock \/ EmitBlock
  \/ ExtendInterval \/ BuildIntervals
  \/ ScanInterval \/ EndScan
  \/ RewriteInstruction \/ Return

LSSpec == LSInit /\ [][LSNext]_vars /\ WF_vars(LSNext)

-----------------------------------------------------------------------------
Steps == {"reserve", "linearize", "emit", "endpoints", "scan", "rewrite",
          "done", "failed", "aborted"}

Linearized == step \in {"endpoints", "scan", "rewrite", "done", "aborted"}
Built == step \in {"scan", "rewrite", "done"}

(* The type invariant: sequences hold blocks and points, intervals are     *)
(* pairs of positions, allocation maps virtual to physical registers.      *)
LSTypeOK ==
  /\ LVTypeOK
  /\ step \in Steps
  /\ reserved \subseteq PhysRegs
  /\ stack \in Seq(BlocksOf(F)) /\ order \in Seq(BlocksOf(F))
  /\ seq \in Seq(Points(F))
  /\ pos \in Nat \ {0}
  /\ DOMAIN endpoints \subseteq VirtRegs
  /\ \A v \in DOMAIN endpoints : endpoints[v] \in (DOMAIN seq) \X (DOMAIN seq)
  /\ pending \subseteq VirtRegs /\ active \subseteq VirtRegs
  /\ free \subseteq PhysRegs
  /\ DOMAIN allocation \subseteq VirtRegs
  /\ \A v \in DOMAIN allocation : allocation[v] \in PhysRegs
  /\ spilled \subseteq VirtRegs
  /\ DOMAIN out = BlocksOf(F)
  /\ \A b \in BlocksOf(F) : out[b] \in Seq(Instr)

(* Linearize lists every instruction of the function exactly once, those   *)
(* of unreachable blocks included.                                         *)
LinearOrderComplete ==
  Linearized => Range(seq) = Points(F) /\ IsInjective(seq)

(* The interval of a register spans every position at which it holds a     *)
(* value, although it is one range of positions and the linear order puts  *)
(* loop bodies and join blocks in places control flow does not.            *)
IntervalsCover ==
  Built =>
    \A n \in DOMAIN seq : \A v \in Occupied(seq[n]) :
      v \in DOMAIN endpoints /\ start(v) <= n /\ n <= end(v)

(* Two virtual registers that hold values at the same point never get the  *)
(* same physical register, whatever was expired and reused in between.     *)
NoSharing ==
  \A v, w \in DOMAIN allocation :
    v # w => \A p \in Points(F) :
      {v, w} \subseteq Occupied(p) => allocation[v] # allocation[w]

(* A virtual register never gets a physical register the function uses     *)
(* itself (arguments, results, clobbered by a call) at a point where both  *)
(* hold values.                                                            *)
PhysRegsKept ==
  \A v \in DOMAIN allocation : \A p \in Points(F) :
    v \in Occupied(p) => allocation[v] \notin liveOut2[p] \cup def(At(F, p))

(* The registers that carry spilled values are not given to any interval   *)
(* and never hold a value of the function where control can reach.         *)
ReservedUntouched ==
  /\ \A v \in DOMAIN allocation : allocation[v] \notin reserved
  /\ step # "reserve" =>
       LET reachable == Reachable(F)
       IN  \A p \in {q \in Points(F) : q[1] \in reachable} :
             reserved \cap (liveIn2[p] \cup liveOut2[p] \cup def(At(F, p))) = {}

(* HashMap::operator[] is only applied to registers that have an interval. *)
NeverAborts == step # "aborted"

(* allocate() returns: there is always a reserved register for a spilled   *)
(* operand, and every loop ends.                                           *)
AllocatorReturns == <>(step \in {"done", "failed"})

-----------------------------------------------------------------------------
(* The inductive invariant of the proofs.                                  *)

\* The allocator runs on the result of the finished analysis.
AnalysisFirst == F \in Funcs /\ (step # "reserve" => phase = "done")

\* A block is on the stack or in the order, once; a block that has left the
\* order has all its instructions in the sequence, once.
OrderInv ==
  /\ step \in Steps
  /\ stack \in Seq(BlocksOf(F)) /\ order \in Seq(BlocksOf(F))
  /\ seq \in Seq(Points(F))
  /\ IsInjective(stack) /\ IsInjective(order) /\ IsInjective(seq)
  /\ Range(stack) \cap Range(order) = {}
  /\ step \in {"reserve", "linearize", "failed"} => seq = <<>>
  /\ step \notin {"reserve", "linearize", "failed"} =>
       /\ stack = <<>>
       /\ \A b \in BlocksOf(F) : \/ b \in Range(order)
                                 \/ \A i \in InstrsOf(F, b) : <<b, i>> \in Range(seq)
  /\ \A n \in DOMAIN seq : seq[n][1] \notin Range(order)
  /\ Linearized => order = <<>>

\* The positions before pos are inside the intervals of what they occupy.
CoverInv ==
  /\ pos \in Nat \ {0}
  /\ step \in {"reserve", "linearize", "emit"} => pos = 1
  /\ step \in {"endpoints", "aborted"} =>
       /\ \A v \in DOMAIN endpoints :
            start(v) \in Nat /\ end(v) \in Nat /\ start(v) <= end(v) /\ end(v) < pos
       /\ \A n \in DOMAIN seq : n < pos => \A v \in Occupied(seq[n]) :
            v \in DOMAIN endpoints /\ start(v) <= n /\ n <= end(v)
  /\ step \in {"reserve", "linearize", "emit"} => DOMAIN endpoints = {}
  /\ IntervalsCover
  /\ Built => \A v \in DOMAIN endpoints : start(v) \in Nat /\ end(v) \in Nat

\* Active registers hold registers of their own; those no longer active ended
\* before anything that is still to be scanned; equal registers mean disjoint
\* intervals.
ScanInv ==
  /\ ~Built => allocation = <<>> /\ active = {}
  /\ Built =>
       /\ active \subseteq DOMAIN allocation
       /\ DOMAIN allocation \cap pending = {}
       /\ DOMAIN allocation \cup pending \subseteq DOMAIN endpoints
       /\ \A v \in active : allocation[v] \notin free
       /\ \A v, w \in active : v # w => allocation[v] # allocation[w]
       /\ \A v \in DOMAIN allocation \ active : \A w \in pending : end(v) < start(w)
       /\ \A v, w \in DOMAIN allocation :
            (v # w /\ allocation[v] = allocation[w]) =>
              end(v) < start(w) \/ end(w) < start(v)

\* A register gets one that is allocatable to it; every virtual register is
\* still to be scanned, allocated or spilled.
AllocInv ==
  /\ reserved \subseteq PhysRegs
  /\ step = "reserve" => free = {}
  /\ step # "reserve" => reserved \subseteq Untouched
  /\ DOMAIN endpoints \subseteq virtRegs
  /\ Linearized => \A v \in DOMAIN endpoints : endpoints[v] \in (DOMAIN seq) \X (DOMAIN seq)
  /\ ~Linearized => DOMAIN endpoints = {}
  /\ free \subseteq PhysRegs \ reserved
  /\ \A v \in DOMAIN allocation : allocation[v] \in allocatable(v)
  /\ ~Built => pending = {} /\ spilled = {}
  /\ Built => /\ pending \cup DOMAIN allocation \cup spilled = virtRegs
              /\ pending \cap spilled = {} /\ DOMAIN allocation \cap spilled = {}
  /\ step \in {"rewrite", "done"} => pending = {}

\* An interval starts where its register holds a value.
StartInv == \A v \in DOMAIN endpoints : v \in Occupied(seq[start(v)])

\* The depth-first search starts at the entry block: before it, the sequence has
\* only blocks it does not lead to.
EntryInv ==
  /\ BlockByBlock(F, seq)
  /\ step = "reserve" => stack = <<>> /\ order = <<>>
  /\ step = "linearize" =>
       /\ \A b \in Range(order) : successors(F, b) \subseteq Visited
       /\ stack # <<>> => stack[1] = Entry(F) \/ Entry(F) \in Range(order)
       /\ stack = <<>> /\ order # <<>> => Entry(F) \in Range(order)
  /\ \A k \in DOMAIN order : order[k] = Entry(F) =>
       Closed(F, {order[i] : i \in 1 .. k})
  /\ \A n \in DOMAIN seq : seq[n][1] = Entry(F) =>
       \A m \in 1 .. n : seq[m][1] \in Reachable(F) => seq[m][1] = Entry(F)

LSInv ==
  /\ LVInv /\ AnalysisFirst /\ OrderInv /\ CoverInv /\ ScanInv /\ AllocInv
  /\ StartInv /\ EntryInv

-----------------------------------------------------------------------------
(* The scan implements RegisterAssignment: what must be kept apart is read *)
(* off the paths of the control-flow graph, once, in the auxiliary         *)
(* variable clashes, which owes nothing to the liveness analysis or to the *)
(* intervals the allocator relies on.                                      *)
VARIABLE clashes

LRInit == LSInit /\ clashes = Clashes
LRNext == LSNext /\ UNCHANGED clashes

\* Where a virtual register lives, as far as the scan has decided it.
home ==
  [v \in VirtRegs |->
     IF v \in spilled THEN "stack"
     ELSE IF v \in DOMAIN allocation THEN allocation[v] ELSE "none"]

\* The two homes that are not registers.
ASSUME HomesAssumption == "none" \notin PhysRegs /\ "stack" \notin PhysRegs

Assignment == INSTANCE RegisterAssignment

(* Every register gets its home once and keeps it, and no two registers    *)
(* that clash on some path get the same one.                               *)
ImplementsAssignment == Assignment!RASpec

-----------------------------------------------------------------------------
(* The execution: the function allocate returns runs in lockstep with the  *)
(* function it was given.                                                  *)

LXInit == LRInit /\ ExecInit

Allocate == LRNext /\ UNCHANGED execVars
Run == step = "done" /\ ExecNext(out) /\ UNCHANGED <<vars, clashes>>

LXNext == Allocate \/ Run

\* allocate() runs until it returns; its result need not be run to the end.
LXSpec ==
  /\ LXInit /\ [][LXNext]_<<vars, clashes, execVars>>
  /\ WF_<<vars, clashes, execVars>>(Allocate)

(* The allocated function computes what the original computes: every       *)
(* instruction reads the same values, on every path, through spilled       *)
(* registers, calls and loops.                                             *)
ReadsAgree == step = "done" => ReadsAgreeAt(out)
=============================================================================
