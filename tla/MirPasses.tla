----------------------------- MODULE MirPasses -----------------------------
(***************************************************************************)
(* The backend from the code instruction selection emits to the order in   *)
(* which blocks are printed, on one function:                              *)
(* RISCVPassManager::runBeforeRegisterAllocation, register allocation as   *)
(* the abstract promise of RegisterAssignment, and                         *)
(* RISCVPassManager::runAfterRegisterAllocation. The passes on single      *)
(* blocks are operators on the code of a block; those on the control-flow  *)
(* graph have one action per iteration of their loops over blocks.         *)
(***************************************************************************)
EXTENDS BlockPlacement

CONSTANTS
  Funcs,      \* the functions instruction selection emits
  Allocatable,\* the physical registers an allocator may use
  Threshold   \* TailDuplication's limit on the size of a block

ASSUME FuncsAssumption == \A G \in Funcs : IsMachineFunction(G) /\ Reachable(G) = BlocksOf(G)

ASSUME AllocatableAssumption == Allocatable \subseteq PhysRegs

VARIABLES
  original,   \* the function before all passes
  fn,         \* the function as it is
  stage,      \* "before" or "after" register allocation
  pass,       \* the pass that is running, "allocate", "reorder" or "done"
  cursor,     \* index in fn.layout of the block the pass is at; 0 before it starts
  swept,      \* has the pass changed the function (in this sweep)?
  changed,    \* has any pass, in this round of the pass manager?
  snapshot    \* predecessors, or their number, as the sweep found them

vars == <<original, fn, stage, pass, cursor, swept, changed, snapshot>>

MPInit ==
  /\ original \in Funcs /\ fn = original
  /\ stage = "before" /\ pass = "nulls"
  /\ cursor = 0 /\ swept = FALSE /\ changed = FALSE /\ snapshot = <<>>

NextPass ==
  [nulls |-> "constants", constants |-> "copies", copies |-> "reuse", reuse |-> "zeros",
   zeros |-> "dead", dead |-> "thread", thread |-> "merge", merge |-> "duplicate",
   duplicate |-> "unreachable"]

\* The pass returns G: go to the next one, or round the loop, or on.
Finish(G, did) ==
  LET any == changed \/ did
  IN  /\ fn' = G /\ cursor' = 0 /\ swept' = FALSE /\ snapshot' = <<>>
      /\ IF pass \in DOMAIN NextPass
         THEN pass' = NextPass[pass] /\ changed' = any
         ELSE /\ pass' = (CASE any -> "nulls"
                            [] ~any /\ stage = "before" -> "allocate"
                            [] ~any /\ stage = "after" -> "reorder")
              /\ changed' = FALSE
      /\ UNCHANGED <<original, stage>>

\* A pass with a runOnBasicBlock: code is what it makes of each block.
RunOnBlocks(p, code) ==
  pass = p /\ Finish([fn EXCEPT !.code = code], code # fn.code)

Put(f, k, x) == (k :> x) @@ f
Without(f, S) == Restrict(f, DOMAIN f \ S)
Get(f, r) == IF r \in DOMAIN f THEN f[r] ELSE r

-----------------------------------------------------------------------------
(* NullOperationElimination.                                               *)

IsNullOperation(I) ==
  /\ I.op \in {"mov", "addi", "shli"}
  /\ I.dsts = I.srcs
  /\ I.op # "mov" => I.imm = 0

NullOperationElimination ==
  RunOnBlocks("nulls", [b \in BlocksOf(fn) |->
    SelectSeq(fn.code[b], LAMBDA I : ~IsNullOperation(I))])

-----------------------------------------------------------------------------
(* RISCVConstantPropagation. values maps registers to the constants they   *)
(* hold. The first constant operand decides, also if it does not fit.      *)

PowersOfTwo == {2 ^ k : k \in 0 .. 30}
Log2(v) == CHOOSE k \in 0 .. 30 : 2 ^ k = v

propagate(I, values) ==
  LET k == IF I.op \in {"add", "mul"} /\ I.srcs[1] \in DOMAIN values THEN 1 ELSE 2
      other == I.srcs[3 - k]
      v == values[I.srcs[k]]
      into(op, imm) == OpI(op, I.dsts[1], other, imm)
  IN  CASE I.op = "mov" ->
             IF I.srcs[1] \in DOMAIN values THEN LoadImm(I.dsts[1], values[I.srcs[1]]) ELSE I
        [] I.op \in {"add", "sub", "shl", "mul"} ->
             IF I.srcs[k] \notin DOMAIN values THEN I
             ELSE CASE I.op = "add" /\ Fits(v)  -> into("addi", v)
                    [] I.op = "sub" /\ Fits(-v) -> into("addi", -v)
                    [] I.op = "shl" /\ Fits(v)  -> into("shli", v)
                    [] I.op = "mul" /\ v \in PowersOfTwo -> into("shli", Log2(v))
                    [] OTHER -> I
        [] OTHER -> I

PropagateConstants(code) ==
  LET visit(acc, I) ==
        IF I.op = "li"
        THEN [code |-> Append(acc.code, I), values |-> Put(acc.values, I.dsts[1], I.imm)]
        ELSE [code |-> Append(acc.code, propagate(I, acc.values)),
              values |-> Without(acc.values, def(I))]
  IN  FoldLeft(visit, [code |-> <<>>, values |-> <<>>], code).code

\* The second loop of the pass. sums maps a register to the register and the
\* offset whose sum it holds; a sum is noted without forgetting those that
\* its destination is the base of.
PropagateSums(code) ==
  LET sumOf(I) == [base |-> I.srcs[1], offset |-> I.imm]
      based(I, sums) ==
        IF HasMemOp(I) /\ BaseReg(I) \in DOMAIN sums
           /\ Fits(sums[BaseReg(I)].offset + I.imm)
        THEN [I EXCEPT !.srcs[Len(I.srcs)] = sums[BaseReg(I)].base,
                       !.imm = @ + sums[BaseReg(I)].offset]
        ELSE I
      forget(sums, R) ==
        Without(sums, R \cup {r \in DOMAIN sums : sums[r].base \in R})
      visit(acc, I) ==
        IF I.op = "addi" /\ I.dsts # I.srcs
        THEN [code |-> Append(acc.code, I), sums |-> Put(acc.sums, I.dsts[1], sumOf(I))]
        ELSE [code |-> Append(acc.code, based(I, acc.sums)),
              sums |-> forget(acc.sums, def(I))]
  IN  FoldLeft(visit, [code |-> <<>>, sums |-> <<>>], code).code

RISCVConstantPropagation ==
  RunOnBlocks("constants", [b \in BlocksOf(fn) |->
    PropagateSums(PropagateConstants(fn.code[b]))])

-----------------------------------------------------------------------------
(* CopyPropagation. copies maps a register to the one it is a copy of.     *)

ReplaceSrcs(I, m) == [I EXCEPT !.srcs = [k \in DOMAIN @ |-> Get(m, @[k])]]

PropagateCopies(code) ==
  LET forget(copies, R) ==
        Without(copies, R \cup {r \in DOMAIN copies : copies[r] \in R})
      after(copies, I) ==
        CASE I.op = "mov" /\ I.dsts = I.srcs -> copies
          [] I.op = "mov" /\ I.dsts # I.srcs ->
               Put(forget(copies, def(I)), I.dsts[1], I.srcs[1])
          [] OTHER -> forget(copies, def(I))
      visit(acc, I) ==
        LET J == ReplaceSrcs(I, acc.copies)
        IN  [code |-> Append(acc.code, J), copies |-> after(acc.copies, J)]
  IN  FoldLeft(visit, [code |-> <<>>, copies |-> <<>>], code).code

CopyPropagation ==
  RunOnBlocks("copies", [b \in BlocksOf(fn) |-> PropagateCopies(fn.code[b])])

-----------------------------------------------------------------------------
(* RegisterReuse. held lists the registers that hold an immediate, in the  *)
(* order they were loaded; the first with the same immediate is used.      *)

ReuseRegisters(code) ==
  LET forget(held, R) == SelectSeq(held, LAMBDA h : h.reg \notin R)
      after(held, I) ==
        IF I.op = "li" THEN Append(forget(held, def(I)), [reg |-> I.dsts[1], imm |-> I.imm])
                       ELSE forget(held, def(I))
      immOf(held) ==
        [r \in {h.reg : h \in Range(held)} |->
           (CHOOSE h \in Range(held) : h.reg = r).imm]
      first(held) ==
        [r \in DOMAIN immOf(held) |->
           SelectSeq(held, LAMBDA h : h.imm = immOf(held)[r])[1].reg]
      visit(acc, I) ==
        LET held == after(acc.held, I)
        IN  [code |-> Append(acc.code, ReplaceSrcs(I, first(held))), held |-> held]
  IN  FoldLeft(visit, [code |-> <<>>, held |-> <<>>], code).code

RegisterReuse ==
  RunOnBlocks("reuse", [b \in BlocksOf(fn) |-> ReuseRegisters(fn.code[b])])

-----------------------------------------------------------------------------
(* ZeroRegisterReplacement, until it changes nothing.                      *)

UseZero(code) ==
  LET after(zeros, I) ==
        (zeros \ def(I)) \cup (IF I.op = "li" /\ I.imm = 0 THEN Range(I.dsts) ELSE {})
      moved(I) == IF I.op = "mov" /\ I.srcs = <<zeroReg>> THEN LoadImm(I.dsts[1], 0) ELSE I
      visit(acc, I) ==
        LET zeros == after(acc.zeros, I)
            J == ReplaceSrcs(I, [r \in zeros |-> zeroReg])
        IN  [code |-> Append(acc.code, moved(J)), zeros |-> zeros]
  IN  FoldLeft(visit, [code |-> <<>>, zeros |-> {}], code).code

RECURSIVE ReplaceZeros(_)
ReplaceZeros(code) ==
  LET next == UseZero(code)
  IN  IF next = code THEN code ELSE ReplaceZeros(next)

ZeroRegisterReplacement ==
  RunOnBlocks("zeros", [b \in BlocksOf(fn) |-> ReplaceZeros(fn.code[b])])

-----------------------------------------------------------------------------
(* DeadCodeElimination, one sweep over the function at a time.             *)

isCritical(I, liveOut) == hasSideEffects(I) \/ def(I) \cap liveOut # {}

WithoutDeadCode(G) ==
  LET critical(b, live) == {i \in DOMAIN live : isCritical(G.code[b][i], live[i])}
  IN  [G EXCEPT !.code = [b \in BlocksOf(G) |-> Lines(@[b], critical(b, LiveAfter(G, b)))]]

DeadCodeElimination ==
  /\ pass = "dead"
  /\ LET G == WithoutDeadCode(fn)
     IN  IF G # fn
         THEN /\ fn' = G /\ swept' = TRUE
              /\ UNCHANGED <<original, stage, pass, cursor, changed, snapshot>>
         ELSE Finish(fn, swept)

-----------------------------------------------------------------------------
(* JumpThreading. Where a cycle of blocks that only jump is reached the    *)
(* loop does not end, and neither does the pass: it cannot take its step.  *)

follow(G, b) ==
  LET I == Terminator(G, b)
  IN  IF Len(G.code[b]) = 1 /\ I.op = "br" /\ I.dests[1] # b THEN I.dests[1] ELSE b

FollowAll(G, b) == FoldLeft(LAMBDA c, i : follow(G, c), b, G.layout)

JumpThreading ==
  /\ pass = "thread"
  /\ \A b \in BlocksOf(fn) : \A c \in successors(fn, b) :
       follow(fn, FollowAll(fn, c)) = FollowAll(fn, c)
  /\ LET threaded(b) ==
           [Terminator(fn, b) EXCEPT !.dests = [k \in DOMAIN @ |-> FollowAll(fn, @[k])]]
         code == [b \in BlocksOf(fn) |-> Append(Front(fn.code[b]), threaded(b))]
     IN  Finish([fn EXCEPT !.code = code], code # fn.code)

-----------------------------------------------------------------------------
(* BasicBlockMerging. A block that has been merged is empty and goes at    *)
(* the end.                                                                *)

Start(p, S) ==
  /\ pass = p /\ cursor = 0
  /\ cursor' = 1 /\ snapshot' = S
  /\ UNCHANGED <<original, fn, stage, pass, swept, changed>>

Scanning(p) == pass = p /\ cursor \in 1 .. Len(fn.layout)
Swept(p) == pass = p /\ cursor > Len(fn.layout)
current == fn.layout[cursor]

NumPredecessors(G) == [b \in BlocksOf(G) |-> Cardinality(predecessors(G, b))]

canMergeWithSuccessor(G, b, counts) ==
  /\ G.code[b] # <<>>
  /\ Terminator(G, b).op = "br"
  /\ counts[Terminator(G, b).dests[1]] <= 1

MergeWithSuccessor(G, b) ==
  LET succ == Terminator(G, b).dests[1]
  IN  [G EXCEPT !.code = [@ EXCEPT ![b] = Front(@) \o G.code[succ], ![succ] = <<>>]]

StartMerge == Start("merge", NumPredecessors(fn))

\* A block that is its own only predecessor would be appended to itself for
\* ever; no path reaches such a block.
Merge ==
  /\ Scanning("merge")
  /\ IF canMergeWithSuccessor(fn, current, snapshot)
     THEN /\ successors(fn, current) # {current}
          /\ fn' = MergeWithSuccessor(fn, current)
          /\ swept' = TRUE /\ UNCHANGED cursor
     ELSE cursor' = cursor + 1 /\ UNCHANGED <<fn, swept>>
  /\ UNCHANGED <<original, stage, pass, changed, snapshot>>

\* G with the blocks of S only.
KeepBlocks(G, S) ==
  [layout |-> SelectSeq(G.layout, LAMBDA b : b \in S), code |-> Restrict(G.code, S)]

EndMerge ==
  /\ Swept("merge")
  /\ Finish(KeepBlocks(fn, {b \in BlocksOf(fn) : fn.code[b] # <<>>}), swept)

-----------------------------------------------------------------------------
(* TailDuplication: a small block is copied over the jumps that lead to    *)
(* it, from the predecessors the sweep began with.                         *)

PredecessorLists(G) ==
  [b \in BlocksOf(G) |-> SelectSeq(G.layout, LAMBDA c : b \in successors(G, c))]

isSmall(G, b) == successors(G, b) # {} /\ Len(G.code[b]) \in 2 .. Threshold

\* Mutant: also replaces a conditional branch.
DuplicateIntoAny(G, b, p) == [G EXCEPT !.code[p] = Front(@) \o G.code[b]]

DuplicateInto(G, b, p) ==
  IF Terminator(G, p).op = "br"
  THEN [G EXCEPT !.code[p] = Front(@) \o G.code[b]]
  ELSE G

StartDuplicate == Start("duplicate", PredecessorLists(fn))

Duplicate ==
  /\ Scanning("duplicate")
  /\ LET G == IF isSmall(fn, current)
              THEN FoldLeft(LAMBDA H, p : DuplicateInto(H, current, p), fn, snapshot[current])
              ELSE fn
     IN  fn' = G /\ swept' = (swept \/ G # fn)
  /\ cursor' = cursor + 1
  /\ UNCHANGED <<original, stage, pass, changed, snapshot>>

\* Mutant: does not reset the flag for the next sweep.
EndDuplicateStillChanged ==
  /\ Swept("duplicate")
  /\ IF swept
     THEN /\ cursor' = 1 /\ changed' = TRUE
          /\ snapshot' = PredecessorLists(fn)
          /\ UNCHANGED <<original, fn, stage, pass, swept>>
     ELSE Finish(fn, FALSE)

EndDuplicate ==
  /\ Swept("duplicate")
  /\ IF swept
     THEN /\ cursor' = 1 /\ swept' = FALSE /\ changed' = TRUE
          /\ snapshot' = PredecessorLists(fn)
          /\ UNCHANGED <<original, fn, stage, pass>>
     ELSE Finish(fn, FALSE)

UnreachableBlockElimination ==
  /\ pass = "unreachable"
  /\ Finish(KeepBlocks(fn, Reachable(fn)), Reachable(fn) # BlocksOf(fn))

-----------------------------------------------------------------------------
(* Register allocation, as any allocator that spills nothing may do it:    *)
(* registers that must be kept apart get different homes. Afterwards the   *)
(* driver removes the fake uses.                                           *)

VirtRegsOf(G) ==
  VirtRegs \cap UNION {use(I) \cup def(I) : I \in UNION {Range(G.code[b]) : b \in BlocksOf(G)}}

\* What an instruction writes clashes with everything else it writes and with
\* what is live after it, except for the source of a move.
ClashesAt(I, live) ==
  {c \in def(I) \X (live \cup def(I)) : c[1] # c[2] /\ ~(I.op = "mov" /\ c[2] = I.srcs[1])}

Clashes(G) ==
  LET inBlock(b, live) == UNION {ClashesAt(G.code[b][i], live[i]) : i \in DOMAIN live}
  IN  UNION {inBlock(b, LiveAfter(G, b)) : b \in BlocksOf(G)}

Assignments(G) ==
  LET clashes == Clashes(G)
  IN  {home \in [VirtRegsOf(G) -> Allocatable] :
         \A c \in clashes : Get(home, c[1]) # Get(home, c[2])}

Renamed(I, home) ==
  [ReplaceSrcs(I, home) EXCEPT !.dsts = [k \in DOMAIN @ |-> Get(home, @[k])]]

Allocate ==
  /\ pass = "allocate"
  /\ \E home \in Assignments(fn) :
       fn' = [fn EXCEPT !.code = [b \in BlocksOf(fn) |->
                LET kept == SelectSeq(fn.code[b], LAMBDA I : I.op # "fakeuse")
                IN  [k \in DOMAIN kept |-> Renamed(kept[k], home)]]]
  /\ stage' = "after" /\ pass' = "nulls"
  /\ UNCHANGED <<original, cursor, swept, changed, snapshot>>

BasicBlockReordering ==
  /\ pass = "reorder"
  /\ \E G \in Placements(fn) : fn' = G
  /\ pass' = "done"
  /\ UNCHANGED <<original, stage, cursor, swept, changed, snapshot>>

Done == pass = "done" /\ UNCHANGED vars

-----------------------------------------------------------------------------
MPNext ==
  \/ NullOperationElimination \/ RISCVConstantPropagation \/ CopyPropagation
  \/ RegisterReuse \/ ZeroRegisterReplacement \/ DeadCodeElimination
  \/ JumpThreading
  \/ StartMerge \/ Merge \/ EndMerge
  \/ StartDuplicate \/ Duplicate \/ EndDuplicate
  \/ UnreachableBlockElimination
  \/ Allocate \/ BasicBlockReordering \/ Done

(* The backend runs until it is done: weak fairness of MPNext, written     *)
(* without ENABLED. Where it cannot take a step although it is not done    *)
(* there is a deadlock.                                                    *)
KeepsRunning == []<><<TRUE>>_vars \/ []<>(pass = "done")

MPSpec == MPInit /\ [][MPNext]_vars /\ KeepsRunning

CONSTANTS
  Inputs,   \* the values the physical registers may have at the start
  Steps     \* the blocks the original is executed for

(* Every pass preserves what the function does: the loads, stores and      *)
(* calls it makes, with their addresses and values, and what it returns.   *)
BackendPreserves ==
  cursor = 0 =>
    \A input \in Inputs :
      Agrees(Behaviour(fn, input, Steps), Behaviour(original, input, Steps))

(* The order of the blocks has least cost among all orders that start with *)
(* the entry, for the costs some order of the searches gives.              *)
BestOrder ==
  pass = "done" /\ Len(fn.layout) \in 3 .. ExactLimit =>
    \E D \in Matrices(fn) : \A p \in Paths(Len(D)) :
      PathCost(D, [i \in DOMAIN D |-> i]) <= PathCost(D, p)

(* The code that is printed, blocks in their order and jumps to the next   *)
(* line dropped, does what the original function did.                      *)
PrintedPreserves ==
  pass = "done" =>
    \A input \in Inputs :
      Agrees(MachineBehaviour(Optimised(Emitted(fn)), input, 12 * Steps),
             Behaviour(original, input, Steps))

(* Both loops of passes end, whatever the assignment of registers between  *)
(* them.                                                                   *)
BackendTerminates == <>(pass = "done")
=============================================================================
