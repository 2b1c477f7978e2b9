----------------------------- MODULE CfgPasses -----------------------------
(***************************************************************************)
(* The control-flow passes of ir::PassManager::run: DeadCodeElimination,   *)
(* BranchSimplification, JumpThreading, BasicBlockMerging, TailDuplication *)
(* and UnreachableBlockElimination (lib/opt/ir/passes/). One action is one *)
(* iteration of a pass's loops over blocks and over their predecessors.    *)
(***************************************************************************)
EXTENDS IrPass

-----------------------------------------------------------------------------
(* DeadCodeElimination: keep what an effect or a terminator needs.         *)

Removable == {"phi", "not", "sext", "add", "mul", "gep", "gep8", "alloca"} \cup Loads

isCritical(P, I) == I.op \notin Removable /\ ~callsWith(P, I, {"ReadNone", "ReadOnly"})

Needed(G) ==
  LET all == instructions(G)
      needed[n \in 0 .. Cardinality(all)] ==
        IF n = 0 THEN {I \in all : isCritical(prog, I)}
        ELSE UNION {near \cup {I \in all : \E J \in near : I.id \in Range(J.args)} :
                      near \in {needed[n - 1]}}
  IN  needed[Cardinality(all)]

DeadCodeElimination ==
  /\ pass = "dce"
  /\ LET keep == Needed(fn)
         G == KeepOnly(fn, LAMBDA I : I \in keep)
     IN  Finish(G, G # fn)

-----------------------------------------------------------------------------
(* BranchSimplification.                                                   *)

StartBranch == Start("branch", <<>>)

\* Mutant: the branch not taken keeps its incoming values.
SimplifyConstantKeepPhis(G, c) ==
  LET I == Terminator(G, c)
  IN  SetTerminator(G, c, Br(I.dests[IF I.args[1] = "true" THEN 1 ELSE 2]))

\* A constant condition: the branch not taken loses its incoming values.
SimplifyConstant(G, c) ==
  LET I == Terminator(G, c)
      taken == IF I.args[1] = "true" THEN 1 ELSE 2
      dest == I.dests[taken]
      notDest == I.dests[3 - taken]
  IN  UpdatePhis(SetTerminator(G, c, Br(dest)), notDest,
                 LAMBDA J : removeIncomingBlock(J, c))

SimplifyBranch ==
  /\ Scanning("branch")
  /\ LET I == Terminator(fn, b)
     IN  \/ /\ I.op = "condbr" /\ I.args[1] \in Constants
            /\ Advance(SimplifyConstant(fn, b), TRUE)
         \/ /\ I.op = "condbr" /\ I.args[1] \notin Constants /\ I.dests[1] = I.dests[2]
            /\ Advance(SetTerminator(fn, b, Br(I.dests[1])), TRUE)
         \/ /\ I.op = "condbr" => I.args[1] \notin Constants /\ I.dests[1] # I.dests[2]
            /\ Advance(fn, FALSE)

EndBranch == Swept("branch") /\ Finish(fn, swept)

-----------------------------------------------------------------------------
(* JumpThreading: a predecessor of a block that only jumps, jumps to the   *)
(* block's target itself unless it is a predecessor of that already.       *)

StartThread == Start("thread", <<>>)

ThreadPred(G, c, succ, p) ==
  LET H == UpdatePhis(G, succ, LAMBDA J : addIncoming(J, p, getIncomingValue(J, c)))
      I == Terminator(H, p)
  IN  SetTerminator(H, p, [I EXCEPT !.dests = [k \in DOMAIN @ |->
                                     IF @[k] = c THEN succ ELSE @[k]]])

Thread ==
  /\ Scanning("thread")
  /\ LET I == Terminator(fn, b)
         succ == I.dests[1]
     IN  IF Len(fn.code[b]) = 1 /\ I.op = "br" /\ succ # b
         THEN Visit(SetToSeq({p \in predecessors(fn, b) : succ \notin successors(fn, p)}))
         ELSE Visit(<<>>)

ThreadPredecessor ==
  /\ pass = "thread" /\ todo # <<>>
  /\ Visited(ThreadPred(fn, b, Terminator(fn, b).dests[1], Head(todo)))

\* Mutant: changed2 is not reset at the head of the do-while loop.
EndThreadStillChanged ==
  /\ Swept("thread")
  /\ IF swept
     THEN /\ cursor' = 1 /\ changed' = TRUE
          /\ UNCHANGED <<prog, promise, pass, at, swept, snapshot, todo>>
     ELSE Finish(fn, FALSE)

EndThread ==
  /\ Swept("thread")
  /\ IF swept THEN SweepAgain(snapshot) ELSE Finish(fn, FALSE)

-----------------------------------------------------------------------------
(* BasicBlockMerging: append a block to its only predecessor when that     *)
(* jumps to it unconditionally. The numbers of predecessors are counted    *)
(* once, before the first merge.                                           *)

StartMerge ==
  Start("merge", [c \in BlocksOf(fn) |-> Cardinality(predecessors(fn, c))])

\* Mutant: no block is merged that has a predecessor.
canMergeOffByOne ==
  /\ fn.code[b] # <<>> /\ Terminator(fn, b).op = "br"
  /\ LET succ == Terminator(fn, b).dests[1]
     IN  succ # b /\ snapshot[succ] < 1 /\ phisOf(fn, succ) = {}

canMergeWithSuccessor ==
  /\ fn.code[b] # <<>> /\ Terminator(fn, b).op = "br"
  /\ LET succ == Terminator(fn, b).dests[1]
     IN  succ # b /\ snapshot[succ] <= 1 /\ phisOf(fn, succ) = {}

Merge ==
  /\ Scanning("merge") /\ canMergeWithSuccessor
  /\ LET succ == Terminator(fn, b).dests[1]
         G == [fn EXCEPT !.code[b] = Front(@) \o fn.code[succ], !.code[succ] = <<>>]
     IN  Become(ReplaceBlock(G, succ, b))
  /\ swept' = TRUE
  /\ UNCHANGED <<promise, pass, at, cursor, changed, snapshot, todo>>

MergedAll == Scanning("merge") /\ ~canMergeWithSuccessor /\ Advance(fn, FALSE)

EndMerge ==
  /\ Swept("merge")
  /\ Finish(RemoveBlocks(fn, {c \in BlocksOf(fn) : fn.code[c] = <<>>}), swept)

-----------------------------------------------------------------------------
(* TailDuplication: a small block whose results nobody uses is copied into *)
(* the predecessors that jump to it. The predecessors are those the sweep  *)
(* started with.                                                           *)

TakeSnapshot(G) ==
  [c \in BlocksOf(G) |-> SelectSeq(G.layout, LAMBDA p : p \in predecessors(G, c))]

StartDuplicate == Start("duplicate", TakeSnapshot(fn))

isDuplicable(G, c) == \A I \in Range(G.code[c]) : ~isUsed(G, I.id)

\* Copy block c over the jump that ends p. The phis at the head of c lose p,
\* those at the head of c's successors gain it.
DuplicateInto(G, c, p) ==
  LET clone == Mark(G, {I.id : I \in Range(G.code[c])})
      Cloned(I) == IF I.id = "none" THEN I ELSE [I EXCEPT !.id = clone[@]]
      body(x) == IF x = p
                 THEN Front(G.code[p]) \o [k \in DOMAIN G.code[c] |-> Cloned(G.code[c][k])]
                 ELSE G.code[x]
      leading(x, k) == \A j \in 1 .. k : IsPhi(body(x)[j])
      instr(x, k) ==
        LET I == body(x)[k]
        IN  CASE leading(x, k) /\ x = c -> removeIncomingBlock(I, p)
              [] leading(x, k) /\ x \in successors(G, c) ->
                   addIncoming(I, p, getIncomingValue(I, c))
              [] OTHER -> I
  IN  [G EXCEPT !.code = [x \in BlocksOf(G) |-> [k \in DOMAIN body(x) |-> instr(x, k)]]]

Duplicate ==
  /\ Scanning("duplicate")
  /\ IF Len(fn.code[b]) <= TailThreshold /\ b \notin successors(fn, b) /\ isDuplicable(fn, b)
     THEN Visit(SelectSeq(snapshot[b], LAMBDA p : Terminator(fn, p).op = "br"))
     ELSE Visit(<<>>)

DuplicatePredecessor ==
  /\ pass = "duplicate" /\ todo # <<>>
  /\ Visited(DuplicateInto(fn, b, Head(todo)))

EndDuplicate ==
  /\ Swept("duplicate")
  /\ IF swept THEN SweepAgain(TakeSnapshot(fn)) ELSE Finish(fn, FALSE)

-----------------------------------------------------------------------------
(* UnreachableBlockElimination. Dropped incoming values alone do not count *)
(* as a change.                                                            *)

UnreachableBlockElimination ==
  /\ pass = "unreachable"
  /\ Finish(WithoutUnreachable(fn), BlocksOf(fn) # Reachable(fn))

CfgPassesNext ==
  \/ DeadCodeElimination
  \/ StartBranch \/ SimplifyBranch \/ EndBranch
  \/ StartThread \/ Thread \/ ThreadPredecessor \/ EndThread
  \/ StartMerge \/ Merge \/ MergedAll \/ EndMerge
  \/ StartDuplicate \/ Duplicate \/ DuplicatePredecessor \/ EndDuplicate
  \/ UnreachableBlockElimination
=============================================================================
