------------------------------- MODULE IrPass -------------------------------
(***************************************************************************)
(* What the passes of ir::PassManager::run share: the module they work on, *)
(* the pass that is running and how far it is. A pass runs on the module,  *)
(* or, by FunctionTransform::runOnModule, on each function that has a body;*)
(* within a function its loops over blocks keep a cursor.                  *)
(***************************************************************************)
EXTENDS IrModule

CONSTANTS
  Programs,          \* the modules the passes are run on
  MainArguments,     \* the sequences of arguments @main is called with
  Steps,             \* how many instructions of the original program are run
  TailThreshold,     \* TailDuplication's limit on the size of a block
  CalleeThreshold,   \* FunctionInlining's limits on the sizes of the callee
  CallerThreshold    \* and of the caller

VARIABLES
  prog,       \* the module as it is
  promise,    \* what the module before all passes does, for each call of @main
  pass,       \* the pass that is running, or "done"
  at,         \* which of the functions with a body it is at
  cursor,     \* index in the layout of the block it is at; 0 before it starts
  swept,      \* has the pass changed the function (in this sweep)?
  changed,    \* has any pass, in this round of the pass manager?
  snapshot,   \* what the sweep computed before its first change
  todo        \* the predecessors the loop at block cursor has still to visit

vars == <<prog, promise, pass, at, cursor, swept, changed, snapshot, todo>>

\* ir::PassManager::run. StrengthReduction works on integers only.
Passes ==
  <<"attributes", "dce", "branch", "thread", "merge", "duplicate", "unreachable", "tailcall",
    "deadstore", "deadload", "flatten", "combine", "simplify", "fold", "poison", "motion",
    "number", "inline", "gdce">>

IrPassInit ==
  /\ prog \in Programs
  /\ promise = [values \in MainArguments |-> Promise(prog, values, Steps)]
  /\ pass = "attributes" /\ at = 1 /\ cursor = 0
  /\ swept = FALSE /\ changed = FALSE /\ snapshot = <<>> /\ todo = <<>>

defined == SelectSeq(prog.order, LAMBDA f : ~isDeclaration(prog.functions[f]))
fn == prog.functions[defined[at]]
b == fn.layout[cursor]

Become(G) == prog' = [prog EXCEPT !.functions[defined[at]] = G]
Scanning(p) == pass = p /\ cursor \in 1 .. Len(fn.layout) /\ todo = <<>>
Swept(p) == pass = p /\ cursor > Len(fn.layout)

\* The function is about to be visited; S is what the pass computes first.
Start(p, S) ==
  /\ pass = p /\ cursor = 0
  /\ cursor' = 1 /\ snapshot' = S
  /\ UNCHANGED <<prog, promise, pass, at, swept, changed, todo>>

\* Go to the next block, leaving G; did tells whether G is new.
Advance(G, did) ==
  /\ Become(G) /\ cursor' = cursor + 1 /\ swept' = (swept \/ did)
  /\ UNCHANGED <<promise, pass, at, changed, snapshot, todo>>

\* Visit the predecessors of the sequence preds, then go to the next block.
Visit(preds) ==
  /\ todo' = preds /\ cursor' = (IF preds = <<>> THEN cursor + 1 ELSE cursor)
  /\ UNCHANGED <<prog, promise, pass, at, swept, changed, snapshot>>

\* One of the predecessors to visit has been dealt with, leaving G.
Visited(G) ==
  /\ Become(G) /\ swept' = TRUE /\ todo' = Tail(todo)
  /\ cursor' = (IF Len(todo) = 1 THEN cursor + 1 ELSE cursor)
  /\ UNCHANGED <<promise, pass, at, changed, snapshot>>

\* Another sweep over the function: do { ... } while (changed2).
SweepAgain(S) ==
  /\ cursor' = 1 /\ swept' = FALSE /\ changed' = TRUE /\ snapshot' = S
  /\ UNCHANGED <<prog, promise, pass, at, todo>>

\* The pass manager goes to the next pass, round its loop, or stops.
FinishPass(did) ==
  LET k == CHOOSE i \in DOMAIN Passes : Passes[i] = pass
  IN  /\ at' = 1
      /\ IF k < Len(Passes)
         THEN pass' = Passes[k + 1] /\ changed' = (changed \/ did)
         ELSE pass' = (IF changed \/ did THEN Passes[1] ELSE "done") /\ changed' = FALSE

\* The pass has returned from its function, leaving G.
Finish(G, did) ==
  /\ Become(G) /\ cursor' = 0 /\ swept' = FALSE /\ snapshot' = <<>>
  /\ IF at < Len(defined)
     THEN at' = at + 1 /\ changed' = (changed \/ did) /\ UNCHANGED pass
     ELSE FinishPass(did)
  /\ UNCHANGED <<promise, todo>>

\* The pass has returned from the module, leaving P.
FinishModule(P, did) ==
  /\ prog' = P /\ FinishPass(did)
  /\ UNCHANGED <<promise, cursor, swept, snapshot, todo>>

-----------------------------------------------------------------------------
(* Changes to a function that several passes make.                         *)

\* The phis of block c, replaced one by one.
UpdatePhis(G, c, f(_)) ==
  [G EXCEPT !.code[c] = [k \in DOMAIN @ |-> IF IsPhi(@[k]) THEN f(@[k]) ELSE @[k]]]

SetTerminator(G, c, I) == [G EXCEPT !.code[c] = Append(Front(@), I)]

UpdateAll(G, f(_)) ==
  [G EXCEPT !.code = [c \in BlocksOf(G) |-> [k \in DOMAIN G.code[c] |-> f(G.code[c][k])]]]

\* Value::replaceAllUsesWith, for a value and for a block.
Renamed(seq, from, to) == [k \in DOMAIN seq |-> IF seq[k] = from THEN to ELSE seq[k]]
ReplaceUses(G, id, v) == UpdateAll(G, LAMBDA I : [I EXCEPT !.args = Renamed(@, id, v)])
ReplaceBlock(G, from, to) == UpdateAll(G, LAMBDA I : [I EXCEPT !.dests = Renamed(@, from, to)])

KeepOnly(G, keep(_)) ==
  [G EXCEPT !.code = [c \in BlocksOf(G) |-> SelectSeq(G.code[c], keep)]]

\* Its uses replaced by v, the instruction is removed.
ReplaceBy(G, id, v) == KeepOnly(ReplaceUses(G, id, v), LAMBDA I : I.id # id)

\* Names for new values and blocks, different from all of G: those of S, marked.
NamesOf(G) ==
  Range(G.params) \cup BlocksOf(G) \cup {I.id : I \in instructions(G)}
Mark(G, S) ==
  LET marked(n) == {v \o "_" \o ToString(n) : v \in S}
      n == CHOOSE k \in 0 .. Cardinality(NamesOf(G)) :
             /\ marked(k) \cap NamesOf(G) = {}
             /\ \A j \in 0 .. (k - 1) : marked(j) \cap NamesOf(G) # {}
  IN  [v \in S |-> v \o "_" \o ToString(n)]

-----------------------------------------------------------------------------
(* The dominator tree (DominatorTree.tla has the algorithm).               *)

\* All reachable blocks, each with the blocks that dominate it.
Dominators(G) ==
  LET reachable == Reachable(G)
  IN  [c \in reachable |-> {d \in reachable : c = d \/ dominates(G, d, c)}]

\* The reachable blocks such that each comes after those that dominate it. The
\* code's recursion visits siblings in another order, on which nothing depends.
DominanceOrder(G) ==
  FoldLeft(LAMBDA seq, d : seq \o d, <<>>,
    The({[n \in DOMAIN G.layout |->
            SelectSeq(G.layout, LAMBDA c : c \in DOMAIN doms /\ Cardinality(doms[c]) = n)] :
           doms \in {Dominators(G)}}))

\* The names of the values G computes, in such an order.
ValuesInOrder(G) ==
  FoldLeft(LAMBDA seq, c : seq \o [j \in DOMAIN G.code[c] |-> G.code[c][j].id],
           <<>>, DominanceOrder(G))

definition(G, id) == CHOOSE I \in instructions(G) : I.id = id
defines(G, v) == v # "none" /\ \E I \in instructions(G) : I.id = v

\* G after rule has visited the values, one after the other.
Walked(G, ids, rule(_, _)) ==
  LET walk[k \in 0 .. Len(ids)] ==
        IF k = 0 THEN G ELSE The({rule(H, ids[k]) : H \in {walk[k - 1]}})
  IN  walk[Len(ids)]
=============================================================================
