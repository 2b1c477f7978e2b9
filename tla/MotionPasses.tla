---------------------------- MODULE MotionPasses ----------------------------
(***************************************************************************)
(* The passes of ir::PassManager::run that replace and move values:        *)
(* InstructionCombining, AlgebraicSimplification, ConstantFolding and      *)
(* PoisonPropagation, for what is not arithmetic (that is in ValuePasses), *)
(* GlobalCodeMotion with LoopTreeAnalysis, and GlobalValueNumbering. They  *)
(* walk over the dominator tree; one action is one function.               *)
(***************************************************************************)
EXTENDS IrPass

Movable == {"not", "sext", "add", "mul", "gep", "gep8"}

\* A constant on the left of a commutative operation goes to the right.
Swapped(G, isConst(_)) ==
  UpdateAll(G, LAMBDA I :
    IF I.op \in {"add", "mul"} /\ isConst(I.args[1]) /\ ~isConst(I.args[2])
    THEN [I EXCEPT !.args = <<@[2], @[1]>>] ELSE I)

Redefine(G, id, I) == UpdateAll(G, LAMBDA J : IF J.id = id THEN I ELSE J)

-----------------------------------------------------------------------------
(* InstructionCombining. The replacement of an instruction keeps its name. *)
(* What I is computed from has been combined before I, so that one step    *)
(* reaches the end of the chain.                                           *)

combinable(I) ==
  I.op \in {"add", "mul", "gep8"} /\ Len(I.args) = 2 /\ I.args[2] \in Numbers

CombineAt(G, id) ==
  LET I == definition(G, id)
      J == definition(G, I.args[1])
      x == NumberOf[I.args[2]]
      y == NumberOf[J.args[2]]
  IN  IF defines(G, id) /\ combinable(I) /\ defines(G, I.args[1]) /\ J.op = I.op /\ combinable(J)
      THEN Redefine(G, id, [I EXCEPT !.args =
             <<J.args[1], ToString(IF I.op = "mul" THEN x * y ELSE x + y)>>])
      ELSE G

InstructionCombining ==
  /\ pass = "combine"
  /\ LET G == Swapped(fn, LAMBDA v : isConstant(prog, v))
         H == Walked(G, ValuesInOrder(G), CombineAt)
     IN  Finish(H, H # fn)

-----------------------------------------------------------------------------
(* AlgebraicSimplification.                                                *)

\* What a value is, if it is no more than an operand or a constant.
Simple(I) ==
  CASE I.op = "add" /\ I.args[2] = "0" -> I.args[1]
    [] I.op = "mul" /\ I.args[2] = "1" -> I.args[1]
    [] I.op = "mul" /\ I.args[2] = "0" -> "0"
    [] I.op \in {"gep", "gep8"} /\ Range(Tail(I.args)) \subseteq {"0", "false"} -> I.args[1]
    [] IsPhi(I) /\ Len(I.args) = 1 -> I.args[1]
    [] OTHER -> "none"

SimplifyAt(G, id) ==
  LET I == definition(G, id)
  IN  CASE ~defines(G, id) -> G
        [] defines(G, id) /\ Simple(I) # "none" -> ReplaceBy(G, id, Simple(I))
        [] defines(G, id) /\ I.op = "add" /\ I.args[1] = I.args[2] /\ ~isLiteral(I.args[1]) ->
             Redefine(G, id, [I EXCEPT !.op = "mul", !.args = <<@[1], "2">>])
        [] OTHER -> G

AlgebraicSimplification ==
  /\ pass = "simplify"
  /\ LET G == Swapped(fn, isLiteral)
         H == Walked(G, ValuesInOrder(G), SimplifyAt)
     IN  Finish(H, H # fn)

-----------------------------------------------------------------------------
(* ConstantFolding and PoisonPropagation.                                  *)

Folded(I) ==
  LET n(k) == NumberOf[I.args[k]]
  IN  CASE Poison \in Range(I.args) -> Poison
        [] I.op = "not" -> Negation[I.args[1]]
        [] I.op = "sext" -> I.args[1]
        [] I.op = "add" -> ToString(n(1) + n(2))
        [] I.op = "mul" -> ToString(n(1) * n(2))

FoldAt(G, id) ==
  LET I == definition(G, id)
  IN  IF /\ defines(G, id) /\ I.op \in {"not", "sext", "add", "mul"}
         /\ \A v \in Range(I.args) : isConstant(prog, v)
      THEN ReplaceBy(G, id, Folded(I)) ELSE G

ConstantFolding ==
  /\ pass = "fold"
  /\ LET G == Walked(fn, ValuesInOrder(fn), FoldAt) IN Finish(G, G # fn)

PoisonAt(G, id) ==
  IF /\ defines(G, id) /\ definition(G, id).op \in Movable \cup Loads
     /\ Poison \in Range(definition(G, id).args)
  THEN ReplaceBy(G, id, Poison) ELSE G

PoisonPropagation ==
  /\ pass = "poison"
  /\ LET G == Walked(fn, ValuesInOrder(fn), PoisonAt) IN Finish(G, G # fn)

-----------------------------------------------------------------------------
(* LoopTreeAnalysis.                                                       *)

\* The blocks of the loop closed by the edge from u to v.
LoopBlocks(G, u, v) ==
  LET reach[n \in 0 .. Len(G.layout)] ==
        IF n = 0 THEN {u}
        ELSE UNION {near \cup UNION {predecessors(G, x) \ {v} : x \in near \ {v}} :
                      near \in {reach[n - 1]}}
  IN  reach[Len(G.layout)] \cup {v}

LoopsOf(G, doms) ==
  {l \in {[header |-> v, latch |-> u, blocks |-> LoopBlocks(G, u, v)] :
            u \in BlocksOf(G), v \in BlocksOf(G)} :
     /\ l.header \in successors(G, l.latch) /\ l.header \in doms[l.latch]
     /\ \A x \in l.blocks : l.header \in doms[x]}

(* The ways the loops may be nested: loops are sorted by size, ties in any *)
(* order, and a loop's parent is the last one before it that contains some *)
(* block of it, the first of an unordered set. The depth of a block is that*)
(* of the loop with the block that findDepths comes to last.               *)
LoopNesting(loops) ==
  LET n == Cardinality(loops)
      sorted == {s \in [1 .. n -> loops] :
                   /\ IsInjective(s)
                   /\ \A i, j \in 1 .. n :
                        i < j => Cardinality(s[i].blocks) >= Cardinality(s[j].blocks)}
      around(s, i, c) == {j \in 1 .. (i - 1) : c \in s[j].blocks}
      parents(s) == [i \in 1 .. n |-> {Max({0} \cup around(s, i, c)) : c \in s[i].blocks}]
  IN  UNION {UNION {{[loop |-> s, parent |-> p] :
                       p \in {q \in [1 .. n -> 0 .. n] : \A i \in 1 .. n : q[i] \in choice[i]}} :
                      choice \in {parents(s)}} : s \in sorted}

\* The loops with their depths, in the order of findDepths.
Visits(nesting) ==
  LET n == Len(nesting.loop)
      walk[d \in 0 .. n, i \in 0 .. n] ==
        FoldLeft(LAMBDA seq, k : Append(seq, <<nesting.loop[k], d + 1>>) \o walk[d + 1, k],
                 <<>>, SelectSeq([k \in 1 .. n |-> k], LAMBDA k : nesting.parent[k] = i))
  IN  walk[0, 0]

LoopDepths(G, doms) ==
  LET depth(visits, c) ==
        LET in == {k \in DOMAIN visits : c \in visits[k][1].blocks}
        IN  IF in = {} THEN 0 ELSE visits[Max(in)][2]
      nestings == UNION {LoopNesting(loops) : loops \in {LoopsOf(G, doms)}}
  IN  {[c \in BlocksOf(G) |-> depth(visits, c)] : visits \in {Visits(x) : x \in nestings}}

-----------------------------------------------------------------------------
(* GlobalCodeMotion.                                                       *)

isPinned(I) == I.op \notin Movable /\ ~callsWith(prog, I, {"ReadNone"})

deepest(doms, S) == CHOOSE c \in S : S \subseteq doms[c]
lca(doms, S) ==
  LET common == {c \in DOMAIN doms : \A d \in S : c \in doms[d]} IN deepest(doms, common)

\* The block each value is computed in.
Placement(G) ==
  [id \in {I.id : I \in instructions(G)} \ {"none"} |->
     CHOOSE c \in BlocksOf(G) : \E I \in Range(G.code[c]) : I.id = id]

\* The first block in which the operands of each value are there.
ScheduleEarly(G, doms) ==
  LET ids == SelectSeq(ValuesInOrder(G), LAMBDA id : id # "none")
      place(blocks, id) ==
        LET I == definition(G, id)
            operands == Range(I.args) \cap DOMAIN blocks
        IN  IF isPinned(I) THEN blocks
            ELSE [blocks EXCEPT ![id] =
                    deepest(doms, {Entry(G)} \cup {blocks[v] : v \in operands})]
      placed[k \in 0 .. Len(ids)] ==
        IF k = 0 THEN Placement(G)
        ELSE The({place(blocks, ids[k]) : blocks \in {placed[k - 1]}})
  IN  placed[Len(ids)]

\* Where value id is used, when the values are in blocks.
UseBlocks(G, blocks, id) ==
  UNION {UNION {IF IsPhi(I) THEN {I.dests[k] : k \in {j \in DOMAIN I.args : I.args[j] = id}}
                ELSE IF id \notin Range(I.args) THEN {}
                ELSE IF isPinned(I) THEN {c} ELSE {blocks[I.id]} : I \in Range(G.code[c])} :
           c \in BlocksOf(G)}

\* Mutant: a value may go into a loop.
AnyDepth(allowed, depths) == allowed

Shallowest(allowed, depths) == {c \in allowed : \A d \in allowed : depths[c] <= depths[d]}

\* Up from there, the first block in the fewest loops.
ScheduleLate(G, doms, depths) ==
  LET ids == Reverse(SelectSeq(ValuesInOrder(G), LAMBDA id : id # "none"))
      place(blocks, id) ==
        LET uses == UseBlocks(G, blocks, id)
            last == IF uses = {} THEN Placement(G)[id] ELSE lca(doms, uses)
            allowed == {c \in doms[last] : blocks[id] \in doms[c]}
        IN  IF isPinned(definition(G, id)) THEN blocks
            ELSE [blocks EXCEPT ![id] = deepest(doms, Shallowest(allowed, depths))]
      placed[k \in 0 .. Len(ids)] ==
        IF k = 0 THEN ScheduleEarly(G, doms)
        ELSE The({place(blocks, ids[k]) : blocks \in {placed[k - 1]}})
  IN  placed[Len(ids)]

\* Behind the phis, and behind the operands of I that are in the block.
InsertInto(body, I) ==
  LET behind == {k \in DOMAIN body : body[k].id \in Range(I.args) \/ \A j \in 1 .. k : IsPhi(body[j])}
      k == Max({0} \cup behind)
  IN  SubSeq(body, 1, k) \o <<I>> \o SubSeq(body, k + 1, Len(body))

MoveTo(G, id, c) ==
  LET I == definition(G, id)
      H == KeepOnly(G, LAMBDA J : J.id # id)
  IN  IF \E J \in Range(G.code[c]) : J.id = id THEN G
      ELSE [H EXCEPT !.code[c] = InsertInto(@, I)]

\* The values move one by one, as the blocks are laid out.
Moved(G, blocks) ==
  LET ids == SelectSeq(FoldLeft(LAMBDA seq, c : seq \o [k \in DOMAIN G.code[c] |-> G.code[c][k].id],
                                <<>>, G.layout),
                       LAMBDA id : id # "none")
  IN  Walked(G, ids, LAMBDA H, id : MoveTo(H, id, blocks[id]))

GlobalCodeMotion ==
  /\ pass = "motion"
  /\ \E doms \in {Dominators(fn)} : \E depths \in LoopDepths(fn, doms) :
       LET G == Moved(fn, ScheduleLate(fn, doms, depths)) IN Finish(G, G # fn)

-----------------------------------------------------------------------------
(* GlobalValueNumbering: a value is replaced by an equal one that dominates*)
(* it. Operands that are equal have been made the same before.             *)

sameNumber(I, J) ==
  /\ I.op = J.op /\ I.args = J.args
  /\ I.op \in {"not", "sext", "add", "mul"} \/ callsWith(prog, I, {"ReadNone"})

Numbered(G, doms, ids) ==
  LET at2(H, id) == CHOOSE c \in BlocksOf(H) : \E I \in Range(H.code[c]) : I.id = id
      position(H, c, id) == CHOOSE k \in DOMAIN H.code[c] : H.code[c][k].id = id
      above(H, id) ==
        LET c == at2(H, id)
        IN  UNION {{H.code[d][k] : k \in 1 .. (IF d = c THEN position(H, c, id) - 1 ELSE Len(H.code[d]))} :
                     d \in doms[c]}
      number(H, id) ==
        LET equal == {J \in above(H, id) : sameNumber(J, definition(H, id))}
        IN  IF id = "none" \/ equal = {} THEN H ELSE ReplaceBy(H, id, The(equal).id)
  IN  Walked(G, ids, number)

GlobalValueNumbering ==
  /\ pass = "number"
  /\ LET G == Numbered(fn, Dominators(fn), ValuesInOrder(fn)) IN Finish(G, G # fn)

MotionPassesNext ==
  \/ InstructionCombining
  \/ AlgebraicSimplification
  \/ ConstantFolding
  \/ PoisonPropagation
  \/ GlobalCodeMotion
  \/ GlobalValueNumbering
=============================================================================
