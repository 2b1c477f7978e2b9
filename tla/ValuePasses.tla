----------------------------- MODULE ValuePasses -----------------------------
(***************************************************************************)
(* The passes of ir::PassManager::run that rewrite integer values, on code *)
(* without branches, in their order and inside its do-while loop:          *)
(* DeadCodeElimination, InstructionCombining, AlgebraicSimplification,     *)
(* ConstantFolding, PoisonPropagation, GlobalValueNumbering and            *)
(* StrengthReduction (lib/opt/ir/passes/). One action is one instruction   *)
(* visited by the walk of a pass over the block.                           *)
(***************************************************************************)
EXTENDS StrengthReduction

CONSTANTS
  Programs,    \* the programs the passes are run on: [params, body]
  Inputs(_)    \* the arguments of w bits the program is run with

IsConst(v) == v.is = "const"
IsPoison(v) == v.is = "poison"
IsConstant(v) == IsConst(v) \/ IsPoison(v)

-----------------------------------------------------------------------------
(* Well-formed code, as Function::isWellFormed and those of the            *)
(* instructions have it: operands have the types of the operation, and what*)
(* they name is an argument or has been computed before.                   *)

Operands == [is : {"const", "poison", "value"}, n : Nat]
Ops == Arithmetic \cup Relations \cup Casts \cup {"select", "ret"}
Instructions ==
  [op : Ops, id : Nat, from : Widths, width : Widths \cup {0}, args : Seq(Operands)]

operandWidths(J) ==
  CASE J.op \in Arithmetic        -> <<J.width, J.width>>
    [] J.op \in Relations         -> <<J.from, J.from>>
    [] J.op \in Casts \cup {"ret"} -> <<J.from>>
    [] J.op = "select"            -> <<1, J.width, J.width>>

hasResultType(J) ==
  CASE J.op \in Arithmetic \cup {"select"} -> J.width = J.from
    [] J.op \in Relations                 -> J.width = 1
    [] J.op \in {"zext", "sext"}          -> J.width > J.from
    [] J.op = "trunc"                     -> 0 < J.width /\ J.width < J.from
    [] J.op = "ret"                       -> J.width = 0

\* In front of the k-th instruction v is a value of w bits.
isOfWidth(P, code, k, v, w) ==
  \/ IsConst(v) /\ v.n < Size(w)
  \/ IsPoison(v)
  \/ v.is = "value" /\ v.n \in DOMAIN P /\ P[v.n] = w
  \/ \E j \in 1 .. (k - 1) : v = Val(code[j].id) /\ code[j].width = w

fits(P, code, k) ==
  LET J == code[k]
  IN  /\ hasResultType(J)
      /\ Len(J.args) = Len(operandWidths(J))
      /\ \A i \in DOMAIN J.args : isOfWidth(P, code, k, J.args[i], operandWidths(J)[i])

isWellFormed(P, code) ==
  /\ P \in Seq(Widths) /\ code \in Seq(Instructions) /\ code # <<>>
  /\ \A k \in DOMAIN code :
       /\ code[k].op = "ret" <=> k = Len(code)
       /\ code[k].id > Len(P)
       /\ \A j \in DOMAIN code : code[j].id = code[k].id => j = k
       /\ fits(P, code, k)

ASSUME ProgramsAssumption == \A p \in Programs : isWellFormed(p.params, p.body)

-----------------------------------------------------------------------------
VARIABLES
  params,    \* widths of the arguments; argument k has id k
  body,      \* the instructions; the last one returns a value
  pass,      \* the pass that is running, or "done"
  at,        \* the instruction the walk is at; 0 before it starts
  swept,     \* has this walk changed the function?
  changed    \* has any pass, in this round of the pass manager?

vars == <<params, body, pass, at, swept, changed>>

Init ==
  /\ \E p \in Programs : params = p.params /\ body = p.body
  /\ pass = "dce" /\ at = 0 /\ swept = FALSE /\ changed = FALSE

NextPass ==
  [dce |-> "combine", combine |-> "simplify", simplify |-> "fold", fold |-> "poison",
   poison |-> "number", number |-> "reduce"]

Walks == {"combine", "simplify", "fold", "poison", "number", "reduce"}
Visiting(p) == pass = p /\ at \in 1 .. Len(body)
I == body[at]

-----------------------------------------------------------------------------
(* What a visit does to the code.                                          *)

\* Value::replaceAllUsesWith.
ReplaceUses(code, id, v) ==
  [k \in DOMAIN code |-> [code[k] EXCEPT !.args = [j \in DOMAIN @ |->
     IF @[j] = Val(id) THEN v ELSE @[j]]]]

freshId == Max({Len(params)} \cup {J.id : J \in Range(body)})

\* The new instructions, with ids, as they are inserted.
Inserted(new) ==
  [k \in DOMAIN new |-> [new[k] EXCEPT !.id = freshId + k,
     !.args = [j \in DOMAIN @ |-> IF @[j].is = "new" THEN Val(freshId + @[j].n) ELSE @[j]]]]

\* The walk goes on to the next instruction.
Keep == at' = at + 1 /\ UNCHANGED <<params, body, pass, swept, changed>>

\* I is replaced by the value v and removed.
ReplaceBy(v) ==
  /\ body' = RemoveAt(ReplaceUses(body, I.id, v), at)
  /\ swept' = TRUE /\ UNCHANGED <<params, pass, at, changed>>

\* The instructions new are put in front of I, the last one replaces it.
Expand(new) ==
  /\ body' = LET code == ReplaceUses(body, I.id, Val(freshId + Len(new)))
             IN  SubSeq(code, 1, at - 1) \o Inserted(new) \o SubSeq(code, at + 1, Len(code))
  /\ at' = at + Len(new)
  /\ swept' = TRUE /\ UNCHANGED <<params, pass, changed>>

\* The pass returns code: go to the next one, or round the loop, or stop.
Finish(code, did) ==
  /\ body' = code /\ at' = 0 /\ swept' = FALSE
  /\ IF pass \in DOMAIN NextPass
     THEN pass' = NextPass[pass] /\ changed' = (changed \/ did)
     ELSE pass' = (IF changed \/ did THEN "dce" ELSE "done") /\ changed' = FALSE
  /\ UNCHANGED params

\* The walk begins, on the code a first loop over the instructions has made.
Begin(p, code) ==
  /\ pass = p /\ at = 0
  /\ body' = code /\ at' = 1 /\ swept' = (swept \/ code # body)
  /\ UNCHANGED <<params, pass, changed>>

\* A constant on the left of a commutative operation, and on the left only, goes to
\* the right.
Canonical(J, isConstant(_)) ==
  IF J.op \in Commutative /\ isConstant(J.args[1]) /\ ~isConstant(J.args[2])
  THEN [J EXCEPT !.args = <<J.args[2], J.args[1]>>] ELSE J

FoldArith(op, w, x, y) ==
  LET bits(v) == IF IsPoison(v) THEN PoisonBits ELSE v.n
      z == FoldOp(op, w, w, <<bits(x), bits(y)>>)
  IN  IF z = PoisonBits THEN PoisonValue(I.id) ELSE Const(w, z)

-----------------------------------------------------------------------------
(* DeadCodeElimination: what the returned value does not need is removed.  *)

\* The elements of the sequence s that are in S.
Kept(s, S) ==
  LET kept[k \in 0 .. Len(s)] ==
        IF k = 0 THEN <<>>
        ELSE IF s[k] \in S THEN Append(kept[k - 1], s[k]) ELSE kept[k - 1]
  IN  kept[Len(s)]

used(J) == {v.n : v \in {u \in Range(J.args) : u.is = "value"}}

Needed ==
  LET needed[k \in 0 .. Len(body)] ==
        IF k = 0 THEN used(Last(body))
        ELSE UNION {near \cup (UNION {used(J) : J \in {K \in Range(body) : K.id \in near}}) :
                      near \in {needed[k - 1]}}
  IN  needed[Len(body)]

DeadCodeElimination ==
  /\ pass = "dce"
  /\ LET code == Kept(body, {J \in Range(body) : J.op = "ret" \/ J.id \in Needed})
     IN  Finish(code, code # body)

-----------------------------------------------------------------------------
(* InstructionCombining.                                                   *)

\* The first loop turns a subtraction of a constant into an addition, too. The
\* addition is a new instruction; here it takes over the id.
AddInstead(J) ==
  IF J.op = "sub" /\ IsConstant(J.args[2])
  THEN [J EXCEPT !.op = "add",
          !.args = <<@[1], IF IsPoison(@[2]) THEN PoisonValue(J.id)
                           ELSE Const(J.width, -@[2].n)>>]
  ELSE J

StartCombine ==
  Begin("combine", [k \in DOMAIN body |-> AddInstead(Canonical(body[k], IsConstant))])

definition(v) == CHOOSE J \in Range(body) : v = Val(J.id)
isDefined(v) == \E J \in Range(body) : v = Val(J.id)
addsConstant(v, op) ==
  isDefined(v) /\ definition(v).op = op /\ IsConstant(definition(v).args[2])

\* The base and the constant of a chain of operations op by constants.
chain(op, w, x, c) ==
  LET longer(link) ==
        IF addsConstant(link[1], op)
        THEN LET J == definition(link[1])
             IN  <<J.args[1], FoldArith(op, w, link[2], J.args[2])>>
        ELSE link
      links[k \in 0 .. Len(body)] ==
        IF k = 0 THEN <<x, c>>
        ELSE CHOOSE l \in {longer(link) : link \in {links[k - 1]}} : TRUE
  IN  links[Len(body)]

Combine ==
  /\ Visiting("combine") /\ I.op \in {"add", "mul"} /\ IsConstant(I.args[2])
  /\ LET ends == chain(I.op, I.width, I.args[1], I.args[2])
     IN  IF ends[1] # I.args[1] THEN Expand(<<Arith(I.op, I.width, ends[1], ends[2])>>)
                                ELSE Keep

CombineNothing ==
  /\ Visiting("combine") /\ ~(I.op \in {"add", "mul"} /\ IsConstant(I.args[2]))
  /\ Keep

-----------------------------------------------------------------------------
(* AlgebraicSimplification.                                                *)

StartSimplify == Begin("simplify", [k \in DOMAIN body |-> Canonical(body[k], IsConst)])

\* The constant is compared with its sign: true is -1 for I1.
isUnchanged(op, w, c) ==
  \/ c = 0 /\ op \in {"add", "sub", "or", "xor"} \cup Shifts
  \/ c = 1 /\ w > 1 /\ op \in {"mul", "sdiv", "udiv"}
  \/ c = Size(w) - 1 /\ op = "and"

isZero(op, w, c) ==
  \/ c = 0 /\ op \in {"mul", "and"}
  \/ c = 1 /\ w > 1 /\ op \in {"srem", "urem"}

isPoison(op, w, c) ==
  \/ c = 0 /\ op \in Divisions
  \/ SignedValue(w, c) >= w /\ op \in Shifts

ByConstant == I.op \in Arithmetic /\ ~IsConst(I.args[1]) /\ IsConst(I.args[2])

SimplifyByConstant ==
  /\ Visiting("simplify") /\ ByConstant
  /\ LET w == I.width
         c == I.args[2].n
     IN  IF isUnchanged(I.op, w, c) THEN ReplaceBy(I.args[1])
         ELSE IF isZero(I.op, w, c) THEN ReplaceBy(Const(w, 0))
         ELSE IF isPoison(I.op, w, c) THEN ReplaceBy(PoisonValue(I.id))
         ELSE Keep

OnItself == I.op \in Arithmetic /\ ~IsConst(I.args[1]) /\ I.args[1] = I.args[2]

SimplifyOnItself ==
  /\ Visiting("simplify") /\ OnItself
  /\ \/ I.op = "add" /\ Expand(<<ByConst("mul", I.width, I.args[1], 2)>>)
     \/ I.op \in {"and", "or"} /\ ReplaceBy(I.args[1])
     \/ I.op \in {"sub", "srem", "urem", "xor"} /\ ReplaceBy(Const(I.width, 0))
     \/ I.op \in {"sdiv", "udiv"} /\ ReplaceBy(Const(I.width, 1))
     \/ I.op \in {"mul"} \cup Shifts /\ Keep

SimplifyCompare ==
  /\ Visiting("simplify") /\ I.op \in Relations /\ I.args[1] = I.args[2]
  /\ ReplaceBy(Const(1, IF I.op \in {"eq", "sle", "sge", "ule", "uge"} THEN 1 ELSE 0))

SimplifySelect ==
  /\ Visiting("simplify") /\ I.op = "select"
  /\ ~IsConst(I.args[2]) /\ I.args[2] = I.args[3]
  /\ ReplaceBy(I.args[2])

SimplifyNothing ==
  /\ Visiting("simplify") /\ ~ByConstant /\ ~OnItself
  /\ ~(I.op \in Relations /\ I.args[1] = I.args[2])
  /\ ~(I.op = "select" /\ ~IsConst(I.args[2]) /\ I.args[2] = I.args[3])
  /\ Keep

-----------------------------------------------------------------------------
(* ConstantFolding and PoisonPropagation.                                  *)

StartFold == Begin("fold", body)

isFoldable(J) == J.op # "ret" /\ \A v \in Range(J.args) : IsConstant(v)

\* A select whose condition is constant returns one of its operands.
fold(J) ==
  LET bits(v) == IF IsPoison(v) THEN PoisonBits ELSE v.n
      z == FoldOp(J.op, J.from, J.width, [k \in DOMAIN J.args |-> bits(J.args[k])])
  IN  CASE J.op = "select" /\ IsConst(J.args[1]) ->
             IF J.args[1].n = 1 THEN J.args[2] ELSE J.args[3]
        [] ~(J.op = "select" /\ IsConst(J.args[1])) ->
             IF z = PoisonBits THEN PoisonValue(J.id) ELSE Const(J.width, z)

Fold == Visiting("fold") /\ isFoldable(I) /\ ReplaceBy(fold(I))
FoldNothing == Visiting("fold") /\ ~isFoldable(I) /\ Keep

StartPoison == Begin("poison", body)

\* A select is poison with its condition only.
propagates(J) ==
  \/ J.op \in Arithmetic \cup Relations \cup Casts /\ \E v \in Range(J.args) : IsPoison(v)
  \/ J.op = "select" /\ IsPoison(J.args[1])

Propagate == Visiting("poison") /\ propagates(I) /\ ReplaceBy(PoisonValue(I.id))
PropagateNothing == Visiting("poison") /\ ~propagates(I) /\ Keep

-----------------------------------------------------------------------------
(* GlobalValueNumbering: an earlier instruction that computes the same.    *)

StartNumber == Begin("number", body)

\* operator==(ValueNumber, ValueNumber). Operands with the same number have been
\* made the same before.
sameNumber(J, K) ==
  /\ J.op = K.op /\ J.op # "ret"
  /\ J.from = K.from /\ J.width = K.width
  /\ J.args = K.args

Earlier == {k \in 1 .. (at - 1) : sameNumber(body[k], I)}

Number == Visiting("number") /\ \E k \in Earlier : ReplaceBy(Val(body[k].id))
NumberNothing == Visiting("number") /\ Earlier = {} /\ Keep

-----------------------------------------------------------------------------
(* StrengthReduction.                                                      *)

StartReduce == Begin("reduce", [k \in DOMAIN body |-> Canonical(body[k], IsConst)])

Reducible == I.op \in Arithmetic /\ IsConst(I.args[2])

Reduce ==
  /\ Visiting("reduce") /\ Reducible
  /\ IF Replacement(I) # <<>> THEN Expand(Replacement(I)) ELSE Keep

ReduceNothing == Visiting("reduce") /\ ~Reducible /\ Keep

\* Mutant: changed2 is not reset at the head of the do-while loop.
EndWalkStillChanged ==
  /\ pass \in Walks /\ at > Len(body)
  /\ IF pass = "reduce" /\ swept
     THEN /\ at' = 0 /\ changed' = TRUE
          /\ UNCHANGED <<params, body, pass, swept>>
     ELSE Finish(body, swept)

\* The walks end; that of StrengthReduction is repeated while it changes the code.
EndWalk ==
  /\ pass \in Walks /\ at > Len(body)
  /\ IF pass = "reduce" /\ swept
     THEN /\ at' = 0 /\ swept' = FALSE /\ changed' = TRUE
          /\ UNCHANGED <<params, body, pass>>
     ELSE Finish(body, swept)

Next ==
  \/ DeadCodeElimination
  \/ StartCombine \/ Combine \/ CombineNothing
  \/ StartSimplify \/ SimplifyByConstant \/ SimplifyOnItself \/ SimplifyCompare
  \/ SimplifySelect \/ SimplifyNothing
  \/ StartFold \/ Fold \/ FoldNothing
  \/ StartPoison \/ Propagate \/ PropagateNothing
  \/ StartNumber \/ Number \/ NumberNothing
  \/ StartReduce \/ Reduce \/ ReduceNothing
  \/ EndWalk

Spec == Init /\ [][Next]_vars /\ WF_vars(Next)

-----------------------------------------------------------------------------
(* What a program computes.                                                *)

ValueIn(env, v) ==
  CASE v.is = "const" -> v.n [] v.is = "poison" -> PoisonBits [] v.is = "value" -> env[v.n]

\* The value the code returns for the arguments given.
Result(code, given) ==
  LET step(env, J) ==
        IF J.op = "ret" THEN env
        ELSE (J.id :> FoldOp(J.op, J.from, J.width,
                             [k \in DOMAIN J.args |-> ValueIn(env, J.args[k])])) @@ env
  IN  ValueIn(FoldLeft(step, given, code), Last(code).args[1])

Arguments == {given \in [DOMAIN params -> UNION {Inputs(w) : w \in Range(params)}] :
                \A k \in DOMAIN params : given[k] \in Inputs(params[k])}

(* No rewriting changes what the program returns, for any argument: a      *)
(* result that was a number stays that number. (A result that was poison   *)
(* may become anything.)                                                   *)
RewritesRefine ==
  [][body' # body => \A given \in Arguments :
       LET old == Result(body, given)
       IN  old # PoisonBits => Result(body', given) = old]_vars

(* The passes undo nothing another pass of the round does again: the loop  *)
(* of the pass manager comes to an end.                                    *)
ValuePassesEnd == <>(pass = "done")

(* When it does, no instruction is left that the folds and the replacements*)
(* could do without: nothing has only constant operands, and no division or*)
(* remainder by a constant is left in the types they are replaced in. (Of  *)
(* I64 only some are replaced; in I1 a division by true is left, which is  *)
(* compared with 1 as the number -1.)                                      *)
DivisionsReplaced ==
  pass = "done" => \A J \in Range(body) :
    /\ ~isFoldable(J)
    /\ J.op \in Divisions /\ J.width \notin {1, Int64} => ~IsConst(J.args[2])
=============================================================================
