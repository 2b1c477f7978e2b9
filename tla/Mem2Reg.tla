------------------------------ MODULE Mem2Reg ------------------------------
(***************************************************************************)
(* Mem2Reg::runOnFunction (lib/opt/ir/passes/Mem2Reg.cpp), the first pass  *)
(* of the pass manager: variables in memory become values, with phis where *)
(* definitions meet. The dominator tree it uses is built by the actions of *)
(* DominatorTree. Iteration over an unordered set is a nondeterministic    *)
(* choice.                                                                 *)
(***************************************************************************)
EXTENDS DominatorTree

CONSTANT Funcs   \* the functions the pass is run on

ASSUME FuncsAssumption == \A G \in Funcs : IsFunction(G) /\ isWellFormed(G)

VARIABLES
  original,   \* the function the pass was given
  stage,      \* the part of the pass that is running
  vars,       \* the allocas that are promoted
  left,       \* those whose phis have not been placed
  DF,         \* block -> its dominance frontier
  phis,       \* phi -> the alloca it stands for
  calls       \* calls of Rename::dfs, innermost first: block, index of the next
              \* instruction, defs_, children left

m2rVars == <<original, stage, vars, left, DF, phis, calls>>

MRInit ==
  /\ original \in Funcs /\ fn = original
  /\ stage = "start"
  /\ vars = {} /\ left = {} /\ DF = <<>> /\ phis = <<>> /\ calls = <<>>
  /\ DTInit

-----------------------------------------------------------------------------
IsLoadOf(I, S) == I.op = "load" /\ I.args[1] \in S
IsStoreTo(I, S) == I.op = "store" /\ I.args[2] \in S

instructions(G) == UNION {Range(G.code[b]) : b \in BlocksOf(G)}

\* Only loaded and stored, as a whole and as what it was declared to be.
isPromotable(G, v) ==
  \A I \in instructions(G) : v \in Range(I.args) =>
    \/ IsLoadOf(I, {v})
    \/ IsStoreTo(I, {v}) /\ I.args[1] # v

FindVars ==
  /\ stage = "start"
  /\ LET G == WithoutUnreachable(fn)
     IN  /\ fn' = G
         /\ vars' = {v \in {I.id : I \in {J \in instructions(G) : J.op = "alloca"}} :
                       isPromotable(G, v)}
  /\ stage' = IF vars' = {} THEN "done" ELSE "dominators"
  /\ UNCHANGED <<original, left, DF, phis, calls, dtVars>>

Analyse == stage = "dominators" /\ DTNext /\ UNCHANGED <<fn, m2rVars>>

-----------------------------------------------------------------------------
(* Phis.                                                                   *)

\* Y is in the frontier of the blocks from X up the tree to, and without, the
\* first that dominates Y and is not Y.
climb(X, Y) ==
  LET stops(Z) == treeDominates(Z, Y) /\ Z # Y
  IN  {Z \in BlocksOf(fn) : treeDominates(Z, X) /\
         \A W \in BlocksOf(fn) : treeDominates(Z, W) /\ treeDominates(W, X) => ~stops(W)}

ComputeFrontiers ==
  /\ stage = "dominators" /\ dtStep = "done"
  /\ DF' = [Z \in BlocksOf(fn) |->
              {Y \in BlocksOf(fn) : \E X \in predecessors(fn, Y) : Z \in climb(X, Y)}]
  /\ left' = vars
  /\ stage' = "phis"
  /\ UNCHANGED <<fn, original, vars, phis, calls, dtVars>>

PhiId(v, b) == v \o " in " \o b
Phi(v, b) == [op |-> "phi", id |-> PhiId(v, b), args |-> <<>>, dests |-> <<>>]

\* The phis are new objects: none has the name of a value of the function.
ASSUME NamesAssumption ==
  \A G \in Funcs :
    LET ids == {I.id : I \in instructions(G)}
        values == ids \cup {Poison} \cup UNION {Range(I.args) : I \in instructions(G)}
    IN  /\ Poison \notin ids
        /\ \A v \in ids, b \in BlocksOf(G) :
             /\ PhiId(v, b) \notin values
             /\ \A u \in ids, c \in BlocksOf(G) : PhiId(u, c) = PhiId(v, b) => u = v /\ c = b

\* Mutant: a phi is not a definition that needs phis in turn.
joinsOnce(v) ==
  UNION {DF[b] : b \in {c \in BlocksOf(fn) : \E I \in Range(fn.code[c]) : IsStoreTo(I, {v})}}

\* The blocks where definitions of v meet: the frontiers of the blocks that
\* store to v, and of the blocks that get a phi for it.
joins(v) ==
  LET stores == {c \in BlocksOf(fn) : \E I \in Range(fn.code[c]) : IsStoreTo(I, {v})}
  IN  Closure(UNION {DF[b] : b \in stores}, DF, Cardinality(BlocksOf(fn)))

PlacePhis ==
  /\ stage = "phis"
  /\ \E v \in left :
       /\ fn' = [fn EXCEPT !.code = [b \in BlocksOf(fn) |->
                   IF b \in joins(v) THEN <<Phi(v, b)>> \o @[b] ELSE @[b]]]
       /\ phis' = [id \in DOMAIN phis \cup {PhiId(v, b) : b \in joins(v)} |->
                     IF id \in DOMAIN phis THEN phis[id] ELSE v]
       /\ left' = left \ {v}
  /\ UNCHANGED <<original, stage, vars, DF, calls, dtVars>>

-----------------------------------------------------------------------------
(* Rename.                                                                 *)

ReplaceUses(G, id, value) ==
  [G EXCEPT !.code = [b \in BlocksOf(G) |-> [k \in DOMAIN G.code[b] |->
     [G.code[b][k] EXCEPT !.args = [j \in DOMAIN @ |-> IF @[j] = id THEN value ELSE @[j]]]]]]

\* A call of dfs(node) for block b, which finds the definitions defs.
RenameCall(b, defs) == [block |-> b, next |-> 1, defs |-> defs, left |-> children(b)]
Running == Head(calls)

\* A phi that the pass has put there.
isPlaced(I) == IsPhi(I) /\ I.id \in DOMAIN phis

Update(call) == calls' = <<call>> \o Tail(calls)

\* A variable without a definition (nullptr) is poison.
RenameEntry ==
  /\ stage = "phis" /\ left = {}
  /\ stage' = "rename"
  /\ calls' = <<RenameCall(Entry(fn), [v \in vars |-> Poison])>>
  /\ UNCHANGED <<fn, original, vars, left, DF, phis, dtVars>>

RenameInstruction ==
  /\ stage = "rename" /\ calls # <<>> /\ Running.next <= Len(fn.code[Running.block])
  /\ LET I == fn.code[Running.block][Running.next]
         go == [Running EXCEPT !.next = @ + 1]
     IN  \/ /\ isPlaced(I)
            /\ Update([go EXCEPT !.defs[phis[I.id]] = I.id])
            /\ UNCHANGED fn
         \/ /\ IsStoreTo(I, vars)
            /\ Update([go EXCEPT !.defs[I.args[2]] = I.args[1]])
            /\ UNCHANGED fn
         \/ /\ IsLoadOf(I, vars)
            /\ fn' = ReplaceUses(fn, I.id, Running.defs[I.args[1]])
            /\ Update(go)
         \/ /\ ~isPlaced(I) /\ ~IsStoreTo(I, vars) /\ ~IsLoadOf(I, vars)
            /\ Update(go)
            /\ UNCHANGED fn
  /\ UNCHANGED <<original, stage, vars, left, DF, phis, dtVars>>

\* The phis of b's successors receive what is defined at the end of b.
FillPhis(b, defs) ==
  [fn EXCEPT !.code = [c \in BlocksOf(fn) |-> [k \in DOMAIN @[c] |->
     IF c \in successors(fn, b) /\ isPlaced(@[c][k])
     THEN addIncoming(@[c][k], b, defs[phis[@[c][k].id]]) ELSE @[c][k]]]]

EndBlock ==
  /\ stage = "rename" /\ calls # <<>> /\ Running.next = Len(fn.code[Running.block]) + 1
  /\ fn' = FillPhis(Running.block, Running.defs)
  /\ Update([Running EXCEPT !.next = @ + 1])
  /\ UNCHANGED <<original, stage, vars, left, DF, phis, dtVars>>

Recursing == stage = "rename" /\ calls # <<>> /\ Running.next > Len(fn.code[Running.block]) + 1

RenameChild ==
  /\ Recursing /\ Running.left # {}
  /\ LET b == nextChild(Running.left)
     IN  calls' = <<RenameCall(b, Running.defs), [Running EXCEPT !.left = @ \ {b}]>> \o Tail(calls)
  /\ UNCHANGED <<fn, original, stage, vars, left, DF, phis, dtVars>>

\* Mutant: what the call has defined is not forgotten when it returns.
LeaveBlockLeak ==
  /\ Recursing /\ Running.left = {}
  /\ calls' = [n \in DOMAIN Tail(calls) |-> [calls[n + 1] EXCEPT !.defs = Running.defs]]
  /\ UNCHANGED <<fn, original, stage, vars, left, DF, phis, dtVars>>

\* defs_ = oldDefs: the caller goes on with its own definitions.
LeaveBlock ==
  /\ Recursing /\ Running.left = {}
  /\ calls' = Tail(calls)
  /\ UNCHANGED <<fn, original, stage, vars, left, DF, phis, dtVars>>

RemoveVars ==
  /\ stage = "rename" /\ calls = <<>>
  /\ fn' = [fn EXCEPT !.code = [b \in BlocksOf(fn) |-> Kept(@[b],
              {I \in Range(@[b]) : /\ ~IsStoreTo(I, vars) /\ ~IsLoadOf(I, vars)
                                  /\ ~(I.op = "alloca" /\ I.id \in vars)})]]
  /\ stage' = "done"
  /\ UNCHANGED <<original, vars, left, DF, phis, calls, dtVars>>

MRNext ==
  \/ FindVars \/ Analyse
  \/ ComputeFrontiers \/ PlacePhis
  \/ RenameEntry \/ RenameInstruction \/ EndBlock \/ RenameChild \/ LeaveBlock
  \/ RemoveVars

MRSpec == MRInit /\ [][MRNext]_<<fn, m2rVars, dtVars>> /\ WF_<<fn, m2rVars, dtVars>>(MRNext)
-----------------------------------------------------------------------------
(* The type invariant: blocks are laid out once, frontiers are sets of     *)
(* blocks, every call of dfs knows a definition of each variable.          *)
MRTypeOK ==
  /\ stage \in {"start", "dominators", "phis", "rename", "done"}
  /\ dtStep \in {"number", "semi", "bucket", "resolve", "tree", "done"}
  /\ IsInjective(fn.layout) /\ Range(fn.layout) = BlocksOf(fn)
  /\ \A I \in instructions(fn) : I.op \in Ops /\ Range(I.dests) \subseteq BlocksOf(fn)
  /\ left \subseteq vars /\ \A id \in DOMAIN phis : phis[id] \in vars
  /\ \A b \in DOMAIN DF : DF[b] \subseteq BlocksOf(fn)
  /\ \A n \in DOMAIN calls : DOMAIN calls[n].defs = vars
  /\ \A n \in DOMAIN path : path[n].block \in BlocksOf(fn)

(* assert(F.isWellFormed()) at the end of the pass: every phi has got one  *)
(* value from each predecessor, and every value dominates its uses.        *)
PromotedWellFormed == stage = "done" => isWellFormed(fn)

Steps == 8

(* The pass preserves what the function does, on every path: a load gives  *)
(* what the last store before it stored.                                   *)
PromotionPreserves ==
  stage = "done" =>
    \A arg \in Constants :
      LET old == Behaviour(original, arg, Steps)
          new == Behaviour(fn, arg, Steps)
      IN  /\ new.calls = old.calls
          /\ new.returned = old.returned /\ new.undefined = old.undefined

(* The pass ends: so do the searches, the climb to a dominator and the     *)
(* growing set of blocks with phis.                                        *)
PromotionEnds == <>(stage = "done")
=============================================================================
