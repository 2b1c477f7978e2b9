----------------------------- MODULE IrFunction -----------------------------
(***************************************************************************)
(* Functions of the SSA intermediate representation (include/mini-llvm/ir/,*)
(* lib/ir/): blocks of instructions, phis with one incoming value per      *)
(* predecessor, and Function::isWellFormed, which every pass asserts of    *)
(* the function it leaves behind. Instructions are reduced to what the     *)
(* passes distinguish: phi, a pure operation ("not"), an operation with an *)
(* effect ("call"), alloca, load and store, a load of another type than    *)
(* the one in memory ("peek"), and the terminators br, condbr, ret.        *)
(***************************************************************************)
EXTENDS Naturals, Sequences, FiniteSets, SequencesExt, TLC

(***************************************************************************)
(* An instruction is [op, id, args, dests]. args are value operands: the   *)
(* constants "true" and "false", a poison value, the argument "arg", or    *)
(* the id of the instruction that computes the value; those of a store are *)
(* the value and the pointer. dests are the block operands: the targets of *)
(* a terminator, the incoming blocks of a phi (args[k] comes from          *)
(* dests[k]).                                                              *)
(***************************************************************************)
Constants == {"true", "false"}
Poison == "poison"
Terminators == {"br", "condbr", "ret"}
Pure == {"phi", "not", "alloca", "load", "peek"}

Br(dest) == [op |-> "br", id |-> "none", args |-> <<>>, dests |-> <<dest>>]

BlocksOf(G) == DOMAIN G.code
Entry(G) == G.layout[1]
Terminator(G, b) == Last(G.code[b])
successors(G, b) == Range(Terminator(G, b).dests)
predecessors(G, b) ==
  {c \in BlocksOf(G) : G.code[c] # <<>> /\ b \in successors(G, c)}

IsPhi(I) == I.op = "phi"
phisOf(G, b) == {I \in Range(G.code[b]) : IsPhi(I)}

\* Phi::findIncoming finds the first.
hasIncomingBlock(I, b) == b \in Range(I.dests)
incomingIndex(I, b) ==
  CHOOSE k \in DOMAIN I.dests :
    I.dests[k] = b /\ \A j \in 1 .. (k - 1) : I.dests[j] # b
getIncomingValue(I, b) == I.args[incomingIndex(I, b)]

addIncoming(I, b, v) == [I EXCEPT !.args = Append(@, v), !.dests = Append(@, b)]
removeIncomingBlock(I, b) ==
  IF ~hasIncomingBlock(I, b) THEN I
  ELSE LET k == incomingIndex(I, b)
       IN  [I EXCEPT !.args = RemoveAt(@, k), !.dests = RemoveAt(@, k)]

\* The least set that contains start and, with b, the set next[b]: n steps are
\* enough when no such set has more than n elements.
\* (near is bound by the comprehension, so that TLC computes it once.)
Closure(start, next, n) ==
  LET reach[k \in 0 .. n] ==
        IF k = 0 THEN start
        ELSE UNION {near \cup UNION {next[b] : b \in near} : near \in {reach[k - 1]}}
  IN  reach[n]

\* The blocks control can reach from the entry without entering avoided.
ReachableAvoiding(G, avoided) ==
  Closure({Entry(G)} \ avoided,
          [b \in BlocksOf(G) |-> successors(G, b) \ avoided], Len(G.layout))

Reachable(G) == ReachableAvoiding(G, {})
dominates(G, b, c) == c \notin ReachableAvoiding(G, {b})

\* Mutant: the block list keeps the blocks that are removed.
RemoveBlocksKeepLayout(G, S) == [G EXCEPT !.code = [c \in BlocksOf(G) \ S |-> G.code[c]]]

\* The elements of s that are in S, in their order.
Kept(s, S) ==
  LET kept[n \in 0 .. Len(s)] ==
        IF n = 0 THEN <<>>
        ELSE IF s[n] \in S THEN Append(kept[n - 1], s[n]) ELSE kept[n - 1]
  IN  kept[Len(s)]

RemoveBlocks(G, S) ==
  [G EXCEPT !.layout = Kept(@, BlocksOf(G) \ S),
            !.code = [c \in BlocksOf(G) \ S |-> G.code[c]]]

\* The incoming values of I from blocks of S.
RestrictIncoming(I, S) ==
  LET kept == Kept([k \in DOMAIN I.dests |-> k], {k \in DOMAIN I.dests : I.dests[k] \in S})
  IN  [I EXCEPT !.args = [j \in DOMAIN kept |-> I.args[kept[j]]],
                !.dests = [j \in DOMAIN kept |-> I.dests[kept[j]]]]

\* What UnreachableBlockElimination makes of G.
WithoutUnreachable(G) ==
  LET visited == Reachable(G)
      H == [G EXCEPT !.code = [c \in BlocksOf(G) |-> [k \in DOMAIN G.code[c] |->
              IF IsPhi(G.code[c][k]) THEN RestrictIncoming(G.code[c][k], visited)
                                     ELSE G.code[c][k]]]]
  IN  RemoveBlocks(H, BlocksOf(G) \ visited)

isUsed(G, id) ==
  \E b \in BlocksOf(G) : \E I \in Range(G.code[b]) : id \in Range(I.args)

-----------------------------------------------------------------------------
Ops == Terminators \cup Pure \cup {"call", "store"}

\* A function: its blocks are laid out once, the block operands of its
\* instructions are among them, every instruction has the operands of its class.
IsFunction(G) ==
  /\ G = [layout |-> G.layout, code |-> G.code]
  /\ G.layout \in Seq(BlocksOf(G)) /\ G.layout # <<>>
  /\ IsInjective(G.layout) /\ Range(G.layout) = BlocksOf(G)
  /\ \A b \in BlocksOf(G) :
       /\ G.code[b] \in Seq([op : Ops, id : STRING, args : Seq(STRING), dests : Seq(BlocksOf(G))])
       /\ \A I \in Range(G.code[b]) :
            /\ IsPhi(I) => Len(I.args) = Len(I.dests)
            /\ I.op = "load" => Len(I.args) = 1
            /\ I.op = "store" => Len(I.args) = 2
            /\ I.op \notin Terminators \cup {"phi"} => I.dests = <<>>

(* Function::isWellFormed, part by part.                                   *)

BlocksWellFormed(G) ==
  \A b \in BlocksOf(G) :
    /\ G.code[b] # <<>>
    /\ \A k \in DOMAIN G.code[b] :
         G.code[b][k].op \in Terminators <=> k = Len(G.code[b])

\* A phi has one incoming value from every predecessor and no other.
PhisMatchPredecessors(G) ==
  \A b \in BlocksOf(G) : \A I \in phisOf(G, b) :
    /\ IsInjective(I.dests)
    /\ Range(I.dests) = predecessors(G, b)

\* A reachable use of a value that is not a phi is dominated by it.
DefinitionsDominateUses(G) ==
  LET reachable == Reachable(G)
  IN  \A c \in reachable : \A j \in DOMAIN G.code[c] :
        ~IsPhi(G.code[c][j]) =>
          \A b \in BlocksOf(G) : \A i \in DOMAIN G.code[b] :
            G.code[b][i].id \in Range(G.code[c][j].args) =>
              /\ b \in reachable
              /\ IF b = c THEN i < j ELSE dominates(G, b, c)

\* What flows into a reachable phi from a reachable block is available there.
IncomingAvailable(G) ==
  LET reachable == Reachable(G)
  IN  \A c \in reachable : \A I \in phisOf(G, c) : \A k \in DOMAIN I.dests :
        I.dests[k] \in reachable =>
          \A b \in BlocksOf(G) :
            (\E J \in Range(G.code[b]) : J.id = I.args[k]) =>
              b \in reachable /\ dominates(G, b, I.dests[k])

AllocasInEntry(G) ==
  \A b \in BlocksOf(G) \ {Entry(G)} : \A I \in Range(G.code[b]) : I.op # "alloca"

isWellFormed(G) ==
  /\ BlocksWellFormed(G)
  /\ predecessors(G, Entry(G)) = {}
  /\ PhisMatchPredecessors(G)
  /\ DefinitionsDominateUses(G)
  /\ IncomingAvailable(G)
  /\ AllocasInEntry(G)

-----------------------------------------------------------------------------
(* What a function does: the calls it makes, with the values of their      *)
(* arguments and what is in memory where they point, when its argument is  *)
(* arg, in n blocks of execution. A branch on poison is undefined.         *)

ValueOf(env, v) == IF v \in Constants \cup {Poison} THEN v ELSE env[v]

Negation == [true |-> "false", false |-> "true", poison |-> Poison]

Observed(s, v) ==
  LET value == ValueOf(s.env, v)
  IN  <<value, IF value \in DOMAIN s.mem THEN s.mem[value] ELSE "none">>

\* The phis of a block read their values at once, on entry from block from.
EnterBlock(G, s, b) ==
  LET phis == {I \in phisOf(G, b) : hasIncomingBlock(I, s.block)}
  IN  [s EXCEPT !.block = b,
         !.env = [v \in {I.id : I \in phis} |->
           ValueOf(s.env, getIncomingValue(CHOOSE I \in phis : I.id = v, s.block))] @@ s.env]

Perform(G, s, I) ==
  LET value(k) == ValueOf(s.env, I.args[k])
      compute(v) == [s EXCEPT !.env = (I.id :> v) @@ @]
  IN  CASE s.undefined \/ I.op = "phi" -> s
        [] I.op = "not" -> compute(Negation[value(1)])
        [] I.op = "call" ->
             [s EXCEPT !.calls =
                Append(@, <<I.id, [k \in DOMAIN I.args |-> Observed(s, I.args[k])]>>)]
        [] I.op = "alloca" -> [compute(I.id) EXCEPT !.mem = (I.id :> Poison) @@ @]
        [] I.op = "load" -> compute(s.mem[value(1)])
        [] I.op = "peek" -> compute("bits of " \o s.mem[value(1)])
        [] I.op = "store" -> [s EXCEPT !.mem[value(2)] = value(1)]
        [] I.op = "ret" -> [s EXCEPT !.returned = TRUE]
        [] I.op = "br" -> EnterBlock(G, s, I.dests[1])
        [] I.op = "condbr" ->
             CASE value(1) = "true"  -> EnterBlock(G, s, I.dests[1])
               [] value(1) = "false" -> EnterBlock(G, s, I.dests[2])
               [] OTHER -> [s EXCEPT !.undefined = TRUE]

Behaviour(G, arg, n) ==
  LET start == [block |-> Entry(G), env |-> [v \in {"arg"} |-> arg], mem |-> <<>>,
                calls |-> <<>>, returned |-> FALSE, undefined |-> FALSE]
      run[k \in 0 .. n] ==
        IF k = 0 THEN start
        ELSE LET s == run[k - 1]
             IN  IF s.returned \/ s.undefined THEN s
                 ELSE FoldLeft(LAMBDA t, I : Perform(G, t, I), s, G.code[s.block])
  IN  run[n]
=============================================================================
