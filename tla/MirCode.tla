------------------------------ MODULE MirCode ------------------------------
(***************************************************************************)
(* Machine functions with their operations: what MirFunction abstracts to  *)
(* registers read and written, here with opcodes, immediates and memory    *)
(* operands, as far as the passes of lib/opt/mir tell them apart, and an   *)
(* interpreter of such functions. Only the 64-bit width of an operation is *)
(* modelled; addition stands for and, or and xor, whose cases are the same.*)
(***************************************************************************)
EXTENDS Integers, Sequences, FiniteSets, SequencesExt, FiniteSetsExt, Functions

CONSTANTS
  VirtRegs, PhysRegs,   \* registers, as in MirFunction
  zeroReg,              \* x0, which is neither
  Blocks,
  Word,                 \* registers hold the numbers from 0 to Word - 1
  ImmBits               \* immediates of instructions have ImmBits + 1 bits

ASSUME WordAssumption == Word \in Nat \ {0} /\ ImmBits \in Nat

Regs == VirtRegs \cup PhysRegs \cup {zeroReg}

Computing == {"li", "mov", "add", "sub", "mul", "shl", "addi", "shli"}
Jumps == {"br", "cmpbr", "ret"}

(***************************************************************************)
(* One instruction: imm is its immediate or the offset of its memory       *)
(* operand, whose base register is the last of srcs; dests are the targets *)
(* of a jump, that of a true condition before that of a false one.         *)
(***************************************************************************)
Instr ==
  [op : Computing \cup Jumps \cup {"load", "store", "call", "fakeuse"},
   dsts : Seq(Regs), srcs : Seq(Regs), imm : Int,
   implicitSrcs : SUBSET PhysRegs, implicitDsts : SUBSET PhysRegs,
   cond : {"none", "eq", "ne"}, dests : Seq(Blocks)]

use(I) == Range(I.srcs) \cup I.implicitSrcs
def(I) == Range(I.dsts) \cup I.implicitDsts
hasSideEffects(I) == I.op \notin Computing
HasMemOp(I) == I.op \in {"load", "store"}
BaseReg(I) == Last(I.srcs)

inverted == [eq |-> "ne", ne |-> "eq"]

Fits(imm) == imm \in -(2 ^ ImmBits) .. (2 ^ ImmBits - 1)

LoadImm(dst, v) ==
  [op |-> "li", dsts |-> <<dst>>, srcs |-> <<>>, imm |-> v, implicitSrcs |-> {},
   implicitDsts |-> {}, cond |-> "none", dests |-> <<>>]
OpI(op, dst, src, v) == [LoadImm(dst, v) EXCEPT !.op = op, !.srcs = <<src>>]

\* The instructions or lines of code at the positions of S.
Lines(code, S) ==
  LET at == SelectSeq([k \in 1 .. Len(code) |-> k], LAMBDA k : k \in S)
  IN  [k \in 1 .. Len(at) |-> code[at[k]]]

BlocksOf(G) == DOMAIN G.code
Entry(G) == G.layout[1]
Terminator(G, b) == Last(G.code[b])
successors(G, b) == Range(Terminator(G, b).dests)
predecessors(G, b) == {c \in BlocksOf(G) : b \in successors(G, c)}

\* Every block ends in its only jump, to blocks that are there; control
\* never comes back to the entry.
IsMachineFunction(G) ==
  /\ IsInjective(G.layout) /\ Range(G.layout) = BlocksOf(G) /\ G.layout # <<>>
  /\ \A b \in BlocksOf(G) :
       /\ G.code[b] # <<>> /\ Range(G.code[b]) \subseteq Instr
       /\ \A i \in DOMAIN G.code[b] : G.code[b][i].op \in Jumps <=> i = Len(G.code[b])
       /\ successors(G, b) \subseteq BlocksOf(G) \ {Entry(G)}

Reachable(G) ==
  FoldLeft(LAMBDA S, i : S \cup UNION {successors(G, b) : b \in S},
           {Entry(G)}, SetToSeq(BlocksOf(G)))

-----------------------------------------------------------------------------
(* Liveness, as LiveVariableAnalysis computes it (it is proved there that  *)
(* it is the least solution of these equations).                           *)

\* What the code s reads before writing it, and what it writes, from its
\* i-th instruction on.
ReadFrom(s, i) ==
  {r \in Regs : \E k \in i .. Len(s) :
     r \in use(s[k]) /\ \A j \in i .. (k - 1) : r \notin def(s[j])}
WrittenFrom(s, i) == UNION {def(s[j]) : j \in i .. Len(s)}

\* The blocks at whose start r is live.
LiveInBlocks(G, r) ==
  LET reading == {b \in BlocksOf(G) : r \in ReadFrom(G.code[b], 1)}
      through == {b \in BlocksOf(G) : r \notin WrittenFrom(G.code[b], 1)}
  IN  FoldLeft(LAMBDA S, i : S \cup {b \in through : successors(G, b) \cap S # {}},
               reading, G.layout)

LiveOut(G, b) == {r \in Regs : successors(G, b) \cap LiveInBlocks(G, r) # {}}

\* What is live after each instruction of block b.
LiveAfter(G, b) ==
  LET out == LiveOut(G, b)
  IN  [i \in DOMAIN G.code[b] |->
         ReadFrom(G.code[b], i + 1) \cup (out \ WrittenFrom(G.code[b], i + 1))]

-----------------------------------------------------------------------------
(* Execution. A state has the registers, the memory, the events so far and *)
(* where control goes: the name of a block, or "returned".                 *)

Compute(I, x) ==
  CASE I.op = "li"   -> I.imm
    [] I.op = "mov"  -> x[1]
    [] I.op = "add"  -> x[1] + x[2]
    [] I.op = "sub"  -> x[1] - x[2]
    [] I.op = "mul"  -> x[1] * x[2]
    [] I.op = "shl"  -> x[1] * 2 ^ (x[2] % 8)
    [] I.op = "addi" -> x[1] + I.imm
    [] I.op = "shli" -> x[1] * 2 ^ (I.imm % 8)

\* A call leaves in the registers it clobbers what depends on what came before.
Execute(s, I) ==
  LET x == [k \in DOMAIN I.srcs |-> s.regs[I.srcs[k]]]
      address == (Last(x) + I.imm) % Word
      set(v) == [s EXCEPT !.regs[I.dsts[1]] = v % Word]
      happened(e) == [s EXCEPT !.events = Append(@, e)]
      args == [r \in I.implicitSrcs |-> s.regs[r]]
  IN  CASE I.op \in Computing -> set(Compute(I, x))
        [] I.op = "load"  -> [set(s.mem[address]) EXCEPT !.events = Append(@, <<"load", address>>)]
        [] I.op = "store" -> [happened(<<"store", address, x[1]>>) EXCEPT !.mem[address] = x[1]]
        [] I.op = "call"  ->
             [happened(<<"call", args>>) EXCEPT !.regs =
                [r \in Regs |-> IF r \in I.implicitDsts THEN (3 * Len(s.events) + 5) % Word ELSE @[r]]]
        [] I.op = "fakeuse" -> s
        [] I.op = "br"    -> [s EXCEPT !.at = I.dests[1]]
        [] I.op = "cmpbr" ->
             [s EXCEPT !.at = I.dests[IF (x[1] = x[2]) = (I.cond = "eq") THEN 1 ELSE 2]]
        [] I.op = "ret"   -> [happened(<<"ret", args>>) EXCEPT !.at = "returned"]

\* The physical registers hold input at the start, memory any old numbers.
StartState(input, b) ==
  [regs |-> [r \in Regs |-> IF r \in PhysRegs THEN input[r] ELSE 0],
   mem |-> [a \in 0 .. Word - 1 |-> (7 * a + 3) % Word], events |-> <<>>, at |-> b]

RECURSIVE RunBlocks(_, _, _)
RunBlocks(G, s, n) ==
  IF n = 0 \/ s.at = "returned" THEN s
  ELSE RunBlocks(G, FoldLeft(Execute, s, G.code[s.at]), n - 1)

\* What G does in n blocks: the events, and whether it returned.
Behaviour(G, input, n) ==
  LET s == RunBlocks(G, StartState(input, Entry(G)), n)
  IN  [events |-> s.events, returned |-> s.at = "returned"]

\* d is what some code does that ought to do e: the same, or, if e is not
\* over in the bounded execution, the same as far as both go.
Agrees(d, e) ==
  IF e.returned THEN d = e
  ELSE IsPrefix(d.events, e.events) \/ IsPrefix(e.events, d.events)

-----------------------------------------------------------------------------
(***************************************************************************)
(* The printed code: RISCVMCGen's lines for the blocks of a function,      *)
(* RISCVFallthrough and RISCVUnusedLabelElimination on them, and how such  *)
(* lines are executed. A conditional branch is printed as a branch on the  *)
(* opposite condition to its false target and a jump to its true target.   *)
(***************************************************************************)
Line(op, target) == [LoadImm(zeroReg, 0) EXCEPT !.op = op, !.dests = <<target>>]

EmittedJump(I) ==
  IF I.op = "cmpbr"
  THEN <<[I EXCEPT !.op = "branch", !.cond = inverted[@], !.dests = <<@[2]>>],
         Line("j", I.dests[1])>>
  ELSE IF I.op = "br" THEN <<Line("j", I.dests[1])>> ELSE <<I>>

EmittedBlock(G, b) ==
  <<Line("label", b)>> \o Front(G.code[b]) \o EmittedJump(Last(G.code[b]))

Emitted(G) == FoldLeft(LAMBDA lines, b : lines \o EmittedBlock(G, b), <<>>, G.layout)

\* Mutant: drops every jump before a label.
FallthroughAnywhere(code) ==
  Lines(code, {i \in DOMAIN code :
    ~(code[i].op = "j" /\ i < Len(code) /\ code[i + 1].op = "label")})

Fallthrough(code) ==
  LET jumpsToNext(i) ==
        /\ code[i].op = "j" /\ i < Len(code)
        /\ code[i + 1] = Line("label", code[i].dests[1])
  IN  Lines(code, {i \in DOMAIN code : ~jumpsToNext(i)})

UnusedLabelElimination(code) ==
  LET used == UNION {Range(I.dests) : I \in {J \in Range(code) : J.op # "label"}}
  IN  SelectSeq(code, LAMBDA I : I.op = "label" => I.dests[1] \in used)

Optimised(code) == UnusedLabelElimination(Fallthrough(code))

-----------------------------------------------------------------------------
(* Execution of lines: s.at is the number of the next line.                *)

ExecuteLine(code, s) ==
  LET I == code[s.at]
      goTo(b) == CHOOSE k \in DOMAIN code : code[k] = Line("label", b)
      taken == (s.regs[I.srcs[1]] = s.regs[I.srcs[2]]) = (I.cond = "eq")
  IN  CASE I.op = "label"  -> [s EXCEPT !.at = @ + 1]
        [] I.op = "j"      -> [s EXCEPT !.at = goTo(I.dests[1])]
        [] I.op = "branch" -> [s EXCEPT !.at = IF taken THEN goTo(I.dests[1]) ELSE @ + 1]
        [] I.op = "ret"    -> [Execute([s EXCEPT !.at = "returned"], I) EXCEPT !.at = 0]
        [] OTHER           -> [Execute(s, I) EXCEPT !.at = @ + 1]

\* Past the last line control is lost.
RECURSIVE RunLines(_, _, _)
RunLines(code, s, n) ==
  CASE n = 0 \/ s.at = 0 -> s
    [] n > 0 /\ s.at > Len(code) -> [s EXCEPT !.events = Append(@, <<"lost">>)]
    [] OTHER -> RunLines(code, ExecuteLine(code, s), n - 1)

MachineBehaviour(code, input, n) ==
  LET s == RunLines(code, StartState(input, 1), n)
  IN  [events |-> s.events, returned |-> s.at = 0]
=============================================================================
