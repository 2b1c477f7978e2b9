--------------------------- MODULE MachineEmission ---------------------------
(***************************************************************************)
(* From machine IR to machine code: what RISCVBackendDriver does around the*)
(* register allocation, the stack frame (lib/mir/StackFrame.cpp),          *)
(* RISCVMCGen, and the RISC-V machine that runs the code, which is not part*)
(* of the program.                                                         *)
(***************************************************************************)
EXTENDS InstructionSelection

-----------------------------------------------------------------------------
(***************************************************************************)
(* The frame: its slots, and their offsets once something has asked for    *)
(* one. A new slot makes the offsets out of date.                          *)
(***************************************************************************)
NoOffsets == <<>>

RoundedUp(n, alignment) == ((n + alignment - 1) \div alignment) * alignment

computeOffsets(slots) ==
  FoldLeft(LAMBDA known, k :
             (slots[k].name :> RoundedUp(known[slots[k - 1].name] + slots[k - 1].size, slots[k].alignment))
               @@ known,
           slots[1].name :> 0, [k \in 1 .. (Len(slots) - 1) |-> k + 1])

Complete(f) == IF f.offsets = NoOffsets THEN [f EXCEPT !.offsets = computeOffsets(f.slots)] ELSE f

\* Mutant: the offsets computed so far stay.
AddSlotKeepOffsets(f, slot) ==
  [slots |-> Append(Front(f.slots), slot) \o <<Last(f.slots)>>, offsets |-> f.offsets]

\* A slot added in front of the last one.
AddSlot(f, slot) ==
  [slots |-> Append(Front(f.slots), slot) \o <<Last(f.slots)>>, offsets |-> NoOffsets]

AddSlots(f, slots) == FoldLeft(AddSlot, f, slots)

ImmediateValue(f, imm) ==
  CASE imm[1] = "integer" -> imm[2]
    [] imm[1] = "offset" -> Complete(f).offsets[imm[3]] - Complete(f).offsets[imm[2]]

-----------------------------------------------------------------------------
(***************************************************************************)
(* RISCVBackendDriver. fp is used at the end of every block but the first  *)
(* until the registers are allocated.                                      *)
(***************************************************************************)
EndsInRet(code) == code # <<>> /\ Last(code).op = "ret"

WithFakeUses(G) ==
  [G EXCEPT !.code = [b \in DOMAIN @ |->
     IF b = G.order[1] \/ EndsInRet(@[b]) THEN @[b]
     ELSE Append(Front(@[b]), MirFakeUse(fp)) \o <<Last(@[b])>>]]

EachInstruction(G, replacement(_)) ==
  [G EXCEPT !.code = [b \in DOMAIN @ |-> FlattenSeq([k \in DOMAIN @[b] |-> replacement(@[b][k])])]]

WithoutFakeUses(G) == EachInstruction(G, LAMBDA J : IF J.op = "fakeuse" THEN <<>> ELSE <<J>>)

\* The passes take out the blocks that are not reachable.
WithoutUnreachable(G) ==
  LET targets(b) == UNION {ToSet(J.dests) : J \in ToSet(G.code[b])}
      reach[k \in 0 .. Len(G.order)] ==
        IF k = 0 THEN {G.order[1]}
        ELSE UNION {near \cup UNION {targets(b) : b \in near} : near \in {reach[k - 1]}}
      reached == reach[Len(G.order)]
  IN  [G EXCEPT !.order = SelectSeq(@, LAMBDA b : b \in reached), !.code = [b \in reached |-> @[b]]]

InSomeOrder(S) == FoldSet(LAMBDA x, order : Append(order, x), <<>>, S)

IsVirtual(r) == r # NoRegister /\ r[1] \in {"value", "temporary"}
Instructions(G) == UNION {ToSet(G.code[b]) : b \in DOMAIN G.code}
VirtualRegisters(G) ==
  {r \in UNION {{J.dst} \cup ToSet(J.srcs) : J \in Instructions(G)} : IsVirtual(r)}

(***************************************************************************)
(* What an allocator promises: every virtual register has a physical       *)
(* register that nothing else changes while it is live; here one of its own*)
(* that calls preserve. A spilled register lives in a slot: it is loaded   *)
(* before it is read and stored after it is written.                       *)
(***************************************************************************)
Assigned(r) == IF IsVirtual(r) THEN <<"saved", r[2], r>> ELSE r
SpillSlot(r) == <<"spill", r>>

SlotAddress(base, slot, pointer) ==
  <<MirLI(t6, StackOffsetImmediate(base, slot)), MirAdd(8, t6, t6, pointer)>>
LoadWord(r) == IF r[2] = "FPR" THEN MirFLoad(8, r, t6, NoOffset) ELSE MirLoad(8, r, t6, NoOffset)
StoreWord(r) == IF r[2] = "FPR" THEN MirFStore(8, t6, NoOffset, r) ELSE MirStore(8, t6, NoOffset, r)

LoadSpilled(r) == Append(SlotAddress(EndSlot, SpillSlot(r), fp), LoadWord(Assigned(r)))
StoreSpilled(r) == Append(SlotAddress(EndSlot, SpillSlot(r), fp), StoreWord(Assigned(r)))

AllocatedInstruction(J, spilled) ==
  FlattenSeq([k \in DOMAIN J.srcs |-> IF J.srcs[k] \in spilled THEN LoadSpilled(J.srcs[k]) ELSE <<>>])
    \o <<[J EXCEPT !.dst = Assigned(@), !.srcs = [k \in DOMAIN @ |-> Assigned(@[k])]]>>
    \o (IF J.dst \in spilled THEN StoreSpilled(J.dst) ELSE <<>>)

Allocated(G, spilled) ==
  LET order == InSomeOrder(spilled)
      slots == [k \in DOMAIN order |-> StackSlot(SpillSlot(order[k]), 8, 8)]
  IN  [EachInstruction(G, LAMBDA J : AllocatedInstruction(J, spilled)) EXCEPT !.frame = AddSlots(@, slots)]

\* The allocatable registers that are preserved and written, but for sp and fp.
ToSave(G) == {r \in {J.dst : J \in Instructions(G)} : r # NoRegister /\ r[1] = "saved"}

\* A function that never returns has lost its epilogue: it gets another one.
WithEpilogue(G) ==
  IF \E b \in DOMAIN G.code : EndsInRet(G.code[b]) THEN G
  ELSE [AppendBlock(G, EpilogueBlock) EXCEPT
          !.code[EpilogueBlock] = <<MirMarker("restore"), RISCVRet>>]

SaveSlot(r) == <<"save", r>>

\* The registers are stored at the marker save and loaded at the marker restore.
CalleeSaved(G) ==
  LET saved == InSomeOrder(ToSave(G))
      at(k) == SlotAddress(StartSlot, SaveSlot(saved[k]), sp)
      stores == FlattenSeq([k \in DOMAIN saved |-> Append(at(k), StoreWord(saved[k]))])
      loads == FlattenSeq([k \in DOMAIN saved |-> Append(at(k), LoadWord(saved[k]))])
      replaced(J) == IF J = MirMarker("save") THEN stores
                     ELSE IF J = MirMarker("restore") THEN loads ELSE <<J>>
  IN  [EachInstruction(WithEpilogue(G), replaced) EXCEPT
         !.frame = AddSlots(@, [k \in DOMAIN saved |-> StackSlot(SaveSlot(saved[k]), 8, 8)])]

-----------------------------------------------------------------------------
(***************************************************************************)
(* RISCVMCGen. A line of machine code has an operation, its widths and     *)
(* condition, registers with the written one first, a number, a label.     *)
(***************************************************************************)
Code(op, widths, cond, regs, imm, to) ==
  [op |-> op, widths |-> widths, cond |-> cond, regs |-> regs, imm |-> imm, to |-> to]

FunctionLabel(id) == <<"function", id, <<>>>>
BlockLabel(id, b) == <<"block", id, b>>
LabelLine(l) == Code("label", <<>>, "", <<>>, 0, l)
NoLabel == <<>>

\* The conditional branch that is not taken when cond holds.
InverseBranch ==
  [eq |-> "ne", ne |-> "eq", slt |-> "sge", sgt |-> "sle", sle |-> "sgt", sge |-> "slt",
   ult |-> "uge", ugt |-> "ule", ule |-> "ugt", uge |-> "ult", eqz |-> "nez", nez |-> "eqz"]

WordOps == {"add", "sub", "mul", "sdiv", "udiv", "srem", "urem", "shl", "shrl", "shra"}
DoubleWordOps == {"mov", "neg", "and", "or", "xor", "addi", "andi", "xori", "shli", "shrli", "shrai"}
FloatingOps == {"fmov", "fneg", "fadd", "fsub", "fmul", "fdiv", "fmovfi", "fmovif", "fload", "fstore"}

\* The operations there is an opcode for; for the others the emission aborts.
HasOpcode(J) ==
  CASE J.op \in WordOps \cup FloatingOps -> J.widths[1] \in {4, 8}
    [] J.op \in DoubleWordOps \cup {"la", "li"} -> J.widths = <<8>>
    [] J.op = "sext" -> J.widths = <<8, 4>>
    [] J.op = "fcvt" -> J.widths \in {<<4, 8>>, <<8, 4>>}
    [] J.op \in {"fcvtfs", "fcvtfu", "fcvtsf", "fcvtuf"} -> ToSet(J.widths) \subseteq {4, 8}
    [] J.op \in {"load", "store"} -> J.widths[1] \in {1, 2, 4, 8}
    [] J.op = "cmpset" -> J.cond \in {"slt", "sgt", "ult", "ugt"}
    [] J.op = "cmpzset" -> J.cond \in {"eqz", "nez"}
    [] J.op = "fcmpset" -> J.cond \in FloatingRelations \ {"one"}
    [] J.op \in {"br", "cmpbr", "cmpzbr", "call", "jalr", "ret"} -> TRUE

\* The types of a call's arguments stay with its line, for the machine below.
MachineLines(G, J) ==
  LET jump(b) == Code("j", <<>>, "", <<>>, 0, BlockLabel(G.id, b))
      regs == IF J.dst = NoRegister THEN J.srcs ELSE <<J.dst>> \o J.srcs
  IN  CASE J.op = "br" -> <<jump(J.dests[1])>>
        [] J.op \in {"cmpbr", "cmpzbr"} ->
             <<Code("branch", <<>>, InverseBranch[J.cond], J.srcs, 0, BlockLabel(G.id, J.dests[2])),
               jump(J.dests[1])>>
        [] J.op = "call" -> <<Code("call", J.imm[3], "", <<>>, 0, FunctionLabel(J.imm[2]))>>
        [] J.op = "jalr" -> <<Code("jalr", J.imm[3], "", J.srcs, 0, NoLabel)>>
        [] J.op = "la" -> <<Code("la", <<>>, "", regs, 0, FunctionLabel(J.imm[2]))>>
        [] OTHER -> <<Code(J.op, J.widths, J.cond, regs,
                           IF J.imm = NoImmediate THEN 0 ELSE ImmediateValue(G.frame, J.imm), NoLabel)>>

BlockLines(G, b) ==
  <<LabelLine(BlockLabel(G.id, b))>> \o FlattenSeq([k \in DOMAIN G.code[b] |-> MachineLines(G, G.code[b][k])])

FunctionLines(G) ==
  <<LabelLine(FunctionLabel(G.id))>> \o FlattenSeq([k \in DOMAIN G.order |-> BlockLines(G, G.order[k])])

Emittable(G) == \A J \in Instructions(G) : HasOpcode(J)

-----------------------------------------------------------------------------
(***************************************************************************)
(* The machine: RISC-V, and the functions that are only declared. Registers*)
(* and addresses have the width of I64; a register that was never written  *)
(* and memory that holds no value read as Junk. A single-precision value is*)
(* boxed: the bits above it are 1, and what is not boxed reads as NaN.     *)
(***************************************************************************)
Word == 2 * IntBits
Junk == 5
CodeBase == 2048
StackBase == 4000
bitsOf(w) == CASE w = 1 -> bitSize(I8) [] w = 2 -> bitSize(I16) [] w = 4 -> IntBits [] w = 8 -> Word
Extended(w, x) == Wrap(Word, SignedValue(bitsOf(w), Wrap(bitsOf(w), x)))

Boxed(p, x) == IF p = 8 THEN x ELSE Size(Word) - Size(IntBits) + x
Unboxed(p, x) ==
  IF p = 8 THEN x ELSE IF x >= Size(Word) - Size(IntBits) THEN x % Size(IntBits) ELSE NaN(IntBits)

Reg(m, r) == IF r \in DOMAIN m.regs THEN m.regs[r] ELSE Junk
SetReg(m, r, x) == [m EXCEPT !.regs = (r :> x) @@ @]

\* Division by 0 gives -1 or the dividend, and so does an overflow; a shift looks at
\* the lowest bits of its amount.
Divided(op, w, x, y) ==
  LET q == ArithmeticOp(op, w, x, y)
  IN  IF q # PoisonBits THEN q
      ELSE IF op \in {"srem", "urem"} THEN IF y = 0 THEN x ELSE 0
      ELSE IF y = 0 THEN Size(w) - 1 ELSE x

MachineOp == [op \in WordOps \cup {"addi", "andi", "xori", "shli", "shrli", "shrai", "and", "or", "xor"} |->
  CASE op \in {"shrl", "shrli"} -> "lshr" [] op \in {"shra", "shrai"} -> "ashr" [] op = "shli" -> "shl"
    [] op = "addi" -> "add" [] op = "andi" -> "and" [] op = "xori" -> "xor" [] OTHER -> op]

IntegerResult(op, w, x, y) ==
  LET b == bitsOf(w)
      low(z) == Wrap(b, z)
  IN  Extended(w, IF op \in Divisions THEN Divided(op, b, low(x), low(y))
                  ELSE ArithmeticOp(op, b, low(x), IF op \in Shifts THEN low(y) % b ELSE low(y)))

BranchHolds(cond, x, y) ==
  IF cond \in {"eqz", "nez"} THEN (x = 0) = (cond = "eqz") ELSE RelationHolds(cond, Word, x, y)

\* Out of range: the nearest value; here, any.
ToInt(signed, p, w, x) ==
  LET v == IF signed THEN FPToSI(bitsOf(p), bitsOf(w), x) ELSE FPToUI(bitsOf(p), bitsOf(w), x)
  IN  Extended(w, IF v = PoisonBits THEN 2^(bitsOf(w) - 1) - 1 ELSE v)

\* What a line without memory or control computes of the registers it reads.
Computed(line, xs) ==
  LET w == line.widths
      first == Unboxed(Last(w), xs[1])
  IN  CASE line.op \in WordOps \cup {"and", "or", "xor"} ->
             IntegerResult(MachineOp[line.op], w[1], xs[1], xs[2])
        [] line.op \in DOMAIN MachineOp \ (WordOps \cup {"and", "or", "xor"}) ->
             IntegerResult(MachineOp[line.op], 8, xs[1], Wrap(Word, line.imm))
        [] line.op \in {"mov", "fmovfi"} /\ w = <<8>> -> xs[1]
        [] line.op = "neg" -> Sub(Word, 0, xs[1])
        [] line.op = "sext" -> Extended(4, xs[1])
        [] line.op = "li" -> Wrap(Word, line.imm)
        [] line.op = "cmpset" -> IF RelationHolds(line.cond, Word, xs[1], xs[2]) THEN 1 ELSE 0
        [] line.op = "cmpzset" -> IF BranchHolds(line.cond, xs[1], 0) THEN 1 ELSE 0
        [] line.op = "fmov" -> Boxed(w[1], first)
        [] line.op = "fneg" -> Boxed(w[1], FNeg(bitsOf(w[1]), first))
        [] line.op \in FloatingArithmetic ->
             Boxed(w[1], FloatingOp(line.op, bitsOf(w[1]), first, Unboxed(w[1], xs[2])))
        [] line.op = "fcmpset" ->
             IF FloatingRelation(line.cond, bitsOf(w[2]), first, Unboxed(w[2], xs[2])) THEN 1 ELSE 0
        [] line.op = "fcvt" -> Boxed(w[1], FloatingCast(bitsOf(w[2]), bitsOf(w[1]), first))
        [] line.op = "fcvtfs" -> Boxed(w[1], SIToFP(bitsOf(w[2]), bitsOf(w[1]), Wrap(bitsOf(w[2]), xs[1])))
        [] line.op = "fcvtfu" -> Boxed(w[1], UIToFP(bitsOf(w[1]), Wrap(bitsOf(w[2]), xs[1])))
        [] line.op \in {"fcvtsf", "fcvtuf"} -> ToInt(line.op = "fcvtsf", w[2], w[1], first)
        [] line.op = "fmovfi" /\ w = <<4>> -> Boxed(4, Wrap(IntBits, xs[1]))
        [] line.op = "fmovif" -> IF w = <<8>> THEN xs[1] ELSE Extended(4, xs[1])

(***************************************************************************)
(* How a function finds its arguments: the registers of their class in     *)
(* order, or integer registers only, then the stack.                       *)
(***************************************************************************)
Places(varArgs, types) ==
  LET class(k) == IF varArgs THEN "GPR" ELSE ClassOf(types[k])
      before(k) == Cardinality({j \in 1 .. (k - 1) : class(j) = class(k)})
      InRegister(k) == before(k) < ArgRegs
  IN  [k \in DOMAIN types |->
         IF InRegister(k) THEN ArgReg(class(k), before(k) + 1)
         ELSE <<"stack", 8 * Cardinality({j \in 1 .. (k - 1) : ~InRegister(j)}), 0>>]

\* The value of type t in a register: integers must have been extended by their sign.
HeldBy(t, class, x) ==
  IF t \in FloatingTypes
  THEN IF class = "FPR" THEN Unboxed(sizeOf(t), x) ELSE Wrap(bitSize(t), x)
  ELSE IF x = Wrap(Word, SignedValue(bitSize(t), Wrap(bitSize(t), x))) THEN Wrap(bitSize(t), x) ELSE -2

ArgumentAt(m, t, place) ==
  IF place[1] = "argument" THEN HeldBy(t, place[2], Reg(m, place))
  ELSE IF t \in FloatingTypes THEN Read(m.mem, Reg(m, sp) + place[2], sizeOf(t), Junk)
  ELSE HeldBy(t, "GPR", Read(m.mem, Reg(m, sp) + place[2], 8, Junk))

InRegisterOf(t, x) ==
  IF t \in FloatingTypes THEN Boxed(sizeOf(t), x) ELSE Wrap(Word, SignedValue(bitSize(t), x))

Preserved(r) == r \in {sp, fp} \/ r[1] = "saved"

\* A declared function keeps what calls preserve, and nothing else.
CallExternal(m, G, types, next) ==
  LET places == Places(isVarArgs(G.type), types)
      args == [k \in DOMAIN types |-> ArgumentAt(m, types[k], places[k])]
      kept == [r \in {q \in DOMAIN m.regs : Preserved(q)} |-> m.regs[r]]
      result == InRegisterOf(G.type[2], ExternalResult(G.type[2], args))
  IN  [m EXCEPT !.pc = next, !.events = Append(@, <<G.id, args>>),
                !.regs = IF G.type[2] = Void THEN kept ELSE (ResultReg(ClassOf(G.type[2])) :> result) @@ kept]

\* P is the program: its lines, the places of its labels, the module it is made from.
CallMachine(P, m, id, types) ==
  LET G == FunctionNamed(P.module, id)
  IN  IF IsDeclaration(G) THEN CallExternal(m, G, types, m.pc + 1)
      ELSE [SetReg(m, ra, CodeBase + m.pc + 1) EXCEPT !.pc = P.places[FunctionLabel(id)]]

StepMachine(P, m) ==
  LET line == P.lines[m.pc]
      w == line.widths[1]
      x(k) == Reg(m, line.regs[k])
      define(v) == [SetReg(m, line.regs[1], v) EXCEPT !.pc = @ + 1]
      address == Wrap(Word, x(2) + line.imm)
      targets == {G \in ToSet(P.module.fns) : FunctionAddress(P.module, G.id) = x(1)}
  IN  CASE line.op = "label" -> [m EXCEPT !.pc = @ + 1]
        [] line.op = "j" -> [m EXCEPT !.pc = P.places[line.to]]
        [] line.op = "branch" ->
             [m EXCEPT !.pc = IF BranchHolds(line.cond, x(1), IF Len(line.regs) = 2 THEN x(2) ELSE 0)
                              THEN P.places[line.to] ELSE @ + 1]
        [] line.op = "load" -> define(Extended(w, Read(m.mem, address, w, Junk)))
        [] line.op = "fload" -> define(Boxed(w, Wrap(bitsOf(w), Read(m.mem, address, w, Junk))))
        [] line.op = "store" ->
             [m EXCEPT !.pc = @ + 1, !.mem = Write(@, address, w, Wrap(bitsOf(w), x(1)))]
        [] line.op = "fstore" ->
             [m EXCEPT !.pc = @ + 1, !.mem = Write(@, address, w, Wrap(bitsOf(w), x(1)))]
        [] line.op = "la" -> define(AddressOf(P.module, line.to[2]))
        [] line.op = "call" -> CallMachine(P, m, line.to[2], line.widths)
        [] line.op = "jalr" ->
             IF targets = {} THEN [m EXCEPT !.status = "crashed"]
             ELSE CallMachine(P, m, (CHOOSE G \in targets : TRUE).id, line.widths)
        [] line.op = "ret" ->
             IF Reg(m, ra) = CodeBase THEN [m EXCEPT !.status = "returned"]
             ELSE IF Reg(m, ra) - CodeBase \notin DOMAIN P.lines THEN [m EXCEPT !.status = "crashed"]
             ELSE [m EXCEPT !.pc = Reg(m, ra) - CodeBase]
        [] OTHER -> define(Computed(line, [k \in 1 .. (Len(line.regs) - 1) |-> x(k + 1)]))

RECURSIVE RunMachine(_, _, _)
RunMachine(P, m, n) ==
  IF m.status # "running" THEN m ELSE IF n = 1 THEN StepMachine(P, m)
  ELSE CHOOSE r \in {RunMachine(P, h, n - n \div 2) : h \in {RunMachine(P, m, n \div 2)}} : TRUE

RECURSIVE WriteData(_, _, _, _)
WriteData(M, mem, a, c) ==
  LET size(d) == IF d[1] \in {"zero", "scalar"} THEN d[2] ELSE 8
      sizes(k) == MapThenSumSet(LAMBDA j : size(c[2][j]), 1 .. (k - 1))
  IN  CASE c[1] = "zero" -> [b \in a .. (a + c[2] - 1) |-> ZeroByte] @@ mem
        [] c[1] = "scalar" -> Write(mem, a, c[2], Wrap(bitsOf(c[2]), c[3]))
        [] c[1] = "pointer" -> Write(mem, a, 8, AddressOf(M, c[2]))
        [] c[1] = "array" ->
             FoldLeft(LAMBDA m, k : WriteData(M, m, a + sizes(k), c[2][k]), mem, [k \in DOMAIN c[2] |-> k])

MachineMemory(M, data) ==
  FoldLeft(LAMBDA mem, k : WriteData(M, mem, GlobalAddress(M, M.vars[k].id), data[k]),
           <<>>, [k \in DOMAIN data |-> k])

Linked(M, lines) ==
  [module |-> M, lines |-> lines,
   places |-> [l \in {lines[k].to : k \in {j \in DOMAIN lines : lines[j].op = "label"}} |->
                 CHOOSE k \in DOMAIN lines : lines[k].op = "label" /\ lines[k].to = l]]

\* The caller of G: its arguments are where G looks for them, and every register that
\* calls preserve holds a value of its own.
StartMachine(P, data, G, args) ==
  LET types == [k \in DOMAIN G.params |-> typeOf(G.params[k])]
      places == Places(isVarArgs(G.type), types)
      onStack == {k \in DOMAIN places : places[k][1] = "stack"}
      top == StackBase - StackSpace(Cardinality(onStack))
      saved == InSomeOrder({r \in UNION {ToSet(P.lines[k].regs) : k \in DOMAIN P.lines} : r[1] = "saved"})
      held(k) == InRegisterOf(types[k], args[k])
      size(k) == IF types[k] \in FloatingTypes THEN sizeOf(types[k]) ELSE 8
  IN  [pc |-> P.places[FunctionLabel(G.id)], status |-> "running", events |-> <<>>,
       regs |-> (sp :> top) @@ (fp :> 77) @@ (ra :> CodeBase)
                  @@ [r \in {places[k] : k \in DOMAIN places \ onStack} |->
                        held(CHOOSE k \in DOMAIN places : places[k] = r)]
                  @@ [r \in ToSet(saved) |-> 100 + (CHOOSE k \in DOMAIN saved : saved[k] = r)],
       mem |-> FoldSet(LAMBDA k, mem : Write(mem, top + places[k][2], size(k),
                         IF types[k] \in FloatingTypes THEN args[k] ELSE held(k)),
                       MachineMemory(P.module, data), onStack)]

MachineResult(m, t) ==
  IF t = Void THEN 0 ELSE HeldBy(t, ClassOf(t), Reg(m, ResultReg(ClassOf(t))))
=============================================================================
