------------------------ MODULE InstructionSelection ------------------------
(***************************************************************************)
(* The translation of IR into machine IR for RISC-V: the instructions of   *)
(* machine IR (include/mini-llvm/mir/Instruction/) and RISCVMIRGen, one    *)
(* action for each kind of IR instruction. A register holds a value of an  *)
(* integer type extended by its sign.                                      *)
(***************************************************************************)
EXTENDS TypedIr

CONSTANT ArgRegs   \* the registers of a class that carry arguments; the ABI has 8

ASSUME ArgRegsAssumption == ArgRegs \in Nat \ {0}

VARIABLES
  program,    \* the IR module
  pc,         \* <<function, block, instruction>>: what is visited next
  builder,    \* the machine function that is built and the block it grows at
  functions,  \* the machine functions that are finished
  globals     \* the initial values of the global variables

selectionVars == <<program, pc, builder, functions, globals>>

-----------------------------------------------------------------------------
(***************************************************************************)
(* Registers. A value of the IR has the virtual register VirtualOf, which  *)
(* belongs to the class of its type; a temporary is numbered.              *)
(***************************************************************************)
ClassOf(t) == IF t \in FloatingTypes THEN "FPR" ELSE "GPR"
VirtualOf(id, t) == <<"value", ClassOf(t), id>>
Temporary(class, k) == <<"temporary", class, k>>
Physical(name) == <<"physical", "GPR", name>>
sp == Physical("sp")
fp == Physical("fp")
ra == Physical("ra")
t6 == Physical("t6")
ArgReg(class, k) == <<"argument", class, k>>
ResultReg(class) == ArgReg(class, 1)
NoRegister == <<>>

-----------------------------------------------------------------------------
(***************************************************************************)
(* Instructions: a register that is written, registers that are read, an   *)
(* immediate, a condition, blocks. The widths are in bytes; those of       *)
(* floating-point instructions are 4 and 8. A StackOffsetImmediate is the  *)
(* distance from one slot to another, known when the frame is complete.    *)
(***************************************************************************)
Mir(op, widths, dst, srcs, imm, cond, dests) ==
  [op |-> op, widths |-> widths, dst |-> dst, srcs |-> srcs, imm |-> imm, cond |-> cond, dests |-> dests]

IntegerImmediate(n) == <<"integer", n>>
StackOffsetImmediate(base, slot) == <<"offset", base, slot>>
SymbolImmediate(id) == <<"symbol", id>>
NoImmediate == <<>>

Unary(op, w, d, s) == Mir(op, w, d, <<s>>, NoImmediate, "", <<>>)
Binary(op, w, d, s1, s2) == Mir(op, w, d, <<s1, s2>>, NoImmediate, "", <<>>)
BinaryI(op, w, d, s, n) == Mir(op, w, d, <<s>>, IntegerImmediate(n), "", <<>>)

MirMov(d, s) == Unary("mov", <<8>>, d, s)
MirNeg(d, s) == Unary("neg", <<8>>, d, s)
MirAdd(w, d, s1, s2) == Binary("add", <<w>>, d, s1, s2)
MirSub(w, d, s1, s2) == Binary("sub", <<w>>, d, s1, s2)
MirMul(w, d, s1, s2) == Binary("mul", <<w>>, d, s1, s2)
MirSDiv(w, d, s1, s2) == Binary("sdiv", <<w>>, d, s1, s2)
MirUDiv(w, d, s1, s2) == Binary("udiv", <<w>>, d, s1, s2)
MirSRem(w, d, s1, s2) == Binary("srem", <<w>>, d, s1, s2)
MirURem(w, d, s1, s2) == Binary("urem", <<w>>, d, s1, s2)
MirAnd(w, d, s1, s2) == Binary("and", <<w>>, d, s1, s2)
MirOr(w, d, s1, s2) == Binary("or", <<w>>, d, s1, s2)
MirXor(w, d, s1, s2) == Binary("xor", <<w>>, d, s1, s2)
MirSHL(w, d, s1, s2) == Binary("shl", <<w>>, d, s1, s2)
MirSHRL(w, d, s1, s2) == Binary("shrl", <<w>>, d, s1, s2)
MirSHRA(w, d, s1, s2) == Binary("shra", <<w>>, d, s1, s2)
MirAddI(d, s, n) == BinaryI("addi", <<8>>, d, s, n)
MirAndI(d, s, n) == BinaryI("andi", <<8>>, d, s, n)
MirXorI(d, s, n) == BinaryI("xori", <<8>>, d, s, n)
MirSHLI(d, s, n) == BinaryI("shli", <<8>>, d, s, n)
MirSHRLI(d, s, n) == BinaryI("shrli", <<8>>, d, s, n)
MirSHRAI(d, s, n) == BinaryI("shrai", <<8>>, d, s, n)
MirSExt(d, s) == Unary("sext", <<8, 4>>, d, s)
MirFMov(p, d, s) == Unary("fmov", <<p>>, d, s)
MirFNeg(p, d, s) == Unary("fneg", <<p>>, d, s)
MirFAdd(p, d, s1, s2) == Binary("fadd", <<p>>, d, s1, s2)
MirFSub(p, d, s1, s2) == Binary("fsub", <<p>>, d, s1, s2)
MirFMul(p, d, s1, s2) == Binary("fmul", <<p>>, d, s1, s2)
MirFDiv(p, d, s1, s2) == Binary("fdiv", <<p>>, d, s1, s2)
MirFCvt(dp, p, d, s) == Unary("fcvt", <<dp, p>>, d, s)
MirFCvtFS(p, w, d, s) == Unary("fcvtfs", <<p, w>>, d, s)
MirFCvtFU(p, w, d, s) == Unary("fcvtfu", <<p, w>>, d, s)
MirFCvtSF(w, p, d, s) == Unary("fcvtsf", <<w, p>>, d, s)
MirFCvtUF(w, p, d, s) == Unary("fcvtuf", <<w, p>>, d, s)
MirFMovFI(p, d, s) == Unary("fmovfi", <<p>>, d, s)
MirFMovIF(p, d, s) == Unary("fmovif", <<p>>, d, s)
MirLoad(w, d, base, offset) == Mir("load", <<w>>, d, <<base>>, offset, "", <<>>)
MirFLoad(p, d, base, offset) == Mir("fload", <<p>>, d, <<base>>, offset, "", <<>>)
MirStore(w, base, offset, s) == Mir("store", <<w>>, NoRegister, <<s, base>>, offset, "", <<>>)
MirFStore(p, base, offset, s) == Mir("fstore", <<p>>, NoRegister, <<s, base>>, offset, "", <<>>)
MirLA(d, id) == Mir("la", <<8>>, d, <<>>, SymbolImmediate(id), "", <<>>)
MirLI(d, imm) == Mir("li", <<8>>, d, <<>>, imm, "", <<>>)
MirCmpSet(cond, d, s1, s2) == Mir("cmpset", <<8, 8>>, d, <<s1, s2>>, NoImmediate, cond, <<>>)
MirCmpZSet(cond, d, s) == Mir("cmpzset", <<8, 8>>, d, <<s>>, NoImmediate, cond, <<>>)
MirFCmpSet(p, cond, d, s1, s2) == Mir("fcmpset", <<8, p>>, d, <<s1, s2>>, NoImmediate, cond, <<>>)
MirBr(b) == Mir("br", <<>>, NoRegister, <<>>, NoImmediate, "", <<b>>)
MirCmpBr(w, cond, s1, s2, b, c) == Mir("cmpbr", <<w>>, NoRegister, <<s1, s2>>, NoImmediate, cond, <<b, c>>)
MirCmpZBr(cond, s, b, c) == Mir("cmpzbr", <<8>>, NoRegister, <<s>>, NoImmediate, cond, <<b, c>>)
MirMarker(id) == Mir("marker", <<>>, NoRegister, <<>>, SymbolImmediate(id), "", <<>>)
MirFakeUse(s) == Mir("fakeuse", <<>>, NoRegister, <<s>>, NoImmediate, "", <<>>)
\* types are those of the arguments: what a callee of any number knows of them.
RISCVCall(id, types) == Mir("call", <<>>, NoRegister, <<>>, <<"callee", id, types>>, "", <<>>)
RISCVJALR(s, types) == Mir("jalr", <<>>, NoRegister, <<s>>, <<"callee", "", types>>, "", <<>>)
RISCVRet == Mir("ret", <<>>, NoRegister, <<>>, NoImmediate, "", <<>>)

NoOffset == IntegerImmediate(0)

\* A move between registers of the class of t.
Move(t, d, s) == IF t \in FloatingTypes THEN MirFMov(sizeOf(t), d, s) ELSE MirMov(d, s)

-----------------------------------------------------------------------------
(* Blocks.                                                                 *)

IrBlock(b) == <<"ir", b>>
NewBlock(k) == <<"new", k>>
PrologueBlock == <<"prologue">>
EpilogueBlock == <<"epilogue">>

Emit(b, code) == [b EXCEPT !.code[b.here] = @ \o code]
SetPos(b, label) == [b EXCEPT !.here = label]
WithTemporaries(b, n) == [b EXCEPT !.fresh = @ + n]
AppendBlock(b, label) == [b EXCEPT !.code = (label :> <<>>) @@ @, !.order = Append(@, label)]

F == program.fns[pc[1]]
I == F.blocks[pc[2]].code[pc[3]]
dst == VirtualOf(I.id, I.type)
bits == bitSize(I.type)

\* The instruction of the function that defines v.
Definition(v) ==
  CHOOSE J \in UNION {ToSet(B.code) : B \in ToSet(F.blocks)} : J.id = v[3]
IsResultOf(v, op) ==
  IsValue(v) /\ \E J \in UNION {ToSet(B.code) : B \in ToSet(F.blocks)} : J.id = v[3] /\ J.op = op

-----------------------------------------------------------------------------
(***************************************************************************)
(* getRegister: the register of a value, or a temporary that is loaded with*)
(* a constant. Nothing is loaded for poison. The result is the builder and *)
(* the registers asked for so far.                                         *)
(***************************************************************************)
getRegister(r, v) ==
  LET t == typeOf(v)
      b == r.builder
      temporary == Temporary("GPR", b.fresh + 1)
      loaded(code, register, n) ==
        [builder |-> WithTemporaries(Emit(b, code), n), regs |-> Append(r.regs, register)]
      integer(n) == MirLI(temporary, IntegerImmediate(n))
  IN  CASE IsValue(v) -> [r EXCEPT !.regs = Append(@, VirtualOf(v[3], t))]
        [] v[1] = "global" -> loaded(<<MirLA(temporary, v[3])>>, temporary, 1)
        [] v[1] = "null" -> loaded(<<integer(0)>>, temporary, 1)
        [] v[1] = "poison" -> loaded(<<>>, Temporary(ClassOf(t), b.fresh + 1), 1)
        [] v[1] = "constant" /\ t \in IntegerTypes ->
             loaded(<<integer(SignedValue(bitSize(t), v[3]))>>, temporary, 1)
        [] v[1] = "constant" /\ t \in FloatingTypes ->
             LET register == Temporary("FPR", b.fresh + 2)
             IN  loaded(<<integer(v[3]), MirFMovFI(sizeOf(t), register, temporary)>>, register, 2)

Registers(b, vs) == FoldLeft(getRegister, [builder |-> b, regs |-> <<>>], vs)

-----------------------------------------------------------------------------
(* The code of the operations.                                             *)

\* The lowest bw bits of d, extended by their sign.
SignExtended(d, bw) ==
  IF bw = 2 * IntBits THEN <<>>
  ELSE <<MirSHLI(d, d, 2 * IntBits - bw), MirSHRAI(d, d, 2 * IntBits - bw)>>

ZeroExtended(d, s, bw) ==
  IF bw = bitSize(I8) THEN <<MirAndI(d, s, 2^bw - 1)>>
  ELSE <<MirSHLI(d, s, 2 * IntBits - bw), MirSHRLI(d, d, 2 * IntBits - bw)>>

ArithmeticInstruction(op, w, d, s1, s2) ==
  CASE op = "add" -> MirAdd(w, d, s1, s2)   [] op = "sub" -> MirSub(w, d, s1, s2)
    [] op = "mul" -> MirMul(w, d, s1, s2)   [] op = "shl" -> MirSHL(w, d, s1, s2)
    [] op = "sdiv" -> MirSDiv(w, d, s1, s2) [] op = "udiv" -> MirUDiv(w, d, s1, s2)
    [] op = "srem" -> MirSRem(w, d, s1, s2) [] op = "urem" -> MirURem(w, d, s1, s2)
    [] op = "lshr" -> MirSHRL(w, d, s1, s2) [] op = "ashr" -> MirSHRA(w, d, s1, s2)
    [] op = "and" -> MirAnd(w, d, s1, s2)   [] op = "or" -> MirOr(w, d, s1, s2)
    [] op = "xor" -> MirXor(w, d, s1, s2)   [] op = "fadd" -> MirFAdd(w, d, s1, s2)
    [] op = "fsub" -> MirFSub(w, d, s1, s2) [] op = "fmul" -> MirFMul(w, d, s1, s2)
    [] op = "fdiv" -> MirFDiv(w, d, s1, s2)

visitBinaryIntegerArithmeticOperator(r) ==
  IF bits = IntBits THEN <<ArithmeticInstruction(I.op, 4, dst, r[1], r[2])>>
  ELSE <<ArithmeticInstruction(I.op, 8, dst, r[1], r[2])>> \o SignExtended(dst, bits)

\* Mutant: the operands keep their signs.
visitUnsignedAsSigned(r, x, y) ==
  <<ArithmeticInstruction(I.op, 8, dst, r[1], r[2])>> \o SignExtended(dst, bits)

\* x and y are for the operands without their signs.
visitUnsignedBinaryIntegerArithmeticOperator(r, x, y) ==
  IF bits \in {IntBits, 2 * IntBits} THEN visitBinaryIntegerArithmeticOperator(r)
  ELSE ZeroExtended(x, r[1], bits) \o ZeroExtended(y, r[2], bits)
         \o <<ArithmeticInstruction(I.op, 8, dst, x, y)>> \o SignExtended(dst, bits)

\* 1 or 0 in d: does the relation hold? The relations with "or equal" are computed
\* as the negation of their opposites, which Negated tells.
Opposite == [sle |-> "sgt", sge |-> "slt", ule |-> "ugt", uge |-> "ult"]
Negated(cond) == cond \in DOMAIN Opposite
ComparisonCode(cond, d, s1, s2) ==
  IF cond \in {"eq", "ne"}
  THEN <<MirXor(8, d, s1, s2), MirCmpZSet(IF cond = "eq" THEN "eqz" ELSE "nez", d, d)>>
  ELSE <<MirCmpSet(IF Negated(cond) THEN Opposite[cond] ELSE cond, d, s1, s2)>>

\* true is -1 in a register.
visitICmp(cond, d, r) ==
  ComparisonCode(cond, d, r[1], r[2]) \o <<MirNeg(d, d)>>
    \o (IF Negated(cond) THEN <<MirXorI(d, d, -1)>> ELSE <<>>)

\* What the parts of an extension of a comparison read.
ExtensionOperands ==
  IF IsResultOf(I.args[1], "icmp") THEN Definition(I.args[1]).args ELSE I.args

visitSExt(r) ==
  LET t == typeOf(I.args[1])
  IN  IF IsResultOf(I.args[1], "icmp") THEN visitICmp(Definition(I.args[1]).aux[1], dst, r)
      ELSE IF t = I1 THEN <<MirNeg(dst, r[1])>>
      ELSE IF t = I32 THEN <<MirSExt(dst, r[1])>>
      ELSE <<MirMov(dst, r[1])>> \o SignExtended(dst, bitSize(t))

visitZExt(r) ==
  LET t == typeOf(I.args[1])
      cond == Definition(I.args[1]).aux[1]
  IN  IF IsResultOf(I.args[1], "icmp")
      THEN ComparisonCode(cond, dst, r[1], r[2])
             \o (IF Negated(cond) THEN <<MirXorI(dst, dst, 1)>> ELSE <<>>)
      ELSE IF t = I1 THEN <<MirAndI(dst, r[1], 1)>>
      ELSE IF t = I8 THEN ZeroExtended(dst, r[1], bitSize(t))
      ELSE <<MirMov(dst, r[1])>> \o ZeroExtended(dst, dst, bitSize(t))

visitTrunc(r) ==
  IF I.type = I32 THEN <<MirSExt(dst, r[1])>>
  ELSE <<MirMov(dst, r[1])>> \o SignExtended(dst, bits)

\* one is the negation of oeq.
visitFCmp(r) ==
  LET one == I.aux[1] = "one"
  IN  <<MirFCmpSet(sizeOf(typeOf(I.args[1])), IF one THEN "oeq" ELSE I.aux[1], dst, r[1], r[2]),
        MirNeg(dst, dst)>> \o (IF one THEN <<MirXorI(dst, dst, -1)>> ELSE <<>>)

visitFloatingConversion(r) ==
  LET from == sizeOf(typeOf(I.args[1]))
      to == sizeOf(I.type)
  IN  CASE I.op \in FloatingCasts -> <<MirFCvt(to, from, dst, r[1])>>
        [] I.op = "sitofp" -> <<MirFCvtFS(to, from, dst, r[1])>>
        [] I.op = "uitofp" -> <<MirFCvtFU(to, from, dst, r[1])>>
        [] I.op = "fptosi" -> <<MirFCvtSF(to, from, dst, r[1])>>
        [] I.op = "fptoui" -> <<MirFCvtUF(to, from, dst, r[1])>>

visitPtrToInt(r) == <<MirMov(dst, r[1])>> \o SignExtended(dst, bits)

visitIntToPtr(r) ==
  LET bw == bitSize(typeOf(I.args[1]))
  IN  <<MirMov(dst, r[1])>> \o
        (IF bw = 2 * IntBits THEN <<>>
         ELSE <<MirSHLI(dst, dst, 2 * IntBits - bw), MirSHRLI(dst, dst, 2 * IntBits - bw)>>)

\* The registers are moved as wholes, of whatever width the values are.
visitBitCast(r) ==
  LET from == typeOf(I.args[1]) \in FloatingTypes
      to == I.type \in FloatingTypes
  IN  CASE from /\ to -> <<MirFMov(8, dst, r[1])>>
        [] ~from /\ to -> <<MirFMovFI(8, dst, r[1])>>
        [] from /\ ~to -> <<MirFMovIF(8, dst, r[1])>>
        [] ~from /\ ~to -> <<MirMov(dst, r[1])>>

visitLoad(r) ==
  IF I.type \in FloatingTypes THEN <<MirFLoad(sizeOf(I.type), dst, r[1], NoOffset)>>
  ELSE <<MirLoad(sizeOf(I.type), dst, r[1], NoOffset)>>

visitStore(r) ==
  LET t == typeOf(I.args[1])
  IN  IF t \in FloatingTypes THEN <<MirFStore(sizeOf(t), r[1], NoOffset, r[2])>>
      ELSE <<MirStore(sizeOf(t), r[1], NoOffset, r[2])>>

visitAlloca == <<MirLI(dst, StackOffsetImmediate(<<"end">>, <<"alloca", I.id>>)), MirAdd(8, dst, fp, dst)>>

\* One index after the other is loaded, scaled and added. The register of the index
\* is what is multiplied.
visitGetElementPtr(b) ==
  LET pointer == Registers(b, <<I.args[1]>>)
      types[k \in 2 .. Len(I.args)] == IF k = 2 THEN I.aux[1] ELSE types[k - 1][2]
      add(c, k) ==
        LET r == Registers(c, <<I.args[k]>>)
            size == Temporary("GPR", r.builder.fresh + 1)
            index == r.regs[1]
        IN  IF sizeOf(types[k]) = 1 THEN Emit(r.builder, <<MirAdd(8, dst, dst, index)>>)
            ELSE WithTemporaries(Emit(r.builder,
                   <<MirLI(size, IntegerImmediate(sizeOf(types[k]))), MirMul(8, index, index, size),
                     MirAdd(8, dst, dst, index)>>), 1)
  IN  FoldLeft(add, Emit(pointer.builder, <<MirMov(dst, pointer.regs[1])>>),
               [k \in 1 .. (Len(I.args) - 1) |-> k + 1])

-----------------------------------------------------------------------------
(***************************************************************************)
(* Branches. A branch to a block with phis goes through a middle block that*)
(* moves their incoming values into temporaries and then into the phis.    *)
(***************************************************************************)
MiddleBlock(b, dest) ==
  LET phis == SelectSeq(BlockNamed(F, dest).code, LAMBDA J : J.op = "phi")
      middle == NewBlock(b.fresh + 1)
      tmp(k) == Temporary(ClassOf(phis[k].type), b.fresh + 1 + k)
      incoming(J) == J.args[CHOOSE k \in DOMAIN J.labels : J.labels[k] = F.blocks[pc[2]].label]
      saved(c, k) ==
        LET r == Registers(c, <<incoming(phis[k])>>)
        IN  Emit(r.builder, <<Move(phis[k].type, tmp(k), r.regs[1])>>)
      start == SetPos(WithTemporaries(AppendBlock(b, middle), 1 + Len(phis)), middle)
      moves == [k \in DOMAIN phis |-> Move(phis[k].type, VirtualOf(phis[k].id, phis[k].type), tmp(k))]
  IN  IF phis = <<>> THEN [builder |-> b, dest |-> IrBlock(dest)]
      ELSE [builder |-> SetPos(Emit(FoldLeft(saved, start, [k \in DOMAIN phis |-> k]),
                                    Append(moves, MirBr(IrBlock(dest)))), b.here),
            dest |-> middle]

visitBr(b) ==
  LET m == MiddleBlock(b, I.labels[1]) IN Emit(m.builder, <<MirBr(m.dest)>>)

BranchBetween(true, false) ==
  LET compared == IsResultOf(I.args[1], "icmp")
      J == Definition(I.args[1])
      r == Registers(false.builder, IF compared THEN J.args ELSE I.args)
  IN  Emit(r.builder,
           <<IF compared
             THEN MirCmpBr(sizeOf(typeOf(J.args[1])), J.aux[1], r.regs[1], r.regs[2], true.dest, false.dest)
             ELSE MirCmpZBr("nez", r.regs[1], true.dest, false.dest)>>)

visitCondBr(b) ==
  LET true == MiddleBlock(b, I.labels[1]) IN BranchBetween(true, MiddleBlock(true.builder, I.labels[2]))

visitRet(b) ==
  LET t == typeOf(I.args[1])
      r == Registers(b, I.args)
  IN  IF t = Void THEN Emit(b, <<MirBr(EpilogueBlock)>>)
      ELSE Emit(r.builder, <<Move(t, ResultReg(ClassOf(t)), r.regs[1]), MirBr(EpilogueBlock)>>)

\* What follows a select is in its end block.
visitSelect(b) ==
  LET blocks == [k \in 1 .. 3 |-> NewBlock(b.fresh + k)]
      r == Registers(FoldLeft(AppendBlock, WithTemporaries(b, 3), blocks), I.args)
      branched == Emit(r.builder, <<MirCmpZBr("nez", r.regs[1], blocks[1], blocks[2])>>)
      chosen(c, k) == Emit(SetPos(c, blocks[k]), <<Move(I.type, dst, r.regs[k + 1]), MirBr(blocks[3])>>)
  IN  SetPos(chosen(chosen(branched, 1), 2), blocks[3])

-----------------------------------------------------------------------------
(***************************************************************************)
(* Calls. The arguments go into the registers of their class, those of a   *)
(* callee of any number of arguments all into integer registers; what finds*)
(* no register goes on the stack, in words of 8 bytes.                     *)
(***************************************************************************)
PassArgument(varArgs, a, v) ==
  LET t == typeOf(v)
      class == IF varArgs THEN "GPR" ELSE ClassOf(t)
      r == Registers(a.builder, <<v>>)
      bare == Temporary("GPR", r.builder.fresh + 1)
  IN  IF a.used[class] = ArgRegs THEN [a EXCEPT !.stack = Append(@, v)]
      ELSE [a EXCEPT !.used[class] = @ + 1,
              !.builder =
                IF varArgs /\ t \in FloatingTypes
                THEN WithTemporaries(Emit(r.builder,
                       <<MirFMovIF(sizeOf(t), bare, r.regs[1]),
                         MirMov(ArgReg(class, a.used[class] + 1), bare)>>), 1)
                ELSE Emit(r.builder, <<Move(t, ArgReg(class, a.used[class] + 1), r.regs[1])>>)]

StackSpace(n) == ((8 * n + 15) \div 16) * 16

StackArgument(stack, b, k) ==
  LET t == typeOf(stack[k])
      r == Registers(b, <<stack[k]>>)
      offset == IntegerImmediate(8 * (k - 1))
  IN  Emit(r.builder, <<IF t \in FloatingTypes THEN MirFStore(sizeOf(t), sp, offset, r.regs[1])
                        ELSE MirStore(8, sp, offset, r.regs[1])>>)

PassedArguments(b) ==
  LET varArgs == isVarArgs(functionType(program, I))
  IN  FoldLeft(LAMBDA a, v : PassArgument(varArgs, a, v),
               [builder |-> b, used |-> [class \in {"GPR", "FPR"} |-> 0], stack |-> <<>>], Tail(I.args))

StoredArguments(b, stack) ==
  FoldLeft(LAMBDA c, k : StackArgument(stack, c, k),
           Emit(b, IF stack = <<>> THEN <<>> ELSE <<MirAddI(sp, sp, -StackSpace(Len(stack)))>>),
           [k \in DOMAIN stack |-> k])

Called(b) ==
  LET types == [k \in 1 .. (Len(I.args) - 1) |-> typeOf(I.args[k + 1])]
      callee == Registers(b, <<I.args[1]>>)
  IN  IF I.op = "call" THEN Emit(b, <<RISCVCall(I.args[1][3], types)>>)
      ELSE Emit(callee.builder, <<RISCVJALR(callee.regs[1], types)>>)

visitCallOrIndirectCall(b) ==
  LET passed == PassedArguments(b)
      n == Len(passed.stack)
  IN  Emit(Called(StoredArguments(passed.builder, passed.stack)),
           (IF n = 0 THEN <<>> ELSE <<MirAddI(sp, sp, StackSpace(n))>>)
             \o (IF I.type = Void THEN <<>> ELSE <<Move(I.type, dst, ResultReg(ClassOf(I.type)))>>))

-----------------------------------------------------------------------------
(***************************************************************************)
(* Functions. The slots of the frame lie between the slots start and end;  *)
(* the callee's saved registers are stored at the marker save and loaded   *)
(* again at the marker restore.                                            *)
(***************************************************************************)
RECURSIVE alignmentOf(_)
alignmentOf(t) == IF IsArray(t) THEN alignmentOf(t[2]) ELSE sizeOf(t)

StackSlot(name, size, alignment) == [name |-> name, size |-> size, alignment |-> alignment]
StartSlot == <<"start">>
EndSlot == <<"end">>
FrameSize == StackOffsetImmediate(StartSlot, EndSlot)
InFrame(name) == StackOffsetImmediate(StartSlot, <<name>>)

Frame(G) ==
  LET allocas == SelectSeq(FlattenSeq([b \in DOMAIN G.blocks |-> G.blocks[b].code]),
                           LAMBDA J : J.op = "alloca")
      slot(J) == StackSlot(<<"alloca", J.id>>, sizeOf(J.aux[1]), alignmentOf(J.aux[1]))
  IN  [slots |-> <<StackSlot(StartSlot, 0, 16), StackSlot(<<"ra">>, 8, 8), StackSlot(<<"fp">>, 8, 8)>>
                   \o [k \in DOMAIN allocas |-> slot(allocas[k])] \o <<StackSlot(EndSlot, 0, 16)>>,
       offsets |-> <<>>]

Prologue(G) ==
  <<MirLI(t6, FrameSize), MirSub(8, sp, sp, t6), MirStore(8, sp, InFrame("ra"), ra),
    MirStore(8, sp, InFrame("fp"), fp), MirMarker("save"), MirLI(t6, FrameSize),
    MirAdd(8, fp, sp, t6), MirBr(IrBlock(G.blocks[1].label))>>

Epilogue ==
  <<MirLoad(8, ra, sp, InFrame("ra")), MirLoad(8, fp, sp, InFrame("fp")), MirMarker("restore"),
    MirLI(t6, FrameSize), MirAdd(8, sp, sp, t6), RISCVRet>>

\* The moves of the arguments into the registers of the parameters.
ParameterMoves(G) ==
  LET place(used, stack, code) == [used |-> used, stack |-> stack, code |-> code]
      add(p, v) ==
        LET t == typeOf(v)
            class == ClassOf(t)
            d == VirtualOf(v[3], t)
            k == p.used[class]
            offset == IntegerImmediate(8 * p.stack)
        IN  IF k < ArgRegs
            THEN place([p.used EXCEPT ![class] = k + 1], p.stack,
                       Append(p.code, Move(t, d, ArgReg(class, k + 1))))
            ELSE place(p.used, p.stack + 1,
                       Append(p.code, IF class = "FPR" THEN MirFLoad(sizeOf(t), d, fp, offset)
                                      ELSE MirLoad(8, d, fp, offset)))
  IN  FoldLeft(add, place([class \in {"GPR", "FPR"} |-> 0], 0, <<>>), G.params).code

NewFunction(G) ==
  LET labels == [b \in DOMAIN G.blocks |-> IrBlock(G.blocks[b].label)]
      order == <<PrologueBlock>> \o labels \o <<EpilogueBlock>>
      code == (PrologueBlock :> Prologue(G)) @@ (EpilogueBlock :> Epilogue)
                @@ (labels[1] :> ParameterMoves(G)) @@ [b \in ToSet(labels) |-> <<>>]
  IN  [id |-> G.id, order |-> order, code |-> code, frame |-> Frame(G), here |-> labels[1], fresh |-> 0]

-----------------------------------------------------------------------------
(* The initial values of the global variables.                             *)

ZeroConstant(n) == <<"zero", n>>
ScalarConstant(w, n) == <<"scalar", w, n>>
PtrConstant(id) == <<"pointer", id>>
ArrayOfConstants(elements) == <<"array", elements>>

RECURSIVE flatten(_)
flatten(c) ==
  CASE c[1] = "elements" -> FlattenSeq([k \in DOMAIN c[3] |-> flatten(c[3][k])])
    [] c[1] = "poison" /\ IsArray(typeOf(c)) -> flatten(zeroValue(typeOf(c)))
    [] OTHER -> <<c>>

\* Poison is 0; an i1 is the number 1 or 0.
emitScalar(c) ==
  LET t == typeOf(c)
  IN  CASE c[1] = "poison" -> ZeroConstant(sizeOf(t))
        [] c[1] = "null" -> ZeroConstant(8)
        [] c[1] = "global" -> PtrConstant(c[3])
        [] c[1] = "constant" ->
             ScalarConstant(sizeOf(t), IF t \in {I1, Float, Double} THEN c[3] ELSE SignedValue(bitSize(t), c[3]))

emitConstant(c) ==
  IF c[1] = "poison" \/ c = zeroValue(typeOf(c)) THEN ZeroConstant(sizeOf(typeOf(c)))
  ELSE IF c[1] = "elements"
       THEN ArrayOfConstants([k \in DOMAIN flatten(c) |-> emitScalar(flatten(c)[k])])
       ELSE emitScalar(c)

-----------------------------------------------------------------------------
(* Steps.                                                                  *)

StartSelection(M) ==
  /\ program = M /\ pc = <<0, 1, 1>> /\ functions = <<>> /\ globals = <<>> /\ builder = <<>>

EmitGlobalVars ==
  /\ pc[1] = 0
  /\ globals' = [k \in DOMAIN program.vars |->
                   IF program.vars[k].init[1] = "none" THEN ZeroConstant(0)
                   ELSE emitConstant(program.vars[k].init)]
  /\ pc' = <<1, 0, 0>> /\ UNCHANGED <<program, builder, functions>>

\* emitFunction begins; a declaration has no code.
EnterFunction ==
  /\ pc[1] \in DOMAIN program.fns /\ pc[2] = 0
  /\ IF IsDeclaration(F) THEN pc' = <<pc[1] + 1, 0, 0>> /\ UNCHANGED builder
     ELSE pc' = <<pc[1], 1, 1>> /\ builder' = NewFunction(F)
  /\ UNCHANGED <<program, functions, globals>>

Visiting(ops) == pc[1] \in DOMAIN program.fns /\ pc[2] > 0 /\ I.op \in ops

\* The next instruction; a block starts at its own place in the builder.
Visited(b) ==
  LET last == pc[3] = Len(F.blocks[pc[2]].code)
      more == pc[2] < Len(F.blocks)
  IN  /\ pc' = IF ~last THEN <<pc[1], pc[2], pc[3] + 1>> ELSE IF more THEN <<pc[1], pc[2] + 1, 1>>
               ELSE <<pc[1] + 1, 0, 0>>
      /\ builder' = IF last /\ more THEN SetPos(b, IrBlock(F.blocks[pc[2] + 1].label)) ELSE b
      /\ functions' = IF last /\ ~more THEN Append(functions, b) ELSE functions
      /\ UNCHANGED <<program, globals>>

\* The operands are loaded, then comes the code.
Loaded == Registers(builder, I.args)
VisitedWith(r, code) == Visited(Emit(r.builder, code))

SelectArithmetic ==
  /\ Visiting({"add", "sub", "mul", "sdiv", "srem", "shl", "ashr"})
  /\ LET r == Loaded IN VisitedWith(r, visitBinaryIntegerArithmeticOperator(r.regs))

SelectUnsigned ==
  /\ Visiting({"udiv", "urem", "lshr"})
  /\ LET r == Loaded
         b == WithTemporaries(r.builder, 2)
     IN  Visited(Emit(b, visitUnsignedBinaryIntegerArithmeticOperator(
                           r.regs, Temporary("GPR", b.fresh - 1), Temporary("GPR", b.fresh))))

\* and, or, xor of all the bits; the floating-point operations.
SelectBitwiseOrFloating ==
  /\ Visiting({"and", "or", "xor", "fadd", "fsub", "fmul", "fdiv"})
  /\ LET r == Loaded
         w == IF I.op \in {"and", "or", "xor"} THEN 8 ELSE sizeOf(I.type)
     IN  VisitedWith(r, <<ArithmeticInstruction(I.op, w, dst, r.regs[1], r.regs[2])>>)

SelectComparison ==
  /\ Visiting({"icmp", "fcmp"})
  /\ LET r == Loaded
     IN  VisitedWith(r, IF I.op = "icmp" THEN visitICmp(I.aux[1], dst, r.regs) ELSE visitFCmp(r.regs))

SelectFNeg ==
  /\ Visiting({"fneg"})
  /\ LET r == Loaded IN VisitedWith(r, <<MirFNeg(sizeOf(I.type), dst, r.regs[1])>>)

SelectExtension ==
  /\ Visiting({"sext", "zext"})
  /\ LET r == Registers(builder, ExtensionOperands)
     IN  VisitedWith(r, IF I.op = "sext" THEN visitSExt(r.regs) ELSE visitZExt(r.regs))

SelectConversion ==
  /\ Visiting({"trunc", "ptrtoint", "inttoptr", "bitcast"} \cup FloatingCasts \cup ToFloating \cup ToInteger)
  /\ LET r == Loaded
     IN  VisitedWith(r, CASE I.op = "trunc" -> visitTrunc(r.regs)
                          [] I.op = "ptrtoint" -> visitPtrToInt(r.regs)
                          [] I.op = "inttoptr" -> visitIntToPtr(r.regs)
                          [] I.op = "bitcast" -> visitBitCast(r.regs)
                          [] OTHER -> visitFloatingConversion(r.regs))

\* The pointer of a store is loaded before the value.
SelectMemory ==
  /\ Visiting({"alloca", "load", "store"})
  /\ LET r == Registers(builder, IF I.op = "alloca" THEN <<>> ELSE Reverse(I.args))
     IN  VisitedWith(r, CASE I.op = "alloca" -> visitAlloca [] I.op = "load" -> visitLoad(r.regs)
                          [] I.op = "store" -> visitStore(r.regs))

SelectGetElementPtr == Visiting({"getelementptr"}) /\ Visited(visitGetElementPtr(builder))
SelectSelect == Visiting({"select"}) /\ Visited(visitSelect(builder))
SelectCall == Visiting(CallOps) /\ Visited(visitCallOrIndirectCall(builder))
SelectPhi == Visiting({"phi"}) /\ Visited(builder)

SelectTerminator ==
  /\ Visiting(Terminators)
  /\ Visited(CASE I.op = "br" -> visitBr(builder) [] I.op = "condbr" -> visitCondBr(builder)
               [] I.op = "ret" -> visitRet(builder))

\* What no visitor is written for: frem, and loads and stores of other types.
NotSelectable ==
  Visiting({"frem"}) \/ (Visiting({"load", "select"}) /\ ~(I.type \in IntegerOrPointerTypes \cup FloatingTypes))
    \/ (Visiting({"store"}) /\ ~(typeOf(I.args[1]) \in IntegerOrPointerTypes \cup FloatingTypes))

SelectionNext ==
  /\ ~NotSelectable
  /\ \/ EmitGlobalVars \/ EnterFunction \/ SelectArithmetic \/ SelectUnsigned \/ SelectBitwiseOrFloating
     \/ SelectComparison \/ SelectFNeg \/ SelectExtension \/ SelectConversion \/ SelectMemory
     \/ SelectGetElementPtr \/ SelectSelect \/ SelectCall \/ SelectPhi \/ SelectTerminator

Selected == pc[1] > Len(program.fns)
=============================================================================
