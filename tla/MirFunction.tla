---------------------------- MODULE MirFunction ----------------------------
(***************************************************************************)
(* Machine functions of the MIR (include/mini-llvm/mir/): a function is a  *)
(* list of basic blocks, a block a list of instructions whose last one is  *)
(* its terminator, an instruction the registers it reads and writes.       *)
(* Opcodes, immediates and operand widths are abstracted away: the         *)
(* analyses and allocators modelled here look at registers only.           *)
(***************************************************************************)
EXTENDS Naturals, Sequences, FiniteSets, Functions

CONSTANTS
  VirtRegs,   \* virtual registers (mir::VirtualRegister objects)
  PhysRegs,   \* physical registers of the register class being allocated
  Blocks      \* names of basic blocks

Regs == VirtRegs \cup PhysRegs

(***************************************************************************)
(* One instruction. srcs and dsts are its register operands, in a fixed    *)
(* order; the implicit registers are those RISCVCall and RISCVRet name     *)
(* (arguments, results, caller-saved registers). coalescent marks Mov and  *)
(* FMov, blockOps the targets of a terminator. mem is "load" or "store"    *)
(* for the spill code an allocator adds, on the stack slot of register     *)
(* slot, and "none" for every other instruction.                           *)
(***************************************************************************)
Instr ==
  [srcs : Seq(Regs), dsts : Seq(Regs),
   implicitSrcs : SUBSET PhysRegs, implicitDsts : SUBSET PhysRegs,
   coalescent : BOOLEAN, blockOps : SUBSET Blocks,
   mem : {"none", "load", "store"}, slot : VirtRegs \cup {"none"}]

use(I) == Range(I.srcs) \cup I.implicitSrcs
def(I) == Range(I.dsts) \cup I.implicitDsts

BlocksOf(F) == DOMAIN F.code
InstrsOf(F, b) == 1 .. Len(F.code[b])
Entry(F) == F.layout[1]

\* The (block, index) pairs of the instructions of F.
Points(F) == UNION {{b} \X InstrsOf(F, b) : b \in BlocksOf(F)}
At(F, p) == F.code[p[1]][p[2]]

successors(F, b) == F.code[b][Len(F.code[b])].blockOps

\* Registers a block reads before it writes them.
BlockUse(F, b) ==
  {r \in Regs : \E i \in InstrsOf(F, b) :
     /\ r \in use(F.code[b][i])
     /\ \A j \in 1 .. (i - 1) : r \notin def(F.code[b][j])}

BlockDef(F, b) == UNION {def(F.code[b][i]) : i \in InstrsOf(F, b)}

\* The virtual registers that occur in F (the allocators' argument virtRegs).
VirtRegsOf(F) ==
  VirtRegs \cap UNION {use(At(F, p)) \cup def(At(F, p)) : p \in Points(F)}

\* A well-formed machine function: blocks are laid out once each and end in
\* a terminator whose targets are blocks of the function.
IsFunction(F) ==
  /\ DOMAIN F = {"layout", "code"}
  /\ BlocksOf(F) \subseteq Blocks
  /\ F.layout \in Seq(BlocksOf(F))
  /\ Range(F.layout) = BlocksOf(F)
  /\ \A i, j \in DOMAIN F.layout : F.layout[i] = F.layout[j] => i = j
  /\ Len(F.layout) > 0
  /\ \A b \in BlocksOf(F) :
       /\ F.code[b] \in Seq(Instr)
       /\ Len(F.code[b]) > 0
       /\ successors(F, b) \subseteq BlocksOf(F)
=============================================================================
