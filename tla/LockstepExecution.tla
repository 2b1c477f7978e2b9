------------------------- MODULE LockstepExecution -------------------------
(***************************************************************************)
(* Runs a machine function before and after register allocation side by    *)
(* side. This is the promise an allocator makes to the rest of the backend *)
(* (and what the end-to-end tests under test/ observe): every instruction  *)
(* of the rewritten function reads the values the instruction of the       *)
(* original read.                                                          *)
(*                                                                         *)
(* A value is where it was computed, the register it was computed into and *)
(* a bit that tells two executions of the same instruction apart. A move   *)
(* copies its source. A call writes new values to every register it does   *)
(* not preserve. A virtual register no instruction has written yet holds   *)
(* poison: the original may read anything there, what the rewritten        *)
(* function reads in particular.                                           *)
(***************************************************************************)
EXTENDS RegisterAllocator

VARIABLES
  pc,        \* the next instruction of the original, <<block, index>>
  newPc,     \* the index of the next instruction of the rewritten block
  oldRegs,   \* registers of the original: virtual and physical
  newRegs,   \* registers of the rewritten function: physical
  slots      \* stack slots of the spilled registers

execVars == <<pc, newPc, oldRegs, newRegs, slots>>

InitialValue(r) == <<<<"caller", 0>>, r, 0>>

\* What the virtual registers hold at first. RISCVMIRGen::getRegister makes a
\* register that nothing writes for an operand that is poison.
Poison == {InitialValue(v) : v \in VirtRegs}

\* A value of the rewritten function may stand for one of the original: it is the
\* same, or that one may be any.
StandsFor(new, old) == new = old \/ old \in Poison

ExecInit ==
  /\ pc = <<Entry(F), 1>> /\ newPc = 1
  /\ oldRegs = [r \in Regs |-> InitialValue(r)]
  /\ newRegs = [r \in PhysRegs |-> InitialValue(r)]
  /\ slots = [v \in VirtRegs |-> InitialValue("slot")]

\* A load or store the allocator added; the original waits.
SpillCode(out) ==
  LET J == out[pc[1]][newPc]
  IN  /\ \/ /\ J.mem = "load"
            /\ newRegs' = [newRegs EXCEPT ![J.dsts[1]] = slots[J.slot]]
            /\ UNCHANGED slots
         \/ /\ J.mem = "store"
            /\ slots' = [slots EXCEPT ![J.slot] = newRegs[J.srcs[1]]]
            /\ UNCHANGED newRegs
      /\ newPc' = newPc + 1
      /\ UNCHANGED <<pc, oldRegs>>

\* What I leaves in the register files, old or new. The values are those the
\* original instruction, at pc, computes.
Written(I, regs, value) ==
  [r \in DOMAIN regs |->
     IF \E k \in DOMAIN I.dsts : I.dsts[k] = r
     THEN IF I.coalescent THEN regs[I.srcs[1]]
          ELSE value[At(F, pc).dsts[CHOOSE k \in DOMAIN I.dsts : I.dsts[k] = r]]
     ELSE IF r \in I.implicitDsts THEN value[r] ELSE regs[r]]

\* The original instruction and the rewritten one, together.
Execute(out) ==
  LET I == At(F, pc)
      J == out[pc[1]][newPc]
  IN  /\ J.mem = "none"
      /\ \E bit \in {0, 1} :
           LET value == [r \in Regs |-> <<pc, r, bit>>]
           IN  /\ oldRegs' = Written(I, oldRegs, value)
               /\ newRegs' = Written(J, newRegs, value)
      /\ IF I.blockOps = {}
         THEN pc' = <<pc[1], pc[2] + 1>> /\ newPc' = newPc + 1
         ELSE \E b \in I.blockOps : pc' = <<b, 1>> /\ newPc' = 1
      /\ UNCHANGED slots

Returned == pc[2] > Len(F.code[pc[1]])

ExecNext(out) == ~Returned /\ (SpillCode(out) \/ Execute(out))

\* The rewritten instruction at newPc reads what the original at pc reads, up to
\* poison.
ReadsAgreeAt(out) ==
  LET I == At(F, pc)
      J == out[pc[1]][newPc]
  IN  (~Returned /\ J.mem = "none") =>
        /\ J.implicitSrcs = I.implicitSrcs /\ Len(J.srcs) = Len(I.srcs)
        /\ \A k \in DOMAIN I.srcs : StandsFor(newRegs[J.srcs[k]], oldRegs[I.srcs[k]])
        /\ \A r \in I.implicitSrcs : StandsFor(newRegs[r], oldRegs[r])
=============================================================================
