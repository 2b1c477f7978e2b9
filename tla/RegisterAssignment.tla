------------------------- MODULE RegisterAssignment -------------------------
(***************************************************************************)
(* What a register allocator promises, whatever its algorithm: it decides  *)
(* once for every virtual register where the register lives, a physical    *)
(* register or the stack, and two registers whose values are needed at the *)
(* same time never live in the same physical register. clashes is the      *)
(* relation between registers that must be kept apart.                     *)
(***************************************************************************)
EXTENDS Naturals

CONSTANTS VirtRegs, PhysRegs

VARIABLES
  clashes,   \* set of pairs of registers, fixed by the program
  home       \* register -> "none", "stack", or a physical register

Homes == PhysRegs \cup {"none", "stack"}

RAInit ==
  /\ clashes \in SUBSET (VirtRegs \X (VirtRegs \cup PhysRegs))
  /\ home = [v \in VirtRegs |-> "none"]

Fits(v, r) ==
  /\ <<v, r>> \notin clashes
  /\ \A w \in VirtRegs :
       (<<v, w>> \in clashes \/ <<w, v>> \in clashes) => home[w] # r

Assign(v) ==
  /\ home[v] = "none"
  /\ \/ home' = [home EXCEPT ![v] = "stack"]
     \/ \E r \in PhysRegs : Fits(v, r) /\ home' = [home EXCEPT ![v] = r]
  /\ UNCHANGED clashes

RANext == \E v \in VirtRegs : Assign(v)

RASpec == RAInit /\ [][RANext]_<<clashes, home>>
=============================================================================
