--------------------------- MODULE NaiveAllocator ---------------------------
(***************************************************************************)
(* NaiveAllocator::allocate (lib/codegen/register_allocators/              *)
(* NaiveAllocator.cpp): every virtual register lives in a stack slot, and  *)
(* every instruction borrows, for its operands, physical registers that    *)
(* hold no value there. The liveness analysis (the actions of              *)
(* LiveVariableAnalysis) runs first. Iteration over an unordered set is a  *)
(* nondeterministic choice.                                                *)
(***************************************************************************)
EXTENDS LockstepExecution

VARIABLES
  step,   \* "rewrite", "done", or "failed" when allocate() returns false
  pos,    \* position the rewriting loop has reached
  out     \* the code rewritten so far, block by block

naVars == <<step, pos, out>>
vars == <<lvVars, naVars>>

virtRegs == VirtRegsOf(F)

NAInit ==
  /\ LVInit
  /\ step = "rewrite" /\ pos = 1
  /\ out = [b \in BlocksOf(F) |-> <<>>]

Analyse == LVNext /\ UNCHANGED naVars

\* Mutant: sources, too, keep clear of what is live after the instruction.
OperandMapsClear(p) ==
  LET S == SrcsIn(At(F, p), virtRegs)
      D == DstsIn(At(F, p), virtRegs)
      both == BestOf(Cardinality(S \cap D), PhysRegs \ (liveIn2[p] \cup liveOut2[p]))
      src  == BestOf(Cardinality(S \ D), (PhysRegs \ (liveIn2[p] \cup liveOut2[p])) \ both)
      dst  == BestOf(Cardinality(D \ S), (PhysRegs \ liveOut2[p]) \ both)
  IN  Borrowed(S, D, both, src, dst)

\* The registers the operands of the instruction at p may get: first those it
\* reads and writes, then those it reads, then those it writes. There is none
\* if one of the loops runs out of registers.
OperandMaps(p) ==
  LET S == SrcsIn(At(F, p), virtRegs)
      D == DstsIn(At(F, p), virtRegs)
      both == BestOf(Cardinality(S \cap D), PhysRegs \ (liveIn2[p] \cup liveOut2[p]))
      src  == BestOf(Cardinality(S \ D), (PhysRegs \ liveIn2[p]) \ both)
      dst  == BestOf(Cardinality(D \ S), (PhysRegs \ liveOut2[p]) \ both)
  IN  Borrowed(S, D, both, src, dst)

Rewriting == phase = "done" /\ step = "rewrite"

RewriteInstruction ==
  /\ Rewriting /\ pos <= Len(LayoutPoints(F))
  /\ LET p == LayoutPoints(F)[pos]
     IN  \E m \in OperandMaps(p) :
           out' = [out EXCEPT ![p[1]] = @ \o Spilled(At(F, p), m, m, virtRegs)]
  /\ pos' = pos + 1
  /\ UNCHANGED <<lvVars, step>>

GiveUp ==
  /\ Rewriting /\ pos <= Len(LayoutPoints(F))
  /\ OperandMaps(LayoutPoints(F)[pos]) = {}
  /\ step' = "failed"
  /\ UNCHANGED <<lvVars, pos, out>>

Return ==
  /\ Rewriting /\ pos > Len(LayoutPoints(F))
  /\ step' = "done"
  /\ UNCHANGED <<lvVars, pos, out>>

NANext == Analyse \/ RewriteInstruction \/ GiveUp \/ Return

NASpec == NAInit /\ [][NANext]_vars

-----------------------------------------------------------------------------
(* allocate() gives up only on an instruction whose operands fit in the    *)
(* registers free there in no way at all, although it never revises a      *)
(* choice.                                                                 *)
GivesUpOnlyIfStuck ==
  step = "failed" =>
    LET p == LayoutPoints(F)[pos]
        S == SrcsIn(At(F, p), virtRegs)
        D == DstsIn(At(F, p), virtRegs)
    IN  ~\E m \in [S \cup D -> PhysRegs] :
           /\ \A v, w \in S : m[v] \notin liveIn2[p] /\ (m[v] = m[w] => v = w)
           /\ \A v, w \in D : m[v] \notin liveOut2[p] /\ (m[v] = m[w] => v = w)

-----------------------------------------------------------------------------
(* The allocator followed by the execution of the function it returns, in  *)
(* lockstep with the function it was given.                                *)
NXInit == NAInit /\ ExecInit

Allocate == NANext /\ UNCHANGED execVars
Run == step = "done" /\ ExecNext(out) /\ UNCHANGED vars

NXNext == Allocate \/ Run
NXSpec == NXInit /\ [][NXNext]_<<vars, execVars>>

(* Where the allocator starts, a register is reported live exactly when    *)
(* some path reads it before writing it.                                   *)
LivenessExact == (step = "rewrite" /\ pos = 1) => LiveMeansRead

(* The allocated function computes what the original computes, although    *)
(* the registers it borrows also carry arguments and results.              *)
NXReadsAgree == step = "done" => ReadsAgreeAt(out)
=============================================================================
