------------------------ MODULE LiveVariableAnalysis ------------------------
(***************************************************************************)
(* mir::LiveVariableAnalysis (lib/opt/mir/passes/LiveVariableAnalysis.cpp):*)
(* the liveness facts every register allocator and the dead-code and       *)
(* register-reuse passes of the backend start from.                        *)
(*                                                                         *)
(* runOnFunction first sweeps the blocks in layout order until a whole     *)
(* sweep changes nothing (VisitBlock, EndSweep), then walks every block    *)
(* once, backwards, to obtain the sets of the single instructions          *)
(* (VisitInstruction, NextBlock). One action is one iteration of a loop.   *)
(***************************************************************************)
EXTENDS MirFunction

CONSTANT Funcs   \* the machine functions the analysis is run on

ASSUME FuncsAssumption == \A G \in Funcs : IsFunction(G)

VARIABLES
  F,         \* the function under analysis
  phase,     \* "blocks": the sweeps; "instrs": the backward walk; "done"
  cursor,    \* index in F.layout of the block the loop is at
  index,     \* in phase "instrs": the instruction to visit next, 0 at the end
  changed,   \* did the current sweep change a set?
  liveIn, liveOut,     \* block -> set of registers (liveIn_, liveOut_)
  live,                \* in phase "instrs": registers live after instruction index
  liveIn2, liveOut2    \* point -> set of registers

lvVars == <<F, phase, cursor, index, changed, liveIn, liveOut, live,
            liveIn2, liveOut2>>

\* What the analysis starts from on function G.
Start(G) ==
  /\ F = G
  /\ phase = "blocks" /\ cursor = 1 /\ index = 0 /\ changed = FALSE
  /\ liveIn = [b \in BlocksOf(G) |-> {}]
  /\ liveOut = [b \in BlocksOf(G) |-> {}]
  /\ live = {}
  /\ liveIn2 = [p \in Points(G) |-> {}]
  /\ liveOut2 = [p \in Points(G) |-> {}]

LVInit == \E G \in Funcs : Start(G)

\* The transfer functions: what leaves a block, given the liveIn of others,
\* and what enters it, given what leaves it.
FlowOut(b, in) == UNION {in[s] : s \in successors(F, b)}
FlowIn(b, out) == (out \ BlockDef(F, b)) \cup BlockUse(F, b)

\* Mutant: only a new liveOut counts as a change.
VisitBlockOutOnly ==
  /\ phase = "blocks" /\ cursor <= Len(F.layout)
  /\ LET b   == F.layout[cursor]
         out == FlowOut(b, liveIn)
     IN  /\ liveOut' = [liveOut EXCEPT ![b] = out]
         /\ liveIn' = [liveIn EXCEPT ![b] = FlowIn(b, out)]
         /\ changed' = (changed \/ out # liveOut[b])
  /\ cursor' = cursor + 1
  /\ UNCHANGED <<F, phase, index, live, liveIn2, liveOut2>>

VisitBlock ==
  /\ phase = "blocks" /\ cursor <= Len(F.layout)
  /\ LET b   == F.layout[cursor]
         out == FlowOut(b, liveIn)
         in  == FlowIn(b, out)
     IN  /\ liveOut' = [liveOut EXCEPT ![b] = out]
         /\ liveIn' = [liveIn EXCEPT ![b] = in]
         /\ changed' = (changed \/ out # liveOut[b] \/ in # liveIn[b])
  /\ cursor' = cursor + 1
  /\ UNCHANGED <<F, phase, index, live, liveIn2, liveOut2>>

\* do { ... } while (changed): sweep again, or start the backward walk of
\* the first block.
EndSweep ==
  /\ phase = "blocks" /\ cursor > Len(F.layout)
  /\ cursor' = 1
  /\ changed' = FALSE
  /\ IF changed
     THEN UNCHANGED <<phase, index, live>>
     ELSE /\ phase' = "instrs"
          /\ index' = Len(F.code[Entry(F)])
          /\ live' = liveOut[Entry(F)]
  /\ UNCHANGED <<F, liveIn, liveOut, liveIn2, liveOut2>>

\* Mutant: what an instruction writes is removed after what it reads is added.
LiveBeforeKillLast(I, after) == (after \cup use(I)) \ def(I)

LiveBefore(I, after) == (after \ def(I)) \cup use(I)

VisitInstruction ==
  /\ phase = "instrs" /\ index > 0
  /\ LET p == <<F.layout[cursor], index>>
     IN  /\ liveOut2' = [liveOut2 EXCEPT ![p] = live]
         /\ live' = LiveBefore(At(F, p), live)
         /\ liveIn2' = [liveIn2 EXCEPT ![p] = live']
  /\ index' = index - 1
  /\ UNCHANGED <<F, phase, cursor, changed, liveIn, liveOut>>

NextBlock ==
  /\ phase = "instrs" /\ index = 0
  /\ IF cursor < Len(F.layout)
     THEN /\ cursor' = cursor + 1
          /\ index' = Len(F.code[F.layout[cursor + 1]])
          /\ live' = liveOut[F.layout[cursor + 1]]
          /\ UNCHANGED phase
     ELSE /\ phase' = "done"
          /\ UNCHANGED <<cursor, index, live>>
  /\ UNCHANGED <<F, changed, liveIn, liveOut, liveIn2, liveOut2>>

LVNext == VisitBlock \/ EndSweep \/ VisitInstruction \/ NextBlock

LVSpec == LVInit /\ [][LVNext]_lvVars

-----------------------------------------------------------------------------
(* The type invariant: every set is a set of registers, every cursor is in *)
(* range of the loop it belongs to.                                        *)
LVTypeOK ==
  /\ IsFunction(F)
  /\ phase \in {"blocks", "instrs", "done"}
  /\ cursor \in 1 .. (Len(F.layout) + 1)
  /\ phase # "blocks" => cursor <= Len(F.layout)
  /\ index \in Nat
  /\ phase = "instrs" => index <= Len(F.code[F.layout[cursor]])
  /\ changed \in BOOLEAN
  /\ liveIn \in [BlocksOf(F) -> SUBSET Regs]
  /\ liveOut \in [BlocksOf(F) -> SUBSET Regs]
  /\ live \in SUBSET Regs
  /\ liveIn2 \in [Points(F) -> SUBSET Regs]
  /\ liveOut2 \in [Points(F) -> SUBSET Regs]

\* S solves the backward data-flow equations from above: it may be larger
\* than what is live, it never misses a register that is.
IsPostFix(S) ==
  \A b \in BlocksOf(F) : FlowIn(b, FlowOut(b, S)) \subseteq S[b]

(* The sets never grow beyond any solution of the equations, whatever the  *)
(* order of the sweeps: at the end they are the least one, so no register  *)
(* is reported live that is dead (an allocator would lose registers to it).*)
NeverBeyondLeastSolution ==
  \A S \in [BlocksOf(F) -> SUBSET Regs] :
    IsPostFix(S) =>
      \A b \in BlocksOf(F) :
        liveIn[b] \subseteq S[b] /\ liveOut[b] \subseteq FlowOut(b, S)

SolvedAt(b) ==
  liveOut[b] = FlowOut(b, liveIn) /\ liveIn[b] = FlowIn(b, liveOut[b])

(* When the sweeps are over the block sets solve the equations exactly: no *)
(* live register is missed, although a block is visited before its         *)
(* successors and a loop's head before its back edge.                      *)
BlocksSolved == phase # "blocks" => \A b \in BlocksOf(F) : SolvedAt(b)

PointSolved(b, i) ==
  LET p == <<b, i>>
  IN  /\ liveIn2[p] = LiveBefore(F.code[b][i], liveOut2[p])
      /\ i = Len(F.code[b]) => liveOut2[p] = liveOut[b]
      /\ i < Len(F.code[b]) => liveOut2[p] = liveIn2[<<b, i + 1>>]
      /\ i = 1 => liveIn2[p] = liveIn[b]

(* The sets of the single instructions agree with each other and with the  *)
(* sets of their block, although the latter come from the summaries        *)
(* BlockUse and BlockDef and the former from a walk over the instructions. *)
InstructionsSolved ==
  phase = "done" =>
    \A b \in BlocksOf(F) : \A i \in InstrsOf(F, b) : PointSolved(b, i)

-----------------------------------------------------------------------------
(* The inductive invariant of the proofs: while a sweep has changed        *)
(* nothing, the blocks it has passed are solved; during the backward walk, *)
(* live is what the rest of the block makes of the block's liveOut, and    *)
(* the points behind the walk are solved.                                  *)
Swept ==
  (phase = "blocks" /\ ~changed) =>
    \A j \in 1 .. (cursor - 1) : SolvedAt(F.layout[j])

LiveAfter(b, k) ==
  (liveOut[b] \ UNION {def(F.code[b][i]) : i \in (k + 1) .. Len(F.code[b])})
  \cup {r \in Regs : \E i \in (k + 1) .. Len(F.code[b]) :
          /\ r \in use(F.code[b][i])
          /\ \A j \in (k + 1) .. (i - 1) : r \notin def(F.code[b][j])}

Walked ==
  phase = "instrs" =>
    LET b == F.layout[cursor]
    IN  /\ live = LiveAfter(b, index)
        /\ index = Len(F.code[b]) => live = liveOut[b]
        /\ index < Len(F.code[b]) => live = liveIn2[<<b, index + 1>>]
        /\ \A i \in (index + 1) .. Len(F.code[b]) : PointSolved(b, i)
        /\ \A j \in 1 .. (cursor - 1) :
             \A i \in InstrsOf(F, F.layout[j]) : PointSolved(F.layout[j], i)

LVInv ==
  /\ LVTypeOK /\ NeverBeyondLeastSolution /\ Swept /\ BlocksSolved
  /\ Walked /\ InstructionsSolved

-----------------------------------------------------------------------------
\* The blocks of G control can reach: those in every set it does not leave.
Closed(G, S) == Entry(G) \in S /\ \A b \in S : successors(G, b) \subseteq S
Reachable(G) ==
  {b \in BlocksOf(G) : \A S \in SUBSET BlocksOf(G) : Closed(G, S) => b \in S}

\* The points of G control can reach next from p.
NextPoints(G, p) ==
  IF p[2] < Len(G.code[p[1]]) THEN {<<p[1], p[2] + 1>>}
                              ELSE {<<s, 1>> : s \in successors(G, p[1])}

\* The points with a point of W next.
PointsBefore(G, W) == UNION {{p \in Points(G) : q \in NextPoints(G, p)} : q \in W}

\* The points from which some path reads r before writing it: Within(G, r)[n] are
\* those with such a path of at most n steps. This is what being live means.
ReadsOf(G, r) == {p \in Points(G) : r \in use(At(G, p))}
StepBefore(G, r, W) ==
  ReadsOf(G, r) \cup {p \in PointsBefore(G, W) : r \notin def(At(G, p))}

Within(G, r) ==
  LET within[n \in 0 .. Cardinality(Points(G))] ==
        IF n = 0 THEN ReadsOf(G, r) ELSE StepBefore(G, r, within[n - 1])
  IN  within

ReadWithin(G, r) == Within(G, r)[Cardinality(Points(G))]

\* The points after which r holds a value that matters: they write it, or some
\* path reads it before writing it.
Held(G, r) ==
  {p \in Points(G) : r \in def(At(G, p))} \cup PointsBefore(G, ReadWithin(G, r))

(* A register is reported live before an instruction exactly when some     *)
(* path from there reads it before writing it.                             *)
LiveMeansRead ==
  phase = "done" =>
    \A r \in Regs : {p \in Points(F) : r \in liveIn2[p]} = ReadWithin(F, r)
=============================================================================
