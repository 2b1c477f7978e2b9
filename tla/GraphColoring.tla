---------------------------- MODULE GraphColoring ----------------------------
(***************************************************************************)
(* GraphColoringAllocator::allocate (lib/codegen/register_allocators/      *)
(* GraphColoringAllocator.cpp), the default allocator. A round runs the    *)
(* liveness analysis (the actions of LiveVariableAnalysis), builds the     *)
(* interference graph, merges registers that moves connect, colours what   *)
(* is left and rewrites the function. If registers were spilled, the code  *)
(* that loads and stores them uses new registers, and another round        *)
(* follows. Iteration over an unordered set is a nondeterministic choice.  *)
(***************************************************************************)
EXTENDS RegisterAllocator

CONSTANT Temps   \* names for the registers made for spill code, in order

ASSUME TempsAssumption ==
  /\ Temps \in Seq(VirtRegs)
  /\ \A m, n \in DOMAIN Temps : Temps[m] = Temps[n] => m = n
  /\ \A G \in Funcs : VirtRegsOf(G) \cap Range(Temps) = {}

VARIABLES
  original,      \* the function as allocate() was given it
  step,          \* the part of the round that is running
  regs,          \* nodes of the graph: pointers to registers
  interference, coalescence,   \* register -> set of registers
  todo,          \* registers the loop over coalescence has not reached
  rest,          \* V: nodes not yet on the stack
  stack,         \* S, top first; physical registers on it have no effect
  allocation,    \* virtual register -> physical register
  spilled,
  pos,           \* position the rewriting loop has reached
  out,           \* the code rewritten so far, block by block
  made           \* how many registers of Temps have been made

graphVars == <<regs, interference, coalescence, todo>>
colorVars == <<rest, stack, allocation, spilled>>
spillVars == <<pos, out, made>>
gcVars == <<original, step, graphVars, colorVars, spillVars>>
vars == <<lvVars, gcVars>>

NoCode(G) == [b \in BlocksOf(G) |-> <<>>]

GCInit ==
  /\ LVInit
  /\ original = F
  /\ step = "analyse"
  /\ regs = VirtRegsOf(F) \cup PhysRegs
  /\ interference = <<>> /\ coalescence = <<>> /\ todo = {}
  /\ rest = {} /\ stack = <<>> /\ allocation = <<>> /\ spilled = {}
  /\ pos = 1 /\ out = NoCode(F) /\ made = 0

Analyse == step = "analyse" /\ LVNext /\ UNCHANGED gcVars

-----------------------------------------------------------------------------
(* The graphs.                                                             *)

\* addEdge and removeEdge, from v to each register of W.
AddEdges(g, v, W) ==
  [x \in DOMAIN g |-> IF x = v THEN g[x] \cup W
                      ELSE IF x \in W THEN g[x] \cup {v} ELSE g[x]]
RemoveEdges(g, v, W) ==
  [x \in DOMAIN g |-> IF x = v THEN g[x] \ W
                      ELSE IF x \in W THEN g[x] \ {v} ELSE g[x]]

\* Mutant: what an instruction writes does not meet what lives on.
MeetsLiveOnly(u, v) ==
  \/ \E b \in BlocksOf(F) : {u, v} \subseteq liveIn[b]
  \/ \E p \in Points(F) : u \in liveOut2[p] /\ v \in liveOut2[p]

\* u is live together with v, or live after an instruction that writes v.
Meets(u, v) ==
  \/ \E b \in BlocksOf(F) : {u, v} \subseteq liveIn[b]
  \/ \E p \in Points(F) : u \in liveOut2[p] /\ v \in liveOut2[p] \cup def(At(F, p))

Interferes(u, v) == u # v /\ (Meets(u, v) \/ Meets(v, u))

\* A register whose last operand has been replaced is destroyed; a pointer to
\* it may have stayed in regs.
Destroyed == (regs \cap VirtRegs) \ VirtRegsOf(F)

Build ==
  /\ step = "analyse" /\ phase = "done"
  /\ interference' = [u \in regs |-> {v \in regs : Interferes(u, v)}]
  /\ coalescence' =
       [u \in regs |-> (MovedWith(F, u) \cap regs) \ (interference'[u] \cup {u})]
  /\ todo' = regs \cap VirtRegs
  /\ step' = "coalesce"
  /\ UNCHANGED <<lvVars, original, regs, colorVars, spillVars>>

\* The dynamic_cast of a pointer to a destroyed register. Build is the outcome
\* in which its memory still looks like a register.
ReadDestroyed ==
  /\ step = "analyse" /\ phase = "done" /\ Destroyed # {}
  /\ step' = "undefined"
  /\ UNCHANGED <<lvVars, original, graphVars, colorVars, spillVars>>

-----------------------------------------------------------------------------
(* Coalescing: u becomes v if the two have fewer than K neighbours of      *)
(* degree K or more, K being the number of physical registers.             *)

canCoalesce(u, v) ==
  Cardinality({w \in (interference[u] \ {v}) \cup (interference[v] \ {u}) :
                 Cardinality(interference[w]) >= Cardinality(PhysRegs)})
    < Cardinality(PhysRegs)

\* Mutant: moves between registers that now interfere are kept.
MergeKeepMoves(u, v) ==
  LET apart   == interference[u] \ {v}
      graph   == AddEdges(interference, v, apart)
      graph2  == RemoveEdges(graph, u, apart)
      moves   == coalescence
      moves2  == AddEdges(moves, v, (moves[u] \ {v}) \ graph2[v])
  IN  /\ interference' = graph2
      /\ coalescence' = RemoveEdges(moves2, u, moves2[u])
      /\ regs' = regs \ {u}
      /\ F' = [F EXCEPT !.code = RenameAll(F, [x \in {u} |-> v])]
      /\ UNCHANGED <<phase, cursor, index, changed, liveIn, liveOut, live,
                     liveIn2, liveOut2>>

\* Mutant: v does not get the neighbours of u.
MergeDropEdges(u, v) ==
  LET apart   == interference[u] \ {v}
      graph   == interference
      graph2  == RemoveEdges(graph, u, apart)
      moves   == RemoveEdges(coalescence, v, apart)
      moves2  == AddEdges(moves, v, (moves[u] \ {v}) \ graph2[v])
  IN  /\ interference' = graph2
      /\ coalescence' = RemoveEdges(moves2, u, moves2[u])
      /\ regs' = regs \ {u}
      /\ F' = [F EXCEPT !.code = RenameAll(F, [x \in {u} |-> v])]
      /\ UNCHANGED <<phase, cursor, index, changed, liveIn, liveOut, live,
                     liveIn2, liveOut2>>

Merge(u, v) ==
  LET apart   == interference[u] \ {v}
      graph   == AddEdges(interference, v, apart)
      graph2  == RemoveEdges(graph, u, apart)
      moves   == RemoveEdges(coalescence, v, apart)
      moves2  == AddEdges(moves, v, (moves[u] \ {v}) \ graph2[v])
  IN  /\ interference' = graph2
      /\ coalescence' = RemoveEdges(moves2, u, moves2[u])
      /\ regs' = regs \ {u}
      /\ F' = [F EXCEPT !.code = RenameAll(F, [x \in {u} |-> v])]
      /\ UNCHANGED <<phase, cursor, index, changed, liveIn, liveOut, live,
                     liveIn2, liveOut2>>

Coalesce ==
  /\ step = "coalesce"
  /\ \E u \in todo :
       /\ todo' = todo \ {u}
       /\ \/ \E v \in coalescence[u] : canCoalesce(u, v) /\ Merge(u, v)
          \/ /\ \A v \in coalescence[u] : ~canCoalesce(u, v)
             /\ UNCHANGED <<lvVars, regs, interference, coalescence>>
  /\ UNCHANGED <<original, step, colorVars, spillVars>>

EndCoalescing ==
  /\ step = "coalesce" /\ todo = {}
  /\ rest' = regs
  /\ step' = "simplify"
  /\ UNCHANGED <<lvVars, original, graphVars, stack, allocation, spilled, spillVars>>

-----------------------------------------------------------------------------
(* Colouring.                                                              *)

\* degrees[v], for v in V.
degree(v) == Cardinality(interference[v] \cap rest)

Simplify ==
  /\ step = "simplify"
  /\ \E u \in rest :
       /\ \A v \in rest : degree(u) <= degree(v)
       /\ rest' = rest \ {u}
       /\ stack' = IF u \in VirtRegs THEN <<u>> \o stack ELSE stack
  /\ UNCHANGED <<lvVars, original, step, graphVars, allocation, spilled, spillVars>>

\* Mutant: only registers of virtual neighbours count.
usedByVirtual(u) ==
  {allocation[v] : v \in interference[u] \cap DOMAIN allocation}

used(u) ==
  (interference[u] \cap PhysRegs)
    \cup {allocation[v] : v \in interference[u] \cap DOMAIN allocation}

Select ==
  /\ step = "simplify" /\ rest = {} /\ stack # <<>>
  /\ LET u == Head(stack)
         choices == PhysRegs \ used(u)
     IN  \/ \E r \in BestOf(1, choices) :
              /\ allocation' = Put(allocation, u, r)
              /\ UNCHANGED spilled
         \/ /\ choices = {}
            /\ spilled' = spilled \cup {u}
            /\ UNCHANGED allocation
  /\ stack' = Tail(stack)
  /\ UNCHANGED <<lvVars, original, step, graphVars, rest, spillVars>>

\* The rewriting of what got a register; what did not is spilled next.
EndSelect ==
  /\ step = "simplify" /\ rest = {} /\ stack = <<>>
  /\ F' = [F EXCEPT !.code = RenameAll(F, allocation)]
  /\ regs' = regs \ VirtRegs
  /\ allocation' = <<>>
  /\ step' = IF spilled = {} THEN "done" ELSE "spill"
  /\ pos' = 1 /\ out' = NoCode(F)
  /\ UNCHANGED <<phase, cursor, index, changed, liveIn, liveOut, live, liveIn2, liveOut2,
                 original, interference, coalescence, todo, rest, stack, spilled, made>>

-----------------------------------------------------------------------------
(* Spilling: a new register for every operand that is spilled.             *)

\* The operands of s that are spilled, up to the k-th.
spilledUpTo(s, k) == {j \in 1 .. k : s[j] \in spilled}

\* srcs or dsts: for each spilled register of s, the new register made for the
\* last of its operands; n registers have been made before.
tempsOf(s, n) ==
  LET last(v) == CHOOSE k \in DOMAIN s :
                   s[k] = v /\ \A j \in DOMAIN s : s[j] = v => j <= k
  IN  [v \in Range(s) \cap spilled |-> Temps[n + Cardinality(spilledUpTo(s, last(v)))]]

SpillInstruction ==
  /\ step = "spill" /\ pos <= Len(LayoutPoints(F))
  /\ LET p == LayoutPoints(F)[pos]
         I == At(F, p)
         afterSrcs == made + Cardinality(spilledUpTo(I.srcs, Len(I.srcs)))
         afterDsts == afterSrcs + Cardinality(spilledUpTo(I.dsts, Len(I.dsts)))
     IN  /\ afterDsts <= Len(Temps)
         /\ made' = afterDsts
         /\ regs' = regs \cup {Temps[n] : n \in (made + 1) .. afterDsts}
         /\ out' = [out EXCEPT ![p[1]] = @ \o
              Spilled(I, tempsOf(I.srcs, made), tempsOf(I.dsts, afterSrcs), spilled)]
  /\ pos' = pos + 1
  /\ UNCHANGED <<lvVars, original, step, interference, coalescence, todo, colorVars>>

\* Mutant: the liveness of the old code is used.
EndSpillStale ==
  /\ step = "spill" /\ pos > Len(LayoutPoints(F))
  /\ LET G == [F EXCEPT !.code = out]
     IN  /\ F' = G
         /\ UNCHANGED <<phase, cursor, index, changed, liveIn, liveOut, live, liveIn2, liveOut2>>
  /\ spilled' = {}
  /\ step' = "analyse"
  /\ UNCHANGED <<original, graphVars, rest, stack, allocation, spillVars>>

\* Mutant: the set of spilled registers is not emptied.
EndSpillKeepSpilled ==
  /\ step = "spill" /\ pos > Len(LayoutPoints(F))
  /\ LET G == [F EXCEPT !.code = out]
     IN  /\ F' = G
         /\ liveIn' = [b \in BlocksOf(G) |-> {}] /\ liveOut' = [b \in BlocksOf(G) |-> {}]
         /\ liveIn2' = [p \in Points(G) |-> {}] /\ liveOut2' = [p \in Points(G) |-> {}]
  /\ phase' = "blocks" /\ cursor' = 1 /\ index' = 0 /\ changed' = FALSE /\ live' = {}
  /\ spilled' = spilled
  /\ step' = "analyse"
  /\ UNCHANGED <<original, graphVars, rest, stack, allocation, spillVars>>

\* The next round.
EndSpill ==
  /\ step = "spill" /\ pos > Len(LayoutPoints(F))
  /\ LET G == [F EXCEPT !.code = out]
     IN  /\ F' = G
         /\ liveIn' = [b \in BlocksOf(G) |-> {}] /\ liveOut' = [b \in BlocksOf(G) |-> {}]
         /\ liveIn2' = [p \in Points(G) |-> {}] /\ liveOut2' = [p \in Points(G) |-> {}]
  /\ phase' = "blocks" /\ cursor' = 1 /\ index' = 0 /\ changed' = FALSE /\ live' = {}
  /\ spilled' = {}
  /\ step' = "analyse"
  /\ UNCHANGED <<original, graphVars, rest, stack, allocation, spillVars>>

GCNext ==
  \/ Analyse \/ Build \/ ReadDestroyed
  \/ Coalesce \/ EndCoalescing
  \/ Simplify \/ Select \/ EndSelect
  \/ SpillInstruction \/ EndSpill

GCSpec == GCInit /\ [][GCNext]_vars /\ WF_vars(GCNext)

-----------------------------------------------------------------------------
HasGraph == step \in {"coalesce", "simplify"}

(* The type invariant: the liveness sets are those of the current function,*)
(* the graphs connect registers of regs, colours are physical registers.   *)
GCTypeOK ==
  /\ LVTypeOK
  /\ step \in {"analyse", "coalesce", "simplify", "spill", "done", "undefined"}
  /\ regs \subseteq Regs
  /\ HasGraph => /\ \A u \in DOMAIN interference : interference[u] \subseteq regs
                 /\ \A u \in DOMAIN coalescence : coalescence[u] \subseteq regs
  /\ todo \subseteq VirtRegs /\ rest \subseteq regs \cup Regs
  /\ stack \in Seq(VirtRegs)
  /\ DOMAIN allocation \subseteq VirtRegs
  /\ \A v \in DOMAIN allocation : allocation[v] \in PhysRegs
  /\ spilled \subseteq VirtRegs
  /\ pos \in Nat \ {0} /\ made \in 0 .. Len(Temps)
  /\ \A b \in DOMAIN out : out[b] \in Seq(Instr)

(* Two registers that clash on some path of the function as it is now are  *)
(* neighbours in the graph, although merging renames operands and updates  *)
(* the graph without another look at the code.                             *)
GraphCoversClashes ==
  step = "coalesce" =>
    \A c \in Clashes : c[2] \in regs => c[2] \in interference[c[1]]

\* g is an undirected graph without loops whose edges connect registers of R.
IsGraph(g, R) ==
  /\ R \subseteq DOMAIN g
  /\ \A u \in DOMAIN g : /\ u \notin g[u] /\ g[u] \subseteq R
                        /\ \A v \in g[u] : u \in g[v]

\* i and c are such graphs on the same registers and have no edge in common.
AreApart(i, c, R) ==
  /\ IsGraph(i, R) /\ IsGraph(c, R) /\ DOMAIN c = DOMAIN i
  /\ \A u \in DOMAIN i : i[u] \cap c[u] = {}

(* Registers the allocator may still merge are never neighbours, whatever  *)
(* was merged before, and both graphs stay undirected graphs of regs.      *)
CandidatesApart == HasGraph => AreApart(interference, coalescence, regs)

(* Neighbours get different registers, and no register gets one that is a  *)
(* neighbour itself.                                                       *)
ColoringSound ==
  \A u \in DOMAIN allocation :
    /\ allocation[u] \notin interference[u]
    /\ \A v \in interference[u] \cap DOMAIN allocation : allocation[v] # allocation[u]

(* allocate() returns, unless it reads a register that is destroyed: the   *)
(* rounds end.                                                             *)
GCReturns == <>(step \in {"done", "undefined"})

-----------------------------------------------------------------------------
(* The inductive invariant of the proofs: besides the graphs and colours,  *)
(* that what is still to be merged or coloured are nodes of the graph.     *)
GCInv ==
  /\ CandidatesApart /\ ColoringSound
  /\ step = "coalesce" => todo \subseteq DOMAIN interference
  /\ step = "simplify" =>
       rest \subseteq regs /\ stack \in Seq(regs) /\ DOMAIN allocation \subseteq regs
  /\ step # "simplify" => stack = <<>> /\ allocation = <<>>

-----------------------------------------------------------------------------
\* Claims of the repository's tests and comments that the code breaks.

(* A register made for spill code gets a physical register. Otherwise every*)
(* round spills the ones the round before made: all physical registers are *)
(* taken where it is needed, and registers once assigned are not given up. *)
(* (tests/mini-llc/test.sh:163 runs the compiler under a time limit.)      *)
TempsColored == spilled \cap Range(Temps) = {}

(* Registers in use are kept alive (NaiveAllocator.cpp:64).                *)
RegistersAlive == step # "undefined"

(* Both hold in every round: what a round leaves to the next can be used.  *)
RoundsSound == TempsColored /\ RegistersAlive

-----------------------------------------------------------------------------
(* The allocator followed by the execution of the function it returns, in  *)
(* lockstep with the function it was given.                                *)
VARIABLES pc, newPc, oldRegs, newRegs, slots   \* as in LockstepExecution

execVars == <<pc, newPc, oldRegs, newRegs, slots>>

Exec == INSTANCE LockstepExecution WITH F <- original

GXInit == GCInit /\ Exec!ExecInit

Allocate == GCNext /\ UNCHANGED execVars
Run == step = "done" /\ Exec!ExecNext(F.code) /\ UNCHANGED vars

GXNext == Allocate \/ Run

\* allocate() runs until it returns; its result need not be run to the end.
GXSpec == GXInit /\ [][GXNext]_<<vars, execVars>> /\ WF_<<vars, execVars>>(Allocate)

(* The allocated function computes what the original computes: every       *)
(* instruction reads the same values, on every path, with moves merged     *)
(* away and registers spilled.                                             *)
GXReadsAgree == step = "done" => Exec!ReadsAgreeAt(F.code)
=============================================================================
