---------------------------- MODULE IrPassManager ----------------------------
(***************************************************************************)
(* ir::PassManager::run (lib/opt/ir/PassManager.cpp) after Mem2Reg: its    *)
(* do-while loop over the passes, on modules with calls, memory and loops. *)
(***************************************************************************)
EXTENDS CfgPasses, MemoryPasses, MotionPasses, ModulePasses

Init == IrPassInit

Next ==
  \/ CfgPassesNext
  \/ MemoryPassesNext
  \/ MotionPassesNext
  \/ ModulePassesNext
  \/ pass = "done" /\ UNCHANGED vars

\* run() does not wait for anything. (This is WF_vars(Next): some pass can go on
\* unless all are done. TLC evaluates it without computing the next state anew.)
KeepsRunning == []<>(pass = "done") \/ []<><<TRUE>>_vars

Spec == Init /\ [][Next]_vars /\ KeepsRunning

-----------------------------------------------------------------------------
ModuleOps == Terminators \cup Removable \cup Stores \cup {"call", "icall"}

functionsNow == {prog.functions[f] : f \in DOMAIN prog.functions}

(* The type invariant: every block is laid out once, operands of phis come *)
(* in pairs, the values of a function have different names, what a         *)
(* function refers to is in the module, and a function has at most one of  *)
(* the attributes ReadNone and ReadOnly.                                   *)
TypeOK ==
  /\ pass \in Range(Passes) \cup {"done"}
  /\ at \in 1 .. Len(defined) /\ cursor \in 0 .. (Len(fn.layout) + 1)
  /\ swept \in BOOLEAN /\ changed \in BOOLEAN
  /\ IsInjective(prog.order) /\ Range(prog.order) = DOMAIN prog.functions
  /\ \A G \in functionsNow :
       /\ IsInjective(G.layout) /\ Range(G.layout) = BlocksOf(G)
       /\ ~({"ReadNone", "ReadOnly"} \subseteq G.attrs)
       /\ \A I \in instructions(G) :
            /\ I.op \in ModuleOps
            /\ Range(I.dests) \subseteq BlocksOf(G)
            /\ IsPhi(I) => Len(I.args) = Len(I.dests)
            /\ \A v \in Range(I.args) :
                 isConstant(prog, v) \/ v \in Range(G.params) \/ defines(G, v)
       /\ \A id \in {I.id : I \in instructions(G)} \ {"none"} :
            Cardinality({<<c, k>> \in BlocksOf(G) \X (1 .. 30) :
                           k \in DOMAIN G.code[c] /\ G.code[c][k].id = id}) = 1

(* assert(F.isWellFormed()) at the end of every pass.                      *)
PassesKeepWellFormed ==
  cursor = 0 => \A G \in functionsNow : isDeclaration(G) \/ isWellFormed(G)

(* Every pass preserves what the program does: its external calls with     *)
(* their arguments and the memory they see, whether and what it returns,   *)
(* and what it leaves in the variables other programs see. A value that    *)
(* was undefined may become any. The new program may take more steps.      *)
BehaviourPreserved ==
  cursor = 0 =>
    \A values \in MainArguments :
      KeepsPromise(promise[values], Promise(prog, values, 2 * Steps))

(* What the passes promise of any module they are given: the functions stay*)
(* well-formed (asserted at the end of every pass) and do what they did.   *)
PassesSound == PassesKeepWellFormed /\ BehaviourPreserved

(* When the pass manager stops, these are gone, whichever pass made the    *)
(* last of them: unreachable blocks, branches on a constant or with equal  *)
(* targets, blocks that could be merged, calls that ought to be inlined,   *)
(* values no one uses, what is computed from constants, and phis with one  *)
(* incoming value.                                                         *)
FixedPoint ==
  pass = "done" =>
    \A f \in Range(defined) :
      LET G == prog.functions[f]
      IN  /\ BlocksOf(G) = Reachable(G)
          /\ \A c \in BlocksOf(G) :
               LET I == Terminator(G, c)
               IN  /\ I.op = "condbr" => I.args[1] \notin Constants /\ I.dests[1] # I.dests[2]
                   /\ I.op = "br" => ~(/\ predecessors(G, I.dests[1]) = {c}
                                       /\ I.dests[1] # c
                                       /\ phisOf(G, I.dests[1]) = {})
          /\ \A I \in instructions(G) :
               /\ I.op \in Removable => isUsed(G, I.id)
               /\ I.op \in {"not", "sext", "add", "mul"} =>
                    \E v \in Range(I.args) : ~isConstant(prog, v)
               /\ IsPhi(I) => Len(I.args) > 1
               /\ ~shouldInline(G, I)

LoopsAround(G, c) ==
  {l.header : l \in {k \in LoopsOf(G, Dominators(G)) : c \in k.blocks}}

(* GlobalCodeMotion may take a value out of loops, but puts it into none,  *)
(* although LoopTreeAnalysis takes a loop with two ways back for two loops *)
(* and nests them by whatever block a hash set has first.                  *)
MotionNeverDeepens ==
  [][pass = "motion" =>
       LET old == Placement(fn)
           new == Placement(prog'.functions[defined[at]])
       IN  \A id \in DOMAIN old : LoopsAround(fn, new[id]) \subseteq LoopsAround(fn, old[id])]_vars

(* The loops of the passes and of the pass manager end, although           *)
(* TailDuplication and FunctionInlining make functions longer and give the *)
(* others new code to work on.                                             *)
PassManagerTerminates == <>(pass = "done")
=============================================================================
