# TLA+ models of mini-llvm

Specifications, TLC runs and machine-checked proofs for mini-llvm, from the text
of a module to the machine code that is made of it: the reader, the passes of the
optimiser, instruction selection, the passes on machine IR, liveness analysis,
three register allocators, the stack frame and the emission of code.

## 1. The system

mini-llvm compiles a textual SSA IR to riscv64 assembly. It is one sequential
process without persistent state: there are no threads, messages, crashes or
timeouts to model. What is hard is of another kind: data structures that are
changed while facts computed from them are still in use, fixed-point loops that
have to end, results that depend on the iteration order of hash sets, passes
that rely on what other passes leave behind, arithmetic at the edges of a width,
and conventions two distant places have to share (how a value of a type sits in a
register, where an argument is passed).

| component | state | operations | talks to | what makes it correct | modelled |
|---|---|---|---|---|---|
| IR reader (`lib/ir_reader`) | token, symbol table, skipped bodies | lex, parse | builds IR | what is printed is read back, what is accepted means what it says | yes, on tokens |
| IR core (`lib/ir`) | blocks, instructions, use lists | insert, remove, replace uses, `isWellFormed`, `fold`, `format` | everything | SSA form; types agree | all but use lists and ownership |
| IR pass manager (`lib/opt/ir/PassManager.cpp`) | `changed` | run `Mem2Reg`, then 20 passes until nothing changes | passes | ends; leaves nothing undone | yes |
| control-flow, memory, value, motion and interprocedural passes | the function or module, alias, dominance and loop facts | rewrite | each other, through the module | SSA form and behaviour preserved | yes; floating-point rewritings left out |
| dominator and loop analyses | trees | compute | passes, `isWellFormed` | agree with the paths of the graph | yes |
| instruction selection (`RISCVMIRGen`) | virtual registers, stack slots | emit MIR, lower phis | MIR | the code does what the IR does | yes |
| MIR core (`lib/mir`) | blocks, instructions, stack frame | `use`, `def`, `successors`, offsets | backend | offsets are those of the final frame | yes |
| live variable analysis | block and instruction sets | sweep, walk | allocators, dead-code and register-reuse passes | live exactly when some path reads before writing | yes, proved |
| register allocators (linear scan, graph coloring, naive) | intervals or graph, allocation, slots | allocate, rewrite | driver's load/store callbacks, liveness | every instruction reads what it read before | yes, all three proved |
| backend driver | save set, markers | allocate per class, save and restore | allocators | callee-saved registers and the caller's stack preserved | yes |
| MIR passes | the function | rewrite | each other | behaviour preserved | yes; one width |
| machine code (`lib/mc`, `RISCVMCGen`) | lines of assembly | emit, drop fall-through jumps | | every instruction has a code; falls through where it must | all but the formatting |
| numeric operators, `BigInteger`, Unicode, command line | | arithmetic, conversions | constant folding, reader | two's complement | the integer operators |
| `mini-llc`, fuzzer | options | the stages in order | everything | | the stages |

Interaction is by direct calls on one shared module: `tools/mini-llc/main.cpp`
parses, checks `isWellFormed`, runs `ir::PassManager`, then
`RISCVBackendDriver`, which selects instructions, runs the MIR passes, allocates
registers for each function and class through one of the three allocators
(which call back for spill code), saves callee-saved registers and emits code.

The hazards of the code, each at its line and with the properties that cover
it, are listed in `PROJECT.json`.

## 2. The modules

Machine IR and register allocation:

| module | models |
|---|---|
| `MirFunction` | machine functions: blocks in layout order, instructions as the registers they read and write, `use`, `def`, `successors` |
| `LiveVariableAnalysis` | `LiveVariableAnalysis::Impl::runOnFunction`, one action per iteration of its loops |
| `RegisterAllocator` | what the allocators share: register preference, renaming, spill code of the driver's callbacks; and `Clashes`, the registers that must be kept apart, defined by paths |
| `LinearScan` | `LinearScanAllocator::allocate`: reserved registers, linearisation, intervals, scan, rewriting; and that it implements `RegisterAssignment` |
| `RegisterAssignment` | abstract: a register gets its home once, and registers that clash do not share one |
| `GraphColoring` | `GraphColoringAllocator::allocate`, the default: rounds of liveness analysis, interference graph, merging of moves, colouring, rewriting and spilling |
| `NaiveAllocator` | `NaiveAllocator::allocate`: every virtual register in a stack slot, physical registers borrowed instruction by instruction |
| `LockstepExecution` | the allocated function run side by side with the original, equal up to what is poison; the three allocators end with it (`LXSpec`, `GXSpec`, `NXSpec`) |
| `MirPrograms`, `MC*` | the functions TLC checks |

IR, without types:

| module | models |
|---|---|
| `IrFunction` | IR functions with phis and memory, `Function::isWellFormed` part by part, removal of unreachable blocks, and a reference interpreter |
| `DominatorTree` | `DominatorTreeAnalysis::runOnFunction`: Lengauer and Tarjan's algorithm and the intervals of the tree |
| `Mem2Reg` | `Mem2Reg::runOnFunction` over the actions of `DominatorTree`: frontiers, phis, renaming |
| `IrModule` | modules: functions, attributes, linkage, global variables, calls; a reference interpreter of them |
| `IrPass` | what the passes share: the module, which pass is where, what a sweep remembers |
| `CfgPasses` | `DeadCodeElimination`, `BranchSimplification`, `JumpThreading`, `BasicBlockMerging`, `TailDuplication`, `UnreachableBlockElimination` |
| `MemoryPasses` | `AliasAnalysis`, `DeadStoreElimination`, `RedundantLoadElimination`, `TailCallElimination`, `ArrayFlattening` |
| `MotionPasses` | `LoopTreeAnalysis`, `GlobalCodeMotion`, `GlobalValueNumbering`, and the combining and folding passes on what is not arithmetic |
| `ModulePasses` | `AttributeDeduction`, `FunctionInlining`, `GlobalDeadCodeElimination` |
| `IrPassManager` | all of them in `ir::PassManager::run`'s loop |
| `IntegerOps` | what the integer operations compute (`common/ops`, the `fold` methods), at any width |
| `StrengthReduction` | the instructions that replace a multiplication, division or remainder by a constant |
| `ValuePasses` | the passes that rewrite integer expressions, in the pass manager's loop, with poison |

Machine code:

| module | models |
|---|---|
| `MirCode` | machine functions with the instructions' operations and operands, their liveness, and a reference interpreter; what is printed: `BasicBlockEmitter` (`Emitted`), `JumpInstruction::isElidable` and the passes that drop jumps (`Optimised`), and an interpreter of the lines |
| `BlockPlacement` | `BasicBlockReordering`: costs, the Held-Karp search and the ant colony, the inversion of branches |
| `MirPasses` | `RISCVPassManager` before and after register allocation with all its passes, allocation between them, and block placement |

The whole compiler, with types:

| module | models |
|---|---|
| `TypedIr` | types, constants, every instruction, functions, global variables; `isWellFormed` of each; what a module does when it runs |
| `IrReader` | `format()` of all of these, and the parser: headers first, then the initializers and bodies it skipped, with forward references |
| `InstructionSelection` | `RISCVMIRGen`: one action per kind of instruction, phis as middle blocks, arguments in registers and on the stack, prologue and epilogue, global variables |
| `MachineEmission` | `StackFrame`'s cached offsets, the callbacks and the saved registers of `RISCVBackendDriver`, `RISCVMCGen`; and the machine |
| `MiniLlc` | `main()`: `IrReader`, the check, two passes, `InstructionSelection`, allocation, saving, emission, and the run of the result |

### Correspondence

`LiveVariableAnalysis`: `liveIn`, `liveOut`, `liveIn2`, `liveOut2` are the four
hash maps; `cursor` is the iterator over the function, `index` the reverse
iterator over a block, `live` and `changed` the local variables of those names.
`VisitBlock` is the body of the inner loop, `EndSweep` the loop condition.

`LinearScan`: `step` is the loop of `allocate()` that is running; `stack` and
`order` are the recursion of `Linearize::visit` and its `seq_`; `endpoints`,
`free`, `active`, `allocation`, `spilled`, `reserved` are the variables of those
names. Positions in `seq` count from 1. `EmitBlock` appends one block of the
reversed order. `Scan(v)` is one iteration of the scan: expire, choose, allocate
or spill; the sorted vector of intervals is the set `pending`, of which a first
element is taken, and intervals with equal ends are taken in any order, since
`compareStart` falls back on addresses. Iterating over an unordered set (the
successors of a block, the spilled operands of an instruction) is a choice.
`RewriteInstruction` renames the allocated operands of an instruction and adds
its spill code; the code does the first for the whole function before the
second, which no instruction can tell.

`GraphColoring`: `step` is the part of a round that is running. `regs`,
`interference`, `coalescence`, `allocation` and `spilled` are the variables of
those names; `todo` is the loop over `coalescence`, `rest` the set `V`, `stack`
the stack `S` without its physical registers (popping one does nothing), and
`degree` is derived from `rest` instead of being counted down. `Coalesce` is one
iteration of the merging loop, with the renaming of the operands; `EndSelect`
the rewriting that follows the colouring; `SpillInstruction` one iteration of
the spilling loop; `EndSpill` the next round. `made` counts the registers made
for spill code, which take their names from `Temps` in order: the guard
`afterDsts <= Len(Temps)` is the bound on them, and a run in which it closed
would fail `GCReturns`. A register whose last operand has been overwritten is
destroyed by its `shared_ptr` while a pointer to it stays in `regs`
(`Destroyed`): reading it is undefined behaviour, modelled as a choice between
`Build`, in which the memory still looks like a register, and `ReadDestroyed`,
which stops. The analysis of a later round is the same `LiveVariableAnalysis`,
started again on the changed function; `original` keeps the input.

`NaiveAllocator`: `OperandMaps(p)` are the results of the three loops that choose
physical registers for the operands of an instruction, `GiveUp` is their
`return false`, after which the driver aborts.

`DominatorTree`: a frame of `path` is a call of one of the two recursive `dfs`
lambdas; the length of `vertex` is `timer`; `cursor` and `todo` are the outer and
the inner loop. A block of `compressing` is a call of `compress`, which recurses:
`EvalCompress` is the call `eval` makes, `CompressAncestor` the recursive one,
`CompressVertex` what a call does when the one below it has returned.
`LengauerTarjan`'s variables are emptied when the tree is built, as they go out of scope; `idom`
stays, as `children` and `parent` of the tree's nodes.

`Mem2Reg`: a frame of `calls` is a call of `Rename::dfs` with the copy of `defs_`
that it restores, a variable without a definition (`nullptr`) is poison.
Promotability is about types: a variable read at another type is the operation
`"peek"`, every other one has one type. The climb from a predecessor to the
dominator of a join is the set of blocks it passes (`climb`); the worklist of
`Insert`, which adds the frontier of every block it has added, is the least set
of blocks closed under that (`joins`).

`IrFunction`: a phi is its `args` and its incoming blocks `dests`; `"call"`
stands for all instructions with an effect other than memory's and `"not"` for
those without; types are left out. `Behaviour` interprets a function: the calls
it makes with their arguments, whether it returns, and whether it did something
undefined, like branching on poison. `IrModule` adds what the passes on whole
modules look at: linkage, attributes, initializers, addresses with two sizes of
access, calls between the functions. Its interpreter starts at `@main`.

`IrPass`: `pass` is the pass that runs, `at` the function that
`FunctionTransform::runOnModule` is at, `cursor` a pass's loop over the blocks,
`swept` the pass's `changed` (or `changed2`), `changed` that of the pass manager,
`snapshot` the predecessors or numbers of predecessors a pass computes once and
uses while it changes the function. The control-flow passes and
`FunctionInlining` have an action per block, so that a snapshot can go stale in
between; a pass of which nothing else reads the intermediate state (`DeadStoreElimination`
on a block, `GlobalCodeMotion` on a function) is one action with the loop as a
fold. Loops over predecessors run in a fixed order where the code's is that of a
hash set: what is done to one predecessor touches neither the others' terminators
nor the order-insensitive contents of phis. The alias analysis, the loop tree
and the two schedules of `GlobalCodeMotion` are operators of the function as it
is when the pass asks for them, which is when the code runs the analysis.

`ValuePasses`: a walk over the dominator tree of a function without branches is a
walk over its block; `at` is the instruction it is at. `StrengthReduction`'s
operators return the instructions the functions of the same name build, `New(n)`
the result of the n-th of them.

`TypedIr`, `IrReader`: a line of text has the tokens the parser tells apart.
`table` is `symbolTable_`, with the values made for names that are used before
they are defined; `waiting` the initializers and bodies the parser skips, with
the positions it goes back to. A line is rejected if one of the parser's checks
of it fails; their order only decides the message.

`InstructionSelection`: `pc` is the instruction `RISCVMIRGen` visits, `builder` the
`BasicBlockBuilder` with its function and the number of virtual registers made;
operators `visit...` return the builder after the method of that name. Virtual
registers are numbered in the order they are made. `MachineEmission`: `FunctionLines`
is `emitFunction`; a line is a record, an operand what `makeOperand` makes of it.
`MiniLlc`: `stage` is where `main()` is. `SaveRegisters` is the driver's loop over the
save and restore markers with the removal of fake uses; `EmitCode` is `RISCVMCGen`.
Here the passes on MIR and the allocators are promises that the tables above
cash in: the code as selected, any assignment that keeps clashing registers
apart, with no, every second or every register spilled, and frame offsets asked
for before the allocation or not. The machine that runs the lines, the ABI of
declared functions and the meaning of IR are not part of the repository:
those definitions are marked external.

`MirPasses`: `stage`, `pass`, `cursor`, `swept`, `changed` are where the manager
is, named as in `CfgPasses`; `snapshot` is `numPreds` or the predecessor lists of
a sweep. `Finish` is the return of a pass to the manager. A pass with a
`runOnBasicBlock` is one action; its code for a block is an operator with the maps
of the pass as the accumulator of a fold (`values`, `sums`, `copies`, `held`,
`zeros`). Merging and duplication have an action per block, `DeadCodeElimination`
one per sweep, with the liveness of `LiveAfter`, the least solution that
`LiveVariableAnalysis_proof` shows the analysis to compute. `JumpThreading` is not
enabled where `follow` would go round for ever, and `Merge` where a block would
be appended to itself: the check for deadlock shows that neither happens.
`Allocate` is any assignment that keeps clashing registers apart and spills
nothing, followed by the removal of fake uses; that the allocators keep this
promise is what the runs of the table above show. `addi` and `shli` stand for all
instructions with an immediate operand, `add`, `sub`, `shl` and `mul` for those
with two registers, one width for all. The manager runs each pass on all
functions of the module: another function can only add rounds in which this one
does not change. In `BlockPlacement` the ant colony is the choice of any order it
can return, and the orders of the searches over hash sets are choices.

Definitions whose comment begins with "Mutant" are not part of a specification:
each is the definition after it with a plausible bug, kept to show that the
properties can fail.

## 3. The runs

| run | shows | instance |
|---|---|---|
| `linear_scan` | no two values share a register (`NoSharing`) or collide with the function's own physical registers (`PhysRegsKept`), lookups succeed (`NeverAborts`), `allocate()` returns, and the analysis before that (`AllocatorReturns`); registers that clash on some path get different homes, and a home never changes (`ImplementsAssignment`); on every path the allocated code reads what the original read, where that is not poison (`ReadsAgree`); reserved registers hold nothing else (`ReservedUntouched`) | 141 functions of up to five blocks: straight code, a call, a diamond, unreachable code, an instruction with three operands for which the pool is too small after a call, so that `allocate()` gives up, four that read registers nothing writes, and 128 loops; four virtual and four physical registers, two of them callee-saved |
| `graph_coloring` | the graph that merging updates has an edge wherever two registers clash on a path (`GraphCoversClashes`), candidates for merging are never neighbours (`CandidatesApart`), neighbours get different colours (`ColoringSound`), the rounds end (`GCReturns`), the result reads what the original read, where that is not poison (`GXReadsAgree`) | 389 functions: those of `linear_scan` but the two with three operands, and 250 sequences of moves between three values; four physical registers, eight registers for spill code |
| `graph_coloring_rounds` | **violation**: findings 3 and 4 | two functions, three physical registers |
| `naive_execution` | where the analysis ends its sets are a solution (`BlocksSolved`) and agree with the paths of the graph (`LivenessExact`); the result reads what the original read, where that is not poison (`NXReadsAgree`); the allocator gives up only where no choice of registers would do (`GivesUpOnlyIfStuck`) | three blocks in every control-flow shape, unreachable blocks included, the functions of `linear_scan` (poison included), and calls that take all three physical registers as arguments |
| `mem2reg` | `semi` holds the semidominators, defined by paths (`SemidominatorsFound`); the tree means dominance (`TreeMeansDominance`); the promoted function is well-formed (`PromotedWellFormed`) and behaves as before (`PromotionPreserves`); the pass ends (`PromotionEnds`) | 274 functions: five-block graphs with nested, overlapping and irreducible loops, a loop around a diamond with every choice of loads and stores, escaping addresses, an unreachable predecessor, a phi |
| `ir_passes` | after every pass the functions are well-formed (`PassesKeepWellFormed`) and the program does what it did before all passes (`BehaviourPreserved`); no value is moved into a loop (`MotionNeverDeepens`); the loop of the pass manager ends (`PassManagerTerminates`), and then there are no unreachable blocks, no branches on a constant or with equal targets, no blocks that could be merged, no calls that ought to be inlined, no unused values, nothing computed from constants alone and no phi with one incoming value (`FixedPoint`) | 363 modules: four blocks in every shape with phis; two stores or loads of four places that may be the same, with what may come between; helpers that are given a slot twice; recursion of four kinds; tables of functions; loops with inner loops or two ways back |
| `ir_passes_unsound` | **violation**: findings 1, 2, 6, 7, 8 and 9 | five families, each of which violates the property alone |
| `value_passes` | every step of every pass computes what the expression computed (`RewritesRefine`): where that is poison anything, elsewhere the same; nothing that can be replaced is left (`DivisionsReplaced`); the passes end (`ValuePassesEnd`) | expressions of one and two instructions over arguments and corner constants, in four widths, division by every constant of the width 6; all arguments of up to 6 bits |
| `mir_passes` | after every pass on machine code the function makes the same loads, stores and calls and returns the same (`BackendPreserves`), and so does what is printed once blocks are placed and jumps to the next line dropped (`PrintedPreserves`); the placement has least cost (`BestOrder`); both loops of the manager end (`BackendTerminates`), without a deadlock | 150 functions: straight code with every choice of three instructions, diamonds, loops and ladders of tests in the form instruction selection gives them; every assignment of registers |
| `mir_stale_sum` | **violation**: finding 5 | one function |
| `mini_llc` | a printed module is read back as itself (`RoundTrip`); what is accepted prints as what was read, however damaged the text (`AcceptedReadsBack`); the machine code makes the calls the module makes and returns what it returns, for every input, and there is some code (`CompiledPreserves`); the caller's registers and stack are as they were, and no slots of a frame overlap (`FrameSound`) | 509 texts: every instruction at every type it can be selected for, operands that are poison, globals, arrays, eight arguments of seven types, indirect, recursive and variadic calls, phis that swap; and two functions with a line dropped, doubled, exchanged or changed in every place |
| `mini_llc_unsound` | **violation**: findings 10 to 18 | families of one to seven texts, each of which violates the property alone |

Bounds. Allocation is decided by which values overlap: four virtual registers
against two or three that are left for them give both allocation and spilling,
reuse after expiry, and intervals that end where another begins. One loop, one
join and one call are the shapes in which a linear order differs from control
flow; loop bodies, exits and both layouts are enumerated. No function of
`graph_coloring` makes more than eight registers for spill code.
`PromotionPreserves` compares executions of eight blocks, two rounds of the
longest loop. In five blocks path compression changes labels that are used again:
without the change (`CompressVertexUnlabelled`) `SemidominatorsFound` fails.

`ir_passes` compares `Steps` = 24 instructions of the original program, two rounds of
the longest loop; `TailThreshold` = 3 instead of 5, `CalleeThreshold` = 8 and
`CallerThreshold` = 30 lie between the functions of the instance. In `mir_passes`
registers hold values modulo `Word` = 64, immediates have `ImmBits` = 3 bits
instead of 12, `TailDuplication`'s threshold is 4 instead of 8 (it is 8 in
`mir_stale_sum`) and `BlockPlacement`'s limit for the exact search is
`ExactLimit` = 4 instead of 16, so that constants, offsets, blocks and functions of
the instance lie on both sides of each; executions are compared for `Steps` = 12
blocks, those of the printed lines for 12 lines a block.

In `value_passes`, `mini_llc` and `mini_llc_unsound` `IntBits` = 6 stands for 32: i1 has
one bit, i8 three, i32 and float six, i64, pointers and double twelve; i16 has
five in `mini_llc`, where sizes in bytes are those of the source, and the width of
i8 in `value_passes`, which has four widths. So there are a narrow type, a type of
the width of a word, of a double word, and, for the frame, byte sizes that are
not their widths. `ArgRegs` = 2 registers of a class carry arguments instead of 8;
a function of eight fills both classes and uses the stack. A run of IR has at most
`Steps` = 64 instructions, one of the machine forty times as many; the only run
that reaches the bound is that of `Endless`, which is meant to. Nothing else is
bounded: all loops of the code run to their end.

What is compared. A module whose run is undefined, or has not ended, allows its code
to do anything; a result that is poison may be any value. Otherwise the calls of
declared functions with their arguments, the result, the saved registers and
the stack above the function's frame are compared. A value of an integer type is
passed extended by its sign and a float boxed, as in the ABI; a result that is not
counts as wrong.

Fairness. A specification with a liveness property assumes weak fairness of its
next-state relation (`linear_scan` and `graph_coloring`: of the allocator's part,
`Allocate`; the execution of the result need not go on) and nothing more: the
program is one thread that runs until it returns. No choice (of a hash set's order)
is assumed to be fair. `MirPasses` and `IrPassManager` state the same fairness
without `ENABLED` (`KeepsRunning`): their runs check for deadlock and only the
finished state stutters, so that this is weak fairness of the next-state relation.
Elsewhere `CHECK_DEADLOCK FALSE` is set because the code returns.

### Findings

In the optimiser:

1. `BranchSimplification` (`lib/opt/ir/passes/BranchSimplification.cpp:37`): for
   `br i1 true, label %b3, label %b3` the taken and the dropped target are the
   same block; its phis lose the incoming value of an edge that stays, and the
   assertion at line 58 fails.
2. `TailDuplication` (`lib/opt/ir/passes/TailDuplication.cpp:53`): a small block
   that begins with an unused phi is copied, phi included, into a predecessor
   whose predecessors the phi does not list; the assertion at line 81 fails. The
   phi becomes unused in the same round, when `BranchSimplification` replaces a
   branch with two equal targets whose condition it was.
6. `DeadStoreElimination` (line 76): a call of a function that only reads is
   skipped like one that does not, and a store that it reads is removed.
7. `TailCallElimination` (line 105): a self-recursive tail call that was given the
   address of a slot shares that slot with the turn that made it.
8. `GlobalCodeMotion` (line 87): a call of a function that touches no memory, but
   does not return, is moved out of the condition it is under.
9. `GlobalCodeMotion` (line 219): blocks are taken in layout order, so an
   instruction can be moved in front of an operand that is moved later; the
   assertion at line 232 fails.
10. `StrengthReduction` (line 150): the number of bits of d - 1 is taken for a
   32-bit type; at 8 and 16 bits the quotient is wrong.

In the register allocators and the passes on machine IR:

3. `GraphColoringAllocator` (`lib/codegen/register_allocators/GraphColoringAllocator.cpp:267`):
   registers that got a colour are replaced by it for good before the spilled
   ones are dealt with. Where an instruction needs more values than there are
   registers, the register made for the spill code meets nothing but coloured
   neighbours and is spilled itself, in this round and every later one:
   `allocate()` does not return.
4. `GraphColoringAllocator` (line 297): an instruction with the same spilled
   register in two operands gets two new registers, of which the first is
   destroyed at once; the pointer to it stays in `regs` and the next round
   dereferences it.
5. `RISCVConstantPropagation` (`lib/targets/riscv/opt/mir/passes/RISCVConstantPropagation.cpp:296`):
   an `addi` records its destination as a sum and continues, without forgetting
   the sums whose base it overwrites. After `addi y, x, 4; addi x, z, 8` a load from
   `0(y)` becomes one from `4(x)`, with the new `x`. The copies of phis separate the
   two before register allocation; after it, with the loop's header duplicated
   into its body and the copies' registers shared, they meet.

In the reader, instruction selection and emission:

11. `visitSExt` (`RISCVMIRGen.cpp:519`): true is -1 in a register, and its sign extension
   negates it once more.
12. `emitConstant` (line 231): a global `i1 true` is the byte 1, not -1.
13. `visitFCmp` (line 751): `fcmp one` is the negation of `oeq`, true for NaN; folding
   says false.
14. `visitBitCast` (line 798): between i32 and float it moves eight bytes; the float is
   not boxed, the integer not extended.
15. `visitFCvtFS` and its sisters (`RISCVMCGen.cpp:385`) abort for i1, i8 and i16.
16. `frem` has no visitor in `RISCVMIRGen` and aborts (`InstructionVisitor.h:133`).
17. A function with a body and `...` looks for its floating-point parameters in
   registers where no caller puts them (`RISCVMIRGen.cpp:1473`, 1199).
18. A float 0.0 is printed as `0x` and spaces (`FloatConstant.h:46`), which the lexer
   rejects.

The passing runs leave these shapes out: `MCPrograms`, `MCFuncs` and `MCTexts` have none
of the families `Unsound`, `UnsoundTexts` and `Spilling`. `graph_coloring` contains the
shape of the fourth (`Squares`), with both outcomes of the read, and no function
with the pressure of the third. No function of `MCMirPasses` but `Pursuit` has an
`addi` that can overwrite the base of an earlier sum.

## 4. The proofs

| proof module | about | theorems |
|---|---|---|
| `LiveVariableAnalysis_proof` | the analysis | `LVTypeCorrect`, `LVLeast`, `LVBlocksSolved`, `LVInstructionsSolved`, `LVLiveMeansRead` |
| `RegisterAllocator_proof` | what the allocators share | lemmas only: preference, renaming, spill code, layout order, paths and clashes |
| `LockstepExecution_proof` | the execution | lemmas only: when rewritten code agrees with the original |
| `LinearScan_proof` | the linear scan | `LSTypeCorrect`, `LSOrderComplete`, `LSIntervalsCover`, `LSNoSharing`, `LSPhysRegsKept`, `LSReservedUntouched`, `LSNeverAborts`, `LXImplements`, `LXReadsAgree` |
| `NaiveAllocator_proof` | the naive allocator | `NXLiveness`, `NAGivesUp`, `NXAgrees` |
| `GraphColoring_proof` | graph coloring | `GCTypeCorrect`, `GCCandidatesApart`, `GCGraphCovers`, `GCColoringSound`, `GXAgrees` |
| `Mem2Reg_proof` | the dominator analysis and the promotion of memory | `MRCorrect`, `MRTypes`, `SemidominatorsComputed`, `TreeIsDominance`, `PassKeepsWellFormed` |
| `ValuePasses_proof` | the value passes, division by constants | `CodeStaysWellFormed`, `NothingLeftToReplace`, `UDivReplaced`, `SDivReplaced`, `SDivPow2Replaced` |

So every safety property of the liveness analysis and of the three allocators
that a run checks is also proved, for every function, layout and register file,
and the refinement with them; of the dominator analysis and of `Mem2Reg` all
but that the pass preserves behaviour; and of the value passes what they leave behind,
though not that they compute the same.

**Liveness.** The inductive invariant `LVInv` adds two facts to the types.
`Swept`: while the current sweep has changed nothing, the blocks it has passed are
solved; when a sweep ends unchanged this is all of them. `Walked`: during the
backward walk, `live` is what the rest of the block makes of its `liveOut`, which
meets the block's `liveIn` at the first instruction because `BlockUse` and
`BlockDef` summarise the same instructions. `NeverBeyondLeastSolution` is inductive
by monotonicity of the transfer functions. `LVLiveMeansRead` then ties the sets to
paths: what a path reads is live because the sets are a solution; nothing else is,
because the points from which a path reads a register make up a solution
too, and the sets are inside every solution.

**Linear scan.** `LSInv` has a part for each loop: `AnalysisFirst` (the allocator
works on finished sets), `OrderInv` (a block is on the stack or in the order, once,
and one that has left the order has its instructions in the sequence),
`EntryInv` (the search starts at the entry block, so nothing it leads to comes
before it), `CoverInv` (positions already passed are inside the intervals of what
they occupy), `StartInv` (an interval starts where its register holds a value),
`ScanInv` (active registers hold registers of their own that are not free; what is
no longer active ended before everything still to be scanned; equal registers mean
disjoint intervals) and `AllocInv` (what a register got was allocatable to it, and
every register is pending, allocated or spilled). `NoSharing` follows: two
registers occupied at one point have intervals that meet there. `PhysRegsKept`
needs more: `allocatable` looks at what is live at the interval's first position and
written inside it, and the theorem says this is enough in the whole interval.

`LXImplements` is the refinement of `RegisterAssignment`, step by step: only `Scan`
changes `home`, and what it gives a register was not given to anything that
clashes with it. `Clashes` is defined by paths, so the step from it to `Occupied`
is `LVLiveMeansRead`. It is a safety refinement: `RASpec` states no fairness.

**Lockstep.** `Rewritten(G, out, n, P)` says that the points before the n-th in
layout order have become pieces of `P`, in order, block by block. `InLockstep`
says where such code and the original are, in the middle of a piece or between
two, and which registers and slots then hold the value of which register. To hold a
value is `StandsFor`: the same value, or any if the original has poison there. So
poison is never an obligation, where it is read, copied, spilled or reloaded.
`LockstepExecution_proof` shows that every step keeps it, provided what is
allocated is kept apart from what is live (`KeepsApart`) and what is spilled fits in
the registers it borrows (`FitsAt`). `LinearScan_proof` (`OutInv`, `LXInv`) and
`NaiveAllocator_proof` (`NAInv`, `NXInv`; there nothing is renamed and everything is
spilled) show that the two allocators return such code. `NAGivesUp` counts: the
greedy choice of registers for read-and-written, read, and written operands runs
out only where there are fewer free registers than operands.

**Graph coloring.** `GCInv` is about the graphs: what is still to be merged or
coloured are their nodes. Its core is `MergeApart`: moving the edges of one node to
another and dropping the moves that now connect neighbours keeps both graphs
undirected, free of loops, and without a common edge. `ColoringSound` needs the
symmetry: a register is coloured against the colours its neighbours have at that
moment, and neighbours coloured later look back at it.

`RoundInv` is about the code, which every round changes. `CodeInv`: it is still a
function, and the analysis a round begins with is in `LVInv`. `NamesInv`: its
registers are nodes of the graph, and registers not made yet, and names of slots,
are not. `ColorsInv`: the graph has an edge wherever two registers overlap
(`GraphCovers`); after a merge this holds of the renamed code, although only
the graph was updated and no liveness computed again. `SpillInv`: the part of the code the spilling loop
has passed. `GCGraphCovers` follows from it.

`GXReadsAgree` compares the result with the function before the first round. The
invariant behind it (`SimInv`) is that the current function simulates the original:
there is a relation between places of the two functions (`Simulates`: a place in
each, and for every register of the original the registers and slots of the other
that hold its value) which contains the entry, is closed under steps, and
in which the two read the same. The original simulates itself
(`SimulatesItself`); renaming keeps this if what overlaps is kept apart
(`SimulatesRenamed`), which `GraphCovers` and `CandidatesApart` say of a merge, and
`GraphCovers` and `ColoringSound` of a colouring; spill code adds places in the
middle of an instruction (`SimulatesSpilled`). At the end there are no virtual
registers left, and running the result stays inside the relation (`RunInv`).

**Dominators.** `DTInv` has a part for each phase of the analysis, which is that of
Lengauer and Tarjan. It is proved inductive for every function and every order in
which the search takes the successors, so no property of a particular order is used.

- The search (`Searching`, and `Span` of what it leaves): the numbers go to blocks
  that can be reached, each once; a block's parent has a smaller number; and for
  every edge from a block to a numbered one with a greater number, the first is
  among the ancestors (`up`) of the second. The calls on the stack are those ancestors,
  and an edge not yet looked at belongs to one of them (`Frames`, `Collected`). When
  the stack is empty, no edge leaves what is numbered: it is what control reaches.
- The loop over the numbers backwards (`Linking`): the labels of a forest of links,
  however compressed, have the least semidominator on the stretch the link stands
  for (`Forest`); every linked block has its semidominator's number (`Semis`), and the
  one being worked on the least of the candidates so far (`SemiSoFar`). `Semidominator`
  is defined by paths through greater numbers, not by the algorithm; that the
  candidates suffice is a lemma. A block is in the bucket of its semidominator until
  it has got a relative (`Buckets`, `Waits`): the semidominator itself if none on the
  tree path below it has a smaller one, and otherwise the block on that path with the
  least, which has the same immediate dominator (`Relatives`). The code never empties a bucket; the invariant
  says that working through one again does no harm. While `compress` recurses
  (`compressing`), the forest stays in this invariant after each return.
- The loop that resolves them forwards (`Resolving`) then only meets relatives
  with smaller numbers, which are final.
- The walk over the tree (`Walking`): times are given once (`Times`), intervals are
  nested where there is dominance and apart where there is none (`Intervals`), and the
  stack holds a chain of dominators (`Stack`).

**Promotion.** `MRInv` says at each stage how far the function is from being well
formed. `Sound` is well-formedness without the clause on the predecessors of phis: every
block can be reached and is laid out once, every instruction fits (`Fits`), that is, has
the operands it should, and what it uses is `Available`: defined earlier in the
block, or in a block that dominates it; a phi's values at the end of the blocks
they come from. `PhisLack` is the missing clause: phis the pass has not placed have one
value from each predecessor, and those it has placed have one from each predecessor
that is not `Awaited`, which are all blocks until the renaming starts, and then the
blocks whose call of `Rename::dfs` has not come to its successors (`Unended`).
`Named`: the phis are new values, each in one place. `Calls` is about the stack of
`Rename::dfs`: the definitions a call has copied are available where it stands; every
call but the innermost is past its block; no block is on the stack twice, and
the children still to be visited dominate nothing on it.

Hence a value that replaces a load is available wherever the load was, since
availability passes on to what is dominated; when a block ends, its
successors' phis get a definition that is available at its end. When the stack is
empty nothing is awaited, because the entry block dominates everything and its
children are done. Removing the instructions that the pass has dropped keeps the order
of the others. `PassKeepsWellFormed` is the `assert(F.isWellFormed())` behind the
pass, for every well-formed function. The placement of phis matters for
behaviour and not for this: a pass that placed too few would leave a function as well
formed and compute something else, which `PromotionPreserves` would show.

**Division.** `ValuePasses_proof` proves, for every width, dividend and
divisor, that the multiplication and the shifts put in place of an unsigned division
(`UDivReplaced`), a signed one (`SDivReplaced`) and one by a power of two
(`SDivPow2Replaced`) compute the quotient. The argument is that of invariant
multiplication: the multiplier m = 2^N (2^l - d) / d + 1 exceeds 2^N (2^l - d) / d by so
little that the error stays below one d-th for every dividend. The theorems are
about the numbers; that the instructions of `replaceUDivGeneral`,
`replaceSDivGeneral` and `replaceSDivPow2` compute those numbers is checked by TLC
(`ReciprocalsAgree`), for the width of `value_passes`.

**Value passes.** `CodeStaysWellFormed` is the `assert(F.isWellFormed())` at the end of
each of these passes: operands have the widths their operation asks for, what they
name is an argument or has been computed before, ids are given once, and only the last
instruction returns. There are four ways in which the passes change code, and
one lemma for each:

- instructions are rewritten where they are, with the same id and type
  (`PointwiseWellFormed`: swapped operands, `sub` as `add`);
- one instruction is replaced by a value and removed (`RemoveWellFormed`); the
  value must be one the instruction's place already has;
- one is replaced by several with new ids, the last of which takes over its uses
  (`ReplacementWellFormed`). `ReplacementMakes` goes through `replaceMul`, `replaceUDiv`,
  `replaceSDiv`, `replaceURem` and `replaceSRem` instruction by instruction: each
  operand made by one is of the width the next expects, the casts to twice
  the width and back included, and every constant fits its type;
- what the result does not need is removed (`EliminationWellFormed`): what is kept is
  closed under operands, because the search goes on for as many rounds as there are
  instructions.

`NothingLeftToReplace` is about the end of the loop of the pass manager, which ends
after a round in which no pass changed anything. The invariant (`Progress`) says: as long
as the walk of `AlgebraicSimplification`, `ConstantFolding` or `StrengthReduction` has
changed nothing, nothing it has passed is what it rewrites; as long as the round
has changed nothing, this holds of the whole code once the pass is over. A change anywhere means another
round. What depends on the order of the passes, and on whether each reports a
change whenever it makes one, is all in this invariant.

### Assumptions

All are on constants, and TLC evaluates them in every run.

- `FuncsAssumption`: the input is a machine function, that is, blocks, instructions
  over the registers, and jumps to its own blocks.
- `RegsAssumption`: virtual and physical registers are distinct, there are finitely
  many physical ones, `idx()` is injective. `TempsAssumption` (graph coloring): the
  registers made for spill code are new.
- `CodeAssumption` (`IsCode`): what `RISCVMIRGen` selects. Only a terminator names
  blocks, and it writes nothing; no instruction has two destinations; a call has
  none, its result is moved out of a register it clobbers; and a move has one
  source, one destination and nothing implicit. A virtual register may be read that
  nothing has written: `getRegister` makes one for an operand that is poison.
- `PhysRegsAssumption` (`PhysRegsLocal`, linear scan): a physical register that is
  needed where a block starts carries an argument into the entry block, or the
  result through blocks in which virtual registers hold nothing; and what the entry
  block computes is not used in blocks it does not lead to. Instruction selection moves
  arguments out of their registers in the entry block and the result into its
  register in the epilogue. `PhysRegsKept` needs this: `allocatable` does not look at
  registers that become live inside an interval without being written there. The
  second half is needed because of the linear order: an unreachable block that
  used a register computed in the entry block could be placed before it, and the
  interval would begin there, where an argument register is not live.
- `FuncsAssumption` of `Mem2Reg`: the functions are IR functions whose instructions
  have the operands of their operations (`IsFunction`: the classes of the code have a
  field for each), and are well formed, which `main.cpp` checks of what it has read
  before the pass manager runs `Mem2Reg`. `NamesAssumption`: a phi the pass makes is a new object, so
  its name is not that of another value.
- `ProgramsAssumption` of `ValuePasses`: the programs are well formed, as functions are
  that `main.cpp` has read. `PowersAssumption`: 2^n is positive for the n up to the
  largest width, which is a fact and not a choice; the provers know nothing of powers.
  `IntBitsAssumption`: the width that stands for I32 is even and greater than two, so that
  the narrower widths are distinct.
- `HomesAssumption`: the two homes that are not registers are not registers.
- `LSNeverAborts` assumes that every virtual register of a function is written
  somewhere, or read by an instruction that another comes before. Most registers
  are written. Those that `getRegister` makes for poison are not, but what reads them
  is never the first instruction of the function, which is part of the
  prologue, nor of a block without predecessors: `UnreachableBlockElimination` is the last
  of the passes that run before allocation, in a loop that ends when none has changed
  anything. The assumption cannot be weakened: `endpoints` has exactly the registers it
  describes. The run checks it on functions with unwritten registers (`Poisoned`).

`ReservedUntouched` speaks of what control can reach: the epilogue of a function that
never returns is unreachable and may read a register nobody writes, which
`LinearScanAllocator` then takes for free.

### Proved, checked, and neither

The provers have no backend for recursive operators, do not instantiate induction
theorems that take an operator, and cannot expand `ENABLED`. Induction over paths
and sequences is done with the lemma `NatInd`, in which a set of numbers takes
the place of the predicate; it follows from the well-foundedness of inclusion between
finite sets. Paths are defined without recursion in the modules with proofs: a
place is reached if it is in every set that is closed under steps.

- Checked and proved: every property of `linear_scan`, `graph_coloring` and
  `naive_execution` but liveness, and of `mem2reg` `SemidominatorsFound`,
  `TreeMeansDominance`, `PromotedWellFormed` and the types, and of `value_passes`
  `DivisionsReplaced`. The parts of `LVInv`,
  `LSInv` and `GCInv`, those of `RoundInv`, `MRInv` and `Progress` were evaluated by TLC on these
  instances as well. `OutInv`, `InLockstep` and `Simulates`, which quantify over functions and
  relations, and `NeverBeyondLeastSolution`, over all solutions, have only a proof.
- Only checked, out of the provers' reach: liveness (`AllocatorReturns`, `GCReturns`,
  `PromotionEnds`, `PassManagerTerminates`, `ValuePassesEnd`, `BackendTerminates`).
- Only checked: `MotionNeverDeepens`, `PromotionPreserves`, `RewritesRefine` and the
  invariants of `IrPassManager`, `MirPasses` and `MiniLlc`. They speak of what
  interpreters and folds over instructions compute, which are defined by recursion;
  the theorems on division are the part of `RewritesRefine` that can
  be stated about numbers alone.

## 5. Not modelled

- Use lists and the ownership of values, except where a pointer survives its
  register (finding 4). `share` and `replaceAllUsesWith` are taken as they are meant.
- The split of characters into tokens, but for numbers without digits; escapes in
  names and strings; diagnostics.
- The formatting of lines as assembler text, sections, alignment directives.
- `BigInteger`, Unicode, colours, files, the options of `mini-llc`, the fuzzer: pure
  functions or input and output, without state that a property could be about.
- `StackOffsetEvaluation` (`MiniLlc` asks for offsets early or late instead);
  floating-point rewritings of the value passes; MIR passes at other widths than
  8, bit operations with immediates and right shifts.

Within the modelled parts:

- A global variable initialised by a name with `%` is left out: the reader casts it to
  a constant without a check.
- `MiniLlc` has five bits for i16, for which `StrengthReduction` has no width, so
  constants by which an i16 is multiplied or divided stay as they are.
- A text has its global variables and functions in the order they are printed; an
  `external` variable is printed without `constant`, and none is read with it. The type
  before a `select`'s second value is not compared with that before its third.
- Numbers are cut to their type by the reader; those of the texts fit.
- A load of an array or void aborts in instruction selection; no text has one.
- An array of i8 that has a poison element is printed by casting it to a number
  (`ArrayConstant.cpp:43`), which is undefined; no text has one.
- An indirect call of a constant that is a function is printed, and read back, as a
  direct call; a phi without incoming values, and a value of an unreachable block
  that is computed from itself without a phi, are rejected by the reader although
  well formed; no text has these.

## 6. What could come next

Proofs: `PromotionPreserves` as a simulation in the manner of `GXReadsAgree`, with an
execution by steps in the place of `Behaviour`, in which a variable's definition in
`defs` holds what the alloca holds; it is there that `joins` must be proved to be the
iterated frontier. Well-formedness of the passes of `IrPassManager`, which `Sound` and
its lemmas in `Mem2Reg_proof` are a start for; `GraphColoring` as an implementation
of `RegisterAssignment`, with merged registers as aliases. Model: the value passes on
floating point; the lexer on characters.
