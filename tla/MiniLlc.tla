------------------------------- MODULE MiniLlc -------------------------------
(***************************************************************************)
(* tools/mini-llc: a text is read, the module is checked and optimised, the*)
(* back end makes machine code of it. Of the passes only ArrayFlattening   *)
(* and StrengthReduction are here, whose results the instruction selection *)
(* sees most of; the others, the register allocators and the passes of     *)
(* machine IR and machine code have modules of their own. In the end the   *)
(* machine code runs next to the module it was made from.                  *)
(***************************************************************************)
EXTENDS IrReader, MachineEmission

CONSTANTS
  Texts,         \* what is read: [lines, intended, known]; the lines are those
                 \* printed of the module intended if it is known
  Inputs(_),     \* values of a type for the arguments
  Steps          \* bound on the length of a run of the IR; a run of the machine
                 \* may take 40 times as many

VARIABLES
  source,        \* the member of Texts
  stage,         \* "read", "optimise", "select", "allocate", "save", "emit", "run",
                 \* "done", "rejected", "aborted"
  lines,         \* the machine code
  outcomes       \* what the module and the machine code did, input for input

SR == INSTANCE StrengthReduction

vars == <<readerVars, selectionVars, source, stage, lines, outcomes>>

EmptyModule == [vars |-> <<>>, fns |-> <<>>]

-----------------------------------------------------------------------------
(***************************************************************************)
(* Optimisation. The replacements of StrengthReduction are for types of the*)
(* widths it has.                                                          *)
(***************************************************************************)
TypeOfWidth(w) == CHOOSE t \in {I1, I8, I32, I64} : bitSize(t) = w
IsConstant(v) == v[1] = "constant"
Named(J, k) == J.id \o "." \o ToString(k)

\* A constant on the left of a commutative operation goes to the right.
ConstantRight(J) ==
  IF J.op \in Commutative /\ IsConstant(J.args[1]) /\ ~IsConstant(J.args[2])
  THEN [J EXCEPT !.args = Reverse(@)] ELSE J

\* The instructions new in the place of J; the last one has its name.
InPlaceOf(J, new) ==
  LET name(k) == IF k = Len(new) THEN J.id ELSE Named(J, k)
      operand(from, a) ==
        CASE a.is = "value" -> J.args[1]
          [] a.is = "const" -> Constant(TypeOfWidth(from), a.n)
          [] a.is = "new" -> Value(TypeOfWidth(from), name(a.n))
      typed(k) ==
        LET args == [j \in DOMAIN new[k].args |-> operand(new[k].from, new[k].args[j])]
        IN  IF new[k].op = "uge" THEN Instruction("icmp", name(k), I1, args, <<>>, <<"uge">>)
            ELSE Instruction(new[k].op, name(k), TypeOfWidth(new[k].width), args, <<>>, <<>>)
  IN  IF new = <<>> THEN <<J>> ELSE [k \in DOMAIN new |-> typed(k)]

Reduced(J) ==
  LET w == bitSize(J.type)
  IN  IF J.op \in Divisions \cup {"mul"} /\ J.type # I16 /\ IsConstant(J.args[2])
      THEN InPlaceOf(J, SR!Replacement(SR!Arith(J.op, w, SR!Val(0), SR!Const(w, J.args[2][3]))))
      ELSE <<J>>

\* A gep of arrays counts in bytes instead.
Flattened(J) ==
  LET n == Len(J.args) - 1
      types[k \in 1 .. n] == IF k = 1 THEN J.aux[1] ELSE types[k - 1][2]
      wide(k) == typeOf(J.args[k + 1]) = I64
      index(k) == IF wide(k) THEN J.args[k + 1] ELSE Value(I64, Named(J, 3 * k))
      value(k) == Value(I64, Named(J, 3 * k + 1))
      sum(k) == IF k = 1 THEN value(1) ELSE Value(I64, Named(J, 3 * k + 2))
      i64(op, v, x, y) == Instruction(op, v[3], I64, <<x, y>>, <<>>, <<>>)
      scaled(k) ==
        (IF wide(k) THEN <<>> ELSE <<Instruction("sext", Named(J, 3 * k), I64, <<J.args[k + 1]>>, <<>>, <<>>)>>)
          \o <<i64("mul", value(k), index(k), Constant(I64, sizeOf(types[k])))>>
      added(k) == IF k = 1 THEN <<>> ELSE <<i64("add", sum(k), sum(k - 1), value(k))>>
      each(code(_)) == FlattenSeq([k \in 1 .. n |-> code(k)])
  IN  IF J.op # "getelementptr" \/ (J.aux[1] = I8 /\ n <= 1) THEN <<J>>
      ELSE each(scaled) \o each(added)
             \o <<[J EXCEPT !.aux = <<I8>>, !.args = <<J.args[1]>> \o (IF n = 0 THEN <<>> ELSE <<sum(n)>>)]>>

EachIn(M, code(_)) ==
  [M EXCEPT !.fns = [f \in DOMAIN @ |-> [@[f] EXCEPT !.blocks = [b \in DOMAIN @ |->
     [@[b] EXCEPT !.code = FlattenSeq([k \in DOMAIN @ |-> code(@[k])])]]]]]

\* Until nothing changes any more.
RECURSIVE StrengthReduced(_)
StrengthReduced(M) ==
  CHOOSE R \in {IF N = M THEN M ELSE StrengthReduced(N) :
                  N \in {EachIn(M, LAMBDA J : Reduced(ConstantRight(J)))}} : TRUE

-----------------------------------------------------------------------------
(* The stages.                                                             *)

Init ==
  /\ source \in Texts /\ text = source.lines
  /\ reading = "lex" /\ at = 1 /\ table = <<>> /\ module = EmptyModule /\ waiting = <<>>
  /\ StartSelection(EmptyModule)
  /\ stage = "read" /\ lines = <<>> /\ outcomes = {}

Read_ ==
  /\ stage = "read" /\ ReaderNext
  /\ UNCHANGED <<selectionVars, source, stage, lines, outcomes>>

\* A text that is not accepted or not well formed is refused.
Check ==
  /\ stage = "read" /\ reading \in {"accepted", "rejected"}
  /\ stage' = IF reading = "accepted" /\ ModuleWellFormed(module) THEN "optimise" ELSE "rejected"
  /\ UNCHANGED <<readerVars, selectionVars, source, lines, outcomes>>

Optimise ==
  /\ stage = "optimise" /\ stage' = "select"
  /\ program' = StrengthReduced(EachIn(module, Flattened))
  /\ UNCHANGED <<readerVars, pc, builder, functions, globals, source, lines, outcomes>>

Select ==
  /\ stage = "select" /\ SelectionNext
  /\ stage' = IF pc'[1] > Len(program.fns) THEN "allocate" ELSE "select"
  /\ UNCHANGED <<readerVars, source, lines, outcomes>>

Abort == stage' = "aborted" /\ UNCHANGED <<readerVars, selectionVars, source, lines, outcomes>>
SelectionAborts == stage = "select" /\ NotSelectable /\ Abort

\* Nothing, everything or every second register is spilled. Something, a pass or a
\* dump, may have asked for an offset before.
SpilledOf(G, choice) ==
  LET order == InSomeOrder(VirtualRegisters(G))
  IN  {order[k] : k \in {j \in DOMAIN order : choice = "all" \/ (choice = "some" /\ j % 2 = 1)}}

Passed(G) == WithoutUnreachable(WithFakeUses(G))

AllocateRegisters ==
  /\ stage = "allocate" /\ stage' = "save"
  /\ \E choice \in {"none", "some", "all"}, asked \in BOOLEAN :
       functions' = [f \in DOMAIN functions |->
         LET G == Passed(functions[f])
             H == IF asked THEN [G EXCEPT !.frame = Complete(@)] ELSE G
         IN  Allocated(H, SpilledOf(H, choice))]
  /\ UNCHANGED <<readerVars, program, pc, builder, globals, source, lines, outcomes>>

SaveRegisters ==
  /\ stage = "save" /\ stage' = "emit"
  /\ functions' = [f \in DOMAIN functions |-> WithoutFakeUses(CalleeSaved(functions[f]))]
  /\ UNCHANGED <<readerVars, program, pc, builder, globals, source, lines, outcomes>>

WithoutCode == {f \in DOMAIN functions : ~Emittable(functions[f])}

EmissionAborts ==
  stage = "emit" /\ WithoutCode # {} /\ Abort

EmitCode ==
  /\ stage = "emit" /\ WithoutCode = {} /\ stage' = "run"
  /\ lines' = FlattenSeq([f \in DOMAIN functions |-> FunctionLines(functions[f])])
  /\ UNCHANGED <<readerVars, selectionVars, source, outcomes>>

(***************************************************************************)
(* The last function of the module that has a body is called, once as IR   *)
(* and once as machine code.                                               *)
(***************************************************************************)
Arguments(G) == {args \in [DOMAIN G.params -> UNION {Inputs(typeOf(v)) : v \in ToSet(G.params)}] :
                   \A k \in DOMAIN args : args[k] \in Inputs(typeOf(G.params[k]))}

Outcome(P, G, args) ==
  CHOOSE o \in {[ir |-> [status |-> s.status, result |-> s.result, events |-> s.events],
                 machine |-> [status |-> m.status, result |-> MachineResult(m, G.type[2]), events |-> m.events],
                 restored |-> \A r \in DOMAIN start.regs : Preserved(r) => m.regs[r] = start.regs[r],
                 callerKept |-> \A a \in DOMAIN start.mem : a >= start.regs[sp] => m.mem[a] = start.mem[a]] :
                  start \in {StartMachine(P, globals, G, args)},
                  s \in {RunIr(module, StartRun(module, G, args), Steps)},
                  m \in {RunMachine(P, StartMachine(P, globals, G, args), 40 * Steps)}} : TRUE

Run ==
  /\ stage = "run" /\ stage' = "done"
  /\ LET G == Last(SelectSeq(module.fns, LAMBDA H : ~IsDeclaration(H)))
     IN  outcomes' = UNION {{Outcome(P, G, args) : args \in Arguments(G)} : P \in {Linked(module, lines)}}
  /\ UNCHANGED <<readerVars, selectionVars, source, lines>>

Next ==
  \/ Read_ \/ Check \/ Optimise \/ Select \/ SelectionAborts \/ AllocateRegisters \/ SaveRegisters
  \/ EmissionAborts \/ EmitCode \/ Run

Spec == Init /\ [][Next]_vars

-----------------------------------------------------------------------------
(* Properties.                                                             *)

\* What a well-formed module is printed as is read back as that module (lib/ir/,
\* Parser.cpp): no name, type, operand or order is lost on the way.
RoundTrip == source.known /\ reading \in {"accepted", "rejected"} => reading = "accepted" /\ module = source.intended

\* A text that is accepted means what it says: printing what was read gives the text
\* again, whatever was left out, doubled, swapped or renamed in it; only a call may have
\* named no more than the type it returns (Parser.cpp, the format methods of lib/ir/).
Abbreviated(ls) ==
  [k \in DOMAIN ls |-> IF ls[k].op = "call" THEN [ls[k] EXCEPT !.types[1] = ReturnTypeOf(ls[k])] ELSE ls[k]]
AcceptedReadsBack == reading = "accepted" => Abbreviated(Printed(module)) = Abbreviated(text)

\* The behaviours agree if the IR is defined: the same calls of declared functions and
\* the same result. Poison may become anything.
Agree(o) ==
  (o.ir.status = "returned" /\ \A e \in ToSet(o.ir.events) : PoisonBits \notin ToSet(e[2])) =>
    /\ o.machine.status = "returned" /\ o.machine.events = o.ir.events
    /\ o.ir.result \in {PoisonBits, o.machine.result}

\* What mini-llc makes of a well-formed module does what the module does, however the
\* registers are spilled, and it makes something of it.
CompiledPreserves ==
  /\ source.known => stage \notin {"rejected", "aborted"}
  /\ \A o \in outcomes : Agree(o)

\* When a function returns, its caller's registers and stack are what they were; no two
\* slots of a frame overlap, and each is aligned.
FrameSound ==
  /\ \A o \in outcomes : o.machine.status = "returned" => o.restored /\ o.callerKept
  /\ stage \in {"emit", "run"} => \A f \in DOMAIN functions :
       LET frame == Complete(functions[f].frame)
           offset(k) == frame.offsets[frame.slots[k].name]
       IN  \A k \in DOMAIN frame.slots :
             /\ frame.slots[k].name \in DOMAIN frame.offsets
             /\ offset(k) % frame.slots[k].alignment = 0
             /\ k > 1 => offset(k) >= offset(k - 1) + frame.slots[k - 1].size
=============================================================================
