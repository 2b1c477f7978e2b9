------------------------------ MODULE IrModule ------------------------------
(***************************************************************************)
(* Modules of the intermediate representation (ir::Module): functions,     *)
(* defined or only declared, global variables, and what a program does     *)
(* when it runs: calls and returns, memory, and what other programs see.   *)
(*                                                                         *)
(* A function is [params, attrs, linkage, void, layout, code]; a           *)
(* declaration has no blocks. A global variable is [linkage, init], init   *)
(* the sequence of its elements, each of four bytes. A module is           *)
(* [order, functions, vars]. The instructions are those of IrFunction and  *)
(* "sext", "add", "mul"; "gep", which indexes [2 x i32]s with two indices  *)
(* or i32s with one, and "gep8", which counts bytes; "poke", a store of    *)
(* one byte; "icall". The first operand of a call is the callee.           *)
(***************************************************************************)
EXTENDS IrFunction

MaxNumber == 40

\* Integer constants but those of one bit, as they are written in an operand.
Numbers == {ToString(n) : n \in 0 .. MaxNumber}
NumberOf == [v \in Numbers |-> CHOOSE n \in 0 .. MaxNumber : ToString(n) = v]

Globals(P) == DOMAIN P.functions \cup DOMAIN P.vars
isDeclaration(F) == F.layout = <<>>
isLiteral(v) == v \in Constants \cup Numbers
\* Constant: a global value is one as well.
isConstant(P, v) == isLiteral(v) \/ v \in {Poison, "null"} \cup Globals(P)

IsCall(I) == I.op = "call"
callee(I) == I.args[1]
actuals(I) == Tail(I.args)
instructions(G) == UNION {Range(G.code[b]) : b \in BlocksOf(G)}

HasAttr(P, f, attr) == attr \in P.functions[f].attrs
callsWith(P, I, attrs) == IsCall(I) /\ P.functions[callee(I)].attrs \cap attrs # {}

Addressing == {"load", "peek", "store", "poke"}
Stores == {"store", "poke"}
Loads == {"load", "peek"}
pointer(I) == IF I.op \in Stores THEN I.args[2] ELSE I.args[1]
accessSize(I) == IF I.op = "poke" THEN 1 ELSE 4
accessType(I) == CASE I.op \in {"load", "store"} -> "i32" [] I.op = "peek" -> "float"
                   [] I.op = "poke" -> "i8"

\* The sizes the indices of a gep count in.
indexSizes(I) ==
  LET n == Len(I.args) - 1
  IN  IF I.op = "gep8" THEN [k \in 1 .. n |-> 1] ELSE SubSeq(<<8, 4>>, 3 - n, 2)

\* The element of S. (Comparing it makes TLC compute it, once.)
The(S) == CHOOSE x \in S : x = x

-----------------------------------------------------------------------------
(* Execution. A value is an integer, a pointer into an object, a function, *)
(* or what cannot be told apart further: the bits of a value read as       *)
(* another type, a value with a byte replaced, the negation of such.       *)

Number(n) == <<"int", n>>
PtrTo(object, offset) == <<"ptr", object, offset>>
Undefined == <<"poison">>
IsNumber(v) == v[1] = "int"
IsPtr(v) == v[1] = "ptr" /\ v[2] # "null"

Literal(P, v) ==
  CASE v = "true" -> Number(1)
    [] v = "false" -> Number(0)
    [] v \in Numbers -> Number(NumberOf[v])
    [] v = Poison -> Undefined
    [] v = "null" -> PtrTo("null", 0)
    [] v \in DOMAIN P.vars -> PtrTo(v, 0)
    [] v \in DOMAIN P.functions -> <<"fn", v>>

Value(P, env, v) == IF v \in DOMAIN env THEN env[v] ELSE Literal(P, v)

Negated(v) == IF v = Undefined THEN v ELSE IF IsNumber(v) THEN Number(1 - (v[2] % 2)) ELSE <<"not", v>>

Combined(op, x, y) ==
  IF IsNumber(x) /\ IsNumber(y) THEN Number(IF op = "add" THEN x[2] + y[2] ELSE x[2] * y[2])
  ELSE Undefined

Displaced(I, p, indices) ==
  IF p[1] = "ptr" /\ \A k \in DOMAIN indices : IsNumber(indices[k])
  THEN PtrTo(p[2], p[3] + FoldLeft(LAMBDA sum, k : sum + indexSizes(I)[k] * indices[k][2], 0,
                                   [k \in DOMAIN indices |-> k]))
  ELSE Undefined

\* A cell holds a value as a type; read as another it is but its bits.
Uninitialized == [v |-> Undefined, as |-> "i32"]
cell(mem, p) == IF <<p[2], p[3]>> \in DOMAIN mem THEN mem[<<p[2], p[3]>>] ELSE Uninitialized
ReadAs(c, type) ==
  IF c.as = type \/ c.v = Undefined THEN c.v ELSE <<"bits", c.v>>
Written(mem, p, I, v) ==
  (<<p[2], p[3]>> :> IF I.op = "store" THEN [v |-> v, as |-> "i32"]
                     ELSE [v |-> <<"patched", cell(mem, p).v, v>>, as |-> "i32"]) @@ mem

\* What another program sees of a value: objects of functions have no names.
Anonymous(P, v) == IF IsPtr(v) /\ v[2] \notin DOMAIN P.vars THEN PtrTo("local", v[3]) ELSE v
Contents(P, c) == Anonymous(P, ReadAs(c, "i32"))
Shown(P, mem, v) ==
  <<Anonymous(P, v), IF IsPtr(v) THEN Contents(P, cell(mem, v)) ELSE Undefined>>

Visible(P, mem) ==
  [l \in {k \in DOMAIN mem : k[1] \in DOMAIN P.vars /\ P.vars[k[1]].linkage = "external"} |->
     Contents(P, mem[l])]

\* The cells an external function may read and write.
Reach(P, f, mem, values) ==
  LET arguments == {<<v[2], v[3]>> : v \in {u \in Range(values) : IsPtr(u)}}
      attrs == P.functions[f].attrs
  IN  IF attrs \cap {"ReadNone", "InaccessibleMemOnly"} # {} THEN {}
      ELSE IF attrs \cap {"ArgMemOnly", "InaccessibleMemOrArgMemOnly"} # {} THEN arguments
      ELSE arguments \cup DOMAIN Visible(P, mem)

(* A call of a function that is only declared: what it sees becomes part of*)
(* the trace unless it only reads, and it overwrites all it can reach.     *)
External(P, s, I, f, values) ==
  LET reach == Reach(P, f, s.mem, values)
      attrs == P.functions[f].attrs
      shown == [k \in DOMAIN values |->
                  IF attrs \cap {"ReadNone", "InaccessibleMemOnly"} # {}
                  THEN <<values[k], Undefined>> ELSE Shown(P, s.mem, values[k])]
      event == [fn |-> f, args |-> shown,
                globals |-> [l \in reach \cap DOMAIN Visible(P, s.mem) |-> Contents(P, s.mem[l])]]
      seen == {Contents(P, cell(s.mem, PtrTo(l[1], l[2]))) : l \in reach}
      first == IF values # <<>> /\ ~IsPtr(values[1]) THEN values[1]
               ELSE IF values # <<>> THEN shown[1][2]
               ELSE IF seen # {} THEN The(seen) ELSE Number(1)
      top == Last(s.stack)
      returned(v) == Front(s.stack) \o <<[top EXCEPT !.env = (I.id :> v) @@ @, !.at = @ + 1]>>
  IN  IF attrs \cap {"ReadNone", "ReadOnly"} # {}
      THEN [s EXCEPT !.stack = returned(first)]
      ELSE [s EXCEPT !.stack = returned(Number(Len(s.trace) % 2)),
                     !.trace = Append(@, event),
                     !.mem = [l \in reach |-> [v |-> Number(10 + Len(s.trace)), as |-> "i32"]] @@ @]

Frame(P, f, values) ==
  LET F == P.functions[f]
  IN  [fn |-> f, block |-> Entry(F), at |-> 1,
       env |-> [v \in Range(F.params) |-> values[CHOOSE k \in DOMAIN F.params : F.params[k] = v]]]

\* The phis of a block read their values at once, on entry.
Enter(P, s, b) ==
  LET top == Last(s.stack)
      phis == {I \in phisOf(P.functions[top.fn], b) : hasIncomingBlock(I, top.block)}
      env == [v \in {I.id : I \in phis} |->
                Value(P, top.env, getIncomingValue(CHOOSE I \in phis : I.id = v, top.block))]
  IN  [s EXCEPT !.stack = Front(@) \o <<[top EXCEPT !.block = b, !.at = 1, !.env = env @@ @]>>]

Stopped(s, how) == [s EXCEPT !.status = how]

Execute(P, s) ==
  LET top == Last(s.stack)
      I == P.functions[top.fn].code[top.block][top.at]
      value(k) == Value(P, top.env, I.args[k])
      goOn(t) == [t EXCEPT !.stack = Front(@) \o <<[top EXCEPT !.at = @ + 1]>>]
      compute(v) == [s EXCEPT !.stack =
                       Front(@) \o <<[top EXCEPT !.env = (I.id :> v) @@ @, !.at = @ + 1]>>]
      values == [k \in 1 .. (Len(I.args) - 1) |-> value(k + 1)]
      object == I.id \o "." \o ToString(Len(s.stack))
      call(f) == IF isDeclaration(P.functions[f]) THEN External(P, s, I, f, values)
                 ELSE [s EXCEPT !.stack = Append(@, Frame(P, f, values))]
  IN  CASE I.op = "phi" -> goOn(s)
        [] I.op = "not" -> compute(Negated(value(1)))
        [] I.op = "sext" -> compute(value(1))
        [] I.op \in {"add", "mul"} -> compute(Combined(I.op, value(1), value(2)))
        [] I.op \in {"gep", "gep8"} -> compute(Displaced(I, value(1), values))
        [] I.op = "alloca" ->
             [compute(PtrTo(object, 0)) EXCEPT !.mem =
                [l \in {k \in DOMAIN @ : k[1] # object} |-> @[l]]]
        [] I.op \in Loads ->
             IF ~IsPtr(value(1)) THEN Stopped(s, "undefined")
             ELSE compute(ReadAs(cell(s.mem, value(1)), accessType(I)))
        [] I.op \in Stores ->
             IF ~IsPtr(value(2)) THEN Stopped(s, "undefined")
             ELSE [goOn(s) EXCEPT !.mem = Written(@, value(2), I, value(1))]
        [] I.op = "call" -> call(callee(I))
        [] I.op = "icall" -> IF value(1)[1] = "fn" THEN call(value(1)[2]) ELSE Stopped(s, "undefined")
        [] I.op = "br" -> Enter(P, s, I.dests[1])
        [] I.op = "condbr" -> IF IsNumber(value(1)) THEN Enter(P, s, I.dests[2 - value(1)[2]])
                              ELSE Stopped(s, "undefined")
        [] I.op = "ret" ->
             LET result == IF I.args = <<>> THEN Undefined ELSE value(1)
                 outer == s.stack[Len(s.stack) - 1]
                 C == P.functions[outer.fn].code[outer.block][outer.at]
             IN  IF Len(s.stack) = 1 THEN [Stopped(s, "returned") EXCEPT !.result = result]
                 ELSE [s EXCEPT !.stack = SubSeq(@, 1, Len(@) - 2) \o
                         <<[outer EXCEPT !.env = (C.id :> result) @@ @, !.at = @ + 1]>>]

InitialMemory(P) ==
  LET cells == UNION {{<<g, 4 * (k - 1)>> : k \in DOMAIN P.vars[g].init} : g \in DOMAIN P.vars}
  IN  [l \in cells |-> [v |-> Literal(P, P.vars[l[1]].init[(l[2] \div 4) + 1]), as |-> "i32"]]

\* The state the program is in n instructions after @main is called.
Execution(P, values, n) ==
  LET run[k \in 0 .. n] ==
        IF k = 0
        THEN [stack |-> <<Frame(P, "@main", values)>>, mem |-> InitialMemory(P), trace |-> <<>>,
              status |-> "running", result |-> Undefined]
        ELSE The({IF s.status = "running" THEN Execute(P, s) ELSE s : s \in {run[k - 1]}})
  IN  run[n]

-----------------------------------------------------------------------------
(* What a transformed program has to do: make the same external calls, see *)
(* and leave the same values, but for those that were undefined, and       *)
(* return if the program returned.                                         *)

Refines(old, new) == old = Undefined \/ old = new

EventRefines(old, new) ==
  /\ old.fn = new.fn /\ DOMAIN old.args = DOMAIN new.args
  /\ \A k \in DOMAIN old.args :
       Refines(old.args[k][1], new.args[k][1]) /\ Refines(old.args[k][2], new.args[k][2])
  /\ \A l \in DOMAIN old.globals \cap DOMAIN new.globals : Refines(old.globals[l], new.globals[l])

Promise(P, values, n) ==
  The({[trace |-> s.trace, status |-> s.status, result |-> s.result,
        globals |-> Visible(P, s.mem)] : s \in {Execution(P, values, n)}})

KeepsPromise(old, new) ==
  /\ Len(old.trace) <= Len(new.trace)
  /\ \A k \in DOMAIN old.trace : EventRefines(old.trace[k], new.trace[k])
  /\ old.status = "returned" =>
       /\ new.status = "returned" /\ Len(new.trace) = Len(old.trace)
       /\ Refines(old.result, new.result)
       /\ \A l \in DOMAIN old.globals \cap DOMAIN new.globals :
            Refines(old.globals[l], new.globals[l])
=============================================================================
