------------------------------ MODULE MCMiniLlc ------------------------------
(***************************************************************************)
(* Modules and texts for MiniLlc, and the values its functions are called  *)
(* with. MCTexts has every kind of instruction that can be selected; each  *)
(* family of UnsoundTexts shows something mini-llc does wrong.             *)
(***************************************************************************)
EXTENDS MiniLlc

i(op, id, t, args) == Instruction(op, id, t, args, <<>>, <<>>)
With(J, aux) == [J EXCEPT !.aux = aux]
icmp(id, cond, a, b) == With(i("icmp", id, I1, <<a, b>>), <<cond>>)
br(b) == Instruction("br", "", Void, <<>>, <<b>>, <<>>)
condbr(c, b1, b2) == Instruction("condbr", "", Void, <<c>>, <<b1, b2>>, <<>>)
ret(v) == i("ret", "", Void, <<v>>)
retVoid == ret(VoidValue)
phi(id, t, incoming, labels) == Instruction("phi", id, t, incoming, labels, <<>>)
alloca(id, t) == With(i("alloca", id, Ptr, <<>>), <<t>>)
load(id, t, p) == i("load", id, t, <<p>>)
store(v, p) == i("store", "", Void, <<v, p>>)
gep(id, t, args) == With(i("getelementptr", id, Ptr, args), <<t>>)
call(id, t, callee, args) == i("call", id, t, <<Global(callee)>> \o args)

p(id) == Value(Ptr, id)
c32(n) == Constant(I32, n)
c64(n) == Constant(I64, n)
b(label, code) == [label |-> label, code |-> code]

Fn(id, t, params, blocks) ==
  [id |-> id, linkage |-> "external", attrs |-> {}, params |-> params, blocks |-> blocks,
   type |-> FunctionType(t, [k \in DOMAIN params |-> typeOf(params[k])], FALSE)]
Declared(id, t, params, varArgs) ==
  [Fn(id, t, [k \in DOMAIN params |-> Value(params[k], "")], <<>>) EXCEPT !.type[4] = varArgs]
Var(id, linkage, constant, init) ==
  [id |-> id, linkage |-> linkage, constant |-> constant, type |-> typeOf(init), init |-> init]
ExternalVar(id, t) ==
  [id |-> id, linkage |-> "external", constant |-> FALSE, type |-> t, init |-> <<"none", t, 0>>]

Module_(vs, fns) == [vars |-> vs, fns |-> fns]
Only(G) == Module_(<<>>, <<G>>)

\* One function of a block: the parameters x and y of type s, the code, the result.
Straight(s, result, code) ==
  Only(Fn("f", typeOf(result), <<Value(s, "x"), Value(s, "y")>>, <<b("e", Append(code, ret(result)))>>))

\* The same, and every value is handed to an external function.
put(v) == call("", Void, "put", <<v>>)
Shown(s, t, code) ==
  LET shown == FlattenSeq([k \in DOMAIN code |->
                 IF code[k].type = t THEN <<code[k], put(Value(t, code[k].id))>> ELSE <<code[k]>>])
  IN  Module_(<<>>, <<Declared("put", Void, <<t>>, FALSE),
                      Fn("f", Void, <<Value(s, "x"), Value(s, "y")>>, <<b("e", Append(shown, retVoid))>>)>>)

-----------------------------------------------------------------------------
(* Integers.                                                               *)

WideTypes == {I8, I16, I32, I64}

Total(t) ==
  LET x == Value(t, "x")
      y == Value(t, "y")
      ops == <<"add", "sub", "mul", "and", "or", "xor">>
  IN  Shown(t, t, [k \in DOMAIN ops |-> i(ops[k], "r" \o ToString(k), t, <<x, y>>)])

Partial(op, t) == Straight(t, Value(t, "r"), <<i(op, "r", t, <<Value(t, "x"), Value(t, "y")>>)>>)

ByConstant(op, t, n) ==
  Straight(t, Value(t, "r"), <<i(op, "r", t, <<Value(t, "x"), Constant(t, n)>>)>>)
OfConstant(op, t, n) ==
  Straight(t, Value(t, "r"), <<i(op, "r", t, <<Constant(t, n), Value(t, "x")>>)>>)

\* Two operations: does the second one read what the first one left of the upper bits?
Chained(op1, op2, t) ==
  Straight(t, Value(t, "r"), <<i(op1, "q", t, <<Value(t, "x"), Constant(t, 1)>>),
                               i(op2, "r", t, <<Value(t, "q"), Value(t, "y")>>)>>)

Comparisons(t, conds) ==
  LET x == Value(t, "x")
      y == Value(t, "y")
      id(k, s) == s \o ToString(k)
      each(k) == <<icmp(id(k, "c"), conds[k], x, y), i("sext", id(k, "s"), I32, <<Value(I1, id(k, "c"))>>),
                   i("zext", id(k, "z"), I32, <<Value(I1, id(k, "c"))>>)>>
  IN  Shown(t, I32, FlattenSeq([k \in DOMAIN conds |-> each(k)]))

Branches(t, cond) ==
  Only(Fn("f", I32, <<Value(t, "x"), Value(t, "y")>>,
          <<b("e", <<icmp("c", cond, Value(t, "x"), Value(t, "y")), condbr(Value(I1, "c"), "l", "m")>>),
            b("l", <<ret(c32(1))>>), b("m", <<ret(c32(2))>>)>>))

Cast(op, s, t) == Straight(s, Value(t, "r"), <<i(op, "r", t, <<Value(s, "x")>>)>>)

\* A cast of a computed value, whose register has more bits than its type.
CastOfSum(op, s, t) ==
  Straight(s, Value(t, "r"), <<i("add", "q", s, <<Value(s, "x"), Value(s, "y")>>),
                               i(op, "r", t, <<Value(s, "q")>>)>>)

Signs == <<"slt", "sgt", "sle", "sge">>
Others == <<"eq", "ne", "ult", "ugt", "ule", "uge">>

Integers1 ==
  {Total(t) : t \in WideTypes \cup {I1}}
    \cup {Partial(op, t) : op \in {"sdiv", "udiv", "srem", "urem"}, t \in WideTypes}
    \cup {Partial(op, t) : op \in {"shl", "lshr", "ashr"}, t \in WideTypes}
    \cup {ByConstant("mul", t, n) : t \in {I8, I32, I64}, n \in {-1, 2, 3, 6}}
    \cup {ByConstant(op, t, n) : op \in {"udiv", "urem", "sdiv", "srem"}, t \in {I32, I64}, n \in {1, 4, 5, -1}}
    \cup {OfConstant(op, t, 3) : op \in {"sub", "mul", "sdiv"}, t \in {I8, I32}}
    \cup {Chained(op1, op2, t) : op1 \in {"shl", "mul"}, op2 \in {"udiv", "lshr"}, t \in {I8, I16}}
    \cup {Comparisons(t, Signs) : t \in WideTypes}
    \cup {Comparisons(t, Others) : t \in WideTypes \cup {Ptr}}
    \cup {Branches(t, cond) : t \in {I8, I64}, cond \in ToSet(Signs) \cup ToSet(Others)}
    \cup {Cast("trunc", s[1], s[2]) : s \in {<<I64, I32>>, <<I32, I16>>, <<I16, I8>>, <<I64, I1>>, <<I8, I1>>}}
    \cup {CastOfSum(op, s[1], s[2]) : op \in {"sext", "zext"},
                                      s \in {<<I8, I16>>, <<I8, I64>>, <<I16, I32>>, <<I32, I64>>}}
    \cup {Cast("zext", I1, t) : t \in {I8, I64}}
    \cup {Cast("inttoptr", t, Ptr) : t \in {I8, I32, I64}}

-----------------------------------------------------------------------------
(* Floating-point values.                                                  *)

FloatOps(t) ==
  LET x == Value(t, "x")
      y == Value(t, "y")
      ops == <<"fadd", "fsub", "fmul", "fdiv">>
  IN  Shown(t, t, Append([k \in DOMAIN ops |-> i(ops[k], "r" \o ToString(k), t, <<x, y>>)],
                         i("fneg", "n", t, <<x>>))
                    \o <<i("fadd", "h", t, <<x, Constant(t, 3)>>)>>)

FloatComparison(cond, t) ==
  Straight(t, Value(I32, "r"), <<With(i("fcmp", "c", I1, <<Value(t, "x"), Value(t, "y")>>), <<cond>>),
                                 i("zext", "r", I32, <<Value(I1, "c")>>)>>)

FloatingPoint ==
  {FloatOps(t) : t \in FloatingTypes}
    \cup {FloatComparison(cond, t) : cond \in FloatingRelations \ {"one"}, t \in FloatingTypes}
    \cup {Cast("fptrunc", Double, Float), Cast("fpext", Float, Double), Cast("bitcast", Double, I64),
          Cast("bitcast", I64, Double), Cast("bitcast", I8, I8), Cast("bitcast", Double, Double)}
    \cup {Cast(op, s, t) : op \in ToFloating, s \in {I32, I64}, t \in FloatingTypes}
    \cup {Cast(op, s, t) : op \in ToInteger, s \in FloatingTypes, t \in {I32, I64}}

-----------------------------------------------------------------------------
(* Memory and addresses.                                                   *)

\* Two slots: what is in one is not changed by storing into the other.
Slots(s, t) ==
  Straight(s, Value(s, "r"),
           <<alloca("p", s), alloca("q", t), store(Value(s, "x"), p("p")), store(zeroValue(t), p("q")),
             load("r", s, p("p"))>>)

\* An element of an array on the stack, chosen by an argument of type t.
Element(t, element) ==
  LET a == ArrayType(element, 4)
      at_(n) == gep("g" \o ToString(n), a, <<p("a"), c64(0), c64(n)>>)
      set(n) == <<at_(n), store(Constant(element, n), p("g" \o ToString(n)))>>
  IN  Straight(t, Value(element, "r"),
               <<alloca("a", a)>> \o set(0) \o set(1) \o set(3)
                 \o <<i("and", "k", t, <<Value(t, "x"), Constant(t, 1)>>),
                      gep("g", a, <<p("a"), c32(0), Value(t, "k")>>), load("r", element, p("g"))>>)

Matrix ==
  LET a == ArrayType(ArrayType(I16, 2), 2)
      row(n) == ArrayConstant(a[2], <<Constant(I16, 2 * n), Constant(I16, 2 * n - 5)>>)
      G == Fn("f", I16, <<Value(I32, "x")>>,
              <<b("e", <<i("and", "k", I32, <<Value(I32, "x"), c32(1)>>),
                         gep("g", a, <<Global("m"), c32(0), Value(I32, "k"), c64(1)>>),
                         gep("h", I8, <<p("g"), c32(-2)>>), gep("o", I16, <<p("h"), c32(1)>>),
                         gep("n", I16, <<p("o")>>), load("r", I16, p("n")), ret(Value(I16, "r"))>>)>>)
  IN  Module_(<<Var("m", "internal", TRUE, ArrayConstant(a, <<row(1), row(2)>>))>>, <<G>>)

Global_(init, t) ==
  Module_(<<ExternalVar("o", I8), Var("u", "external", FALSE, Constant(I64, 9)), Var("g", "external", FALSE, init)>>,
          <<Fn("f", t, <<Value(I1, "x")>>, <<b("e", <<load("r", t, Global("g")), ret(Value(t, "r"))>>)>>)>>)

\* Bytes: the index is the offset.
Text(k) ==
  LET s == ArrayType(I8, 3)
  IN  Module_(<<Var("s", "internal", TRUE, ArrayConstant(s, <<Constant(I8, 3), Constant(I8, -2), Constant(I8, 0)>>))>>,
              <<Fn("f", I8, <<>>, <<b("e", <<gep("g", s, <<Global("s"), c64(0), c64(k)>>), load("r", I8, p("g")),
                                             ret(Value(I8, "r"))>>)>>)>>)

\* A variable that holds the address of another one, and an array of such.
Pointers ==
  LET t == ArrayType(Ptr, 2)
  IN  Module_(<<Var("v", "external", FALSE, c32(-7)), Var("w", "external", FALSE, c32(8)),
                Var("t", "internal", FALSE, ArrayConstant(t, <<Global("w"), Global("v")>>)),
                Var("n", "internal", FALSE, ArrayConstant(t, <<NullPtr, Poison(Ptr)>>))>>,
              <<Fn("f", I32, <<Value(I64, "x")>>,
                   <<b("e", <<i("and", "k", I64, <<Value(I64, "x"), c64(1)>>),
                              gep("g", t, <<Global("t"), c64(0), Value(I64, "k")>>), load("q", Ptr, p("g")),
                              load("r", I32, p("q")), store(c32(1), p("q")), load("s", I32, Global("v")),
                              i("add", "a", I32, <<Value(I32, "r"), Value(I32, "s")>>), ret(Value(I32, "a"))>>)>>)>>)

AddressAsNumber(t) ==
  Module_(<<Var("g", "external", FALSE, c64(1)), Var("h", "external", FALSE, c64(3))>>,
          <<Fn("f", t, <<>>, <<b("e", <<i("ptrtoint", "r", t, <<Global("h")>>), ret(Value(t, "r"))>>)>>)>>)

AddressRoundTrip ==
  Straight(I32, Value(I32, "r"),
           <<alloca("p", I32), i("ptrtoint", "a", I64, <<p("p")>>), i("inttoptr", "q", Ptr, <<Value(I64, "a")>>),
             i("bitcast", "o", Ptr, <<p("q")>>), store(Value(I32, "y"), p("o")), load("r", I32, p("p"))>>)

Memory ==
  {Slots(s, t) : s \in IntegerOrPointerTypes \cup FloatingTypes, t \in {I8, I32, Double}}
    \cup {Element(t, element) : t \in {I8, I64}, element \in {I8, I16, Double}}
    \cup {Text(k) : k \in 0 .. 2}
    \cup {Global_(c, typeOf(c)) : c \in {Constant(I8, -3), Constant(I16, 9), c32(-20), c64(1000), Constant(Float, 7),
                                         Constant(Double, 0), Constant(I1, 0), Poison(I16)}}
    \cup {Global_(zeroValue(ArrayType(I32, 2)), I32), Global_(Poison(ArrayType(I16, 3)), I8), Global_(Global("u"), Ptr)}
    \cup {AddressAsNumber(t) : t \in {I1, I8, I16, I64}}
    \cup {Matrix, Pointers, AddressRoundTrip}

-----------------------------------------------------------------------------
(* Control flow and calls.                                                 *)

\* x and y change places in every round.
Swap(s) ==
  LET x == Value(s, "x")
      y == Value(s, "y")
      a == Value(s, "a")
      c == Value(s, "c")
      k == Value(I32, "k")
      next == Value(I32, "m")
  IN  Only(Fn("f", s, <<x, y>>,
        <<b("e", <<br("l")>>),
          b("l", <<phi("a", s, <<x, c>>, <<"e", "l">>), phi("c", s, <<y, a>>, <<"e", "l">>),
                   phi("k", I32, <<c32(0), next>>, <<"e", "l">>), i("add", "m", I32, <<k, c32(1)>>),
                   icmp("d", "slt", next, c32(4)), condbr(Value(I1, "d"), "l", "o")>>),
          b("o", <<ret(a)>>)>>))

\* Both ways lead to one block, which has a phi.
SameTarget ==
  Only(Fn("f", I32, <<Value(I1, "x"), Value(I32, "y")>>,
       <<b("e", <<condbr(Value(I1, "x"), "l", "l")>>),
         b("l", <<phi("r", I32, <<Value(I32, "y")>>, <<"e">>), ret(Value(I32, "r"))>>)>>))

Selects(t) ==
  Module_(<<>>, <<Fn("f", t, <<Value(I1, "x"), Value(t, "y"), Value(t, "z")>>,
    <<b("e", <<i("select", "r", t, <<Value(I1, "x"), Value(t, "y"), Value(t, "z")>>),
               icmp("c", "eq", Value(I1, "x"), Constant(I1, 0)),
               i("select", "s", t, <<Value(I1, "c"), Value(t, "r"), Value(t, "y")>>), ret(Value(t, "s"))>>)>>)>>)

\* The block used before its definition in the text, a name used before its own.
Backwards ==
  Only(Fn("f", I32, <<Value(I32, "x")>>,
       <<b("e", <<br("d")>>),
         b("u", <<i("mul", "r", I32, <<Value(I32, "v"), Value(I32, "v")>>), ret(Value(I32, "r"))>>),
         b("d", <<i("add", "v", I32, <<Value(I32, "x"), c32(3)>>), br("u")>>)>>))

\* A block nothing leads to.
Unreachable ==
  Only(Fn("f", I32, <<Value(I32, "x")>>,
       <<b("e", <<br("o")>>), b("n", <<i("add", "q", I32, <<Value(I32, "x"), c32(1)>>), br("o")>>),
         b("o", <<phi("r", I32, <<Value(I32, "x"), Value(I32, "q")>>, <<"e", "n">>), ret(Value(I32, "r"))>>)>>))

\* More arguments than registers, of both classes; used after another call.
Types == <<I8, Double, I32, I64, Float, I16, Double, Ptr>>
Many ==
  LET params == [k \in DOMAIN Types |-> Value(Types[k], "a" \o ToString(k))]
      G == Fn("g", I64, params,
              <<b("e", <<call("", Void, "put", <<params[3]>>), call("", Void, "show", <<params[7], params[5]>>),
                         i("sext", "s", I64, <<params[1]>>), i("sext", "u", I64, <<params[6]>>),
                         i("add", "v", I64, <<Value(I64, "s"), params[4]>>),
                         i("sub", "r", I64, <<Value(I64, "v"), Value(I64, "u")>>), ret(Value(I64, "r"))>>)>>)
      args == <<Value(I8, "x"), Constant(Double, 5), c32(-3), c64(70), Constant(Float, 7), Constant(I16, -2),
                Constant(Double, 9), NullPtr>>
  IN  Module_(<<>>, <<Declared("put", Void, <<I32>>, FALSE), Declared("show", Void, <<Double, Float>>, FALSE), G,
                      Fn("f", I64, <<Value(I8, "x")>>,
                         <<b("e", <<call("r", I64, "g", args), call("s", I64, "g", args),
                                    i("add", "t", I64, <<Value(I64, "r"), Value(I64, "s")>>), ret(Value(I64, "t"))>>)>>)>>)

\* The function that is called is chosen when the program runs.
Indirect ==
  LET unary(id, op) == Fn(id, I32, <<Value(I32, "n")>>,
                          <<b("e", <<i(op, "r", I32, <<Value(I32, "n"), c32(3)>>), ret(Value(I32, "r"))>>)>>)
      table_ == ArrayType(Ptr, 2)
  IN  Module_(<<Var("t", "internal", TRUE, ArrayConstant(table_, <<Global("plus"), Global("minus")>>))>>,
              <<unary("plus", "add"), unary("minus", "sub"),
                Fn("f", I32, <<Value(I32, "x")>>,
                   <<b("e", <<i("and", "k", I32, <<Value(I32, "x"), c32(1)>>),
                              gep("g", table_, <<Global("t"), c32(0), Value(I32, "k")>>), load("h", Ptr, p("g")),
                              With(i("indirectcall", "r", I32, <<p("h"), Value(I32, "x")>>),
                                   <<FunctionType(I32, <<I32>>, FALSE)>>), ret(Value(I32, "r"))>>)>>)>>)

\* A sum by recursion; every active call has a value of its own.
Recursive ==
  LET n == Value(I32, "n")
      m == Value(I32, "m")
      r == Value(I32, "r")
      s == Value(I32, "s")
      G == Fn("g", I32, <<n>>,
              <<b("e", <<icmp("c", "sgt", n, c32(0)), condbr(Value(I1, "c"), "l", "o")>>),
                b("l", <<i("sub", "m", I32, <<n, c32(1)>>), call("r", I32, "g", <<m>>), i("add", "s", I32, <<r, n>>), ret(s)>>),
                b("o", <<ret(c32(0))>>)>>)
  IN  Module_(<<>>, <<G, Fn("f", I32, <<Value(I32, "x")>>,
                            <<b("e", <<i("and", "m", I32, <<Value(I32, "x"), c32(3)>>), call("r", I32, "g", <<m>>), ret(r)>>)>>)>>)

\* External functions: of any number of arguments, of floating-point values.
External ==
  Module_(<<>>, <<Declared("any", I32, <<Ptr>>, TRUE), Declared("sin", Double, <<Double>>, FALSE),
                  Declared("half", Float, <<Float, I8>>, FALSE),
                  Fn("f", Double, <<Value(I8, "x"), Value(Float, "y")>>,
                     <<b("e", <<call("a", I32, "any", <<NullPtr, Value(I8, "x"), Value(Float, "y"), Constant(Double, 6), Value(Float, "y")>>),
                                call("h", Float, "half", <<Value(Float, "y"), Value(I8, "x")>>),
                                i("fpext", "w", Double, <<Value(Float, "h")>>), call("s", Double, "sin", <<Value(Double, "w")>>),
                                call("", Void, "done", <<>>), ret(Value(Double, "s"))>>)>>),
                  Declared("done", Void, <<>>, FALSE)>>)

\* A function that never returns, called on one way only.
Endless ==
  Module_(<<>>, <<Declared("put", Void, <<I32>>, FALSE),
                  Fn("g", Void, <<Value(I32, "n")>>,
                     <<b("e", <<br("l")>>),
                       b("l", <<i("add", "m", I32, <<Value(I32, "n"), c32(1)>>), put(Value(I32, "m")), br("l")>>)>>),
                  Fn("f", I32, <<Value(I32, "x")>>,
                     <<b("e", <<icmp("c", "eq", Value(I32, "x"), c32(1)), condbr(Value(I1, "c"), "l", "o")>>),
                       b("l", <<call("", Void, "g", <<Value(I32, "x")>>), br("o")>>), b("o", <<ret(Value(I32, "x"))>>)>>)>>)

\* Poison as an operand of a sum, in an arm of a select and on one of the ways into
\* a phi; where x is 1 none of it reaches the result.
PoisonOperands(t) ==
  LET x == Value(I1, "x")
      y == Value(t, "y")
  IN  Module_(<<>>, <<Declared("put", Void, <<t>>, FALSE),
        Fn("f", t, <<x, y>>,
           <<b("e", <<i(IF t \in FloatingTypes THEN "fadd" ELSE "add", "q", t, <<y, Poison(t)>>),
                      i("select", "r", t, <<x, y, Value(t, "q")>>), i("select", "s", t, <<x, Value(t, "r"), Poison(t)>>),
                      condbr(x, "l", "o")>>),
             b("l", <<put(y), br("o")>>),
             b("o", <<phi("v", t, <<Poison(t), Value(t, "s")>>, <<"e", "l">>), ret(Value(t, "v"))>>)>>)>>)

Flow ==
  {Swap(s) : s \in {I8, I64, Double}} \cup {Selects(t) : t \in {I1, I32, Double}}
    \cup {PoisonOperands(t) : t \in {I8, I64, Double}}
    \cup {SameTarget, Backwards, Unreachable, Many, Indirect, Recursive, External, Endless}

-----------------------------------------------------------------------------
(* Texts.                                                                  *)

Known(M) == [lines |-> Printed(M), intended |-> M, known |-> TRUE]
Unknown(ls) == [lines |-> ls, intended |-> EmptyModule, known |-> FALSE]

\* One line is left out, doubled, exchanged with the next one, or one type, operand or
\* label of it is another one.
Dropped(ls, k) == RemoveAt(ls, k)
Doubled(ls, k) == InsertAt(ls, k, ls[k])
Exchanged(ls, k) == [ls EXCEPT ![k] = ls[k + 1], ![k + 1] = ls[k]]
Damaged(ls) ==
  LET inBody == {k \in 2 .. (Len(ls) - 1) : ls[k].op \notin {"define", "declare", "globalvar"}}
  IN  {Dropped(ls, k) : k \in DOMAIN ls} \cup {Doubled(ls, k) : k \in DOMAIN ls}
        \cup {Exchanged(ls, k) : k \in {j \in inBody : j + 1 \in inBody}}
        \cup {[ls EXCEPT ![k].types[1] = t] :
                k \in {j \in inBody : ls[j].types # <<>> /\ ls[j].op # "call"}, t \in {I64, Ptr, Double}}
        \cup {[ls EXCEPT ![k].vals[1] = v] :
                k \in {j \in inBody : ls[j].vals # <<>>}, v \in {<<"%", "x">>, <<"%", "s">>, <<"%", "?">>, <<"@", "g">>}}
        \cup {[ls EXCEPT ![k].labels[1] = l] :
                k \in {j \in inBody : ls[j].labels # <<>>}, l \in {"e", "o", "?"}}
        \cup {[ls EXCEPT ![k].id = id] : k \in {j \in inBody : ls[j].id # ""}, id \in {"x", "s", "?"}}

\* A call that names the return type of its callee only.
ShortCall ==
  LET short(line) == IF line.op = "call" THEN [line EXCEPT !.types[1] = @[2]] ELSE line
  IN  [Known(Recursive) EXCEPT !.lines = [k \in DOMAIN @ |-> short(@[k])]]

\* mini-llc has no code for these.
Unsupported ==
  {Unknown(Printed(Straight(Double, Value(Double, "r"),
                            <<i("frem", "r", Double, <<Value(Double, "x"), Value(Double, "y")>>)>>))),
   Unknown(Printed(Cast("sitofp", I8, Double)))}

MCTexts ==
  {Known(M) : M \in Integers1 \cup FloatingPoint \cup Memory \cup Flow} \cup {ShortCall} \cup Unsupported
    \cup UNION {{Unknown(ls) : ls \in Damaged(Printed(M))} : M \in {Recursive, Swap(I32)}}

-----------------------------------------------------------------------------
(* What mini-llc does wrong; each of these is wrong on its own.            *)

\* The number a true of no comparison is extended to by its sign.
ExtendedTruth == Cast("sext", I1, I32)

\* A global variable that is true is not what true is in a register.
TrueGlobal == Global_(Constant(I1, 1), I1)

\* Ordered and not equal holds for NaN.
NotEqual == FloatComparison("one", Double)

\* A float and its bits: the register holds 8 bytes of which 4 are the float.
FloatBits == {Cast("bitcast", I32, Float), Cast("bitcast", Float, I32)}

\* There are no machine instructions for these.
NoInstruction ==
  {Straight(Double, Value(Double, "r"), <<i("frem", "r", Double, <<Value(Double, "x"), Value(Double, "y")>>)>>)}
    \cup {Cast("sitofp", t, Double) : t \in {I1, I8, I16}} \cup {Cast("fptoui", Double, t) : t \in {I1, I8, I16}}

\* A division of 8 bits by a constant.
NarrowDivision == ByConstant("udiv", I8, 3)

\* A function of any number of arguments looks for its own where no caller puts them.
VarArgsDefined ==
  Module_(<<>>, <<[Fn("g", Double, <<Value(Double, "n")>>, <<b("e", <<ret(Value(Double, "n"))>>)>>) EXCEPT !.type[4] = TRUE],
                  Fn("f", Double, <<Value(Double, "x")>>,
                     <<b("e", <<i("fadd", "y", Double, <<Value(Double, "x"), Constant(Double, 5)>>),
                                call("r", Double, "g", <<Value(Double, "y"), c32(1)>>), ret(Value(Double, "r"))>>)>>)>>)

\* 0.0 of type float is printed as something that is no number.
ZeroFloat == Straight(Float, Value(Float, "r"), <<i("fadd", "r", Float, <<Value(Float, "x"), Constant(Float, 0)>>)>>)

UnsoundTexts ==
  {Known(M) : M \in {ExtendedTruth, TrueGlobal, NotEqual, NarrowDivision, VarArgsDefined, ZeroFloat} \cup FloatBits \cup NoInstruction}

MCInputs(t) ==
  CASE t = I1 -> {0, 1}
    [] t = I8 -> {0, 3, 4, 7}
    [] t = I16 -> {0, 9, 16, 30}
    [] t = I32 -> {0, 1, 25, 32, 63}
    [] t = I64 -> {0, 3, 2047, 2048, 4090}
    [] t = Ptr -> {0, 512, 4095}
    [] t = Float -> {0, 3, 31, 30, 35}
    [] t = Double -> {0, 5, 2047, 2050}

=============================================================================
