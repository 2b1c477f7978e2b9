-------------------------- MODULE MCIrPassManager --------------------------
EXTENDS IrPassManager

I(op, id, args) == [op |-> op, id |-> id, args |-> args, dests |-> <<>>]
Do(id, f, args) == I("call", id, <<f>> \o args)
CondBr(v, t, e) == [op |-> "condbr", id |-> "none", args |-> <<v>>, dests |-> <<t, e>>]
Ret == I("ret", "none", <<>>)
RetV(v) == I("ret", "none", <<v>>)
PhiI(id, args, dests) == [op |-> "phi", id |-> id, args |-> args, dests |-> dests]

Definition(linkage, params, layout, code) ==
  [params |-> params, attrs |-> {}, linkage |-> linkage, void |-> FALSE,
   layout |-> layout, code |-> code]
Block(linkage, params, body) == Definition(linkage, params, <<"entry">>, "entry" :> body)
Declare(attrs) ==
  [params |-> <<>>, attrs |-> attrs, linkage |-> "external", void |-> FALSE,
   layout |-> <<>>, code |-> <<>>]

\* The functions a program may call that are defined elsewhere.
Declarations ==
  ("@ext" :> Declare({})) @@ ("@none" :> Declare({"ReadNone"})) @@
  ("@read" :> Declare({"ReadOnly"})) @@ ("@args" :> Declare({"ArgMemOnly"})) @@
  ("@own" :> Declare({"InaccessibleMemOnly"}))

Module(main, others, variables) ==
  LET called == {c \in DOMAIN Declarations :
                   \E G \in {main} \cup Range(others) : \E J \in instructions(G) : c \in Range(J.args)}
      fs == ("@main" :> [main EXCEPT !.linkage = "external"]) @@ others
              @@ [c \in called |-> Declarations[c]]
  IN  [order |-> <<"@main">> \o SetToSeq(DOMAIN others) \o SetToSeq(called),
       functions |-> fs, vars |-> variables]

Shared == "@g" :> [linkage |-> "external", init |-> <<"1", "2">>]
Void(G) == [G EXCEPT !.void = TRUE]

\* @main gets a bit and a pointer to the element of @g it selects.
MCArguments == {<<Number(n), PtrTo("@g", 4 * n)>> : n \in {0, 1}}

-----------------------------------------------------------------------------
(* Control flow: four blocks with phis in b2 and b3: diamonds, loops over  *)
(* one to three blocks, jumps to jumps, constant branches, unreachable     *)
(* blocks, phis nobody uses and phis that decide where to go next.         *)

\* "true" on the first way in and "false" on the others.
PhiFor(preds, p) == PhiI(p, [k \in DOMAIN preds |-> IF k = 1 THEN "true" ELSE "false"], preds)

Fn(bodies, terms, phis) ==
  LET layout == <<"b0", "b1", "b2", "b3">>
      ways(n) == SelectSeq(layout, LAMBDA m : n \in Range(terms[m].dests))
  IN  Void(Definition("external", <<"arg">>, layout, [n \in Range(layout) |->
        (IF n \in DOMAIN phis THEN <<PhiFor(ways(n), phis[n])>> ELSE <<>>)
          \o bodies[n] \o <<terms[n]>>]))

Call1 == <<Do("c1", "@ext", <<>>)>>
\* A block too long to be duplicated.
LongBlock == Call1 \o <<Do("c4", "@ext", <<>>), Do("c5", "@ext", <<>>)>>
T0 == {Br("b1"), CondBr("arg", "b1", "b2"), CondBr("true", "b2", "b3")}
T1 == {Br("b2"), CondBr("arg", "b2", "b3"), CondBr("arg", "b3", "b3")}
T2 == {Br("b3"), CondBr("arg", "b1", "b3"), CondBr("p2", "b1", "b3")}
T3 == {Ret, CondBr("p3", "b2", "b3")}

Branching ==
  {G \in {Fn(("b0" :> <<>>) @@ ("b1" :> b1) @@ ("b2" :> b2) @@ ("b3" :> <<Do("c3", "@ext", <<"p3">>)>>),
             ("b0" :> t0) @@ ("b1" :> t1) @@ ("b2" :> t2) @@ ("b3" :> t3),
             ("b2" :> "p2") @@ ("b3" :> "p3")) :
            b1 \in {<<I("not", "n1", <<"arg">>)>>, LongBlock},
            b2 \in {<<>>, <<I("not", "n2", <<"p2">>), Do("c2", "@ext", <<"n2">>)>>},
            t0 \in T0, t1 \in T1, t2 \in T2, t3 \in T3} : isWellFormed(G)}

-----------------------------------------------------------------------------
(* Memory: two accesses to a place and something in between that may read  *)
(* or write it. The places are a slot, the first element of @g, where the  *)
(* argument p points and the element of @g that arg selects; p points there*)
(* too, and to the first element if arg is 0.                              *)

Places == {"a", "@g", "p", "e"}
Slots == <<I("alloca", "a", <<>>), I("gep", "e", <<"@g", "0", "arg">>)>>

Writing(place, m) ==
  {I("load", m, <<place>>), I("peek", m, <<place>>), I("store", "none", <<"5", place>>),
   I("poke", "none", <<"6", place>>), Do(m, "@ext", <<place>>), Do(m, "@args", <<place>>)}
Between(m) ==
  {Do(m, "@ext", <<>>), Do(m, "@own", <<>>), Do(m, "@none", <<"arg">>), I("icall", m, <<"@ext">>)}
    \cup UNION {Writing(place, m) : place \in Places}

Straight(body) ==
  Module(Void(Block("external", <<"arg", "p">>, Slots \o body \o <<Ret>>)), <<>>, Shared)

StoredTwice ==
  {Straight(<<I("store", "none", <<"3", x>>), m, I("store", "none", <<"4", x>>), I("load", "l", <<x>>),
              Do("c", "@ext", <<"l">> \o IF m.id = "m" THEN <<"m">> ELSE <<>>)>>) :
     x \in Places, m \in Between("m")}

LoadedTwice ==
  {Straight(<<first, m, I("load", "l", <<x>>), Do("c", "@ext", <<"l">>)>>) :
     x \in {"a"}, m \in Between("m"), first \in {I("store", "none", <<"3", "a">>)}}

-----------------------------------------------------------------------------
(* Calls: @main gives a helper the address of a slot, twice.               *)

Helper(body) == Block("internal", <<"q">>, body \o <<RetV("r")>>)
Reader == {Helper(<<I("load", "r", <<"q">>)>>)}
Helpers ==
  {Helper(<<I("load", "r", <<"@g">>)>>),
   Helper(<<I("store", "none", <<"7", "q">>), I("load", "r", <<"q">>)>>),
   Helper(<<I("alloca", "x", <<>>), I("store", "none", <<"7", "x">>), I("load", "r", <<"x">>)>>),
   Helper(<<I("icall", "r", <<"@ext">>)>>),
   Helper(<<Do("r", "@ext", <<"q">>)>>)}

Calling(again) ==
  Void(Block("external", <<"arg", "p">>,
    <<I("alloca", "a", <<>>), I("store", "none", <<"1", "a">>), Do("f1", "@f", <<"a">>)>> \o again \o
    <<Do("f2", "@f", <<"a">>), I("load", "l", <<"a">>), Do("c", "@ext", <<"f1", "f2", "l">>), Ret>>))

Calls ==
  {Module(Calling(<<>>), "@f" :> [F EXCEPT !.attrs = attrs], Shared) :
     F \in Reader \cup Helpers, attrs \in {{}, {"NoInline"}}} \cup
  {Module(Calling(<<I("store", "none", <<"2", "a">>)>>), "@f" :> [F EXCEPT !.attrs = attrs], Shared) :
     F \in Helpers, attrs \in {{}, {"NoInline"}}}

\* A function that calls itself, at its end or before it, or by way of another.
Recursive(self, result) ==
  Definition("internal", <<"x", "n">>, <<"b0", "b1", "b2">>,
    ("b0" :> <<CondBr("x", "b1", "b2")>>) @@
    ("b1" :> <<I("not", "y", <<"x">>), I("add", "m", <<"n", "1">>), Do("r", self, <<"y", "m">>)>> \o result) @@
    ("b2" :> <<Do("c", "@ext", <<"n">>), RetV("n")>>))

Recursion ==
  LET main == Block("external", <<"arg", "p">>, <<Do("r", "@f", <<"arg", "2">>), RetV("r")>>)
      late == <<I("add", "s", <<"r", "1">>), RetV("s")>>
  IN  {Module(main, "@f" :> Recursive("@f", <<RetV("r")>>), Shared),
       Module(main, "@f" :> Recursive("@f", late), Shared),
       Module(main, ("@f" :> Recursive("@h", <<RetV("r")>>)) @@ ("@h" :> Recursive("@f", late)), Shared)}

\* Functions and variables only initializers lead to, or nothing.
Tables ==
  {Module(Void(Block("external", <<"arg", "p">>,
            <<I("load", "l", <<"@t">>), I("icall", "c", <<"l">>), Do("d", "@ext", <<"c">>), Ret>>)),
          ("@f" :> Block("internal", <<>>, <<Do("r", "@ext", <<"@g">>), RetV("r")>>))
            @@ ("@h" :> Block("internal", <<>>, <<I("load", "r", <<"@u">>), RetV("r")>>)),
          Shared @@ ("@t" :> [linkage |-> "internal", init |-> <<"@f">>])
                 @@ ("@u" :> [linkage |-> "internal", init |-> <<"@h">>]))}

-----------------------------------------------------------------------------
(* Loops: a loop with an inner one, or with two ways back, and a value of  *)
(* its header used in it or behind it.                                     *)

Values(id) ==
  {I("not", id, <<"arg">>), I("not", id, <<"p1">>), I("load", id, <<"@g">>),
   Do(id, "@none", <<"arg">>), Do(id, "@read", <<>>), I("sext", id, <<"arg">>)}

LoopOf(value, used2, used4, term2, phi2, phi1) ==
  Void(Definition("external", <<"arg", "p">>, <<"b0", "b1", "b2", "b3", "b4">>,
    ("b0" :> <<Br("b1")>>) @@
    ("b1" :> <<phi1, value, CondBr("p1", "b2", "b4")>>) @@
    ("b2" :> <<phi2>> \o used2 \o <<term2>>) @@
    ("b3" :> <<I("store", "none", <<"8", "@g">>), Br("b1")>>) @@
    ("b4" :> used4 \o <<Ret>>)))

LoopUses(value) ==
  {<<<<>>, <<Do("c4", "@ext", <<"v">>)>>>>,
   <<<<[value EXCEPT !.id = "w"], Do("c2", "@ext", <<"v", "w">>)>>, <<>>>>}

Loops ==
  UNION {UNION {
    {Module(LoopOf(value, use[1], use[2], CondBr("p2", "b2", "b3"),
                   PhiI("p2", <<"true", "false">>, <<"b1", "b2">>),
                   PhiI("p1", <<"true", "false">>, <<"b0", "b3">>)), <<>>, Shared),
     Module(LoopOf(value, use[1], use[2], CondBr("arg", "b1", "b3"),
                   PhiI("p2", <<"true">>, <<"b1">>),
                   PhiI("p1", <<"true", "false", "false">>, <<"b0", "b2", "b3">>)), <<>>, Shared)} :
    use \in LoopUses(value)} : value \in Values("v")}

\* Arithmetic on constants, indices and poison.
Arithmetic ==
  {Straight(<<I("sext", "s", <<"arg">>), I("add", "x", <<"1", "s">>), I("add", "y", <<"x", "2">>),
              I("mul", "z", <<"y", "1">>), I("mul", "k", <<"3", "2">>), I("add", "u", <<"z", "k">>),
              I("add", "o", <<"s", "poison">>), I("gep", "f", <<"e", "0">>),
              I("gep8", "h", <<"@g", "0">>), I("gep8", "i", <<"h", "4">>), I("load", "l", <<"i">>),
              Do("c", "@ext", <<"u", "o", "f", "l">>)>>)}

MCPrograms ==
  {Module(G, <<>>, Shared) : G \in Branching} \cup StoredTwice \cup LoadedTwice \cup Calls
    \cup Recursion \cup Tables \cup Loops \cup Arithmetic

-----------------------------------------------------------------------------
(* Programs that a pass breaks. First those of which a function is no      *)
(* longer well-formed: a branch on a constant, or on a phi, whose two      *)
(* targets are the same block; and values to be moved out of a loop that   *)
(* the layout has before what they are computed from.                      *)

SameTargets ==
  {Module(Fn(("b0" :> <<>>) @@ ("b1" :> <<>>) @@ ("b2" :> <<>>) @@ ("b3" :> <<Do("c3", "@ext", <<"p3">>)>>),
             ("b0" :> CondBr("arg", "b1", "b2")) @@ ("b1" :> CondBr("true", "b3", "b3"))
               @@ ("b2" :> Br("b3")) @@ ("b3" :> Ret),
             "b3" :> "p3"), <<>>, Shared),
   Module(Fn(("b0" :> <<>>) @@ ("b1" :> Call1) @@ ("b2" :> <<>>) @@ ("b3" :> <<>>),
             ("b0" :> CondBr("arg", "b1", "b2")) @@ ("b1" :> Br("b2"))
               @@ ("b2" :> CondBr("p2", "b3", "b3")) @@ ("b3" :> Ret),
             "b2" :> "p2"), <<>>, Shared)}

LaidOutEarly ==
  {Module(Void(Definition("external", <<"arg", "p">>, <<"b0", "b1", "b2", "b3", "b4">>,
     ("b0" :> <<I("load", "l", <<"@g">>), Br("b1")>>) @@
     ("b1" :> <<PhiI("p1", <<"true", "false", "false">>, <<"b0", "b2", "b3">>), CondBr("p1", "b3", "b4")>>) @@
     ("b2" :> <<I("sext", "y", <<"x">>), Do("c2", "@ext", <<"y">>), Br("b1")>>) @@
     ("b3" :> <<I("sext", "x", <<"l">>), CondBr("arg", "b2", "b1")>>) @@
     ("b4" :> <<Ret>>))), <<>>, Shared)}

(* Then those that do something else: a slot is read by a function that    *)
(* only reads and is then overwritten; a function gives the address of a   *)
(* slot to itself; a function that never returns is called in a loop, when *)
(* arg says so.                                                            *)
ReadBetween ==
  {Module(Calling(<<I("store", "none", <<"2", "a">>)>>), "@f" :> F, Shared) : F \in Reader}

SlotGivenOn ==
  {Module(Block("external", <<"arg", "p">>, <<Do("r", "@f", <<"arg", "p", "1">>), RetV("r")>>),
     "@f" :> Definition("internal", <<"x", "q", "n">>, <<"b0", "b1", "b2">>,
       ("b0" :> <<I("alloca", "a", <<>>), I("store", "none", <<"n", "a">>), I("load", "l", <<"q">>),
                  Do("c", "@ext", <<"l">>), CondBr("x", "b1", "b2")>>) @@
       ("b1" :> <<I("not", "y", <<"x">>), I("add", "m", <<"n", "1">>),
                  Do("r", "@f", <<"y", "a", "m">>), RetV("r")>>) @@
       ("b2" :> <<RetV("n")>>)), Shared)}

NeverCalled ==
  {Module(Void(Definition("external", <<"arg", "p">>, <<"b0", "b1", "b2", "b3", "b4">>,
     ("b0" :> <<Br("b1")>>) @@
     ("b1" :> <<PhiI("p1", <<"true", "false", "false">>, <<"b0", "b2", "b3">>), CondBr("p1", "b2", "b4")>>) @@
     ("b2" :> <<Do("c2", "@ext", <<>>), CondBr("arg", "b3", "b1")>>) @@
     ("b3" :> <<Do("f3", "@f", <<>>), Do("c3", "@ext", <<"f3">>), Br("b1")>>) @@
     ("b4" :> <<Ret>>))),
     "@f" :> Definition("internal", <<>>, <<"b0", "b1">>,
                        ("b0" :> <<Br("b1")>>) @@ ("b1" :> <<Br("b1")>>)), Shared)}

Unsound == SameTargets \cup LaidOutEarly \cup ReadBetween \cup SlotGivenOn \cup NeverCalled
=============================================================================
