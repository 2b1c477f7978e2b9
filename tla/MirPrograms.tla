----------------------------- MODULE MirPrograms -----------------------------
(***************************************************************************)
(* The machine functions the register allocators are checked on. Virtual   *)
(* registers are v1 to v4; a0 carries the argument and the result, a call  *)
(* preserves the registers s0 and s1 and nothing else.                     *)
(***************************************************************************)
EXTENDS Naturals, Sequences, SequencesExt

(* Instructions and functions.                                             *)

Op(dsts, srcs) ==
  [srcs |-> srcs, dsts |-> dsts, implicitSrcs |-> {}, implicitDsts |-> {},
   coalescent |-> FALSE, blockOps |-> {}, mem |-> "none", slot |-> "none"]
Mov(dst, src) == [Op(<<dst>>, <<src>>) EXCEPT !.coalescent = TRUE]
Call(args, clobbers) ==
  [Op(<<>>, <<>>) EXCEPT !.implicitSrcs = args, !.implicitDsts = clobbers]
Br(targets) == [Op(<<>>, <<>>) EXCEPT !.blockOps = targets]
CondBr(srcs, targets) == [Op(<<>>, srcs) EXCEPT !.blockOps = targets]
Ret(results) == [Op(<<>>, <<>>) EXCEPT !.implicitSrcs = results]

\* A function from the list of its blocks, each <<name, body, terminator>>.
Fn(blocks) ==
  [layout |-> [i \in DOMAIN blocks |-> blocks[i][1]],
   code |-> [b \in {blocks[i][1] : i \in DOMAIN blocks} |->
     LET e == blocks[CHOOSE i \in DOMAIN blocks : blocks[i][1] = b]
     IN  Append(e[2], e[3])]]

-----------------------------------------------------------------------------
(* The programs.                                                           *)

Def(v) == Op(<<v>>, <<>>)
Use(v) == Op(<<>>, <<v>>)
Inc(v) == Op(<<v>>, <<v>>)
Add(v, x, y) == Op(<<v>>, <<x, y>>)
CallA == Call({"a0"}, {"a0", "t0"})
Finish(v) == <<Mov("a0", v)>>
Epilogue == <<"epilogue", <<>>, Ret({"a0"})>>

\* Three values needed at once, added in pairs: two registers are reserved.
Straight ==
  Fn(<< <<"b0", <<Mov("v1", "a0"), Def("v2"), Def("v3"), Add("v4", "v1", "v2"),
                  Add("v4", "v4", "v3")>> \o Finish("v4"), Br({"epilogue"})>>,
        Epilogue >>)

\* v1 and v2 live across a call; v3 dies before it, v4 is its unused result.
AcrossCall ==
  Fn(<< <<"b0", <<Mov("v1", "a0"), Def("v2"), Def("v3"), Mov("a0", "v3"), CallA,
                  Mov("v4", "a0"), Use("v1")>> \o Finish("v2"),
          Br({"epilogue"})>>,
        Epilogue >>)

\* Three values live across a call, more than the registers that are left for
\* them, and read in pairs after it.
CrowdAcrossCall ==
  Fn(<< <<"b0", <<Mov("v1", "a0"), Def("v2"), Def("v3"), CallA,
                  Add("v4", "v2", "v3"), Add("v4", "v1", "v2"), Add("v4", "v1", "v3")>>
                  \o Finish("v4"),
          Br({"epilogue"})>>,
        Epilogue >>)

\* A loop whose exit block may come before its body in the linear order; v1
\* goes around the loop, v2 is read after it only, v3 inside it only.
Loop ==
  Fn(<< <<"b0", <<Mov("v1", "a0"), Def("v2")>>, Br({"b1"})>>,
        <<"b1", <<Inc("v1")>>, CondBr(<<"v1">>, {"b2", "b3"})>>,
        <<"b2", <<Def("v3"), Use("v3")>>, Br({"b1"})>>,
        <<"b3", <<Use("v2")>> \o Finish("v1"), Br({"epilogue"})>>,
        Epilogue >>)

\* v2 is written on both sides of a branch and read at the join; one side
\* calls, the other needs v3 and v4.
Diamond ==
  Fn(<< <<"b0", <<Mov("v1", "a0"), Def("v3")>>, CondBr(<<"v1">>, {"b1", "b2"})>>,
        <<"b1", <<Mov("a0", "v1"), CallA, Mov("v2", "a0")>>, Br({"b3"})>>,
        <<"b2", <<Def("v4"), Inc("v4"), Mov("v2", "v4")>>, Br({"b3"})>>,
        <<"b3", <<Use("v3"), Use("v1")>> \o Finish("v2"), Br({"epilogue"})>>,
        Epilogue >>)

\* b3 cannot be reached; its registers are allocated like all others.
Unreachable ==
  Fn(<< <<"b0", <<Mov("v1", "a0")>> \o Finish("v1"), Br({"epilogue"})>>,
        <<"b3", <<Def("v2"), Inc("v2")>> \o Finish("v2"), Br({"epilogue"})>>,
        Epilogue >>)

\* An instruction that reads three registers, so that three are reserved; after
\* a call only two are left that are free for it.
ThreeOperands ==
  {Fn(<< <<"b0", <<Mov("v1", "a0"), Def("v2"), Def("v3")>> \o call
                  \o <<Op(<<"v4">>, <<"v1", "v2", "v3">>)>> \o Finish("v4"),
           Br({"epilogue"})>>,
         Epilogue >>) : call \in {<<>>, <<CallA>>}}

\* A loop without an exit: the epilogue that reads the result is never reached.
Endless ==
  Fn(<< <<"b0", <<Def("v1"), Def("v2"), Def("v3")>>, Br({"b1"})>>,
        <<"b1", <<Add("v1", "v1", "v2"), Add("v2", "v1", "v3")>>, Br({"b1"})>>,
        Epilogue >>)

\* A loop with every choice of these bodies in its head, its body and its
\* exit, in both layouts of body and exit. v1 and v2 are set before the loop.
Bodies ==
  {<<Add("v1", "v1", "v2")>>, <<Def("v3"), Inc("v3"), Use("v3")>>,
   <<Mov("a0", "v2"), CallA, Mov("v1", "a0")>>, <<Mov("v3", "v1"), Add("v2", "v3", "v1")>>}

Loops ==
  {LET head == <<"b1", h, CondBr(<<"v1">>, {"b2", "b3"})>>
       body == <<"b2", b, Br({"b1"})>>
       exit == <<"b3", e \o Finish("v2"), Br({"epilogue"})>>
       init == <<"b0", <<Mov("v1", "a0"), Def("v2")>>, Br({"b1"})>>
   IN  IF exitFirst THEN Fn(<<init, head, exit, body, Epilogue>>)
                    ELSE Fn(<<init, head, body, exit, Epilogue>>) :
     h \in Bodies, b \in Bodies, e \in Bodies, exitFirst \in BOOLEAN}

\* Straight code that copies three values around, in every order, and adds the
\* last of them to one of the others.
Copies ==
  LET moves == {Mov("v2", "v1"), Mov("v1", "v3"), Mov("v3", "v2"), Mov("a0", "v3"), Inc("v2")}
  IN  {Fn(<< <<"b0", <<Mov("v1", "a0"), Def("v2"), Mov("v3", "v2"), i1, i2, i3,
                       Add("v4", "v1", v)>> \o Finish("v4"), Br({"epilogue"})>>,
             Epilogue >>) : i1 \in moves, i2 \in moves, i3 \in moves, v \in {"v2", "v3"}}

\* Functions that read poison, a register nothing writes: beside others across a
\* call, so that it is spilled; in a loop and behind it; copied on one side of a
\* branch; and by a branch alone.
Poisoned ==
  {Fn(<< <<"b0", <<Mov("v1", "a0"), Def("v2"), CallA, Add("v4", "v2", "v3"),
                   Add("v4", "v1", "v3"), Add("v4", "v1", "v2")>> \o Finish("v4"), Br({"epilogue"})>>,
         Epilogue >>),
   Fn(<< <<"b0", <<Mov("v1", "a0")>>, Br({"b1"})>>,
         <<"b1", <<Add("v1", "v1", "v2"), Mov("a0", "v1"), CallA, Mov("v3", "v2"), Inc("v3")>>,
           CondBr(<<"v3">>, {"b1", "b3"})>>,
         <<"b3", <<Use("v2")>> \o Finish("v1"), Br({"epilogue"})>>,
         Epilogue >>),
   Fn(<< <<"b0", <<Mov("v1", "a0")>>, CondBr(<<"v1">>, {"b1", "b2"})>>,
         <<"b1", <<Mov("v2", "v3")>>, Br({"b3"})>>,
         <<"b2", <<Def("v4"), Mov("v2", "v4")>>, Br({"b3"})>>,
         <<"b3", <<Use("v1")>> \o Finish("v2"), Br({"epilogue"})>>,
         Epilogue >>),
   Fn(<< <<"b0", <<Mov("v1", "a0")>>, CondBr(<<"v2">>, {"b1", "b3"})>>,
         <<"b1", <<Mov("a0", "v1"), CallA>>, Br({"b3"})>>,
         <<"b3", Finish("v1"), Br({"epilogue"})>>,
         Epilogue >>)}

\* A spilled register read twice by one instruction.
Squares ==
  Fn(<< <<"b0", <<Mov("v1", "a0"), Def("v2"), Def("v3"), CallA,
                  Add("v1", "v1", "v1"), Add("v2", "v2", "v2"), Add("v3", "v3", "v3"),
                  Add("v4", "v1", "v2"), Add("v4", "v4", "v3")>> \o Finish("v4"),
          Br({"epilogue"})>>,
        Epilogue >>)

\* Four values needed at once, written and read while the others are live.
FourValues ==
  Fn(<< <<"b0", <<Mov("v1", "a0"), Def("v2"), Def("v3"), Def("v4"),
                  Add("v1", "v1", "v2"), Add("v2", "v2", "v3"), Add("v3", "v3", "v4"),
                  Add("v4", "v4", "v1"), Add("v1", "v1", "v2"), Add("v1", "v1", "v3"),
                  Add("v1", "v1", "v4")>> \o Finish("v1"),
          Br({"epilogue"})>>,
        Epilogue >>)
=============================================================================
