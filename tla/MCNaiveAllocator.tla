-------------------------- MODULE MCNaiveAllocator --------------------------
EXTENDS NaiveAllocator, MirPrograms

MCVirtRegs == {"v1", "v2", "v3", "v4"}
MCPhysRegs == {"a0", "t0", "s0"}
MCPreserved == {"s0"}
MCIdx == [p \in MCPhysRegs |-> CASE p = "t0" -> 5 [] p = "s0" -> 8 [] p = "a0" -> 10]
MCBlocks == {"b0", "b1", "b2", "b3", "epilogue"}

\* Three blocks joined in every way: straight lines, branches, joins, loops over
\* one and two blocks, unreachable blocks.
Swap == <<Op(<<"v1">>, <<"v2">>), Op(<<"v2">>, <<"v1", "v2">>)>>
ThreeBlocks ==
  {Fn(<< <<"b1", <<Def("v1"), Def("v2")>>, Br(t1)>>, <<"b2", body[1], Br(t2)>>,
         <<"b3", body[2], Br(t3)>> >>) :
     body \in {<<Def("v1")>>, <<Use("v1")>>, Swap} \X {<<Use("v1")>>, Swap},
     t1 \in {{"b2"}, {"b3"}, {"b2", "b3"}},
     t2 \in {{}, {"b3"}, {"b2", "b3"}},
     t3 \in {{}, {"b2"}, {"b2", "b3"}}}

\* A call with as many arguments as there are registers: the last of them is
\* borrowed for the move that puts its argument there.
AllArguments(body) ==
  Fn(<< <<"b0", <<Mov("v1", "a0"), Def("v2"), Mov("a0", "v1")>> \o body
                  \o <<Call({"a0", "t0", "s0"}, {"a0", "t0"})>> \o Finish("v1"),
          Br({"epilogue"})>>,
        Epilogue >>)
ThreeArguments == AllArguments(<<Mov("t0", "v2"), Mov("s0", "v2")>>)

\* v2 is added to v1 when two of the three arguments are in place.
LateArgument == AllArguments(<<Mov("t0", "v2"), Add("v1", "v1", "v2"), Mov("s0", "v1")>>)

Shapes == {Straight, AcrossCall, CrowdAcrossCall, Squares, Loop, Diamond, Unreachable,
           ThreeArguments, LateArgument}
MCFuncs == Shapes \cup Loops \cup ThreeBlocks \cup Poisoned
=============================================================================
