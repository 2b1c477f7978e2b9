--------------------------- MODULE MCGraphColoring --------------------------
EXTENDS GraphColoring, MirPrograms

MCTemps == <<"n1", "n2", "n3", "n4", "n5", "n6", "n7", "n8">>
MCVirtRegs == {"v1", "v2", "v3", "v4"} \cup Range(MCTemps)
MCPhysRegs == {"a0", "t0", "s0", "s1"}
MCPreserved == {"s0", "s1"}
MCIdx == [p \in MCPhysRegs |->
            CASE p = "t0" -> 5 [] p = "s0" -> 8 [] p = "s1" -> 9 [] p = "a0" -> 10]
MCBlocks == {"b0", "b1", "b2", "b3", "epilogue"}

Shapes == {Straight, AcrossCall, CrowdAcrossCall, Squares, Loop, Diamond, Unreachable}
MCFuncs == Shapes \cup Poisoned \cup Loops \cup Copies

\* Three registers, one of them callee-saved.
\* As Squares, with two values, one of which must be spilled.
TwoSquares ==
  Fn(<< <<"b0", <<Mov("v1", "a0"), Def("v2"), CallA, Add("v1", "v1", "v1"),
                  Add("v2", "v2", "v2"), Add("v4", "v1", "v2")>> \o Finish("v4"),
          Br({"epilogue"})>>,
        Epilogue >>)
Spilling == {FourValues, TwoSquares}
FewRegs == {"a0", "t0", "s0"}
FewPreserved == {"s0"}
FewIdx == [p \in FewRegs |-> MCIdx[p]]
=============================================================================
