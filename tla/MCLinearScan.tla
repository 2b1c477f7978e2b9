---------------------------- MODULE MCLinearScan ----------------------------
EXTENDS LinearScan, MirPrograms

MCVirtRegs == {"v1", "v2", "v3", "v4"}
MCPhysRegs == {"a0", "t0", "s0", "s1"}
MCPreserved == {"s0", "s1"}
MCIdx == [p \in MCPhysRegs |->
            CASE p = "t0" -> 5 [] p = "s0" -> 8 [] p = "s1" -> 9 [] p = "a0" -> 10]
MCBlocks == {"b0", "b1", "b2", "b3", "epilogue"}

Shapes == {Straight, AcrossCall, CrowdAcrossCall, Loop, Diamond, Unreachable, Endless}
MCFuncs == Shapes \cup ThreeOperands \cup Poisoned \cup Loops
=============================================================================
