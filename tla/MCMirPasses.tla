---------------------------- MODULE MCMirPasses ----------------------------
EXTENDS MirPasses

MCVirtRegs == {"v1", "v2", "v3", "v4"}
MCPhysRegs == {"a0", "a1", "s1", "s2", "fp"}
MCBlocks == {"b0", "b1", "b2", "b3", "b4", "epilogue"}
MCInputs == {[a0 |-> 1, a1 |-> 9, s1 |-> 30, s2 |-> 2, fp |-> 40],
             [a0 |-> 5, a1 |-> 0, s1 |-> 31, s2 |-> 50, fp |-> 40]}

Mov(dst, src) == OpI("mov", dst, src, 0)
AddI(dst, src, v) == OpI("addi", dst, src, v)
Op2(op, dst, x, y) == [OpI(op, dst, x, 0) EXCEPT !.srcs = <<x, y>>]
Load(dst, base, offset) == OpI("load", dst, base, offset)
Store(src, base, offset) == [OpI("store", base, base, offset) EXCEPT !.dsts = <<>>, !.srcs = <<src, base>>]
Other(op) == [LoadImm(zeroReg, 0) EXCEPT !.op = op, !.dsts = <<>>]
Call == [Other("call") EXCEPT !.implicitSrcs = {"a0"}, !.implicitDsts = {"a0", "a1"}]
FakeUse == [Other("fakeuse") EXCEPT !.implicitSrcs = {"fp"}]
Br(b) == [Other("br") EXCEPT !.dests = <<b>>]
CmpBr(cond, x, y, t, e) == [Other("cmpbr") EXCEPT !.cond = cond, !.srcs = <<x, y>>, !.dests = <<t, e>>]
Ret == [Other("ret") EXCEPT !.implicitSrcs = {"a0"}]

\* A function from the list of its blocks, each <<name, body, jump>>; all but
\* the entry and the last get a fake use.
Fn(blocks) ==
  LET n == Len(blocks)
  IN  [layout |-> [i \in 1 .. n |-> blocks[i][1]],
       code |-> [b \in {blocks[i][1] : i \in 1 .. n} |->
         LET i == CHOOSE j \in 1 .. n : blocks[j][1] = b
         IN  blocks[i][2] \o (IF i \in 2 .. n - 1 THEN <<FakeUse>> ELSE <<>>) \o <<blocks[i][3]>>]]

Epilogue == <<"epilogue", <<>>, Ret>>

\* Straight code with three instructions between the arguments and the stores
\* of v2 and v3.
Straight(A, B, C) ==
  {Fn(<< <<"b0", <<Mov("v1", "a0"), LoadImm("v2", 0), Mov("v3", "a1"), i, j, k,
                   Store("v2", "v1", 0), Store("v3", "v1", 1), Mov("a0", "v2")>>, Br("epilogue")>>,
        Epilogue >>) : i \in A, j \in B, k \in C}

Constants == {LoadImm("v2", 3), LoadImm("v3", 0), LoadImm("v2", 8), Mov("v2", "v1")}
Moves == {Mov("v2", "v1"), Mov("v3", "v2"), LoadImm("v3", 3), AddI("v3", "v1", 4), Mov("v2", "v2")}
Uses == {Op2("add", "v3", "v2", "v3"), Op2("sub", "v3", "v3", "v2"), Op2("mul", "v2", "v2", "v3"),
         Op2("shl", "v3", "v1", "v2"), Load("v2", "v3", 1), Store("v2", "v3", 2)}

\* A choice between two blocks that leave a value for the last one.
Diamonds ==
  {Fn(<< <<"b0", <<Mov("v1", "a0"), LoadImm("v2", 1)>>, CmpBr(cond, "v1", "v2", "b1", "b2")>>,
        <<"b1", left \o <<Mov("v4", "v1")>>, Br("b3")>>,
        <<"b2", right, Br("b3")>>,
        <<"b3", <<Mov("v3", "v4"), Mov("a0", "v3")>>, Br("epilogue")>>,
        Epilogue >>) :
     cond \in {"eq", "ne"},
     left \in {<<>>, <<Store("v1", "v2", 2)>>},
     right \in {<<LoadImm("v4", 0)>>, <<Mov("v4", "v1")>>, <<Call, LoadImm("v4", 3)>>}}

\* A loop that counts down; what its test and its body do besides.
Loops ==
  {Fn(<< <<"b0", <<Mov("v1", "a0"), Mov("v4", "v1")>>, Br("b1")>>,
        <<"b1", <<Mov("v3", "v4"), LoadImm("v2", 0)>> \o test, CmpBr("ne", "v3", "v2", "b2", "b3")>>,
        <<"b2", body \o <<AddI("v3", "v3", -1), Mov("v4", "v3")>>, Br("b1")>>,
        <<"b3", after, Br("epilogue")>>,
        Epilogue >>) :
     test \in {<<>>, <<LoadImm("v1", 9), Store("v3", "v1", 1)>>},
     body \in {<<>>, <<Store("v2", "v3", 1)>>, <<AddI("v1", "v3", 4), Load("v1", "v1", -2)>>,
              <<Mov("a0", "v3"), Call>>},
     after \in {<<>>, <<Mov("a0", "v3")>>}}

\* Two tests, five blocks when they are placed.
Ladders ==
  {Fn(<< <<"b0", <<Mov("v1", "a0"), LoadImm("v2", 1)>>, CmpBr("eq", "v1", "v2", "b1", "b2")>>,
        <<"b1", <<LoadImm("v2", 4), Store("v1", "v2", 1)>>, CmpBr("ne", "v1", "v2", "b3", "b2")>>,
        <<"b2", <<LoadImm("v3", k), Mov("v4", "v3")>>, Br("b4")>>,
        <<"b3", <<LoadImm("v4", 5)>>, Br("b4")>>,
        <<"b4", <<Mov("a0", "v4"), Store("v4", "v4", 0)>>, Br("epilogue")>>,
        Epilogue >>) : k \in {0, 7}}

\* A pointer goes around a loop one round behind the register it is computed
\* from.
ManyRegs == MCVirtRegs \cup {"v5", "v6", "v7", "v8"}
Pursuit ==
  Fn(<< <<"b0", <<Mov("v1", "a0"), Mov("v2", "v1"), Mov("v3", "v1")>>, Br("b1")>>,
        <<"b1", <<Mov("v4", "v2"), Mov("v5", "v3"), Load("v6", "v5", 0), LoadImm("v7", 41)>>,
         CmpBr("eq", "v6", "v7", "b3", "b2")>>,
        <<"b2", <<AddI("v3", "v4", 1), AddI("v2", "v6", 2)>>, Br("b1")>>,
        <<"b3", <<Mov("a0", "v6")>>, Br("epilogue")>>,
        Epilogue >>)
PursuitOnly == {Pursuit}

MCFuncs == Straight(Constants, Moves, Uses) \cup Diamonds \cup Loops \cup Ladders
=============================================================================
