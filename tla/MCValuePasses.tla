---------------------------- MODULE MCValuePasses ----------------------------
EXTENDS ValuePasses

X == Val(1)
Y == Val(2)
Narrow == IntBits \div 2

\* What new instructions compute of the argument n of w bits.
Computed(new, w, n) ==
  Result(<<>> \o [k \in DOMAIN new |-> [new[k] EXCEPT !.id = k + 1,
           !.args = [j \in DOMAIN @ |-> IF @[j].is = "new" THEN Val(@[j].n + 1) ELSE @[j]]]]
         \o <<Instr("ret", w, 0, <<Val(Len(new) + 1)>>)>>, <<n>>)

(* The operators the proofs are about are what the replacements compute.   *)
ASSUME ReciprocalsAgree ==
  LET w == IntBits
      n(x) == SignedValue(w, x)
  IN  \A d \in Bits(w), x \in Bits(w) :
        LET l == bit_width(d - 1)
        IN  /\ d > 1 /\ 2 * d < Size(w) =>
                 Computed(replaceUDivGeneral(X, w, d), w, x) = UDivByReciprocal(2^w, 2^l, d, x)
            /\ d > 1 /\ 2 * d < Size(w) /\ ~isPowerOf2(d) =>
                 Computed(replaceSDivGeneral(X, w, d), w, x)
                   = Wrap(w, SDivByReciprocal(2^(w - 1), 2^(l - 1), d, n(x)))
            /\ d > 1 /\ 2 * d < Size(w) /\ isPowerOf2(d) =>
                 Computed(replaceSDivPow2(X, w, d), w, x)
                   = Wrap(w, SDivByShift(2^(w - l), 2^(l - 1), n(x)))

\* A program: instructions, numbered after the arguments, and the last is returned.
Program(widths, code) ==
  LET id(k) == Len(widths) + k
  IN  [params |-> widths,
       body |-> [k \in DOMAIN code |-> [code[k] EXCEPT !.id = id(k)]]
                  \o <<[Instr("ret", Last(code).width, 0, <<Val(id(Len(code)))>>)
                          EXCEPT !.id = id(Len(code)) + 1]>>]

\* Constants around the powers of two, on both sides of zero.
Corners(w) ==
  {Wrap(w, sign * (2^k + e)) : sign \in {-1, 1}, k \in 0 .. (w - 1), e \in {-1, 0, 1}}

(* One operation by a constant. Left out is a division in the narrow type  *)
(* by a constant that is neither a power of two nor (without sign) in the  *)
(* upper half: see NarrowDivision in MCMiniLlc.                            *)
Reciprocal(op, c) ==
  \/ op \in {"udiv", "urem"} /\ c > 1 /\ ~isPowerOf2(c) /\ 2 * c < Size(Narrow)
  \/ op \in {"sdiv", "srem"} /\ LET d == Abs(SignedValue(Narrow, c)) IN d > 1 /\ ~isPowerOf2(d)

ByConstants(ops, w, constants) ==
  {Program(<<w>>, <<ByConst(op, w, X, c)>>) : op \in ops, c \in constants}

DivisionsAll ==
  ByConstants(Divisions \cup {"mul"}, IntBits, Bits(IntBits))
    \cup ByConstants(Arithmetic, 1, Bits(1))
    \cup ByConstants(Divisions \cup {"mul"}, Int64, Corners(Int64))
    \cup {Program(<<Narrow>>, <<ByConst(op, Narrow, X, c)>>) :
            <<op, c>> \in {oc \in Arithmetic \X Bits(Narrow) : ~Reciprocal(oc[1], oc[2])}}

\* An argument and a constant on either side, or an argument, or poison.
Others ==
  {Program(<<Narrow>>, <<Arith(op, Narrow, Const(Narrow, c), X)>>) :
     op \in Arithmetic, c \in Bits(Narrow)}
  \cup {Program(<<Narrow>>, <<Arith(op, Narrow, v, v)>>) :
     op \in Arithmetic, v \in {X, PoisonValue(0), Const(Narrow, 0), Const(Narrow, 3)}}
  \cup {Program(<<1>>, <<Arith(op, 1, X, X)>>) : op \in Arithmetic}
  \cup {Program(<<Narrow>>, <<Instr(op, Narrow, 1, <<X, v>>)>>) :
     op \in Relations, v \in {X, Const(Narrow, 4), PoisonValue(0)}}

(* Two operations: chains by constants, the same operation twice, operands *)
(* in the other order, a select between the two.                           *)
Second(op1, op2, c1, c2) ==
  Program(<<Narrow>>, <<ByConst(op1, Narrow, X, c1), ByConst(op2, Narrow, Val(2), c2)>>)
Pair(op1, op2, swap, op3) ==
  Program(<<Narrow, Narrow>>,
    <<Arith(op1, Narrow, X, Y),
      IF swap THEN Arith(op2, Narrow, Y, X) ELSE Arith(op2, Narrow, X, Y),
      Arith(op3, Narrow, Val(3), Val(4))>>)
Selects ==
  {Program(<<Narrow, Narrow>>,
     <<Instr(op, Narrow, 1, <<X, v>>),
       Arith("add", Narrow, X, Const(Narrow, c)),
       Instr("select", Narrow, Narrow, <<Val(3), t, Val(4)>>)>>) :
     op \in {"ult", "sle", "eq"}, v \in {X, Y, PoisonValue(0)}, c \in {0, 3},
     t \in {X, Val(4), PoisonValue(0), Const(Narrow, 5)}}
CastChains ==
  {Program(<<Narrow>>,
     <<Instr(op, Narrow, IntBits, <<v>>), ByConst("mul", IntBits, Val(2), 5),
       ByConst("lshr", IntBits, Val(3), 2), Instr("trunc", IntBits, Narrow, <<Val(4)>>)>>) :
     op \in {"zext", "sext"}, v \in {X, Const(Narrow, 6), PoisonValue(0)}}

\* The same value, extended to two types.
TwoTypes ==
  Program(<<Narrow>>,
    <<Instr("zext", Narrow, IntBits, <<X>>), Instr("zext", Narrow, Int64, <<X>>),
      Instr("trunc", Int64, IntBits, <<Val(3)>>), Arith("add", IntBits, Val(2), Val(4))>>)

TwoOperations ==
  {Second(op1, op2, c1, c2) : op1 \in {"add", "sub", "mul", "shl"},
                              op2 \in {"add", "sub", "mul", "udiv"},
                              c1 \in {1, 4, 7}, c2 \in {0, 2, 7}}
  \cup {Pair(op1, op2, swap, op3) : op1 \in {"add", "sub", "ashr"},
                                    op2 \in {"add", "sub"}, swap \in BOOLEAN,
                                    op3 \in {"sub", "mul", "sdiv"}}

MCPrograms == DivisionsAll \cup Others \cup TwoOperations \cup Selects \cup CastChains \cup {TwoTypes}

\* Of the widest type, only the corners.
MCInputs(w) == IF w > IntBits THEN Corners(w) ELSE Bits(w)
=============================================================================
