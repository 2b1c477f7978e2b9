-------------------------- MODULE StrengthReduction --------------------------
(***************************************************************************)
(* The replacements of lib/opt/ir/passes/StrengthReduction.cpp for a       *)
(* multiplication, division or remainder by a constant. A replacement is a *)
(* sequence of instructions; the last one computes the result. There are   *)
(* four widths of integers: 1 for I1, IntBits \div 2 for I8 and I16,       *)
(* IntBits for I32 and 2 * IntBits for I64. IntBits is also the width of   *)
(* uint32_t, the type the code casts to.                                   *)
(***************************************************************************)
EXTENDS IntegerOps, SequencesExt

CONSTANT IntBits

ASSUME IntBitsAssumption == IntBits \in Nat /\ IntBits > 2 /\ IntBits % 2 = 0

Int64 == 2 * IntBits

\* (The provers know nothing of powers.)
ASSUME PowersAssumption == \A n \in 0 .. Int64 : 2^n > 0

Widths == {1, IntBits \div 2, IntBits, Int64}
promoted(w) == 2 * w

(***************************************************************************)
(* Instructions are [op, id, from, width, args]: from is the width of the  *)
(* operands, width that of the result. An operand is a constant, the value *)
(* with an id (of an argument or an instruction), or, in a replacement that*)
(* is not yet inserted, the result of the n-th new instruction. A poison   *)
(* value is an object of its own, named by the id of what it replaced.     *)
(***************************************************************************)
Const(w, x) == [is |-> "const", n |-> Wrap(w, x)]
Val(id) == [is |-> "value", n |-> id]
New(k) == [is |-> "new", n |-> k]
PoisonValue(id) == [is |-> "poison", n |-> id]

Instr(op, from, w, args) == [op |-> op, id |-> 0, from |-> from, width |-> w, args |-> args]
Arith(op, w, x, y) == Instr(op, w, w, <<x, y>>)
ByConst(op, w, x, c) == Arith(op, w, x, Const(w, c))
Negate(w, x) == Arith("sub", w, Const(w, 0), x)

-----------------------------------------------------------------------------
\* std::countl_zero(static_cast<uint32_t>(x)): the bits of x are those of uint32_t.
bit_width(x) == CHOOSE n \in 0 .. IntBits : x < 2^n /\ (n = 0 \/ x >= 2^(n - 1))
countl_zero(x) == IntBits - bit_width(x % 2^IntBits)
isPowerOf2(d) == \E k \in 0 .. Int64 : d = 2^k
log2(d) == CHOOSE k \in 0 .. Int64 : d = 2^k

(***************************************************************************)
(* The digits 1 and -1 of x, the lowest first, of which no two are         *)
(* neighbours: the place of each, and whether it is 1. No number has a     *)
(* digit beyond the first Int64 + 1.                                       *)
(***************************************************************************)
computeNAF(x) ==
  LET digit(n) == IF n % 2 = 1 THEN 2 - (n % 4) ELSE 0
      longer(r, i) ==
        [rest  |-> (r.rest - digit(r.rest)) \div 2,
         terms |-> IF digit(r.rest) = 0 THEN r.terms
                   ELSE Append(r.terms, [shift |-> i, add |-> digit(r.rest) = 1])]
      naf[k \in 0 .. (Int64 + 1)] ==
        IF k = 0 THEN [rest |-> x, terms |-> <<>>]
        ELSE CHOOSE r \in {longer(q, k - 1) : q \in {naf[k - 1]}} : TRUE
  IN  naf[Int64 + 1].terms

\* The shifted multiplicands, then their sum from the lowest on. When the
\* lowest has a minus the sum begins with 0.
replaceMulGeneral(x, w, c) ==
  LET naf == computeNAF(c)
      unshifted == IF naf[1].shift = 0 THEN 1 ELSE 0
      shifts == [k \in 1 .. (Len(naf) - unshifted) |-> ByConst("shl", w, x, naf[k + unshifted].shift)]
      positive == [k \in DOMAIN naf |->
                     [value |-> IF naf[k].shift = 0 THEN x ELSE New(k - unshifted),
                      add   |-> naf[k].add]]
      terms == (IF naf[1].add THEN <<>> ELSE <<[value |-> Const(w, 0), add |-> TRUE]>>)
                 \o positive
      sums == [k \in 1 .. (Len(terms) - 1) |->
                 Arith(IF terms[k + 1].add THEN "add" ELSE "sub", w,
                       IF k = 1 THEN terms[1].value ELSE New(Len(shifts) + k - 1),
                       terms[k + 1].value)]
  IN  shifts \o sums

replaceMul(x, w, c) ==
  CASE c \in {0, 1} -> <<>>
    [] c = Size(w) - 1 /\ c \notin {0, 1} -> <<Negate(w, x)>>
    [] c \notin {0, 1, Size(w) - 1} -> replaceMulGeneral(x, w, c)

-----------------------------------------------------------------------------
\* The multiplier of Granlund and Montgomery, for P = 2^N and L = 2^l.
reciprocal(P, L, d) == (P * L) \div d - P + 1

(***************************************************************************)
(* For a type narrower than uint32_t l is less than 0, since countl_zero   *)
(* counts the zeros of uint32_t: the shift by N + l has no defined result, *)
(* and a shift by the constant l is a shift by Wrap(2 * N, l), beyond the  *)
(* width. Whatever m is then, the result is poison.                        *)
(***************************************************************************)
replaceUDivGeneral(n, w, d) ==
  LET l == w - countl_zero(d - 1)
      m == IF l < 0 THEN 0 ELSE reciprocal(2^w, 2^l, d) % 2^IntBits
      product == IF m = 1 THEN <<>> ELSE <<ByConst("mul", 2 * w, New(1), m)>>
      k == 1 + Len(product)
  IN  <<Instr("zext", w, promoted(w), <<n>>)>> \o product \o
      <<ByConst("lshr", promoted(w), New(k), w),
        Arith("add", promoted(w), New(1), New(k + 1)),
        ByConst("lshr", promoted(w), New(k + 2), l),
        Instr("trunc", promoted(w), w, <<New(k + 3)>>)>>

replaceUDiv(n, w, d) ==
  CASE d \in {0, 1} -> <<>>
    [] d > 1 /\ 2 * d >= Size(w) ->
         <<Instr("uge", w, 1, <<n, Const(w, d)>>), Instr("zext", 1, w, <<New(1)>>)>>
    [] d > 1 /\ 2 * d < Size(w) /\ isPowerOf2(d) -> <<ByConst("lshr", w, n, log2(d))>>
    [] d > 1 /\ 2 * d < Size(w) /\ ~isPowerOf2(d) ->
         IF w = Int64 THEN <<>> ELSE replaceUDivGeneral(n, w, d)

\* A negative dividend is made larger by 2^l - 1 before it is shifted.
replaceSDivPow2(n, w, d) ==
  LET l == log2(Abs(d))
  IN  <<ByConst("ashr", w, n, l - 1),
        ByConst("lshr", w, New(1), w - l),
        Arith("add", w, n, New(2)),
        ByConst("ashr", w, New(3), l)>>
      \o IF d < 0 THEN <<Negate(w, New(4))>> ELSE <<>>

replaceSDivGeneral(n, w, d) ==
  LET leading == w - countl_zero(Abs(d) - 1)
      l == IF leading < 1 THEN 1 ELSE leading
      m == SignedValue(IntBits, (1 + 2^(w + l - 1) \div Abs(d) - 2^w) % 2^IntBits)
      product == IF m = 1 THEN <<>> ELSE <<ByConst("mul", 2 * w, New(1), m)>>
      k == 1 + Len(product)
  IN  <<Instr("sext", w, promoted(w), <<n>>)>> \o product \o
      <<ByConst("lshr", promoted(w), New(k), w),
        Instr("trunc", promoted(w), w, <<New(k + 1)>>),
        Arith("add", w, n, New(k + 2)),
        ByConst("ashr", w, New(k + 3), l - 1),
        ByConst("ashr", w, n, w - 1),
        Arith("sub", w, New(k + 4), New(k + 5))>>
      \o IF d < 0 THEN <<Negate(w, New(k + 6))>> ELSE <<>>

replaceSDiv(n, w, d) ==
  CASE d \in {0, 1} -> <<>>
    [] d = -1 -> <<Negate(w, n)>>
    [] Abs(d) > 1 /\ isPowerOf2(Abs(d)) -> replaceSDivPow2(n, w, d)
    [] Abs(d) > 1 /\ ~isPowerOf2(Abs(d)) ->
         IF w = Int64 THEN <<>> ELSE replaceSDivGeneral(n, w, d)

\* n - (n / d) * d, where the quotient is replaced.
remainderOf(quotient, n, w, d) ==
  IF quotient = <<>> THEN <<>>
  ELSE quotient \o <<ByConst("mul", w, New(Len(quotient)), d),
                     Arith("sub", w, n, New(Len(quotient) + 1))>>

replaceURem(n, w, d) ==
  CASE d \in {0, 1} -> <<>>
    [] d > 1 /\ isPowerOf2(d) -> <<ByConst("and", w, n, d - 1)>>
    [] d > 1 /\ ~isPowerOf2(d) -> remainderOf(replaceUDiv(n, w, d), n, w, d)

replaceSRem(n, w, d) == remainderOf(replaceSDiv(n, w, d), n, w, d)

-----------------------------------------------------------------------------
(***************************************************************************)
(* What the replacements of a division compute, for the proofs about them: *)
(* P is 2^N for a type of N bits, B is 2^(N - 1), L is 2^l, H is 2^(l - 1).*)
(* MCValuePasses checks that they agree with the instructions.             *)
(***************************************************************************)
\* zext, mul, lshr by N, add, lshr by l, trunc; the multiplier is cut to P.
UDivByReciprocal(P, L, d, n) ==
  LET m == reciprocal(P, L, d) % P
      product == (n * m) % (P * P)
      sum == (n + product \div P) % (P * P)
  IN  (sum \div L) % P

\* sext, mul, lshr by N, trunc, add, ashr by l - 1, ashr by N - 1, sub; n and the
\* result with their sign.
SDivByReciprocal(B, H, d, n) ==
  LET P == 2 * B
      m == 1 + (P * H) \div d - P
      high == (((n * m) % (P * P)) \div P) % P
      sum == (n + high) % P
      signed == IF sum >= B THEN sum - P ELSE sum
  IN  (signed \div H) - (IF n < 0 THEN -1 ELSE 0)

\* ashr by l - 1, lshr by N - l, add, ashr by l; C is 2^(N - l).
SDivByShift(C, H, n) ==
  LET B == C * H
      bias == ((n \div H) % (2 * B)) \div C
      sum == (n + bias) % (2 * B)
      signed == IF sum >= B THEN sum - 2 * B ELSE sum
  IN  signed \div (2 * H)

-----------------------------------------------------------------------------
(* The limits PassManager::run sets on the length of a replacement. Mutants:*)
(* a multiplication may be as long, a division must be as short.           *)

LimitLong(op) == 20
LimitShort(op) == 3

Limit(op) == IF op = "mul" THEN 3 ELSE 20

\* What dfs puts in place of I, whose second operand is a constant.
Replacement(I) ==
  LET w == I.width
      c == I.args[2].n
      x == I.args[1]
      all == CASE I.op = "mul" -> replaceMul(x, w, c)
               [] I.op = "udiv" -> replaceUDiv(x, w, c)
               [] I.op = "sdiv" -> replaceSDiv(x, w, SignedValue(w, c))
               [] I.op = "urem" -> replaceURem(x, w, c)
               [] I.op = "srem" -> replaceSRem(x, w, SignedValue(w, c))
               [] I.op \notin Divisions \cup {"mul"} -> <<>>
  IN  IF Len(all) > Limit(I.op) THEN <<>> ELSE all
=============================================================================
