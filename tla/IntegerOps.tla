----------------------------- MODULE IntegerOps -----------------------------
(***************************************************************************)
(* What the integer operations of the IR compute: the function objects of  *)
(* include/mini-llvm/common/ops/ and the fold methods that apply them to   *)
(* constants (lib/ir/Instruction/). A value of a type of w bits is a number*)
(* of 0 .. 2^w - 1, its bits read without sign, or poison.                 *)
(***************************************************************************)
EXTENDS Integers, Sequences, FiniteSetsExt

PoisonBits == -1
Size(w) == 2^w
Wrap(w, x) == x % Size(w)
Bits(w) == 0 .. (Size(w) - 1)

\* The number the bits stand for when they are read with a sign.
SignedValue(w, x) == IF 2 * x >= Size(w) THEN x - Size(w) ELSE x
Abs(x) == IF x < 0 THEN -x ELSE x

\* C++ division rounds towards zero; the remainder has the dividend's sign.
Quotient(x, y) == IF (x < 0) = (y < 0) THEN Abs(x) \div Abs(y) ELSE -(Abs(x) \div Abs(y))
Remainder(x, y) == x - y * Quotient(x, y)

Bit(x, i) == (x \div 2^i) % 2
FromBits(w, bit) ==
  LET sum[i \in 0 .. w] == IF i = 0 THEN 0 ELSE sum[i - 1] + bit[i - 1] * 2^(i - 1)
  IN  sum[w]

Divisions == {"sdiv", "udiv", "srem", "urem"}
Shifts == {"shl", "lshr", "ashr"}
Commutative == {"add", "mul", "and", "or", "xor"}
Arithmetic == {"add", "sub", "mul", "and", "or", "xor"} \cup Divisions \cup Shifts

Add(w, x, y) == Wrap(w, x + y)
Sub(w, x, y) == Wrap(w, x - y)
Mul(w, x, y) == Wrap(w, x * y)
UDiv(w, x, y) == IF y = 0 THEN PoisonBits ELSE x \div y
URem(w, x, y) == IF y = 0 THEN PoisonBits ELSE x % y

\* For bool there is no smallest value: 1 / 1 is 1.
SignedOverflow(w, x, y) == w > 1 /\ 2 * x = Size(w) /\ y = Size(w) - 1
SDiv(w, x, y) ==
  IF y = 0 \/ SignedOverflow(w, x, y) THEN PoisonBits
  ELSE Wrap(w, Quotient(SignedValue(w, x), SignedValue(w, y)))
SRem(w, x, y) ==
  IF y = 0 \/ SignedOverflow(w, x, y) THEN PoisonBits
  ELSE Wrap(w, Remainder(SignedValue(w, x), SignedValue(w, y)))

And(w, x, y) == FromBits(w, [i \in 0 .. (w - 1) |-> Bit(x, i) * Bit(y, i)])
Xor(w, x, y) == FromBits(w, [i \in 0 .. (w - 1) |-> (Bit(x, i) + Bit(y, i)) % 2])
Or(w, x, y) == x + y - And(w, x, y)

SHL(w, x, y) == IF y >= w THEN PoisonBits ELSE Wrap(w, x * 2^y)
LSHR(w, x, y) == IF y >= w THEN PoisonBits ELSE x \div 2^y
ASHR(w, x, y) == IF y >= w THEN PoisonBits ELSE Wrap(w, SignedValue(w, x) \div 2^y)

ArithmeticOp(op, w, x, y) ==
  CASE op = "add" -> Add(w, x, y)   [] op = "sub" -> Sub(w, x, y)
    [] op = "mul" -> Mul(w, x, y)   [] op = "sdiv" -> SDiv(w, x, y)
    [] op = "udiv" -> UDiv(w, x, y) [] op = "srem" -> SRem(w, x, y)
    [] op = "urem" -> URem(w, x, y) [] op = "and" -> And(w, x, y)
    [] op = "or" -> Or(w, x, y)     [] op = "xor" -> Xor(w, x, y)
    [] op = "shl" -> SHL(w, x, y)   [] op = "lshr" -> LSHR(w, x, y)
    [] op = "ashr" -> ASHR(w, x, y)

Relations == {"eq", "ne", "slt", "sgt", "sle", "sge", "ult", "ugt", "ule", "uge"}

RelationHolds(op, w, x, y) ==
  LET sx == SignedValue(w, x)
      sy == SignedValue(w, y)
  IN  CASE op = "eq" -> x = y   [] op = "ne" -> x # y
        [] op = "slt" -> sx < sy [] op = "sgt" -> sx > sy
        [] op = "sle" -> sx <= sy [] op = "sge" -> sx >= sy
        [] op = "ult" -> x < y  [] op = "ugt" -> x > y
        [] op = "ule" -> x <= y [] op = "uge" -> x >= y

Casts == {"zext", "sext", "trunc"}

\* From from bits to w bits.
CastOp(op, from, w, x) ==
  CASE op = "zext" -> x
    [] op = "sext" -> Wrap(w, SignedValue(from, x))
    [] op = "trunc" -> Wrap(w, x)

\* What fold returns for operation op on the operands xs of from bits, with a
\* result of w bits.
FoldOp(op, from, w, xs) ==
  CASE op = "select" -> IF xs[1] = PoisonBits THEN PoisonBits
                        ELSE IF xs[1] = 1 THEN xs[2] ELSE xs[3]
    [] op # "select" /\ \E k \in DOMAIN xs : xs[k] = PoisonBits -> PoisonBits
    [] op # "select" /\ \A k \in DOMAIN xs : xs[k] # PoisonBits ->
         CASE op \in Arithmetic -> ArithmeticOp(op, w, xs[1], xs[2])
           [] op \in Relations -> IF RelationHolds(op, from, xs[1], xs[2]) THEN 1 ELSE 0
           [] op \in Casts -> CastOp(op, from, w, xs[1])
=============================================================================
