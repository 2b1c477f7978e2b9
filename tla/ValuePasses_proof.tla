-------------------------- MODULE ValuePasses_proof --------------------------
(***************************************************************************)
(* Three things about the passes on integer values, for every program and  *)
(* every width of integers:                                                *)
(*  - division by multiplication and shifts is division: what the          *)
(*    instructions compute that StrengthReduction puts in place of one is  *)
(*    the quotient (UDivReplaced, SDivReplaced, SDivPow2Replaced). P stands*)
(*    for 2^N, N the width, and B for 2^(N - 1); that they are powers of   *)
(*    two is needed nowhere;                                               *)
(*  - the code stays well-formed (CodeStaysWellFormed): a rewriting of one *)
(*    instruction, the removal of one, and the insertion of several with   *)
(*    new ids are proved to keep it once each, then each pass is shown to  *)
(*    be one of these;                                                     *)
(*  - when the loop ends nothing is left to fold or to replace             *)
(*    (NothingLeftToReplace).                                              *)
(***************************************************************************)
EXTENDS ValuePasses, FiniteSetTheorems, TLAPS

-----------------------------------------------------------------------------
LEMMA DivisionBounds ==
  ASSUME NEW a \in Int, NEW b \in Nat, b > 0
  PROVE  /\ a \div b \in Int
         /\ b * (a \div b) <= a
         /\ a < b * (a \div b) + b
  OBVIOUS

LEMMA DivisionUnique ==
  ASSUME NEW a \in Int, NEW b \in Nat, b > 0, NEW q \in Int,
         b * q <= a, a < b * q + b
  PROVE  a \div b = q
<1> DEFINE r == a \div b
<1>1. r \in Int /\ b * r <= a /\ a < b * r + b
  BY DivisionBounds
<1> HIDE DEF r
<1>2. CASE r < q
  <2>1. r + 1 <= q
    BY <1>1, <1>2
  <2>2. b * (r + 1) <= b * q
    BY <1>1, <2>1
  <2>3. b * (r + 1) = b * r + b
    BY <1>1
  <2> QED
    BY <1>1, <2>2, <2>3
<1>3. CASE q < r
  <2>1. q + 1 <= r
    BY <1>1, <1>3
  <2>2. b * (q + 1) <= b * r
    BY <1>1, <2>1
  <2>3. b * (q + 1) = b * q + b
    OBVIOUS
  <2> QED
    BY <1>1, <2>2, <2>3
<1> QED
  BY <1>1, <1>2, <1>3 DEF r

LEMMA CancelLess ==
  ASSUME NEW a \in Int, NEW b \in Int, NEW c \in Nat, c * a < c * b
  PROVE  a < b
<1> SUFFICES ASSUME b <= a PROVE FALSE
  OBVIOUS
<1>1. c * b <= c * a
  OBVIOUS
<1> QED
  BY <1>1

LEMMA TimesMonotone ==
  ASSUME NEW a \in Int, NEW b \in Int, NEW c \in Nat, a <= b
  PROVE  a * c <= b * c
  OBVIOUS

LEMMA SmallModulo ==
  ASSUME NEW a \in Nat, NEW b \in Nat, a < b
  PROVE  a % b = a
  OBVIOUS

(***************************************************************************)
(* m + P exceeds (P * L) / d by at most 1, and m needs no more than N bits.*)
(***************************************************************************)
LEMMA ReciprocalBounds ==
  ASSUME NEW P \in Nat, NEW L \in Nat, NEW d \in Nat,
         0 < d, d < P, d <= L, L < 2 * d
  PROVE  LET m == reciprocal(P, L, d)
         IN  /\ m \in 1 .. (P - 1)
             /\ P * L < (m + P) * d
             /\ (m + P) * d <= P * L + d
<1> DEFINE PL == P * L
           q == PL \div d
           m == q - P + 1
<1>1. PL \in Nat
  OBVIOUS
<1>2. q \in Int /\ d * q <= PL /\ PL < d * q + d
  <2> HIDE DEF PL
  <2> QED BY <1>1, DivisionBounds
<1> HIDE DEF q
<1>3. (m + P) * d = d * q + d
  BY <1>2
<1>4. P < q + 1
  <2>1. d * P <= PL
    OBVIOUS
  <2>2. d * P < d * (q + 1)
    BY <1>2, <2>1
  <2> QED
    BY <1>2, <2>2, CancelLess
<1>5. q < 2 * P - 1
  <2> SUFFICES ASSUME 2 * P - 1 <= q PROVE FALSE
    BY <1>2
  <2>1. d * (2 * P - 1) <= d * q
    BY <1>2
  <2>2. P * L <= P * (2 * d - 1)
    <3>1. L <= 2 * d - 1
      OBVIOUS
    <3> QED BY <3>1
  <2>3. d * (2 * P - 1) = 2 * (d * P) - d /\ P * (2 * d - 1) = 2 * (d * P) - P
    OBVIOUS
  <2> QED
    BY <1>1, <1>2, <2>1, <2>2, <2>3
<1> QED
  BY <1>2, <1>3, <1>4, <1>5 DEF reciprocal, q

(* The quotient by a constant that replaceUDivGeneral computes is that of  *)
(* the division it replaces, for every dividend, every divisor d that is   *)
(* not larger than L and larger than L / 2, and every width; nothing is cut*)
(* off on the way. (L is 2^l and l the bits of d - 1: this is what the code*)
(* chooses for the type I32, and fails to choose for I8 and I16.)          *)
THEOREM UDivReplaced ==
  ASSUME NEW P \in Nat, NEW L \in Nat, NEW d \in Nat, NEW n \in 0 .. (P - 1),
         1 < d, d < P, d <= L, L < 2 * d
  PROVE  UDivByReciprocal(P, L, d, n) = n \div d
<1> DEFINE m == reciprocal(P, L, d)
           k == m + P
           nm == n * m
           h == nm \div P
           S == n + h
           q == n \div d
<1>1. m \in 1 .. (P - 1) /\ P * L < k * d /\ k * d <= P * L + d
  BY ReciprocalBounds
<1> HIDE DEF m
<1>2. k \in Nat /\ nm \in Nat /\ nm < P * P
  <2>1. n * m <= n * P
    BY <1>1
  <2>2. n * P < P * P
    OBVIOUS
  <2> QED
    BY <1>1, <2>1, <2>2
<1>3. h \in Int /\ P * h <= nm /\ nm < P * h + P
  <2> HIDE DEF nm
  <2> QED BY <1>2, DivisionBounds
<1> HIDE DEF h
<1>4. q \in Int /\ d * q <= n /\ n < d * q + d
  BY DivisionBounds
<1> HIDE DEF q
<1>5. 0 <= h /\ h < P
  <2>1. P * (-1) < P * h
    BY <1>2, <1>3
  <2>2. P * h < P * P
    BY <1>2, <1>3
  <2> QED
    BY <1>3, <2>1, <2>2, CancelLess
<1>6. S \in Nat /\ S < P * P
  <2>1. 2 * P <= P * P
    OBVIOUS
  <2> QED
    BY <1>3, <1>5, <2>1
<1>7. 0 <= q /\ q < P
  <2>1. d * (-1) < d * q
    BY <1>4
  <2>2. q <= d * q
    <3>1. -1 < q
      BY <1>4, <2>1, CancelLess
    <3> QED BY <1>4, <3>1
  <2> QED
    BY <1>4, <2>1, <2>2, CancelLess
<1>8. P * S <= n * k /\ n * k < P * S + P
  <2>1. n * k = n * P + nm
    BY <1>1
  <2>2. P * S = n * P + P * h
    BY <1>3
  <2> QED
    BY <1>1, <1>2, <1>3, <2>1, <2>2
<1>9. L * q <= S
  <2>1. (P * L) * q <= (k * d) * q
    <3>1. P * L \in Int /\ k * d \in Int /\ q \in Nat
      BY <1>2, <1>4, <1>7
    <3> HIDE DEF k
    <3> QED BY <1>1, <3>1, TimesMonotone
  <2>2. (k * d) * q = k * (d * q)
    BY <1>2, <1>4
  <2>3. k * (d * q) <= k * n
    BY <1>2, <1>4
  <2>4. P * (L * q) < P * (S + 1)
    BY <1>2, <1>4, <1>6, <1>8, <2>1, <2>2, <2>3
  <2> QED
    BY <1>4, <1>6, <2>4, CancelLess
<1>10. S < L * q + L
  <2>1. n * (k * d) <= n * (P * L + d)
    BY <1>1, <1>2
  <2>2. n * (P * L + d) < (P * L) * (n + 1)
    <3>1. n * d < P * d
      OBVIOUS
    <3>2. P * d <= P * L
      OBVIOUS
    <3>3. n * (P * L + d) = (P * L) * n + n * d
      OBVIOUS
    <3> QED
      BY <3>1, <3>2, <3>3
  <2>3. (P * L) * (n + 1) <= (P * L) * (d * q + d)
    BY <1>4
  <2>4. (P * L) * (d * q + d) = d * (P * (L * q + L))
    BY <1>4
  <2>5. d * (n * k) < d * (P * (L * q + L))
    <3>1. n * (k * d) = d * (n * k)
      BY <1>2
    <3> QED
      BY <1>2, <1>4, <2>1, <2>2, <2>3, <2>4, <3>1
  <2>6. P * S < P * (L * q + L)
    <3>1. n * k < P * (L * q + L)
      BY <1>2, <1>4, <2>5, CancelLess
    <3> QED
      BY <1>2, <1>4, <1>6, <1>8, <3>1
  <2> QED
    BY <1>4, <1>6, <2>6, CancelLess
<1>11. S \div L = q
  <2> HIDE DEF S
  <2> QED BY <1>4, <1>6, <1>9, <1>10, DivisionUnique
<1>12. m % P = m /\ nm % (P * P) = nm /\ S % (P * P) = S /\ q % P = q
  <2>1. P * P \in Nat
    OBVIOUS
  <2>2. m % P = m /\ q % P = q
    BY <1>1, <1>4, <1>7, SmallModulo
  <2>3. nm % (P * P) = nm
    <3> HIDE DEF nm
    <3> QED BY <1>2, <2>1, SmallModulo
  <2>4. S % (P * P) = S
    <3> HIDE DEF S
    <3> QED BY <1>6, <2>1, SmallModulo
  <2> QED
    BY <2>2, <2>3, <2>4
<1> QED
  BY <1>11, <1>12 DEF UDivByReciprocal, m, h, q

-----------------------------------------------------------------------------
LEMMA ModuloUnique ==
  ASSUME NEW a \in Int, NEW b \in Nat, b > 0, NEW c \in Int, NEW r \in 0 .. (b - 1),
         a = b * c + r
  PROVE  a % b = r /\ a \div b = c
<1>1. a \div b = c
  BY DivisionUnique
<1>2. a = b * (a \div b) + (a % b)
  OBVIOUS
<1> QED
  BY <1>1, <1>2

(* The upper half of a product that was cut to twice the width.            *)
LEMMA UpperHalf ==
  ASSUME NEW x \in Int, NEW P \in Nat, P > 0
  PROVE  ((x % (P * P)) \div P) % P = (x \div P) % P
<1> DEFINE c == x \div P
           r == x % P
           e == c \div P
           g == c % P
<1>1. c \in Int /\ r \in 0 .. (P - 1) /\ x = P * c + r
  OBVIOUS
<1> HIDE DEF c, r
<1>2. e \in Int /\ g \in 0 .. (P - 1) /\ c = P * e + g
  BY <1>1
<1> HIDE DEF e, g
<1>3. x = (P * P) * e + (P * g + r)
  BY <1>1, <1>2
<1>4. P * g + r \in 0 .. (P * P - 1)
  <2>1. P * g <= P * (P - 1)
    BY <1>2
  <2> QED
    BY <1>1, <1>2, <2>1
<1>5. x % (P * P) = P * g + r
  <2>1. P * P \in Nat /\ P * P > 0
    OBVIOUS
  <2> DEFINE PP == P * P
             s == P * g + r
  <2>2. PP \in Nat /\ PP > 0 /\ s \in 0 .. (PP - 1) /\ x = PP * e + s
    BY <1>3, <1>4, <2>1
  <2> HIDE DEF PP, s
  <2>3. x % PP = s
    BY <1>2, <2>2, ModuloUnique
  <2> QED BY <2>3 DEF PP, s
<1>6. (P * g + r) \div P = g
  <2>1. P * g + r \in Int
    BY <1>1, <1>2
  <2> QED BY <1>1, <1>2, <2>1, ModuloUnique
<1>7. g % P = g
  BY <1>2
<1> QED
  BY <1>5, <1>6, <1>7 DEF c, g

(* A number that fits is read back from its bits.                          *)
ReadsBack(B, n, h, S) ==
  LET sum == (n + (h % (2 * B))) % (2 * B)
  IN  (IF sum >= B THEN sum - 2 * B ELSE sum) = S

LEMMA ReadBack ==
  ASSUME NEW B \in Nat, NEW S \in (-B) .. (B - 1), NEW n \in Int, NEW h \in Int, S = n + h
  PROVE  ReadsBack(B, n, h, S)
<1> USE DEF ReadsBack
<1> DEFINE P == 2 * B
           sum == (n + (h % P)) % P
           e == h \div P
<1>1. P \in Nat /\ P > 0
  OBVIOUS
<1>2. e \in Int /\ h = P * e + (h % P) /\ h % P \in Int
  BY <1>1
<1> HIDE DEF e
<1>3. CASE 0 <= S
  <2>1. n + (h % P) = P * (-e) + S
    BY <1>1, <1>2
  <2>2. S \in 0 .. (P - 1) /\ -e \in Int /\ n + (h % P) \in Int
    BY <1>1, <1>2, <1>3
  <2>3. sum = S
    BY <1>1, <2>1, <2>2, ModuloUnique
  <2> QED
    BY <2>3
<1>4. CASE S < 0
  <2>1. n + (h % P) = P * (-e - 1) + (S + P)
    BY <1>1, <1>2
  <2>2. S + P \in 0 .. (P - 1) /\ -e - 1 \in Int /\ n + (h % P) \in Int
    BY <1>1, <1>2, <1>4
  <2>3. sum = S + P
    BY <1>1, <2>1, <2>2, ModuloUnique
  <2> QED
    BY <1>4, <2>3
<1> QED
  BY <1>3, <1>4

(* The quotient that replaceSDivGeneral computes is the quotient rounded   *)
(* towards zero, for every dividend with a sign, every divisor d > 0 with  *)
(* H < d <= 2 * H and every width; a negative divisor only negates it.     *)
THEOREM SDivReplaced ==
  ASSUME NEW B \in Nat, NEW H \in Nat, NEW d \in Nat, NEW n \in (-B) .. (B - 1),
         H > 0, H < d, d <= 2 * H
  PROVE  SDivByReciprocal(B, H, d, n) = Quotient(n, d)
<1> DEFINE P == 2 * B
           PH == P * H
           k == 1 + PH \div d
           m == k - P
           nm == n * m
           h == nm \div P
           S == n + h
<1>1. P \in Nat /\ P > 0 /\ PH \in Nat
  OBVIOUS
<1>2. k \in Int /\ PH < k * d /\ k * d <= PH + d
  <2> DEFINE q == PH \div d
  <2> HIDE DEF PH
  <2>1. q \in Int /\ d * q <= PH /\ PH < d * q + d
    BY <1>1, DivisionBounds
  <2> HIDE DEF q
  <2>2. (1 + q) * d = d * q + d
    BY <2>1
  <2>3. k = 1 + q
    BY DEF q
  <2> HIDE DEF k
  <2>4. k * d = d * q + d
    BY <2>2, <2>3
  <2> QED BY <1>1, <2>1, <2>3, <2>4
<1> HIDE DEF k
<1>3. k \in 1 .. P
  <2>1. d * 0 < d * k
    BY <1>1, <1>2
  <2>2. d * k < d * (P + 1)
    <3>1. P * H < P * d
      OBVIOUS
    <3> QED BY <1>1, <1>2, <3>1
  <2> QED
    BY <1>1, <1>2, <2>1, <2>2, CancelLess
<1>4. nm \in Int /\ h \in Int /\ P * h <= nm /\ nm < P * h + P
  <2>1. nm \in Int
    BY <1>3
  <2> HIDE DEF nm
  <2> QED BY <1>1, <2>1, DivisionBounds
<1> HIDE DEF h
<1>5. P * S <= n * k /\ n * k < P * S + P
  <2>1. n * k = n * P + nm
    BY <1>3
  <2>2. P * S = n * P + P * h
    BY <1>4
  <2>3. P * h <= nm /\ nm < P * h + P
    BY <1>4
  <2> DEFINE a == P * S
             c == n * P
             e == P * h
  <2>4. a \in Int /\ c \in Int /\ e \in Int /\ nm \in Int
    BY <1>1, <1>3, <1>4
  <2>5. a = c + e /\ e <= nm /\ nm < e + P
    BY <2>2, <2>3
  <2>6. a <= c + nm /\ c + nm < a + P
    <3> HIDE DEF a, c, e, nm
    <3> QED
      BY <2>4, <2>5, <1>1
  <2> QED
    BY <2>1, <2>6
<1>6. S \in Int
  BY <1>4
<1> HIDE DEF S, nm
<1> SUFFICES /\ S \in (-B) .. (B - 1)
             /\ (S \div H) - (IF n < 0 THEN -1 ELSE 0) = Quotient(n, d)
  <2>1. ASSUME S \in (-B) .. (B - 1),
               (S \div H) - (IF n < 0 THEN -1 ELSE 0) = Quotient(n, d)
        PROVE  SDivByReciprocal(B, H, d, n) = Quotient(n, d)
    <3>1. nm % (P * P) \in Int /\ ((nm % (P * P)) \div P) % P = h % P
      BY <1>1, <1>4, UpperHalf DEF h
    <3> DEFINE sum == (n + (h % P)) % P
    <3>i. n \in Int /\ h \in Int /\ S = n + h
      BY <1>4 DEF S
    <3>2. (IF sum >= B THEN sum - P ELSE sum) = S
      <4>1. ReadsBack(B, n, h, S)
        BY <3>i, <2>1, ReadBack
      <4> QED
        BY <4>1 DEF ReadsBack
    <3> DEFINE built == (n + (((nm % (P * P)) \div P) % P)) % P
    <3>3. SDivByReciprocal(B, H, d, n)
            = ((IF built >= B THEN built - P ELSE built) \div H) - (IF n < 0 THEN -1 ELSE 0)
      BY DEF SDivByReciprocal, nm, k
    <3>4. built = sum
      BY <3>1
    <3> HIDE DEF built, sum
    <3> QED
      BY <2>1, <3>2, <3>3, <3>4
  <2> QED BY <2>1
<1>7. CASE 0 <= n
  <2> DEFINE q == n \div d
  <2>1. q \in Int /\ d * q <= n /\ n < d * q + d
    BY DivisionBounds
  <2> HIDE DEF q
  <2>2. 0 <= q
    <3>1. d * (-1) < d * q
      BY <1>7, <2>1
    <3> QED BY <2>1, <3>1, CancelLess
  <2>3. 0 <= S /\ S <= n
    <3>1. 0 <= n * k /\ n * k <= n * P
      BY <1>3, <1>7
    <3>2. P * (-1) < P * S /\ P * S < P * (n + 1)
      BY <1>1, <1>3, <1>5, <1>6, <3>1
    <3> QED BY <1>1, <1>6, <3>2, CancelLess
  <2>4. H * q <= S
    <3>1. PH * q <= (k * d) * q
      <4>1. k * d \in Int /\ q \in Nat
        BY <1>3, <2>1, <2>2
      <4> HIDE DEF PH
      <4> QED BY <1>1, <1>2, <4>1, TimesMonotone
    <3>2. (k * d) * q = k * (d * q) /\ k * (d * q) <= k * n
      BY <1>3, <2>1
    <3>3. PH * q = P * (H * q)
      BY <1>1, <2>1
    <3>4. P * (H * q) < P * (S + 1)
      BY <1>1, <1>3, <1>5, <1>6, <2>1, <3>1, <3>2, <3>3
    <3> QED BY <1>1, <1>6, <2>1, <3>4, CancelLess
  <2>5. S < H * q + H
    <3>1. n * (k * d) <= n * (PH + d)
      BY <1>1, <1>2, <1>3, <1>7
    <3>2. n * d < PH
      <4>1. n * d <= n * (2 * H) /\ n * (2 * H) < B * (2 * H)
        BY <1>7
      <4>2. B * (2 * H) = PH
        OBVIOUS
      <4> QED BY <4>1, <4>2
    <3>3. n * (PH + d) < PH * (n + 1)
      BY <1>1, <3>2
    <3>4. PH * (n + 1) <= PH * (d * q + d)
      BY <1>1, <2>1
    <3>5. PH * (d * q + d) = d * (P * (H * q + H))
      BY <1>1, <2>1
    <3>6. n * (k * d) = d * (n * k)
      BY <1>3
    <3>7. d * (n * k) < d * (P * (H * q + H))
      BY <1>1, <1>3, <2>1, <3>1, <3>3, <3>4, <3>5, <3>6
    <3>8. n * k < P * (H * q + H)
      BY <1>1, <1>3, <2>1, <3>7, CancelLess
    <3>9. P * S < P * (H * q + H)
      BY <1>1, <1>3, <1>5, <1>6, <2>1, <3>8
    <3> QED BY <1>1, <1>6, <2>1, <3>9, CancelLess
  <2>6. S \div H = q
    BY <1>6, <2>1, <2>4, <2>5, DivisionUnique
  <2>7. Quotient(n, d) = q
    BY <1>7 DEF Quotient, Abs, q
  <2> QED
    BY <1>6, <1>7, <2>3, <2>6, <2>7
<1>8. CASE n < 0
  <2> DEFINE a == -n
             q == a \div d
  <2>1. a \in 1 .. B /\ q \in Int /\ d * q <= a /\ a < d * q + d
    <3>1. a \in 1 .. B
      BY <1>8
    <3> HIDE DEF a
    <3> QED BY <3>1, DivisionBounds
  <2>2. n * k = -(a * k)
    BY <1>3
  <2> HIDE DEF q
  <2>3. 0 <= q
    <3>1. d * (-1) < d * q
      BY <2>1
    <3> QED BY <2>1, <3>1, CancelLess
  <2>4. n <= S /\ S < 0
    <3>1. n * P <= n * k /\ n * k < 0
      BY <1>3, <1>8
    <3>2. P * n < P * (S + 1) /\ P * S < P * 0
      BY <1>1, <1>3, <1>5, <1>6, <3>1
    <3> QED BY <1>1, <1>6, <3>2, CancelLess
  <2>5. S < H * (-q - 1) + H
    <3>1. (P * (H * q)) * d < (a * k) * d
      <4>1. a * (k * d) > a * PH
        BY <1>1, <1>2, <1>3, <2>1
      <4>2. PH * a >= PH * (d * q)
        BY <1>1, <2>1
      <4>3. a * (k * d) = (a * k) * d /\ PH * (d * q) = (P * (H * q)) * d
        BY <1>1, <1>3, <2>1
      <4> QED
        BY <1>1, <1>3, <2>1, <4>1, <4>2, <4>3
    <3>2. P * (H * q) < a * k
      BY <1>1, <1>3, <2>1, <3>1, CancelLess
    <3>3. P * S < P * (-(H * q))
      BY <1>1, <1>3, <1>5, <1>6, <2>1, <2>2, <3>2
    <3>4. S < -(H * q)
      BY <1>1, <1>6, <2>1, <3>3, CancelLess
    <3> QED BY <1>6, <2>1, <3>4
  <2>6. H * (-q - 1) <= S
    <3>1. a * (k * d) <= a * (PH + d)
      BY <1>1, <1>2, <1>3, <2>1
    <3>2. a * d <= PH
      <4>1. a * d <= a * (2 * H) /\ a * (2 * H) <= B * (2 * H)
        BY <2>1
      <4>2. B * (2 * H) = PH
        OBVIOUS
      <4> QED BY <2>1, <4>1, <4>2
    <3>3. a * (PH + d) <= PH * (a + 1)
      BY <1>1, <2>1, <3>2
    <3>4. PH * (a + 1) <= PH * (d * q + d)
      BY <1>1, <2>1
    <3>5. PH * (d * q + d) = d * (P * (H * q + H))
      BY <1>1, <2>1
    <3>6. a * (k * d) = d * (a * k)
      BY <1>3, <2>1
    <3>7. d * (a * k) < d * (P * (H * q + H) + 1)
      BY <1>1, <1>3, <2>1, <3>1, <3>3, <3>4, <3>5, <3>6
    <3>8. a * k < P * (H * q + H) + 1
      BY <1>1, <1>3, <2>1, <3>7, CancelLess
    <3>9. P * (-(H * q + H)) < P * (S + 1)
      BY <1>1, <1>3, <1>5, <1>6, <2>1, <2>2, <3>8
    <3>10. -(H * q + H) < S + 1
      BY <1>1, <1>6, <2>1, <3>9, CancelLess
    <3> QED BY <1>6, <2>1, <3>10
  <2>7. S \div H = -q - 1
    BY <1>6, <2>1, <2>5, <2>6, DivisionUnique
  <2>8. Quotient(n, d) = -q
    BY <1>8 DEF Quotient, Abs, q
  <2> QED
    BY <1>6, <1>8, <2>1, <2>4, <2>7, <2>8
<1> QED
  BY <1>7, <1>8

(* The same for a divisor 2 * H that is a power of two: the dividend, made *)
(* larger by 2 * H - 1 if it is negative, and shifted. C is 2^(N - 1) / H: *)
(* the divisor is at most 2^(N - 1), or the sum would not fit.             *)
THEOREM SDivPow2Replaced ==
  ASSUME NEW C \in Nat, NEW H \in Nat, NEW n \in (-(C * H)) .. (C * H - 1),
         C > 1, H > 0
  PROVE  SDivByShift(C, H, n) = Quotient(n, 2 * H)
<1> DEFINE B == C * H
           d == 2 * H
           x1 == n \div H
           x2 == (x1 % (2 * B)) \div C
<1>1. B \in Nat /\ B > 0 /\ d \in Nat /\ d > 0 /\ 2 * B = C * d /\ H <= B
  OBVIOUS
<1>2. x1 \in Int /\ H * x1 <= n /\ n < H * x1 + H
  BY DivisionBounds
<1> HIDE DEF x1
<1>3. -C <= x1 /\ x1 < C
  <2>1. H * (-C - 1) < H * x1 /\ H * x1 < H * C
    BY <1>2
  <2> QED BY <1>2, <2>1, CancelLess
<1>4. C <= B
  OBVIOUS
<1>5. x2 = IF n < 0 THEN d - 1 ELSE 0
  <2>1. CASE 0 <= n
    <3>1. 0 <= x1
      <4>1. H * (-1) < H * x1
        BY <1>2, <2>1
      <4> QED BY <1>2, <4>1, CancelLess
    <3>2. x1 % (2 * B) = x1
      BY <1>1, <1>2, <1>3, <1>4, <3>1, SmallModulo
    <3>3. x1 \div C = 0
      BY <1>2, <1>3, <3>1, DivisionUnique
    <3> QED BY <2>1, <3>2, <3>3
  <2>2. CASE n < 0
    <3>1. x1 < 0
      <4>1. H * x1 < H * 0
        BY <1>2, <2>2
      <4> QED BY <1>2, <4>1, CancelLess
    <3>2. x1 % (2 * B) = x1 + 2 * B
      <4> DEFINE T == 2 * B
      <4>1. T \in Nat /\ T > 0 /\ x1 + T \in 0 .. (T - 1) /\ x1 = T * (-1) + (x1 + T)
        BY <1>1, <1>2, <1>3, <1>4, <3>1
      <4> HIDE DEF T
      <4>2. x1 % T = x1 + T
        BY <1>2, <4>1, ModuloUnique
      <4> QED BY <4>2 DEF T
    <3>3. (x1 + 2 * B) \div C = d - 1
      <4>1. x1 + 2 * B = C * (d - 1) + (x1 + C)
        BY <1>1, <1>2
      <4>2. C * (d - 1) \in Int /\ x1 + 2 * B \in Int
        BY <1>1, <1>2
      <4>3. C * (d - 1) <= x1 + 2 * B /\ x1 + 2 * B < C * (d - 1) + C
        BY <1>2, <1>3, <3>1, <4>1, <4>2
      <4> HIDE DEF B, d
      <4> QED BY <1>1, <4>2, <4>3, DivisionUnique
    <3> QED BY <2>2, <3>2, <3>3
  <2> QED BY <2>1, <2>2
<1> HIDE DEF x2
<1> DEFINE S == n + x2
<1>6. S \in (-B) .. (B - 1)
  <2>1. CASE n < 0
    <3>1. 2 * H <= B
      OBVIOUS
    <3> QED BY <1>1, <1>5, <2>1, <3>1
  <2>2. CASE 0 <= n
    BY <1>1, <1>5, <2>2
  <2> QED BY <2>1, <2>2
<1>7. SDivByShift(C, H, n) = S \div d
  <2> DEFINE sum == (n + x2) % (2 * B)
  <2>1. (IF sum >= B THEN sum - 2 * B ELSE sum) = S
    <3>1. x2 \in Int /\ 0 <= x2 /\ x2 < 2 * B
      BY <1>1, <1>5
    <3>2. x2 % (2 * B) = x2
      BY <1>1, <3>1, SmallModulo
    <3> HIDE DEF B
    <3>3. ReadsBack(B, n, x2, S)
      BY <1>1, <1>6, <3>1, ReadBack
    <3> QED
      BY <3>2, <3>3 DEF ReadsBack
  <2> QED
    BY <2>1 DEF SDivByShift, x1, x2
<1>8. CASE 0 <= n
  BY <1>1, <1>5, <1>7, <1>8 DEF Quotient, Abs
<1>9. CASE n < 0
  <2> DEFINE a == -n
             q == a \div d
  <2>1. a \in Nat /\ q \in Int /\ d * q <= a /\ a < d * q + d
    <3>1. a \in Nat
      BY <1>9
    <3> HIDE DEF a
    <3> QED BY <1>1, <3>1, DivisionBounds
  <2> HIDE DEF q
  <2>2. d * (-q) <= S /\ S < d * (-q) + d
    BY <1>1, <1>5, <1>9, <2>1
  <2>3. S \in Int
    BY <1>6
  <2>4. S \div d = -q
    <3> HIDE DEF S, d
    <3> QED BY <1>1, <2>1, <2>2, <2>3, DivisionUnique
  <2>5. Quotient(n, d) = -q
    BY <1>1, <1>9 DEF Quotient, Abs, q
  <2> QED BY <1>7, <2>4, <2>5
<1> QED
  BY <1>1, <1>6, <1>7, <1>8, <1>9

-----------------------------------------------------------------------------
(* Numbers and widths. *)

LEMMA NatMin ==
  ASSUME NEW T \in SUBSET Nat, T # {}
  PROVE  \E n \in T : \A m \in T : n <= m
<1> DEFINE below(n) == 1 .. n
           U == {below(n) : n \in T}
<1>1. \A n \in T : below(n) \in FiniteSubsetsOf(Nat)
  BY FS_Interval DEF FiniteSubsetsOf
<1>2. U \subseteq FiniteSubsetsOf(Nat) /\ U # {}
  BY <1>1
<1>3. IsWellFoundedOn(StrictSubsetOrdering(Nat), FiniteSubsetsOf(Nat))
  BY FS_StrictSubsetOrderingWellFounded
<1> HIDE DEF U
<1>4. \E x \in U : \A y \in U : ~(<<y, x>> \in StrictSubsetOrdering(Nat))
  BY <1>2, <1>3, WFMin
<1> USE DEF U
<1>5. PICK n \in T : \A y \in U : ~(<<y, below(n)>> \in StrictSubsetOrdering(Nat))
  BY <1>4
<1>6. ASSUME NEW m \in T, m < n PROVE FALSE
  <2>1. below(m) \subseteq below(n)
    BY <1>6
  <2>2. n \in below(n) \ below(m)
    BY <1>6
  <2>3. <<below(m), below(n)>> \in StrictSubsetOrdering(Nat)
    BY <2>1, <2>2 DEF StrictSubsetOrdering
  <2> QED
    BY <1>5, <2>3
<1> QED
  BY <1>6

LEMMA NatInd ==
  ASSUME NEW T, 0 \in T, \A n \in Nat : n \in T => n + 1 \in T
  PROVE  Nat \subseteq T
<1> SUFFICES ASSUME Nat \ T # {} PROVE FALSE
  OBVIOUS
<1>1. PICK n \in Nat \ T : \A m \in Nat \ T : n <= m
  BY NatMin
<1>2. n # 0 /\ n - 1 \in Nat
  BY <1>1
<1>3. n - 1 \in T
  BY <1>1, <1>2
<1> QED
  BY <1>1, <1>2, <1>3

LEMMA WidthFacts ==
  /\ IntBits \in Nat /\ IntBits \div 2 \in Nat /\ 1 < IntBits \div 2 /\ IntBits \div 2 < IntBits
  /\ Int64 = 2 * IntBits /\ promoted(IntBits \div 2) = IntBits /\ promoted(IntBits) = Int64
  /\ \A w \in Widths : w \in 1 .. Int64
<1>1. IntBits \in Nat /\ IntBits > 2 /\ IntBits % 2 = 0
  BY IntBitsAssumption
<1>2. 2 * (IntBits \div 2) = IntBits
  BY <1>1
<1> QED
  BY <1>1, <1>2 DEF Int64, Widths, promoted

LEMMA SizeFacts ==
  /\ \A w \in 0 .. Int64 : 2^w \in Nat \ {0}
  /\ \A w \in Widths : Size(w) \in Nat \ {0}
  /\ \A w \in Widths : \A x \in Int : Wrap(w, x) \in 0 .. (Size(w) - 1)
<1>1. \A w \in 0 .. Int64 : 2^w \in Nat \ {0}
  <2>1. ASSUME NEW w \in 0 .. Int64 PROVE 2^w \in Nat \ {0}
    <3>1. w \in Nat
      BY WidthFacts
    <3>2. 2^w \in Int
      BY <3>1
    <3> QED
      BY <3>2, PowersAssumption
  <2> QED
    BY <2>1
<1>2. \A w \in Widths : Size(w) \in Nat \ {0}
  BY <1>1, WidthFacts DEF Size
<1>3. ASSUME NEW w \in Widths, NEW x \in Int PROVE Wrap(w, x) \in 0 .. (Size(w) - 1)
  <2>1. PICK m \in Nat \ {0} : m = Size(w)
    BY <1>2
  <2>2. x % m \in 0 .. (m - 1)
    OBVIOUS
  <2> QED
    BY <2>1, <2>2 DEF Wrap
<1> QED
  BY <1>1, <1>2, <1>3

LEMMA ConstFacts ==
  ASSUME NEW w \in Widths, NEW x \in Int
  PROVE  /\ Const(w, x) \in Operands /\ IsConst(Const(w, x)) /\ Const(w, x).is # "new"
         /\ \A P, code, k : isOfWidth(P, code, k, Const(w, x), w)
<1>1. Wrap(w, x) \in Nat /\ Wrap(w, x) < Size(w)
  BY SizeFacts
<1> QED
  BY <1>1 DEF Const, Operands, IsConst, isOfWidth

-----------------------------------------------------------------------------
(* What the operations compute is a number. *)

LEMMA SignedInt ==
  ASSUME NEW w \in Widths, NEW x \in Bits(w)
  PROVE  /\ x \in Nat /\ x < Size(w)
         /\ SignedValue(w, x) \in Int /\ (x # 0 => SignedValue(w, x) # 0)
<1>1. Size(w) \in Nat \ {0}
  BY SizeFacts
<1> QED
  BY <1>1 DEF SignedValue, Bits

LEMMA QuotientInt ==
  ASSUME NEW x \in Int, NEW y \in Int, y # 0
  PROVE  Quotient(x, y) \in Int /\ Remainder(x, y) \in Int
<1>1. Abs(x) \in Nat /\ Abs(y) \in Nat \ {0}
  BY DEF Abs
<1>2. PICK a \in Nat, b \in Nat \ {0} : a = Abs(x) /\ b = Abs(y)
  BY <1>1
<1>3. a \div b \in Int
  OBVIOUS
<1>4. Quotient(x, y) \in Int
  BY <1>2, <1>3 DEF Quotient
<1>5. PICK q \in Int : q = Quotient(x, y)
  BY <1>4
<1> QED
  BY <1>4, <1>5 DEF Remainder

LEMMA BitSumInt ==
  ASSUME NEW w \in Widths, NEW f, \A i \in 0 .. (w - 1) : f[i] \in Int
  PROVE  FromBits(w, f) \in Int
<1> DEFINE Step(g, i) == IF i = 0 THEN 0 ELSE g[i - 1] + f[i - 1] * 2^(i - 1)
           sum == CHOOSE g : g = [i \in 0 .. w |-> Step(g, i)]
           T == {n \in Nat : \E g : /\ g = [i \in 0 .. n |-> Step(g, i)]
                                    /\ n <= w => \A i \in 0 .. n : g[i] \in Int}
<1>1. w \in Nat
  BY WidthFacts
<1>2. 0 \in T
  <2>1. PICK g : g = [i \in 0 .. 0 |-> 0]
    OBVIOUS
  <2>2. g = [i \in 0 .. 0 |-> Step(g, i)]
    BY <2>1
  <2>3. \A i \in 0 .. 0 : g[i] \in Int
    BY <2>1
  <2> QED
    BY <2>2, <2>3
<1>3. ASSUME NEW n \in Nat, n \in T PROVE n + 1 \in T
  <2>1. PICK g : /\ g = [i \in 0 .. n |-> Step(g, i)]
                 /\ n <= w => \A i \in 0 .. n : g[i] \in Int
    BY <1>3
  <2>2. PICK h : h = [i \in 0 .. (n + 1) |-> IF i <= n THEN g[i] ELSE Step(g, n + 1)]
    OBVIOUS
  <2>3. \A i \in 0 .. n : h[i] = g[i] /\ Step(h, i + 1) = Step(g, i + 1)
    BY <2>2
  <2>4. \A i \in 0 .. n : g[i] = Step(g, i)
    BY <2>1
  <2>5. ASSUME NEW i \in 0 .. (n + 1) PROVE h[i] = Step(h, i)
    <3>1. CASE i = 0
      BY <2>2, <2>4, <3>1
    <3>2. CASE i \in 1 .. n
      <4>1. i - 1 \in 0 .. n /\ (i - 1) + 1 = i
        BY <3>2
      <4> HIDE DEF Step
      <4> QED
        BY <2>3, <2>4, <3>2, <4>1
    <3>3. CASE i = n + 1
      <4>1. n \in 0 .. n
        OBVIOUS
      <4> HIDE DEF Step
      <4> QED
        BY <2>2, <2>3, <3>3, <4>1
    <3> QED
      BY <3>1, <3>2, <3>3
  <2>6. h = [i \in 0 .. (n + 1) |-> Step(h, i)]
    <3> HIDE DEF Step
    <3> QED
      BY <2>2, <2>5
  <2>7. n + 1 <= w => \A i \in 0 .. (n + 1) : h[i] \in Int
    <3> SUFFICES ASSUME n + 1 <= w PROVE \A i \in 0 .. (n + 1) : h[i] \in Int
      OBVIOUS
    <3>1. n \in 0 .. (w - 1) /\ n \in 0 .. n /\ n \in 0 .. Int64
      BY <1>1, WidthFacts
    <3>2. g[n] \in Int /\ f[n] \in Int /\ 2^n \in Int
      BY <1>1, <2>1, <3>1, SizeFacts
    <3>3. f[n] * 2^n \in Int
      BY <3>2
    <3>4. Step(g, n + 1) \in Int
      BY <3>2, <3>3
    <3> QED
      BY <1>1, <2>1, <2>2, <3>4
  <2> QED
    BY <2>6, <2>7
<1>4. w \in T
  <2> HIDE DEF T
  <2> QED
    BY <1>1, <1>2, <1>3, NatInd
<1>5. PICK g : g = [i \in 0 .. w |-> Step(g, i)] /\ \A i \in 0 .. w : g[i] \in Int
  BY <1>1, <1>4
<1>6. sum = [i \in 0 .. w |-> Step(sum, i)]
  BY <1>5
<1>7. \A i \in 0 .. w : sum[i] \in Int
  <2> DEFINE U == {n \in Nat : n <= w => sum[n] \in Int}
  <2> HIDE DEF sum
  <2>1. 0 \in U
    BY <1>6
  <2>2. ASSUME NEW n \in Nat, n \in U PROVE n + 1 \in U
    <3> SUFFICES ASSUME n + 1 <= w PROVE sum[n + 1] \in Int
      OBVIOUS
    <3>1. n \in 0 .. (w - 1) /\ n + 1 \in 0 .. w /\ n \in 0 .. Int64
      BY <1>1, WidthFacts
    <3>2. sum[n] \in Int /\ f[n] \in Int /\ 2^n \in Int
      BY <1>1, <2>2, <3>1, SizeFacts
    <3>3. f[n] * 2^n \in Int
      BY <3>2
    <3>4. sum[n + 1] = Step(sum, n + 1)
      BY <1>6, <3>1
    <3> QED
      BY <3>2, <3>3, <3>4
  <2> HIDE DEF U
  <2>3. Nat \subseteq U
    BY <2>1, <2>2, NatInd
  <2> QED
    BY <1>1, <2>3 DEF U
<1>8. w \in 0 .. w
  BY <1>1
<1>9. FromBits(w, f) = sum[w]
  BY DEF FromBits
<1> QED
  BY <1>7, <1>8, <1>9

LEMMA BitInt ==
  ASSUME NEW w \in Widths, NEW i \in 0 .. (w - 1), NEW x \in Int
  PROVE  Bit(x, i) \in Int
<1>1. i \in 0 .. Int64
  BY WidthFacts
<1>2. PICK m \in Nat \ {0} : m = 2^i
  BY <1>1, SizeFacts
<1>3. x \div m \in Int
  OBVIOUS
<1>4. PICK q \in Int : q = x \div m
  BY <1>3
<1> QED
  BY <1>2, <1>4 DEF Bit

LEMMA BitwiseInt ==
  ASSUME NEW w \in Widths, NEW x \in Int, NEW y \in Int
  PROVE  And(w, x, y) \in Int /\ Or(w, x, y) \in Int /\ Xor(w, x, y) \in Int
<1>1. \A i \in 0 .. (w - 1) : Bit(x, i) \in Int /\ Bit(y, i) \in Int
  BY BitInt
<1>2. And(w, x, y) \in Int
  <2> DEFINE f == [i \in 0 .. (w - 1) |-> Bit(x, i) * Bit(y, i)]
  <2>1. \A i \in 0 .. (w - 1) : f[i] \in Int
    BY <1>1
  <2> HIDE DEF f
  <2>2. FromBits(w, f) \in Int
    BY <2>1, BitSumInt
  <2> QED
    BY <2>2 DEF And, f
<1>3. Xor(w, x, y) \in Int
  <2> DEFINE f == [i \in 0 .. (w - 1) |-> (Bit(x, i) + Bit(y, i)) % 2]
  <2>1. \A i \in 0 .. (w - 1) : f[i] \in Int
    BY <1>1
  <2> HIDE DEF f
  <2>2. FromBits(w, f) \in Int
    BY <2>1, BitSumInt
  <2> QED
    BY <2>2 DEF Xor, f
<1>4. PICK z \in Int : z = And(w, x, y)
  BY <1>2
<1>5. Or(w, x, y) \in Int
  BY <1>4 DEF Or
<1> QED
  BY <1>2, <1>3, <1>5

LEMMA ShiftInt ==
  ASSUME NEW w \in Widths, NEW x \in Bits(w), NEW y \in Bits(w)
  PROVE  SHL(w, x, y) \in Int /\ LSHR(w, x, y) \in Int /\ ASHR(w, x, y) \in Int
<1>1. x \in Nat /\ y \in Nat /\ SignedValue(w, x) \in Int /\ w \in Nat
  BY SignedInt, WidthFacts
<1>2. PICK v \in Int : v = SignedValue(w, x)
  BY <1>1
<1>3. CASE y >= w
  BY <1>3 DEF SHL, LSHR, ASHR, PoisonBits
<1>4. CASE ~(y >= w)
  <2>1. y \in 0 .. Int64
    BY <1>1, <1>4, WidthFacts
  <2>2. PICK m \in Nat \ {0} : m = 2^y
    BY <2>1, SizeFacts
  <2>3. x * m \in Int /\ x \div m \in Int /\ v \div m \in Int
    BY <1>1
  <2>4. Wrap(w, x * m) \in Int /\ Wrap(w, v \div m) \in Int
    BY <2>3, SizeFacts
  <2> QED
    BY <1>2, <1>4, <2>2, <2>3, <2>4 DEF SHL, LSHR, ASHR
<1> QED
  BY <1>3, <1>4

LEMMA ArithmeticInt ==
  ASSUME NEW w \in Widths, NEW x \in Bits(w), NEW y \in Bits(w), NEW op \in Arithmetic
  PROVE  ArithmeticOp(op, w, x, y) \in Int
<1>1. /\ x \in Nat /\ y \in Nat /\ SignedValue(w, x) \in Int
      /\ SignedValue(w, y) \in Int /\ (y # 0 => SignedValue(w, y) # 0)
  BY SignedInt
<1>2. Add(w, x, y) \in Int /\ Sub(w, x, y) \in Int /\ Mul(w, x, y) \in Int
  <2>1. x + y \in Int /\ x - y \in Int /\ x * y \in Int
    BY <1>1
  <2> QED
    BY <2>1, SizeFacts DEF Add, Sub, Mul
<1>3. UDiv(w, x, y) \in Int /\ URem(w, x, y) \in Int
  BY <1>1 DEF UDiv, URem, PoisonBits
<1>4. SDiv(w, x, y) \in Int /\ SRem(w, x, y) \in Int
  <2>1. CASE y = 0 \/ SignedOverflow(w, x, y)
    BY <2>1 DEF SDiv, SRem, PoisonBits
  <2>2. CASE ~(y = 0 \/ SignedOverflow(w, x, y))
    <3>1. PICK a \in Int, b \in Int : a = SignedValue(w, x) /\ b = SignedValue(w, y) /\ b # 0
      BY <1>1, <2>2
    <3>2. Wrap(w, Quotient(a, b)) \in Int /\ Wrap(w, Remainder(a, b)) \in Int
      <4>1. PICK q \in Int, r \in Int : q = Quotient(a, b) /\ r = Remainder(a, b)
        BY <3>1, QuotientInt
      <4>2. Wrap(w, q) \in Int /\ Wrap(w, r) \in Int
        BY SizeFacts
      <4> QED
        BY <4>1, <4>2
    <3> QED
      BY <2>2, <3>1, <3>2 DEF SDiv, SRem
  <2> QED
    BY <2>1, <2>2
<1>5. And(w, x, y) \in Int /\ Or(w, x, y) \in Int /\ Xor(w, x, y) \in Int
  BY <1>1, BitwiseInt
<1>6. SHL(w, x, y) \in Int /\ LSHR(w, x, y) \in Int /\ ASHR(w, x, y) \in Int
  BY ShiftInt
<1> QED
  BY <1>2, <1>3, <1>4, <1>5, <1>6 DEF ArithmeticOp, Arithmetic, Divisions, Shifts

LEMMA CastInt ==
  ASSUME NEW v \in Widths, NEW w \in Widths, NEW x \in Bits(v), NEW op \in Casts
  PROVE  CastOp(op, v, w, x) \in Int
<1>1. x \in Int /\ SignedValue(v, x) \in Int
  BY SignedInt
<1>2. Wrap(w, x) \in Int /\ Wrap(w, SignedValue(v, x)) \in Int
  BY <1>1, SizeFacts
<1> QED
  BY <1>1, <1>2 DEF CastOp, Casts

-----------------------------------------------------------------------------
(* Operands. *)

LEMMA OperandFacts ==
  ASSUME NEW v \in Operands
  PROVE  /\ v.is \in {"const", "poison", "value"} /\ v.n \in Nat
         /\ v = [is |-> v.is, n |-> v.n]
BY DEF Operands

LEMMA InstructionFacts ==
  ASSUME NEW J \in Instructions
  PROVE  /\ J.op \in Ops /\ J.id \in Nat /\ J.from \in Widths /\ J.width \in Widths \cup {0}
         /\ J.args \in Seq(Operands) /\ DOMAIN J.args = 1 .. Len(J.args) /\ Len(J.args) \in Nat
         /\ \A i \in DOMAIN J.args : J.args[i] \in Operands
         /\ J = [op |-> J.op, id |-> J.id, from |-> J.from, width |-> J.width, args |-> J.args]
BY DEF Instructions

\* What each kind of instruction has.
LEMMA FitsMeans ==
  ASSUME NEW P, NEW code, NEW k, NEW J \in Instructions, J = code[k], fits(P, code, k)
  PROVE  /\ J.op \in Arithmetic => /\ J.width = J.from /\ Len(J.args) = 2
                                   /\ isOfWidth(P, code, k, J.args[1], J.width)
                                   /\ isOfWidth(P, code, k, J.args[2], J.width)
         /\ J.op \in Relations => /\ J.width = 1 /\ Len(J.args) = 2
                                  /\ isOfWidth(P, code, k, J.args[1], J.from)
                                  /\ isOfWidth(P, code, k, J.args[2], J.from)
         /\ J.op \in Casts => /\ J.width \in Widths /\ Len(J.args) = 1
                              /\ isOfWidth(P, code, k, J.args[1], J.from)
         /\ J.op = "ret" => /\ J.width = 0 /\ Len(J.args) = 1
                            /\ isOfWidth(P, code, k, J.args[1], J.from)
         /\ J.op = "select" => /\ J.width = J.from /\ Len(J.args) = 3
                               /\ isOfWidth(P, code, k, J.args[1], 1)
                               /\ isOfWidth(P, code, k, J.args[2], J.width)
                               /\ isOfWidth(P, code, k, J.args[3], J.width)
         /\ J.op # "ret" => J.width \in Widths
<1>1. /\ hasResultType(J) /\ Len(J.args) = Len(operandWidths(J))
      /\ \A i \in DOMAIN J.args : isOfWidth(P, code, k, J.args[i], operandWidths(J)[i])
  BY DEF fits
<1>2. /\ J.op \in Ops /\ J.from \in Widths /\ J.width \in Widths \cup {0}
      /\ DOMAIN J.args = 1 .. Len(J.args)
  BY InstructionFacts
<1>3. 1 \in Widths /\ \A w \in Widths : w \in Nat /\ w > 0
  BY WidthFacts DEF Widths
<1>4. CASE J.op \in Arithmetic
  <2>1. operandWidths(J) = <<J.width, J.width>> /\ J.width = J.from
    BY <1>1, <1>4 DEF operandWidths, hasResultType, Arithmetic, Divisions, Shifts, Relations, Casts
  <2>2. J.op \notin Relations \cup Casts \cup {"ret", "select"}
    BY <1>4 DEF Arithmetic, Divisions, Shifts, Relations, Casts
  <2> QED
    BY <1>1, <1>2, <1>4, <2>1, <2>2
<1>5. CASE J.op \in Relations
  <2>1. operandWidths(J) = <<J.from, J.from>> /\ J.width = 1
    BY <1>1, <1>5 DEF operandWidths, hasResultType, Arithmetic, Divisions, Shifts, Relations, Casts
  <2>2. J.op \notin Arithmetic \cup Casts \cup {"ret", "select"}
    BY <1>5 DEF Arithmetic, Divisions, Shifts, Relations, Casts
  <2> QED
    BY <1>1, <1>2, <1>3, <1>5, <2>1, <2>2
<1>6. CASE J.op \in Casts
  <2>1. operandWidths(J) = <<J.from>>
    BY <1>6 DEF operandWidths, Arithmetic, Divisions, Shifts, Relations, Casts
  <2>2. J.op \notin Arithmetic \cup Relations \cup {"ret", "select"}
    BY <1>6 DEF Arithmetic, Divisions, Shifts, Relations, Casts
  <2>3. J.width > J.from \/ J.width > 0
    BY <1>1, <1>2, <1>3, <1>6 DEF hasResultType, Arithmetic, Divisions, Shifts, Relations, Casts
  <2>4. J.width \in Widths
    BY <1>2, <1>3, <2>3
  <2> QED
    BY <1>1, <1>2, <1>6, <2>1, <2>2, <2>4
<1>7. CASE J.op = "ret"
  <2>1. operandWidths(J) = <<J.from>> /\ J.width = 0
    BY <1>1, <1>7 DEF operandWidths, hasResultType, Arithmetic, Divisions, Shifts, Relations, Casts
  <2>2. J.op \notin Arithmetic \cup Relations \cup Casts
    BY <1>7 DEF Arithmetic, Divisions, Shifts, Relations, Casts
  <2> QED
    BY <1>1, <1>2, <1>7, <2>1, <2>2
<1>8. CASE J.op = "select"
  <2>1. operandWidths(J) = <<1, J.width, J.width>> /\ J.width = J.from
    BY <1>1, <1>8 DEF operandWidths, hasResultType, Arithmetic, Divisions, Shifts, Relations, Casts
  <2>2. J.op \notin Arithmetic \cup Relations \cup Casts
    BY <1>8 DEF Arithmetic, Divisions, Shifts, Relations, Casts
  <2> QED
    BY <1>1, <1>2, <1>8, <2>1, <2>2
<1> QED
  BY <1>2, <1>4, <1>5, <1>6, <1>7, <1>8 DEF Ops

LEMMA ConstantBits ==
  ASSUME NEW P, NEW code, NEW k, NEW v \in Operands, NEW w \in Widths,
         isOfWidth(P, code, k, v, w), IsConst(v)
  PROVE  v.n \in Bits(w) /\ v = Const(w, v.n)
<1>1. v.is = "const" /\ v.n \in Nat /\ v = [is |-> v.is, n |-> v.n]
  BY OperandFacts DEF IsConst
<1>2. ~IsPoison(v) /\ v.is # "value" /\ \A x : v # Val(x)
  BY <1>1 DEF IsPoison, Val
<1>3. v.n < Size(w)
  BY <1>2 DEF isOfWidth
<1>4. PICK m \in Nat \ {0} : m = Size(w)
  BY SizeFacts
<1>5. v.n % m = v.n
  BY <1>1, <1>3, <1>4
<1> QED
  BY <1>1, <1>3, <1>4, <1>5 DEF Bits, Const, Wrap

LEMMA PoisonFacts ==
  ASSUME NEW id \in Nat
  PROVE  /\ PoisonValue(id) \in Operands /\ PoisonValue(id).is # "new"
         /\ \A P, code, k, w : isOfWidth(P, code, k, PoisonValue(id), w)
BY DEF PoisonValue, Operands, isOfWidth, IsPoison

LEMMA FoldArithFacts ==
  ASSUME NEW P, NEW code, NEW k, NEW x \in Operands, NEW y \in Operands, NEW w \in Widths,
         NEW op \in Arithmetic, I.id \in Nat, IsConstant(x), IsConstant(y),
         isOfWidth(P, code, k, x, w), isOfWidth(P, code, k, y, w)
  PROVE  /\ FoldArith(op, w, x, y) \in Operands /\ IsConstant(FoldArith(op, w, x, y))
         /\ isOfWidth(P, code, k, FoldArith(op, w, x, y), w)
<1> DEFINE bits(v) == IF IsPoison(v) THEN PoisonBits ELSE v.n
           xs == <<bits(x), bits(y)>>
           z == FoldOp(op, w, w, xs)
<1>1. op # "select" /\ op \notin Relations \cup Casts
  BY DEF Arithmetic, Divisions, Shifts, Relations, Casts
<1>2. DOMAIN xs = 1 .. 2 /\ xs[1] = bits(x) /\ xs[2] = bits(y)
  OBVIOUS
<1>3. CASE \E i \in DOMAIN xs : xs[i] = PoisonBits
  <2>1. z = PoisonBits
    BY <1>1, <1>3 DEF FoldOp
  <2>2. FoldArith(op, w, x, y) = PoisonValue(I.id)
    BY <2>1 DEF FoldArith
  <2> QED
    BY <2>2, PoisonFacts DEF IsConstant, IsPoison, PoisonValue
<1>4. CASE \A i \in DOMAIN xs : xs[i] # PoisonBits
  <2>1. IsConst(x) /\ IsConst(y) /\ ~IsPoison(x) /\ ~IsPoison(y)
    BY <1>2, <1>4 DEF IsConstant, IsConst, IsPoison
  <2>2. x.n \in Bits(w) /\ y.n \in Bits(w)
    BY <2>1, ConstantBits
  <2>3. z = ArithmeticOp(op, w, x.n, y.n)
    BY <1>1, <1>2, <1>4, <2>1 DEF FoldOp
  <2>4. z \in Int
    BY <2>2, <2>3, ArithmeticInt
  <2>5. FoldArith(op, w, x, y) = IF z = PoisonBits THEN PoisonValue(I.id) ELSE Const(w, z)
    BY DEF FoldArith
  <2> HIDE DEF z
  <2> QED
    BY <2>4, <2>5, PoisonFacts, ConstFacts DEF IsConstant, IsPoison, PoisonValue
<1> QED
  BY <1>3, <1>4

LEMMA FoldFits ==
  ASSUME NEW P, NEW code, NEW k, NEW J \in Instructions, J = code[k], fits(P, code, k),
         isFoldable(J)
  PROVE  fold(J) \in Operands /\ isOfWidth(P, code, k, fold(J), J.width)
<1> DEFINE bits(v) == IF IsPoison(v) THEN PoisonBits ELSE v.n
           xs == [i \in DOMAIN J.args |-> bits(J.args[i])]
           z == FoldOp(J.op, J.from, J.width, xs)
<1>1. /\ J.op \in Ops /\ J.op # "ret" /\ J.id \in Nat /\ J.from \in Widths /\ J.width \in Widths
      /\ DOMAIN J.args = 1 .. Len(J.args) /\ \A i \in DOMAIN J.args : J.args[i] \in Operands
  BY InstructionFacts, FitsMeans DEF isFoldable
<1>2. \A i \in DOMAIN J.args : IsConst(J.args[i]) \/ IsPoison(J.args[i])
  BY DEF isFoldable, IsConstant, Range
<1>3. DOMAIN xs = DOMAIN J.args /\ \A i \in DOMAIN xs : xs[i] = bits(J.args[i])
  OBVIOUS
<1>4. CASE J.op = "select" /\ IsConst(J.args[1])
  <2>1. fold(J) = IF J.args[1].n = 1 THEN J.args[2] ELSE J.args[3]
    BY <1>4 DEF fold
  <2>2. /\ isOfWidth(P, code, k, J.args[2], J.width) /\ isOfWidth(P, code, k, J.args[3], J.width)
        /\ 2 \in DOMAIN J.args /\ 3 \in DOMAIN J.args
    BY <1>1, <1>4, FitsMeans
  <2> QED
    BY <1>1, <2>1, <2>2
<1>5. CASE ~(J.op = "select" /\ IsConst(J.args[1]))
  <2>1. fold(J) = IF z = PoisonBits THEN PoisonValue(J.id) ELSE Const(J.width, z)
    BY <1>5 DEF fold
  <2>2. z \in Int
    <3>1. CASE J.op = "select"
      <4>1. 1 \in DOMAIN J.args
        BY <1>1, <3>1, FitsMeans
      <4>2. xs[1] = PoisonBits
        BY <1>2, <1>3, <1>5, <3>1, <4>1
      <4> QED
        BY <3>1, <4>2 DEF FoldOp, PoisonBits
    <3>2. CASE J.op # "select" /\ \E i \in DOMAIN xs : xs[i] = PoisonBits
      BY <3>2 DEF FoldOp, PoisonBits
    <3>3. CASE J.op # "select" /\ \A i \in DOMAIN xs : xs[i] # PoisonBits
      <4>1. \A i \in DOMAIN J.args : IsConst(J.args[i]) /\ xs[i] = J.args[i].n
        BY <1>2, <1>3, <3>3 DEF IsConst, IsPoison
      <4> HIDE DEF xs
      <4>2. CASE J.op \in Arithmetic
        <5>1. /\ 1 \in DOMAIN J.args /\ 2 \in DOMAIN J.args
              /\ isOfWidth(P, code, k, J.args[1], J.width) /\ isOfWidth(P, code, k, J.args[2], J.width)
          BY <1>1, <4>2, FitsMeans
        <5>2. xs[1] \in Bits(J.width) /\ xs[2] \in Bits(J.width)
          BY <1>1, <4>1, <5>1, ConstantBits
        <5>3. z = ArithmeticOp(J.op, J.width, xs[1], xs[2])
          <6>1. J.op \notin Relations \cup Casts
            BY <4>2 DEF Arithmetic, Divisions, Shifts, Relations, Casts
          <6> QED
            BY <3>3, <4>2, <6>1 DEF FoldOp
        <5> QED
          BY <1>1, <4>2, <5>2, <5>3, ArithmeticInt
      <4>3. CASE J.op \in Relations
        <5>1. J.op \notin Arithmetic \cup Casts
          BY <4>3 DEF Arithmetic, Divisions, Shifts, Relations, Casts
        <5>2. z = IF RelationHolds(J.op, J.from, xs[1], xs[2]) THEN 1 ELSE 0
          BY <3>3, <4>3, <5>1 DEF FoldOp
        <5> QED
          BY <5>2
      <4>4. CASE J.op \in Casts
        <5>1. 1 \in DOMAIN J.args /\ isOfWidth(P, code, k, J.args[1], J.from)
          BY <1>1, <4>4, FitsMeans
        <5>2. xs[1] \in Bits(J.from)
          BY <1>1, <4>1, <5>1, ConstantBits
        <5>3. J.op \notin Arithmetic \cup Relations
          BY <4>4 DEF Arithmetic, Divisions, Shifts, Relations, Casts
        <5>4. z = CastOp(J.op, J.from, J.width, xs[1])
          BY <3>3, <4>4, <5>3 DEF FoldOp
        <5> QED
          BY <1>1, <4>4, <5>2, <5>4, CastInt
      <4> QED
        BY <1>1, <3>3, <4>2, <4>3, <4>4 DEF Ops
    <3> QED
      BY <3>1, <3>2, <3>3
  <2> HIDE DEF z
  <2> QED
    BY <1>1, <2>1, <2>2, PoisonFacts, ConstFacts
<1> QED
  BY <1>4, <1>5

-----------------------------------------------------------------------------
(* A sequence without its k-th element, with new in its place.             *)

Splice(s, k, new) == SubSeq(s, 1, k - 1) \o new \o SubSeq(s, k + 1, Len(s))

LEMMA JoinFacts ==
  ASSUME NEW S, NEW a \in Seq(S), NEW b \in Seq(S)
  PROVE  /\ a \o b \in Seq(S) /\ Len(a \o b) = Len(a) + Len(b)
         /\ \A j \in 1 .. Len(a) : (a \o b)[j] = a[j]
         /\ \A j \in 1 .. Len(b) : (a \o b)[Len(a) + j] = b[j]
OBVIOUS

LEMMA SpliceFacts ==
  ASSUME NEW S, NEW s \in Seq(S), NEW k \in 1 .. Len(s), NEW new \in Seq(S)
  PROVE  LET r == Splice(s, k, new)
         IN  /\ r \in Seq(S) /\ Len(r) = Len(s) + Len(new) - 1 /\ DOMAIN r = 1 .. Len(r)
             /\ \A j \in 1 .. (k - 1) : r[j] = s[j]
             /\ \A j \in 1 .. Len(new) : r[k - 1 + j] = new[j]
             /\ \A j \in (k + 1) .. Len(s) : r[j + Len(new) - 1] = s[j]
<1> DEFINE a == SubSeq(s, 1, k - 1)
           c == SubSeq(s, k + 1, Len(s))
           ab == a \o new
           r == Splice(s, k, new)
<1>1. Len(s) \in Nat /\ Len(new) \in Nat
  OBVIOUS
<1>2. a \in Seq(S) /\ Len(a) = k - 1 /\ \A j \in 1 .. (k - 1) : a[j] = s[j]
  BY <1>1
<1>3. c \in Seq(S) /\ Len(c) = Len(s) - k /\ \A j \in 1 .. (Len(s) - k) : c[j] = s[k + j]
  BY <1>1
<1> HIDE DEF a, c
<1>4. /\ ab \in Seq(S) /\ Len(ab) = k - 1 + Len(new) /\ \A j \in 1 .. (k - 1) : ab[j] = s[j]
      /\ \A j \in 1 .. Len(new) : ab[k - 1 + j] = new[j]
  <2>1. PICK p \in Nat : p = k - 1 /\ Len(a) = p
    BY <1>1, <1>2
  <2>2. ab \in Seq(S) /\ Len(ab) = p + Len(new)
    BY <1>2, <2>1, JoinFacts
  <2>3. \A j \in 1 .. p : ab[j] = a[j]
    BY <1>2, <2>1, JoinFacts
  <2>4. \A j \in 1 .. Len(new) : ab[p + j] = new[j]
    BY <1>2, <2>1, JoinFacts
  <2> QED
    BY <1>2, <2>1, <2>2, <2>3, <2>4
<1> HIDE DEF ab
<1>5. r = ab \o c
  BY DEF Splice, ab, a, c
<1>6. r \in Seq(S) /\ Len(r) = Len(s) + Len(new) - 1
  <2>1. r \in Seq(S) /\ Len(r) = Len(ab) + Len(c)
    BY <1>3, <1>4, <1>5, JoinFacts
  <2> QED
    BY <1>1, <1>3, <1>4, <2>1
<1>7. \A j \in 1 .. Len(ab) : r[j] = ab[j]
  BY <1>3, <1>4, <1>5, JoinFacts, SMTT(30)
<1>8. \A j \in 1 .. Len(c) : r[Len(ab) + j] = c[j]
  BY <1>3, <1>4, <1>5, JoinFacts, SMTT(30)
<1> HIDE DEF r
<1>9. ASSUME NEW j \in (k + 1) .. Len(s) PROVE r[j + Len(new) - 1] = s[j]
  <2>1. j - k \in 1 .. Len(c) /\ Len(ab) + (j - k) = j + Len(new) - 1 /\ k + (j - k) = j
    BY <1>1, <1>3, <1>4
  <2> QED
    BY <1>3, <1>8, <2>1
<1>10. DOMAIN r = 1 .. Len(r)
  BY <1>6
<1>11. \A j \in 1 .. (k - 1) : r[j] = s[j]
  <2>1. \A j \in 1 .. (k - 1) : j \in 1 .. Len(ab)
    BY <1>1, <1>4
  <2> QED
    BY <1>4, <1>7, <2>1
<1>12. \A j \in 1 .. Len(new) : r[k - 1 + j] = new[j]
  <2>1. \A j \in 1 .. Len(new) : k - 1 + j \in 1 .. Len(ab)
    BY <1>1, <1>4
  <2> QED
    BY <1>4, <1>7, <2>1
<1>13. \A j \in (k + 1) .. Len(s) : r[j + Len(new) - 1] = s[j]
  BY <1>9
<1> QED
  BY <1>6, <1>10, <1>11, <1>12, <1>13 DEF r

LEMMA RemoveIsSplice ==
  ASSUME NEW S, NEW s \in Seq(S), NEW k \in 1 .. Len(s)
  PROVE  RemoveAt(s, k) = Splice(s, k, <<>>)
<1>1. SubSeq(s, 1, k - 1) \in Seq(S) /\ SubSeq(s, k + 1, Len(s)) \in Seq(S)
  OBVIOUS
<1>2. SubSeq(s, 1, k - 1) \o <<>> = SubSeq(s, 1, k - 1)
  BY <1>1
<1> QED
  BY <1>2 DEF RemoveAt, Splice

-----------------------------------------------------------------------------
(* Where what an instruction needs has been computed. *)

\* Everything computed in front of the k-th instruction of code is in front of the
\* i-th of code2.
Covers(code2, i, code, k) ==
  \A j \in 1 .. (k - 1) : \E h \in 1 .. (i - 1) :
    code2[h].id = code[j].id /\ code2[h].width = code[j].width

LEMMA WidthKept ==
  ASSUME NEW P, NEW code, NEW k, NEW code2, NEW i, NEW v, NEW w, Covers(code2, i, code, k),
         isOfWidth(P, code, k, v, w)
  PROVE  isOfWidth(P, code2, i, v, w)
BY DEF Covers, isOfWidth, Val

\* The i-th instruction of code2 has operands of the widths of those of the k-th of code.
Supplied(P, code, k, code2, i) ==
  \A j \in DOMAIN code[k].args : \A w :
    isOfWidth(P, code, k, code[k].args[j], w) => isOfWidth(P, code2, i, code2[i].args[j], w)

LEMMA FitsKept ==
  ASSUME NEW P, NEW code, NEW k, NEW code2, NEW i, NEW J \in Instructions,
         NEW K \in Instructions, J = code[k], K = code2[i], fits(P, code, k),
         K.op = J.op, K.from = J.from, K.width = J.width, Len(K.args) = Len(J.args),
         Supplied(P, code, k, code2, i)
  PROVE  fits(P, code2, i)
<1>1. operandWidths(K) = operandWidths(J) /\ (hasResultType(J) => hasResultType(K))
  BY DEF operandWidths, hasResultType
<1>2. DOMAIN K.args = DOMAIN J.args
  BY InstructionFacts
<1>3. /\ hasResultType(J) /\ Len(J.args) = Len(operandWidths(J))
      /\ \A j \in DOMAIN J.args : isOfWidth(P, code, k, J.args[j], operandWidths(J)[j])
  BY DEF fits
<1>4. ASSUME NEW j \in DOMAIN K.args
      PROVE  isOfWidth(P, code2, i, K.args[j], operandWidths(K)[j])
  <2>1. j \in DOMAIN code[k].args /\ isOfWidth(P, code, k, code[k].args[j], operandWidths(J)[j])
    BY <1>2, <1>3
  <2> QED
    BY <1>1, <2>1, Zenon DEF Supplied
<1> QED
  BY <1>1, <1>3, <1>4 DEF fits

LEMMA SuppliedByCover ==
  ASSUME NEW P, NEW code, NEW k, NEW code2, NEW i, Covers(code2, i, code, k),
         code2[i] = code[k]
  PROVE  Supplied(P, code, k, code2, i)
BY WidthKept DEF Supplied

LEMMA WellFormedMeans ==
  ASSUME NEW P, NEW code, isWellFormed(P, code)
  PROVE  /\ P \in Seq(Widths) /\ code \in Seq(Instructions) /\ Len(code) \in Nat \ {0}
         /\ DOMAIN code = 1 .. Len(code) /\ DOMAIN P = 1 .. Len(P) /\ Len(P) \in Nat
         /\ \A k \in 1 .. Len(code) :
              /\ code[k] \in Instructions /\ (code[k].op = "ret" <=> k = Len(code))
              /\ code[k].id > Len(P) /\ fits(P, code, k)
         /\ \A k, j \in 1 .. Len(code) : code[j].id = code[k].id => j = k
<1>1. P \in Seq(Widths) /\ code \in Seq(Instructions) /\ code # <<>>
  BY DEF isWellFormed
<1>2. Len(code) \in Nat \ {0} /\ DOMAIN code = 1 .. Len(code) /\ DOMAIN P = 1 .. Len(P)
  BY <1>1
<1>3. \A k \in DOMAIN code :
        /\ code[k].op = "ret" <=> k = Len(code)
        /\ code[k].id > Len(P)
        /\ \A j \in DOMAIN code : code[j].id = code[k].id => j = k
        /\ fits(P, code, k)
  BY DEF isWellFormed
<1>4. \A k \in 1 .. Len(code) : code[k] \in Instructions
  BY <1>1
<1>5. Len(P) \in Nat
  BY <1>1
<1> QED
  BY <1>1, <1>2, <1>3, <1>4, <1>5

\* An operand that is not the result of the k-th instruction stays what it is, and no
\* earlier instruction has that one as an operand.
LEMMA OperandsBefore ==
  ASSUME NEW P, NEW code, isWellFormed(P, code), NEW k \in 1 .. Len(code),
         NEW j \in 1 .. k, NEW v, NEW w, isOfWidth(P, code, j, v, w)
  PROVE  v # Val(code[k].id)
<1> SUFFICES ASSUME v = Val(code[k].id) PROVE FALSE
  OBVIOUS
<1>1. v.is = "value" /\ v.n = code[k].id /\ code[k].id > Len(P) /\ code[k] \in Instructions
  BY WellFormedMeans DEF Val
<1>2. ~IsConst(v) /\ ~IsPoison(v)
  BY <1>1 DEF IsConst, IsPoison
<1>3. v.n \notin DOMAIN P
  BY <1>1, WellFormedMeans, InstructionFacts
<1>4. PICK i \in 1 .. (j - 1) : v = Val(code[i].id)
  BY <1>2, <1>3 DEF isOfWidth
<1>5. code[i].id = code[k].id /\ i \in 1 .. Len(code) /\ i # k
  BY <1>4, WellFormedMeans DEF Val
<1> QED
  BY <1>5, WellFormedMeans

\* The k-th instruction of code can give way to the instructions new, and its result
\* to the value v.
Replaceable(P, code, k, v, new) ==
  LET mid == SubSeq(code, 1, k - 1) \o new
  IN  /\ \A i \in 1 .. Len(new) :
           /\ new[i].op # "ret" /\ new[i].id > Len(P)
           /\ \A j \in 1 .. Len(code) : code[j].id # new[i].id
           /\ \A j \in 1 .. Len(new) : new[j].id = new[i].id => j = i
           /\ fits(P, mid, k - 1 + i)
      /\ isOfWidth(P, mid, k + Len(new), v, code[k].width)

LEMMA ReplaceUsesFacts ==
  ASSUME NEW code \in Seq(Instructions), NEW id, NEW v \in Operands
  PROVE  LET R == ReplaceUses(code, id, v)
         IN  /\ R \in Seq(Instructions) /\ Len(R) = Len(code)
             /\ \A j \in 1 .. Len(code) :
                  /\ R[j].op = code[j].op /\ R[j].id = code[j].id
                  /\ R[j].from = code[j].from /\ R[j].width = code[j].width
                  /\ Len(R[j].args) = Len(code[j].args)
                  /\ \A i \in DOMAIN code[j].args :
                       R[j].args[i] = IF code[j].args[i] = Val(id) THEN v ELSE code[j].args[i]
                  /\ (\A i \in DOMAIN code[j].args : code[j].args[i] # Val(id)) => R[j] = code[j]
<1> DEFINE R == ReplaceUses(code, id, v)
           new(J) == [i \in DOMAIN J.args |-> IF J.args[i] = Val(id) THEN v ELSE J.args[i]]
           Changed(K, J) == K = [J EXCEPT !.args = new(J)]
<1>1. Len(code) \in Nat /\ DOMAIN code = 1 .. Len(code) /\ \A j \in 1 .. Len(code) : code[j] \in Instructions
  OBVIOUS
<1>2. R = [j \in 1 .. Len(code) |-> [code[j] EXCEPT !.args = new(code[j])]]
  BY <1>1 DEF ReplaceUses
<1>3. ASSUME NEW J \in Instructions, NEW K, Changed(K, J)
      PROVE  /\ K \in Instructions /\ K.op = J.op /\ K.id = J.id /\ K.from = J.from
             /\ K.width = J.width /\ Len(K.args) = Len(J.args)
             /\ \A i \in DOMAIN J.args :
                  K.args[i] = IF J.args[i] = Val(id) THEN v ELSE J.args[i]
             /\ (\A i \in DOMAIN J.args : J.args[i] # Val(id)) => K = J
  <2>1. /\ J.op \in Ops /\ J.id \in Nat /\ J.from \in Widths /\ J.width \in Widths \cup {0}
        /\ J.args \in Seq(Operands) /\ DOMAIN J.args = 1 .. Len(J.args) /\ Len(J.args) \in Nat
        /\ J = [op |-> J.op, id |-> J.id, from |-> J.from, width |-> J.width, args |-> J.args]
    BY InstructionFacts
  <2> DEFINE A == new(J)
  <2>2. A \in [1 .. Len(J.args) -> Operands]
    BY <2>1
  <2>3. A \in Seq(Operands) /\ Len(A) = Len(J.args)
    BY <2>1, <2>2
  <2>4. \A i \in DOMAIN J.args : A[i] = IF J.args[i] = Val(id) THEN v ELSE J.args[i]
    OBVIOUS
  <2>5. (\A i \in DOMAIN J.args : J.args[i] # Val(id)) => A = J.args
    BY <2>1
  <2>i. K = [J EXCEPT !.args = A]
    BY <1>3
  <2> HIDE DEF A
  <2>6. K = [op |-> J.op, id |-> J.id, from |-> J.from, width |-> J.width, args |-> A]
    BY <2>1, <2>i
  <2>7. K \in Instructions
    BY <2>1, <2>3, <2>6 DEF Instructions
  <2>8. /\ K.op = J.op /\ K.id = J.id /\ K.from = J.from
        /\ K.width = J.width /\ K.args = A
    BY <2>6
  <2>9. A = J.args => K = J
    BY <2>1, <2>6
  <2>10. /\ K \in Instructions /\ K.op = J.op /\ K.id = J.id /\ K.from = J.from
         /\ K.width = J.width /\ Len(K.args) = Len(J.args)
         /\ \A i \in DOMAIN J.args :
              K.args[i] = IF J.args[i] = Val(id) THEN v ELSE J.args[i]
         /\ (\A i \in DOMAIN J.args : J.args[i] # Val(id)) => K = J
    BY <2>3, <2>4, <2>5, <2>7, <2>8, <2>9
  <2> QED
    BY <2>10 DEF A
<1> HIDE DEF new
<1>4. \A j \in 1 .. Len(code) : Changed(R[j], code[j])
  BY <1>2
<1> HIDE DEF Changed
<1>5. R \in [1 .. Len(code) -> Instructions]
  <2>1. ASSUME NEW j \in 1 .. Len(code) PROVE R[j] \in Instructions
    BY <1>1, <1>3, <1>4
  <2> QED
    BY <1>2, <2>1
<1>6. R \in Seq(Instructions) /\ Len(R) = Len(code)
  BY <1>1, <1>5
<1> HIDE DEF R
<1>7. ASSUME NEW j \in 1 .. Len(code)
      PROVE  /\ R[j].op = code[j].op /\ R[j].id = code[j].id
             /\ R[j].from = code[j].from /\ R[j].width = code[j].width
             /\ Len(R[j].args) = Len(code[j].args)
             /\ \A i \in DOMAIN code[j].args :
                  R[j].args[i] = IF code[j].args[i] = Val(id) THEN v ELSE code[j].args[i]
             /\ (\A i \in DOMAIN code[j].args : code[j].args[i] # Val(id)) => R[j] = code[j]
  <2>1. PICK J \in Instructions : J = code[j]
    BY <1>1
  <2>2. PICK K : K = R[j] /\ Changed(K, J)
    BY <1>4, <2>1
  <2>3. /\ K.op = J.op /\ K.id = J.id /\ K.from = J.from
        /\ K.width = J.width /\ Len(K.args) = Len(J.args)
        /\ \A i \in DOMAIN J.args :
             K.args[i] = IF J.args[i] = Val(id) THEN v ELSE J.args[i]
        /\ (\A i \in DOMAIN J.args : J.args[i] # Val(id)) => K = J
    BY <1>3, <2>2
  <2> QED
    BY <2>1, <2>2, <2>3
<1> QED
  BY <1>6, <1>7 DEF R

LEMMA SpliceWellFormed ==
  ASSUME NEW P, NEW code, isWellFormed(P, code), NEW k \in 1 .. Len(code),
         code[k].op # "ret", NEW v \in Operands, NEW new \in Seq(Instructions),
         Replaceable(P, code, k, v, new)
  PROVE  isWellFormed(P, Splice(ReplaceUses(code, code[k].id, v), k, new))
<1> DEFINE id == code[k].id
           R == ReplaceUses(code, id, v)
           r == Splice(R, k, new)
           mid == SubSeq(code, 1, k - 1) \o new
           n == Len(code)
           m == Len(new)
<1>1. /\ P \in Seq(Widths) /\ code \in Seq(Instructions) /\ n \in Nat \ {0}
      /\ \A j \in 1 .. n : /\ code[j] \in Instructions /\ (code[j].op = "ret" <=> j = n)
                           /\ code[j].id > Len(P) /\ fits(P, code, j)
      /\ \A i, j \in 1 .. n : code[j].id = code[i].id => j = i
  BY WellFormedMeans
<1>2. /\ R \in Seq(Instructions) /\ Len(R) = n
      /\ \A j \in 1 .. n :
           /\ R[j].op = code[j].op /\ R[j].id = code[j].id
           /\ R[j].from = code[j].from /\ R[j].width = code[j].width
           /\ Len(R[j].args) = Len(code[j].args)
           /\ \A i \in DOMAIN code[j].args :
                R[j].args[i] = IF code[j].args[i] = Val(id) THEN v ELSE code[j].args[i]
           /\ (\A i \in DOMAIN code[j].args : code[j].args[i] # Val(id)) => R[j] = code[j]
  BY <1>1, ReplaceUsesFacts
<1>3. m \in Nat /\ k \in 1 .. n
  OBVIOUS
<1> HIDE DEF R
<1>4. /\ r \in Seq(Instructions) /\ Len(r) = n + m - 1 /\ DOMAIN r = 1 .. (n + m - 1)
      /\ \A j \in 1 .. (k - 1) : r[j] = R[j]
      /\ \A j \in 1 .. m : r[k - 1 + j] = new[j]
      /\ \A j \in (k + 1) .. n : r[j + m - 1] = R[j]
  BY <1>2, <1>3, SpliceFacts
<1> HIDE DEF r
<1>5. /\ \A i \in 1 .. m :
           /\ new[i].op # "ret" /\ new[i].id > Len(P)
           /\ \A j \in 1 .. n : code[j].id # new[i].id
           /\ \A j \in 1 .. m : new[j].id = new[i].id => j = i
           /\ fits(P, mid, k - 1 + i)
      /\ isOfWidth(P, mid, k + m, v, code[k].width)
  BY DEF Replaceable
<1>6. /\ \A j \in 1 .. (k - 1) : mid[j] = code[j]
      /\ \A j \in 1 .. m : mid[k - 1 + j] = new[j]
  <2> DEFINE a == SubSeq(code, 1, k - 1)
  <2>1. a \in Seq(Instructions) /\ Len(a) = k - 1 /\ \A j \in 1 .. (k - 1) : a[j] = code[j]
    BY <1>1, <1>3
  <2> HIDE DEF a
  <2>2. PICK p \in Nat : p = k - 1
    BY <1>3
  <2>3. Len(a) = p /\ mid = a \o new
    BY <2>1, <2>2 DEF a
  <2> HIDE DEF mid
  <2>4. \A j \in 1 .. p : mid[j] = a[j]
    BY <1>3, <2>1, <2>3
  <2>5. \A j \in 1 .. m : mid[p + j] = new[j]
    BY <1>3, <2>1, <2>3
  <2> QED
    BY <2>1, <2>2, <2>4, <2>5
<1> HIDE DEF mid
<1>7. \A j \in 1 .. (k - 1) : r[j] = code[j]
  <2>1. ASSUME NEW j \in 1 .. (k - 1), NEW i \in DOMAIN code[j].args
        PROVE  code[j].args[i] # Val(id)
    <3>1. j \in 1 .. n /\ j \in 1 .. k
      BY <1>3
    <3>2. isOfWidth(P, code, j, code[j].args[i], operandWidths(code[j])[i])
      BY <1>1, <3>1 DEF fits
    <3> QED
      BY <3>1, <3>2, OperandsBefore
  <2>2. \A j \in 1 .. (k - 1) : j \in 1 .. n
    BY <1>3
  <2> QED
    BY <1>2, <1>4, <2>1, <2>2
<1>8. \A j \in 1 .. (k - 1 + m) : r[j] = mid[j]
  <2>1. ASSUME NEW j \in 1 .. (k - 1 + m) PROVE r[j] = mid[j]
    <3>1. CASE j \in 1 .. (k - 1)
      BY <1>6, <1>7, <3>1
    <3>2. CASE j \notin 1 .. (k - 1)
      <4>1. j - (k - 1) \in 1 .. m /\ k - 1 + (j - (k - 1)) = j
        BY <1>3, <3>2
      <4>2. PICK h \in 1 .. m : k - 1 + h = j
        BY <4>1
      <4>3. r[j] = new[h]
        BY <1>4, <4>2
      <4>4. mid[j] = new[h]
        BY <1>6, <4>2
      <4> QED
        BY <4>3, <4>4
    <3> QED
      BY <3>1, <3>2
  <2> QED
    BY <2>1
<1>9. \A j \in 1 .. (k + m) : \A i \in 1 .. (n + m) : j <= i => Covers(r, i, mid, j)
  BY <1>3, <1>8 DEF Covers
<1>10. ASSUME NEW j \in (k + 1) .. n, NEW u, NEW w, isOfWidth(P, code, j, u, w), u # Val(id)
       PROVE  isOfWidth(P, r, j + m - 1, u, w)
  <2>1. CASE \/ IsConst(u) /\ u.n < Size(w)
             \/ IsPoison(u)
             \/ u.is = "value" /\ u.n \in DOMAIN P /\ P[u.n] = w
    BY <2>1 DEF isOfWidth
  <2>2. CASE \E i \in 1 .. (j - 1) : u = Val(code[i].id) /\ code[i].width = w
    <3>1. PICK i \in 1 .. (j - 1) : u = Val(code[i].id) /\ code[i].width = w
      BY <2>2
    <3>2. i # k /\ i \in 1 .. n
      BY <1>10, <3>1
    <3>3. CASE i \in 1 .. (k - 1)
      <4>1. r[i] = code[i] /\ i \in 1 .. (j + m - 1 - 1)
        BY <1>3, <1>7, <3>3
      <4> QED
        BY <3>1, <4>1 DEF isOfWidth
    <3>4. CASE i \in (k + 1) .. n
      <4>1. r[i + m - 1] = R[i] /\ i + m - 1 \in 1 .. (j + m - 1 - 1)
        BY <1>3, <1>4, <3>1, <3>4, SMTT(30)
      <4>2. R[i].id = code[i].id /\ R[i].width = code[i].width
        BY <1>2, <3>2
      <4> QED
        BY <3>1, <4>1, <4>2 DEF isOfWidth
    <3> QED
      BY <1>3, <3>2, <3>3, <3>4
  <2> QED
    BY <1>10, <2>1, <2>2 DEF isOfWidth
<1>11. ASSUME NEW j \in (k + 1) .. n, NEW w, isOfWidth(P, code, j, Val(id), w)
       PROVE  isOfWidth(P, r, j + m - 1, v, w)
  <2>1. w = code[k].width
    <3>1. Val(id).is = "value" /\ Val(id).n = id
      BY DEF Val
    <3>2. ~IsConst(Val(id)) /\ ~IsPoison(Val(id))
      BY <3>1 DEF IsConst, IsPoison
    <3>3. id \notin DOMAIN P
      BY <1>1, <1>3, InstructionFacts, WellFormedMeans
    <3>4. PICK i \in 1 .. (j - 1) : Val(id) = Val(code[i].id) /\ code[i].width = w
      BY <1>11, <3>1, <3>2, <3>3 DEF isOfWidth
    <3>5. code[i].id = code[k].id /\ i \in 1 .. n
      BY <1>3, <3>4 DEF Val
    <3> QED
      BY <1>1, <1>3, <3>4, <3>5
  <2>2. Covers(r, j + m - 1, mid, k + m)
    <3>1. j + m - 1 \in 1 .. (n + m) /\ k + m \in 1 .. (k + m) /\ k + m <= j + m - 1
      BY <1>3
    <3> QED
      BY <1>9, <3>1
  <2> QED
    BY <1>5, <2>1, <2>2, WidthKept
<1>12. ASSUME NEW i \in 1 .. (n + m - 1)
       PROVE  /\ r[i].op = "ret" <=> i = n + m - 1
              /\ r[i].id > Len(P) /\ fits(P, r, i)
  <2>1. CASE i \in 1 .. (k - 1 + m)
    <3>1. r[i] = mid[i] /\ r[i] \in Instructions /\ mid[i] \in Instructions
      BY <1>4, <1>8, <2>1
    <3>2. Covers(r, i, mid, i)
      BY <1>3, <1>9, <2>1
    <3>3. fits(P, mid, i) /\ r[i].op # "ret" /\ r[i].id > Len(P) /\ i # n + m - 1
      <4>1. CASE i \in 1 .. (k - 1)
        <5>1. r[i] = code[i] /\ i \in 1 .. n /\ i # n /\ code[i] \in Instructions
          BY <1>1, <1>3, <1>7, <4>1
        <5>2. fits(P, code, i) /\ code[i].op # "ret" /\ code[i].id > Len(P)
          BY <1>1, <5>1
        <5>3. Covers(mid, i, code, i) /\ mid[i] = code[i]
          <6>1. \A j \in 1 .. (i - 1) : mid[j] = code[j] /\ j \in 1 .. (i - 1)
            BY <1>6, <4>1, <1>3
          <6> QED
            BY <1>6, <4>1, <6>1 DEF Covers
        <5>4. fits(P, mid, i)
          BY <3>1, <5>1, <5>2, <5>3, FitsKept, SuppliedByCover
        <5>5. i # n + m - 1
          <6>1. k # n
            BY <1>1, <1>3
          <6> QED
            BY <1>3, <4>1, <6>1
        <5> QED
          BY <5>1, <5>2, <5>4, <5>5
      <4>2. CASE i \notin 1 .. (k - 1)
        <5>1. i - (k - 1) \in 1 .. m /\ k - 1 + (i - (k - 1)) = i
          BY <1>3, <2>1, <4>2
        <5>2. PICK h \in 1 .. m : k - 1 + h = i
          BY <5>1
        <5>3. r[i] = new[h]
          BY <1>4, <5>2
        <5>4. k # n
          BY <1>1, <1>3
        <5>5. new[h].op # "ret" /\ new[h].id > Len(P) /\ fits(P, mid, k - 1 + h)
          BY <1>5
        <5>6. fits(P, mid, i)
          BY <5>2, <5>5
        <5>7. i # n + m - 1
          BY <1>3, <2>1, <5>4
        <5> QED
          BY <5>3, <5>5, <5>6, <5>7
      <4> QED
        BY <4>1, <4>2
    <3>4. fits(P, r, i)
      BY <3>1, <3>2, <3>3, FitsKept, SuppliedByCover
    <3> QED
      BY <3>3, <3>4
  <2>2. CASE i \notin 1 .. (k - 1 + m)
    <3>1. i - m + 1 \in (k + 1) .. n /\ (i - m + 1) + m - 1 = i
      BY <1>3, <2>2
    <3>2. PICK j \in (k + 1) .. n : j + m - 1 = i
      BY <3>1
    <3>3. r[i] = R[j] /\ j \in 1 .. n /\ (j = n <=> i = n + m - 1)
      BY <1>3, <1>4, <3>2, SMTT(30)
    <3>4. /\ R[j].op = code[j].op /\ R[j].id = code[j].id /\ code[j] \in Instructions
          /\ R[j].from = code[j].from /\ R[j].width = code[j].width /\ R[j] \in Instructions
          /\ Len(R[j].args) = Len(code[j].args) /\ fits(P, code, j)
      BY <1>1, <1>2, <3>3
    <3>5. \A h \in DOMAIN code[j].args :
            R[j].args[h] = IF code[j].args[h] = Val(id) THEN v ELSE code[j].args[h]
      BY <1>2, <3>3
    <3>6. \A h \in DOMAIN code[j].args : \A w :
            isOfWidth(P, code, j, code[j].args[h], w) => isOfWidth(P, r, i, R[j].args[h], w)
      BY <1>10, <1>11, <3>2, <3>5
    <3>7. fits(P, r, i)
      <4>1. PICK J \in Instructions, K \in Instructions : J = code[j] /\ K = R[j]
        BY <3>4
      <4>2. K = r[i] /\ fits(P, code, j)
        BY <3>3, <3>4, <4>1
      <4>3. K.op = J.op /\ K.from = J.from /\ K.width = J.width /\ Len(K.args) = Len(J.args)
        BY <3>4, <4>1
      <4>4. Supplied(P, code, j, r, i)
        BY <3>3, <3>6 DEF Supplied
      <4> QED
        BY <4>1, <4>2, <4>3, <4>4, FitsKept
    <3> QED
      BY <1>1, <3>3, <3>4, <3>7
  <2> QED
    BY <2>1, <2>2
<1>13. ASSUME NEW i \in 1 .. (n + m - 1), NEW j \in 1 .. (n + m - 1), r[j].id = r[i].id
       PROVE  j = i
  <2> DEFINE old(x) == IF x < k THEN x ELSE x - m + 1
             isNew(x) == x \in k .. (k - 1 + m)
  <2>1. ASSUME NEW x \in 1 .. (n + m - 1), ~isNew(x)
        PROVE  /\ old(x) \in 1 .. n /\ r[x].id = code[old(x)].id
               /\ \/ x < k /\ old(x) = x
                  \/ x >= k + m /\ old(x) = x - m + 1
    <3>1. CASE x < k
      <4>1. old(x) = x
        BY <3>1
      <4>2. x \in 1 .. (k - 1) /\ x \in 1 .. n
        BY <1>3, <3>1
      <4>3. r[x] = code[x]
        BY <1>7, <4>2
      <4>4. old(x) \in 1 .. n /\ r[x].id = code[old(x)].id
        <5> HIDE DEF old
        <5> QED
          BY <4>1, <4>2, <4>3
      <4> QED
        BY <3>1, <4>1, <4>4
    <3>2. CASE ~(x < k)
      <4>1. x >= k + m /\ x - m + 1 \in (k + 1) .. n /\ (x - m + 1) + m - 1 = x
        BY <1>3, <2>1, <3>2
      <4>2. PICK y \in (k + 1) .. n : y = x - m + 1 /\ y + m - 1 = x
        BY <4>1
      <4>3. y \in 1 .. n
        BY <1>3, <4>2
      <4>4. r[x] = R[y]
        BY <1>4, <4>2
      <4>5. R[y].id = code[y].id
        BY <1>2, <4>3
      <4>6. old(x) = y
        BY <3>2, <4>2
      <4> HIDE DEF old
      <4> QED
        BY <4>1, <4>2, <4>3, <4>4, <4>5, <4>6
    <3> QED
      BY <3>1, <3>2
  <2>2. ASSUME NEW x \in 1 .. (n + m - 1), isNew(x)
        PROVE  x - k + 1 \in 1 .. m /\ r[x] = new[x - k + 1]
    <3>1. PICK h \in 1 .. m : h = x - k + 1 /\ k - 1 + h = x
      BY <1>3, <2>2
    <3> QED
      BY <1>4, <3>1
  <2>3. CASE isNew(i) /\ isNew(j)
    <3>1. PICK h \in 1 .. m : h = i - k + 1 /\ r[i] = new[h]
      BY <2>2, <2>3
    <3>2. PICK g \in 1 .. m : g = j - k + 1 /\ r[j] = new[g]
      BY <2>2, <2>3
    <3>3. new[g].id = new[h].id
      BY <1>13, <3>1, <3>2
    <3>4. g = h
      BY <1>5, <3>3
    <3> HIDE DEF isNew
    <3> QED
      BY <1>3, <3>1, <3>2, <3>4
  <2>4. CASE isNew(i) /\ ~isNew(j)
    <3>1. PICK h \in 1 .. m, g \in 1 .. n : r[i] = new[h] /\ r[j].id = code[g].id
      BY <2>1, <2>2, <2>4
    <3> QED
      BY <1>5, <1>13, <3>1
  <2>5. CASE ~isNew(i) /\ isNew(j)
    <3>1. PICK h \in 1 .. m, g \in 1 .. n : r[j] = new[h] /\ r[i].id = code[g].id
      BY <2>1, <2>2, <2>5
    <3> QED
      BY <1>5, <1>13, <3>1
  <2>6. CASE ~isNew(i) /\ ~isNew(j)
    <3>1. old(i) = old(j)
      <4> HIDE DEF old, isNew
      <4>1. code[old(i)].id = code[old(j)].id /\ old(i) \in 1 .. n /\ old(j) \in 1 .. n
        BY <1>13, <2>1, <2>6
      <4> QED
        BY <1>1, <4>1
    <3> QED
      BY <1>3, <2>1, <2>6, <3>1
  <2> QED
    BY <2>3, <2>4, <2>5, <2>6
<1>14. r # <<>>
  <2>1. n + m - 1 > 0
    <3>1. k # n
      BY <1>1, <1>3
    <3> QED
      BY <1>3, <3>1
  <2> QED
    BY <1>4, <2>1
<1>15. isWellFormed(P, r)
  BY <1>1, <1>4, <1>12, <1>13, <1>14 DEF isWellFormed
<1> QED
  BY <1>15 DEF r, R

LEMMA RemoveWellFormed ==
  ASSUME NEW P, NEW code, isWellFormed(P, code), NEW k \in 1 .. Len(code),
         code[k].op # "ret", NEW v \in Operands, isOfWidth(P, code, k, v, code[k].width)
  PROVE  isWellFormed(P, RemoveAt(ReplaceUses(code, code[k].id, v), k))
<1> DEFINE R == ReplaceUses(code, code[k].id, v)
           mid == SubSeq(code, 1, k - 1) \o <<>>
<1>1. code \in Seq(Instructions) /\ Len(code) \in Nat
  BY WellFormedMeans
<1>2. R \in Seq(Instructions) /\ Len(R) = Len(code)
  BY <1>1, ReplaceUsesFacts
<1>3. RemoveAt(R, k) = Splice(R, k, <<>>)
  <2> HIDE DEF R
  <2> QED
    BY <1>2, RemoveIsSplice
<1>4. Replaceable(P, code, k, v, <<>>)
  <2>1. Len(<<>>) = 0 /\ <<>> \in Seq(Instructions)
    OBVIOUS
  <2>2. \A j \in 1 .. (k - 1) : mid[j] = code[j]
    BY <1>1
  <2>3. Covers(mid, k + Len(<<>>), code, k)
    BY <1>1, <2>1, <2>2 DEF Covers
  <2>4. isOfWidth(P, mid, k + Len(<<>>), v, code[k].width)
    BY <2>3, WidthKept
  <2> QED
    BY <2>1, <2>4 DEF Replaceable
<1>5. <<>> \in Seq(Instructions)
  OBVIOUS
<1> QED
  BY <1>3, <1>4, <1>5, SpliceWellFormed

-----------------------------------------------------------------------------
(* Instructions that fit. *)

LEMMA ArithmeticFits ==
  ASSUME NEW P, NEW code, NEW k, NEW J \in Instructions, J = code[k], J.op \in Arithmetic,
         J.width = J.from, Len(J.args) = 2, isOfWidth(P, code, k, J.args[1], J.width),
         isOfWidth(P, code, k, J.args[2], J.width)
  PROVE  fits(P, code, k)
<1>1. J.op \notin Relations \cup Casts \cup {"ret", "select"}
  BY DEF Arithmetic, Divisions, Shifts, Relations, Casts
<1>2. operandWidths(J) = <<J.width, J.width>> /\ hasResultType(J)
  BY <1>1 DEF operandWidths, hasResultType, Casts
<1>3. DOMAIN J.args = 1 .. 2
  BY InstructionFacts
<1> QED
  BY <1>2, <1>3 DEF fits

\* K is the k-th instruction of code, or one that fits in its place.
Rewritten(P, code, k, K) ==
  /\ K \in Instructions /\ K.id = code[k].id /\ K.width = code[k].width
  /\ K.op = "ret" <=> code[k].op = "ret"
  /\ \/ K = code[k]
     \/ /\ K.op \in Arithmetic /\ K.width = K.from /\ Len(K.args) = 2
        /\ isOfWidth(P, code, k, K.args[1], K.width)
        /\ isOfWidth(P, code, k, K.args[2], K.width)

LEMMA PointwiseWellFormed ==
  ASSUME NEW P, NEW code, isWellFormed(P, code), NEW code2,
         code2 \in [DOMAIN code -> Instructions],
         \A k \in 1 .. Len(code) : Rewritten(P, code, k, code2[k])
  PROVE  isWellFormed(P, code2)
<1>1. /\ P \in Seq(Widths) /\ code \in Seq(Instructions) /\ Len(code) \in Nat \ {0}
      /\ \A k \in 1 .. Len(code) :
           /\ code[k] \in Instructions /\ (code[k].op = "ret" <=> k = Len(code))
           /\ code[k].id > Len(P) /\ fits(P, code, k)
      /\ \A k, j \in 1 .. Len(code) : code[j].id = code[k].id => j = k
  BY WellFormedMeans
<1>0. \A k \in 1 .. Len(code) :
        /\ code2[k] \in Instructions
        /\ code2[k].id = code[k].id /\ code2[k].width = code[k].width
        /\ code2[k].op = "ret" <=> code[k].op = "ret"
  BY DEF Rewritten
<1>2. /\ DOMAIN code2 = 1 .. Len(code) /\ Len(code2) = Len(code) /\ code2 # <<>>
      /\ code2 \in Seq(Instructions)
      /\ \A k \in 1 .. Len(code) : code2[k] \in Instructions
  <2>1. DOMAIN code = 1 .. Len(code)
    BY <1>1
  <2>2. code2 \in [1 .. Len(code) -> Instructions]
    BY <2>1
  <2>3. code2 \in Seq(Instructions)
    BY <1>1, <2>2
  <2>4. Len(code2) = Len(code) /\ DOMAIN code2 = 1 .. Len(code)
    BY <1>1, <2>2
  <2> QED
    BY <1>0, <1>1, <2>3, <2>4
<1>3. ASSUME NEW k \in 1 .. Len(code) PROVE fits(P, code2, k)
  <2>1. Covers(code2, k, code, k)
    BY <1>0, <1>1 DEF Covers
  <2>2. CASE code2[k] = code[k]
    <3>1. PICK J \in Instructions : J = code[k] /\ J = code2[k]
      BY <1>1, <2>2
    <3>2. Supplied(P, code, k, code2, k)
      BY <2>1, <2>2, SuppliedByCover
    <3>3. fits(P, code, k)
      BY <1>1
    <3> QED
      BY <3>1, <3>2, <3>3, FitsKept
  <2>3. CASE /\ code2[k].op \in Arithmetic /\ code2[k].width = code2[k].from
             /\ Len(code2[k].args) = 2
             /\ isOfWidth(P, code, k, code2[k].args[1], code2[k].width)
             /\ isOfWidth(P, code, k, code2[k].args[2], code2[k].width)
    <3>1. PICK J \in Instructions : J = code2[k]
      BY <1>2
    <3>2. \A v, w : isOfWidth(P, code, k, v, w) => isOfWidth(P, code2, k, v, w)
      BY <2>1, WidthKept
    <3>3. isOfWidth(P, code, k, J.args[1], J.width) /\ isOfWidth(P, code, k, J.args[2], J.width)
      BY <2>3, <3>1
    <3>4. isOfWidth(P, code2, k, J.args[1], J.width)
      BY <3>2, <3>3
    <3>5. isOfWidth(P, code2, k, J.args[2], J.width)
      BY <3>2, <3>3, Zenon
    <3> QED
      BY <2>3, <3>1, <3>4, <3>5, ArithmeticFits
  <2> QED
    BY <2>2, <2>3 DEF Rewritten
<1>4. \A k \in 1 .. Len(code) : code2[k].op = "ret" <=> k = Len(code2)
  BY <1>0, <1>1, <1>2
<1>5. \A k \in 1 .. Len(code) : code2[k].id > Len(P)
  BY <1>0, <1>1
<1>6. \A k, j \in 1 .. Len(code) : code2[j].id = code2[k].id => j = k
  BY <1>0, <1>1
<1> QED
  BY <1>1, <1>2, <1>3, <1>4, <1>5, <1>6 DEF isWellFormed

LEMMA SwapRewrites ==
  ASSUME NEW P, NEW code, NEW k, NEW J \in Instructions, J = code[k], fits(P, code, k),
         J.op \in Commutative, NEW K, K = [J EXCEPT !.args = <<J.args[2], J.args[1]>>]
  PROVE  Rewritten(P, code, k, K) /\ K.op = J.op
<1>1. J.op \in Arithmetic
  BY DEF Commutative, Arithmetic
<1>2. /\ J.width = J.from /\ Len(J.args) = 2 /\ isOfWidth(P, code, k, J.args[1], J.width)
      /\ isOfWidth(P, code, k, J.args[2], J.width)
  BY <1>1, FitsMeans
<1>3. /\ J.op \in Ops /\ J.id \in Nat /\ J.from \in Widths /\ J.width \in Widths \cup {0}
      /\ J.args[1] \in Operands /\ J.args[2] \in Operands
      /\ J = [op |-> J.op, id |-> J.id, from |-> J.from, width |-> J.width, args |-> J.args]
  BY <1>2, InstructionFacts
<1>4. K = [op |-> J.op, id |-> J.id, from |-> J.from, width |-> J.width,
           args |-> <<J.args[2], J.args[1]>>]
  BY <1>3
<1>5. <<J.args[2], J.args[1]>> \in Seq(Operands)
  BY <1>3
<1>6. K \in Instructions
  BY <1>3, <1>4, <1>5 DEF Instructions
<1> QED
  BY <1>1, <1>2, <1>4, <1>6 DEF Rewritten

LEMMA CanonicalRewrites ==
  ASSUME NEW P, NEW code, NEW k, NEW J \in Instructions, J = code[k], fits(P, code, k)
  PROVE  /\ Rewritten(P, code, k, Canonical(J, IsConst))
         /\ Rewritten(P, code, k, Canonical(J, IsConstant))
         /\ Canonical(J, IsConstant).op = J.op
         /\ J.op = "sub" => Canonical(J, IsConstant) = J
<1>1. Rewritten(P, code, k, J)
  BY DEF Rewritten
<1>2. CASE J.op \in Commutative
  <2>1. PICK K : K = [J EXCEPT !.args = <<J.args[2], J.args[1]>>]
    OBVIOUS
  <2>2. Rewritten(P, code, k, K) /\ K.op = J.op
    BY <1>2, <2>1, SwapRewrites
  <2>3. Canonical(J, IsConst) \in {J, K} /\ Canonical(J, IsConstant) \in {J, K}
    BY <2>1 DEF Canonical
  <2> QED
    BY <1>1, <1>2, <2>2, <2>3 DEF Commutative
<1>3. CASE J.op \notin Commutative
  BY <1>1, <1>3 DEF Canonical
<1> QED
  BY <1>2, <1>3

LEMMA AddInsteadRewrites ==
  ASSUME NEW P, NEW code, NEW k, NEW J \in Instructions, J = code[k], fits(P, code, k)
  PROVE  Rewritten(P, code, k, AddInstead(J))
<1>1. Rewritten(P, code, k, J)
  BY DEF Rewritten
<1>2. CASE J.op = "sub" /\ IsConstant(J.args[2])
  <2> DEFINE c == IF IsPoison(J.args[2]) THEN PoisonValue(J.id) ELSE Const(J.width, -J.args[2].n)
             K == [J EXCEPT !.op = "add", !.args = <<J.args[1], c>>]
  <2>1. J.op \in Arithmetic
    BY <1>2 DEF Arithmetic
  <2>2. /\ J.width = J.from /\ Len(J.args) = 2 /\ isOfWidth(P, code, k, J.args[1], J.width)
        /\ J.width \in Widths
    BY <2>1, FitsMeans, InstructionFacts
  <2>3. /\ J.id \in Nat /\ J.from \in Widths /\ J.args[1] \in Operands /\ J.args[2] \in Operands
        /\ J = [op |-> J.op, id |-> J.id, from |-> J.from, width |-> J.width, args |-> J.args]
    BY <2>2, InstructionFacts
  <2>4. c \in Operands /\ isOfWidth(P, code, k, c, J.width)
    <3>1. -J.args[2].n \in Int
      BY <2>3, OperandFacts
    <3> QED
      BY <2>2, <2>3, <3>1, ConstFacts, PoisonFacts
  <2> HIDE DEF c
  <2>5. K = [op |-> "add", id |-> J.id, from |-> J.from, width |-> J.width,
             args |-> <<J.args[1], c>>]
    <3>1. PICK d : d = <<J.args[1], c>>
      OBVIOUS
    <3>2. PICK o, i, f, w, a :
            /\ J = [op |-> o, id |-> i, from |-> f, width |-> w, args |-> a]
            /\ o = J.op /\ i = J.id /\ f = J.from /\ w = J.width /\ a = J.args
      BY <2>3
    <3>3. PICK q : q = [J EXCEPT !.op = "add"]
      OBVIOUS
    <3>4. q = [op |-> "add", id |-> i, from |-> f, width |-> w, args |-> a]
      BY <3>2, <3>3
    <3>5. [q EXCEPT !.args = d] = [op |-> "add", id |-> i, from |-> f, width |-> w, args |-> d]
      BY <3>4
    <3>6. K = [[J EXCEPT !.op = "add"] EXCEPT !.args = d]
      BY <3>1
    <3>7. K = [q EXCEPT !.args = d]
      BY <3>3, <3>6
    <3> QED
      BY <3>1, <3>2, <3>5, <3>7
  <2>6. <<J.args[1], c>> \in Seq(Operands) /\ "add" \in Ops /\ "add" \in Arithmetic
    BY <2>3, <2>4 DEF Ops, Arithmetic
  <2>7. K \in Instructions
    BY <2>2, <2>3, <2>5, <2>6 DEF Instructions
  <2>8. AddInstead(J) = K
    BY <1>2 DEF AddInstead, c
  <2>9. Rewritten(P, code, k, K)
    <3> HIDE DEF K
    <3>1. /\ K.op = "add" /\ K.id = J.id /\ K.from = J.from /\ K.width = J.width
          /\ Len(K.args) = 2 /\ K.args[1] = J.args[1] /\ K.args[2] = c
      BY <2>5
    <3> QED
      BY <1>2, <2>2, <2>4, <2>6, <2>7, <3>1 DEF Rewritten
  <2> QED
    BY <2>8, <2>9
<1>3. CASE ~(J.op = "sub" /\ IsConstant(J.args[2]))
  BY <1>1, <1>3 DEF AddInstead
<1> QED
  BY <1>2, <1>3

-----------------------------------------------------------------------------
(* Recursive functions over 0 .. n: they exist when the step stays in a set.*)

Iteration(g, n, z, f) == g[0] = z /\ \A k \in 1 .. n : g[k] = f[<<k, g[k - 1]>>]

LEMMA Iterates ==
  ASSUME NEW D, NEW z \in D, NEW f \in [Nat \X D -> D], NEW n \in Nat
  PROVE  \E g \in [0 .. n -> D] : Iteration(g, n, z, f)
<1> DEFINE Good(m, g) == g[0] = z /\ \A k \in 1 .. m : g[k] = f[<<k, g[k - 1]>>]
           T == {m \in Nat : \E g \in [0 .. m -> D] : Good(m, g)}
<1>1. 0 \in T
  <2>1. PICK g \in [0 .. 0 -> D] : g = [k \in 0 .. 0 |-> z]
    OBVIOUS
  <2>2. Good(0, g)
    BY <2>1
  <2> HIDE DEF Good
  <2> QED
    BY <2>2
<1>2. ASSUME NEW m \in Nat, m \in T PROVE m + 1 \in T
  <2>1. PICK g \in [0 .. m -> D] : Good(m, g)
    BY <1>2
  <2>2. f[<<m + 1, g[m]>>] \in D
    <3>1. g[m] \in D
      OBVIOUS
    <3> QED
      BY <3>1
  <2>3. PICK v \in D : v = f[<<m + 1, g[m]>>]
    BY <2>2
  <2>4. PICK h : h = [k \in 0 .. (m + 1) |-> IF k <= m THEN g[k] ELSE v]
    OBVIOUS
  <2>5. h \in [0 .. (m + 1) -> D] /\ h[m + 1] = v /\ \A k \in 0 .. m : h[k] = g[k]
    BY <2>4
  <2>6. h[0] = z
    BY <2>1, <2>5
  <2>7. ASSUME NEW k \in 1 .. (m + 1) PROVE h[k] = f[<<k, h[k - 1]>>]
    <3>1. CASE k = m + 1
      BY <2>3, <2>5, <3>1
    <3>2. CASE k \in 1 .. m
      <4>1. h[k] = g[k] /\ h[k - 1] = g[k - 1] /\ g[k] = f[<<k, g[k - 1]>>]
        BY <2>1, <2>5, <3>2
      <4> QED
        BY <4>1
    <3> QED
      BY <3>1, <3>2
  <2>8. Good(m + 1, h)
    BY <2>6, <2>7
  <2> HIDE DEF Good
  <2> QED
    BY <2>5, <2>8
<1>3. n \in T
  <2> HIDE DEF T
  <2> QED
    BY <1>1, <1>2, NatInd
<1> QED
  BY <1>3 DEF Iteration

LEMMA StaysIn ==
  ASSUME NEW D, NEW n \in Nat, NEW h, h[0] \in D,
         \A k \in 1 .. n : h[k - 1] \in D => h[k] \in D
  PROVE  \A k \in 0 .. n : h[k] \in D
<1> DEFINE T == {m \in Nat : m <= n => h[m] \in D}
<1>1. 0 \in T
  OBVIOUS
<1>2. ASSUME NEW m \in Nat, m \in T PROVE m + 1 \in T
  <2> SUFFICES ASSUME m + 1 <= n PROVE h[m + 1] \in D
    OBVIOUS
  <2>1. m + 1 \in 1 .. n /\ (m + 1) - 1 = m /\ m <= n
    OBVIOUS
  <2>2. h[m] \in D
    BY <1>2, <2>1
  <2> QED
    BY <2>1, <2>2
<1> HIDE DEF T
<1>3. Nat \subseteq T
  BY <1>1, <1>2, NatInd
<1> QED
  BY <1>3 DEF T

-----------------------------------------------------------------------------
(* DeadCodeElimination. *)

\* r is made of the elements of the first n of s that are in S, in their order: the i-th
\* comes from place[i].
Picks(r, place, s, n, S) ==
  /\ Len(r) \in Nat /\ place \in [1 .. Len(r) -> 1 .. n]
  /\ \A i \in 1 .. Len(r) : r[i] = s[place[i]] /\ s[place[i]] \in S
  /\ \A i, j \in 1 .. Len(r) : i < j => place[i] < place[j]
  /\ \A k \in 1 .. n : s[k] \in S => \E i \in 1 .. Len(r) : place[i] = k

LEMMA PicksNext ==
  ASSUME NEW X, NEW r \in Seq(X), NEW place, NEW s \in Seq(X), NEW n \in Nat, NEW S,
         n + 1 <= Len(s), Picks(r, place, s, n, S)
  PROVE  \E q : Picks(IF s[n + 1] \in S THEN Append(r, s[n + 1]) ELSE r, q, s, n + 1, S)
<1>1. /\ Len(r) \in Nat /\ place \in [1 .. Len(r) -> 1 .. n]
      /\ \A i \in 1 .. Len(r) : r[i] = s[place[i]] /\ s[place[i]] \in S
      /\ \A i, j \in 1 .. Len(r) : i < j => place[i] < place[j]
      /\ \A k \in 1 .. n : s[k] \in S => \E i \in 1 .. Len(r) : place[i] = k
  BY DEF Picks
<1>2. CASE s[n + 1] \in S
  <2>1. PICK t : t = Append(r, s[n + 1])
    OBVIOUS
  <2>2. PICK m \in Nat : m = Len(r)
    BY <1>1
  <2>3. s[n + 1] \in X
    OBVIOUS
  <2>4. Len(t) = m + 1 /\ t[m + 1] = s[n + 1] /\ \A i \in 1 .. m : t[i] = r[i]
    BY <2>1, <2>2, <2>3
  <2>5. PICK q : q = [i \in 1 .. (m + 1) |-> IF i <= m THEN place[i] ELSE n + 1]
    OBVIOUS
  <2>6. q \in [1 .. (m + 1) -> 1 .. (n + 1)] /\ q[m + 1] = n + 1 /\ \A i \in 1 .. m : q[i] = place[i]
    BY <1>1, <2>2, <2>5
  <2>7. \A i \in 1 .. (m + 1) : t[i] = s[q[i]] /\ s[q[i]] \in S
    BY <1>1, <1>2, <2>2, <2>4, <2>6
  <2>8. \A i, j \in 1 .. (m + 1) : i < j => q[i] < q[j]
    <3>1. ASSUME NEW i \in 1 .. (m + 1), NEW j \in 1 .. (m + 1), i < j PROVE q[i] < q[j]
      <4>1. i \in 1 .. m /\ q[i] = place[i] /\ place[i] \in 1 .. n
        BY <1>1, <2>2, <2>6, <3>1
      <4>2. CASE j = m + 1
        BY <2>6, <4>1, <4>2
      <4>3. CASE j \in 1 .. m
        BY <1>1, <2>2, <2>6, <3>1, <4>1, <4>3
      <4> QED
        BY <4>2, <4>3
    <3> QED
      BY <3>1
  <2>9. ASSUME NEW k \in 1 .. (n + 1), s[k] \in S PROVE \E i \in 1 .. (m + 1) : q[i] = k
    <3>1. CASE k = n + 1
      BY <2>6, <3>1
    <3>2. CASE k \in 1 .. n
      <4>1. PICK i \in 1 .. m : place[i] = k
        BY <1>1, <2>2, <2>9, <3>2
      <4>2. i \in 1 .. (m + 1) /\ q[i] = k
        BY <2>6, <4>1
      <4> QED
        BY <4>2
    <3> QED
      BY <3>1, <3>2
  <2>10. Picks(t, q, s, n + 1, S)
    BY <2>2, <2>4, <2>6, <2>7, <2>8, <2>9 DEF Picks
  <2> QED
    BY <1>2, <2>1, <2>10
<1>3. CASE s[n + 1] \notin S
  <2>1. place \in [1 .. Len(r) -> 1 .. (n + 1)]
    BY <1>1
  <2>2. \A k \in 1 .. (n + 1) : s[k] \in S => \E i \in 1 .. Len(r) : place[i] = k
    BY <1>1, <1>3
  <2>3. Picks(r, place, s, n + 1, S)
    BY <1>1, <2>1, <2>2 DEF Picks
  <2> QED
    BY <1>3, <2>3
<1> QED
  BY <1>2, <1>3

LEMMA KeptFacts ==
  ASSUME NEW X, NEW s \in Seq(X), NEW S
  PROVE  Kept(s, S) \in Seq(X) /\ \E place : Picks(Kept(s, S), place, s, Len(s), S)
<1> DEFINE Step(g, k) == IF k = 0 THEN <<>>
                         ELSE IF s[k] \in S THEN Append(g[k - 1], s[k]) ELSE g[k - 1]
           kept == CHOOSE g : g = [k \in 0 .. Len(s) |-> Step(g, k)]
           n == Len(s)
           f == [p \in Nat \X Seq(X) |->
                   IF p[1] \in 1 .. n /\ s[p[1]] \in S THEN Append(p[2], s[p[1]]) ELSE p[2]]
<1>1. n \in Nat /\ \A k \in 1 .. n : s[k] \in X
  OBVIOUS
<1>2. f \in [Nat \X Seq(X) -> Seq(X)]
  BY <1>1
<1>3. PICK g \in [0 .. n -> Seq(X)] : Iteration(g, n, <<>>, f)
  <2> HIDE DEF f
  <2>1. <<>> \in Seq(X)
    OBVIOUS
  <2> QED
    BY <1>1, <1>2, <2>1, Iterates
<1>4. \A k \in 0 .. n : g[k] = Step(g, k)
  <2>1. ASSUME NEW k \in 1 .. n PROVE g[k] = Step(g, k)
    <3>1. g[k - 1] \in Seq(X) /\ k \in Nat
      BY <1>1
    <3>2. f[<<k, g[k - 1]>>] = IF s[k] \in S THEN Append(g[k - 1], s[k]) ELSE g[k - 1]
      BY <3>1
    <3> HIDE DEF f
    <3> QED
      BY <1>3, <3>2 DEF Iteration
  <2>2. g[0] = Step(g, 0)
    BY <1>3 DEF Iteration
  <2> HIDE DEF Step
  <2> QED
    BY <1>1, <2>1, <2>2
<1>5. g = [k \in 0 .. n |-> Step(g, k)]
  <2> HIDE DEF Step
  <2> QED
    BY <1>3, <1>4
<1>6. kept = [k \in 0 .. n |-> Step(kept, k)]
  <2> HIDE DEF Step
  <2> QED
    BY <1>5
<1> HIDE DEF kept
<1>7. /\ kept[0] = <<>>
      /\ \A k \in 1 .. n : kept[k] = IF s[k] \in S THEN Append(kept[k - 1], s[k]) ELSE kept[k - 1]
  <2>1. \A k \in 0 .. n : kept[k] = Step(kept, k)
    <3> HIDE DEF Step, n
    <3> QED
      BY <1>6
  <2>2. kept[0] = Step(kept, 0)
    BY <1>1, <2>1
  <2>3. \A k \in 1 .. n : kept[k] = Step(kept, k)
    <3> HIDE DEF Step, n
    <3> QED
      BY <1>1, <2>1
  <2> QED
    BY <2>2, <2>3
<1> DEFINE T == {m \in Nat : m <= n => /\ kept[m] \in Seq(X)
                                       /\ \E place : Picks(kept[m], place, s, m, S)}
<1>8. 0 \in T
  <2>1. PICK e : e = [i \in {} |-> 0]
    OBVIOUS
  <2>2. Len(<<>>) = 0 /\ e \in [1 .. 0 -> 1 .. 0]
    BY <2>1
  <2>3. Picks(<<>>, e, s, 0, S)
    BY <2>2 DEF Picks
  <2>4. kept[0] \in Seq(X) /\ \E place : Picks(kept[0], place, s, 0, S)
    BY <1>7, <2>3
  <2> QED
    BY <2>4
<1>9. ASSUME NEW m \in Nat, m \in T PROVE m + 1 \in T
  <2> SUFFICES ASSUME m + 1 <= n
               PROVE  kept[m + 1] \in Seq(X) /\ \E place : Picks(kept[m + 1], place, s, m + 1, S)
    OBVIOUS
  <2>1. m + 1 \in 1 .. n /\ (m + 1) - 1 = m /\ m <= n
    BY <1>1
  <2>2. kept[m + 1] = IF s[m + 1] \in S THEN Append(kept[m], s[m + 1]) ELSE kept[m]
    BY <1>7, <2>1
  <2>3. PICK place : Picks(kept[m], place, s, m, S)
    BY <1>9, <2>1
  <2>4. kept[m] \in Seq(X) /\ s[m + 1] \in X
    BY <1>1, <1>9, <2>1
  <2>5. \E q : Picks(kept[m + 1], q, s, m + 1, S)
    BY <2>2, <2>3, <2>4, PicksNext
  <2> QED
    BY <2>2, <2>4, <2>5
<1> HIDE DEF T
<1>10. n \in T
  BY <1>1, <1>8, <1>9, NatInd
<1>11. Kept(s, S) = kept[n]
  BY DEF Kept, kept
<1> QED
  BY <1>10, <1>11, <1>1 DEF T

LEMMA UsedBefore ==
  ASSUME NEW P, NEW code, isWellFormed(P, code), NEW k \in 1 .. Len(code),
         NEW j \in 1 .. Len(code), code[j].id \in used(code[k])
  PROVE  j < k
<1>1. /\ Len(code) \in Nat /\ code[k] \in Instructions /\ fits(P, code, k)
      /\ code[j] \in Instructions
  BY WellFormedMeans
<1>2. PICK i \in DOMAIN code[k].args : code[k].args[i].is = "value" /\ code[k].args[i].n = code[j].id
  BY DEF used, Range
<1>3. code[k].args[i] \in Operands
  BY <1>1, InstructionFacts
<1>4. code[k].args[i] = Val(code[j].id)
  BY <1>2, <1>3, OperandFacts DEF Val
<1>5. isOfWidth(P, code, k, code[k].args[i], operandWidths(code[k])[i])
  BY <1>1, <1>2 DEF fits
<1> SUFFICES ASSUME ~(j < k) PROVE FALSE
  OBVIOUS
<1>6. k \in 1 .. j
  BY <1>1
<1> QED
  BY <1>4, <1>5, <1>6, OperandsBefore

LEMMA UsedNat == ASSUME NEW J \in Instructions PROVE used(J) \subseteq Nat
BY InstructionFacts, OperandFacts DEF used, Range

\* What is needed by what is needed.
LEMMA NeededClosed ==
  ASSUME isWellFormed(params, body)
  PROVE  /\ used(body[Len(body)]) \subseteq Needed
         /\ \A k \in 1 .. Len(body) : body[k].id \in Needed => used(body[k]) \subseteq Needed
<1> DEFINE n == Len(body)
           more(near) == near \cup (UNION {used(J) : J \in {K \in Range(body) : K.id \in near}})
           Step(g, k) == IF k = 0 THEN used(Last(body))
                         ELSE UNION {near \cup (UNION {used(J) : J \in {K \in Range(body) : K.id \in near}}) :
                                       near \in {g[k - 1]}}
           needed == CHOOSE g : g = [k \in 0 .. n |-> Step(g, k)]
           f == [p \in Nat \X (SUBSET Nat) |-> more(p[2])]
<1>1. /\ n \in Nat \ {0} /\ body \in Seq(Instructions) /\ DOMAIN body = 1 .. n
      /\ \A k \in 1 .. n : body[k] \in Instructions
  BY WellFormedMeans
<1>2. \A X \in SUBSET Nat : more(X) \in SUBSET Nat
  BY <1>1, UsedNat DEF Range
<1>3. used(Last(body)) \in SUBSET Nat /\ Last(body) = body[n]
  <2>1. Last(body) = body[n]
    BY DEF Last
  <2> QED
    BY <1>1, <2>1, UsedNat
<1>4. \A g, k : k # 0 => Step(g, k) = more(g[k - 1])
  OBVIOUS
<1> HIDE DEF more
<1>5. f \in [Nat \X (SUBSET Nat) -> SUBSET Nat]
  BY <1>2
<1>6. PICK g \in [0 .. n -> SUBSET Nat] : Iteration(g, n, used(Last(body)), f)
  <2> HIDE DEF f
  <2> QED
    BY <1>1, <1>3, <1>5, Iterates
<1>7. \A k \in 0 .. n : g[k] = Step(g, k)
  <2>1. ASSUME NEW k \in 1 .. n PROVE g[k] = Step(g, k)
    <3>1. g[k - 1] \in SUBSET Nat /\ k \in Nat
      BY <1>1
    <3>2. f[<<k, g[k - 1]>>] = more(g[k - 1])
      BY <3>1
    <3> HIDE DEF f, Step
    <3> QED
      BY <1>4, <1>6, <3>2 DEF Iteration
  <2>2. g[0] = Step(g, 0)
    BY <1>6 DEF Iteration
  <2> HIDE DEF Step
  <2> QED
    BY <1>1, <2>1, <2>2
<1>8. g = [k \in 0 .. n |-> Step(g, k)]
  <2> HIDE DEF Step
  <2> QED
    BY <1>6, <1>7
<1>9. needed = [k \in 0 .. n |-> Step(needed, k)]
  <2> HIDE DEF Step
  <2> QED
    BY <1>8
<1> HIDE DEF needed
<1>10. needed[0] = used(body[n]) /\ \A k \in 1 .. n : needed[k] = more(needed[k - 1])
  <2>1. \A k \in 0 .. n : needed[k] = Step(needed, k)
    <3> HIDE DEF Step, n
    <3> QED
      BY <1>9
  <2>2. needed[0] = Step(needed, 0)
    BY <1>1, <2>1
  <2>3. \A k \in 1 .. n : needed[k] = Step(needed, k)
    <3> HIDE DEF Step, n
    <3> QED
      BY <1>1, <2>1
  <2>4. Step(needed, 0) = used(body[n])
    BY <1>3
  <2> HIDE DEF Step
  <2> QED
    BY <1>4, <2>2, <2>3, <2>4
<1>11. Needed = needed[n]
  BY DEF Needed, needed
<1> HIDE DEF n, f, Step
<1>12. \A X : X \subseteq more(X)
  BY DEF more
<1>13. \A X : \A k \in 1 .. n : body[k].id \in X => used(body[k]) \subseteq more(X)
  BY <1>1 DEF more, Range
<1>14. \A X : \A x \in more(X) : x \in X \/ \E k \in 1 .. n : body[k].id \in X /\ x \in used(body[k])
  BY <1>1 DEF more, Range
<1> HIDE DEF more
<1>15. \A k \in 0 .. n : needed[0] \subseteq needed[k]
  <2> DEFINE T == {m \in Nat : m <= n => needed[0] \subseteq needed[m]}
  <2>1. 0 \in T
    OBVIOUS
  <2>2. ASSUME NEW m \in Nat, m \in T PROVE m + 1 \in T
    <3> SUFFICES ASSUME m + 1 <= n PROVE needed[0] \subseteq needed[m + 1]
      OBVIOUS
    <3>1. m + 1 \in 1 .. n /\ (m + 1) - 1 = m /\ m <= n
      BY <1>1
    <3> QED
      BY <1>10, <1>12, <2>2, <3>1
  <2> HIDE DEF T
  <2>3. Nat \subseteq T
    BY <2>1, <2>2, NatInd
  <2> QED
    BY <1>1, <2>3 DEF T
<1> DEFINE Why(x) == x \in needed[0] \/ \E M \in 0 .. n : \E k \in 1 .. n :
                                          body[k].id \in needed[M] /\ x \in used(body[k])
<1>16. \A k \in 0 .. n : \A x \in needed[k] : Why(x)
  <2> DEFINE T == {m \in Nat : m <= n => \A x \in needed[m] : Why(x)}
  <2>1. 0 \in T
    OBVIOUS
  <2>2. ASSUME NEW m \in Nat, m \in T PROVE m + 1 \in T
    <3> SUFFICES ASSUME m + 1 <= n, NEW x \in needed[m + 1] PROVE Why(x)
      OBVIOUS
    <3>1. m + 1 \in 1 .. n /\ (m + 1) - 1 = m /\ m <= n /\ m \in 0 .. n
      BY <1>1
    <3>2. x \in needed[m] \/ \E k \in 1 .. n : body[k].id \in needed[m] /\ x \in used(body[k])
      BY <1>10, <1>14, <3>1
    <3>3. \A y \in needed[m] : Why(y)
      BY <2>2, <3>1
    <3> QED
      BY <3>1, <3>2, <3>3
  <2> HIDE DEF T
  <2>3. Nat \subseteq T
    BY <2>1, <2>2, NatInd
  <2> QED
    BY <1>1, <2>3 DEF T
<1>17. \A k, j \in 1 .. n : body[j].id \in used(body[k]) => j < k
  BY UsedBefore DEF n
<1>18. \A M \in 0 .. n : body[n].id \notin needed[M]
  <2> SUFFICES ASSUME NEW M \in 0 .. n, body[n].id \in needed[M] PROVE FALSE
    OBVIOUS
  <2>1. PICK k \in 1 .. n : body[n].id \in used(body[k])
    <3>1. Why(body[n].id)
      BY <1>16
    <3> QED
      BY <1>1, <1>10, <3>1
  <2>2. n < k
    BY <1>1, <1>17, <2>1
  <2> QED
    BY <1>1, <2>2
<1> DEFINE T == {m \in Nat : m <= n => \A M \in 0 .. n : \A p \in 1 .. n :
                    p + 1 + m >= n /\ body[p].id \in needed[M] => body[p].id \in needed[m]}
<1>19. 0 \in T
  <2> SUFFICES ASSUME NEW M \in 0 .. n, NEW p \in 1 .. n, p + 1 >= n, body[p].id \in needed[M]
               PROVE  body[p].id \in needed[0]
    BY <1>1
  <2> SUFFICES ASSUME body[p].id \notin needed[0] PROVE FALSE
    OBVIOUS
  <2>1. Why(body[p].id)
    BY <1>16
  <2>2. PICK L \in 0 .. n, k \in 1 .. n : body[k].id \in needed[L] /\ body[p].id \in used(body[k])
    BY <2>1
  <2>3. p < k
    BY <1>17, <2>2
  <2>4. k = n
    BY <1>1, <2>3
  <2> QED
    BY <1>18, <2>2, <2>4
<1>20. ASSUME NEW m \in Nat, m \in T PROVE m + 1 \in T
  <2> SUFFICES ASSUME m + 1 <= n, NEW M \in 0 .. n, NEW p \in 1 .. n, p + 1 + (m + 1) >= n,
                      body[p].id \in needed[M]
               PROVE  body[p].id \in needed[m + 1]
    OBVIOUS
  <2>1. m + 1 \in 1 .. n /\ (m + 1) - 1 = m /\ m <= n /\ m + 1 \in 0 .. n
    BY <1>1
  <2>2. CASE body[p].id \in needed[0]
    BY <1>15, <2>1, <2>2
  <2>3. CASE body[p].id \notin needed[0]
    <3>1. Why(body[p].id)
      BY <1>16
    <3>2. PICK L \in 0 .. n, k \in 1 .. n : body[k].id \in needed[L] /\ body[p].id \in used(body[k])
      BY <2>3, <3>1
    <3>3. p < k
      BY <1>17, <3>2
    <3>4. k + 1 + m >= n
      BY <1>1, <3>3
    <3>5. body[k].id \in needed[m]
      BY <1>20, <2>1, <3>2, <3>4
    <3> QED
      BY <1>10, <1>13, <2>1, <3>2, <3>5
  <2> QED
    BY <2>2, <2>3
<1>21. Nat \subseteq T
  <2> HIDE DEF T
  <2> QED
    BY <1>19, <1>20, NatInd
<1>22. ASSUME NEW k \in 1 .. n, body[k].id \in needed[n] PROVE used(body[k]) \subseteq needed[n]
  <2>1. n - 1 \in Nat /\ n - 1 <= n /\ k + 1 + (n - 1) >= n /\ n \in 0 .. n /\ n \in 1 .. n
    BY <1>1
  <2>2. n - 1 \in T
    BY <1>21, <2>1
  <2>3. body[k].id \in needed[n - 1]
    BY <1>22, <2>1, <2>2
  <2> QED
    BY <1>10, <1>13, <2>1, <2>3
<1>23. used(body[n]) \subseteq needed[n]
  BY <1>1, <1>10, <1>15
<1> QED
  BY <1>11, <1>22, <1>23 DEF n

LEMMA EliminationWellFormed ==
  ASSUME isWellFormed(params, body), NEW r,
         r = Kept(body, {J \in Range(body) : J.op = "ret" \/ J.id \in Needed})
  PROVE  isWellFormed(params, r)
<1> DEFINE n == Len(body)
           S == {J \in Range(body) : J.op = "ret" \/ J.id \in Needed}
           m == Len(r)
<1>1. /\ params \in Seq(Widths) /\ body \in Seq(Instructions) /\ n \in Nat \ {0}
      /\ DOMAIN body = 1 .. n
      /\ \A k \in 1 .. n : /\ body[k] \in Instructions /\ (body[k].op = "ret" <=> k = n)
                           /\ body[k].id > Len(params) /\ fits(params, body, k)
      /\ \A k, j \in 1 .. n : body[j].id = body[k].id => j = k
  BY WellFormedMeans
<1>2. \A k \in 1 .. n : body[k] \in S <=> (k = n \/ body[k].id \in Needed)
  BY <1>1 DEF Range
<1> HIDE DEF S
<1>3. r = Kept(body, S)
  BY DEF S
<1>4. r \in Seq(Instructions) /\ \E place : Picks(r, place, body, n, S)
  <2>1. Kept(body, S) \in Seq(Instructions) /\ \E place : Picks(Kept(body, S), place, body, Len(body), S)
    BY <1>1, KeptFacts
  <2> QED
    BY <1>3, <2>1
<1>5. PICK place : Picks(r, place, body, n, S)
  BY <1>4
<1>6. /\ m \in Nat /\ DOMAIN r = 1 .. m /\ \A i \in 1 .. m : place[i] \in 1 .. n
      /\ \A i \in 1 .. m : r[i] = body[place[i]] /\ body[place[i]] \in S
      /\ \A i, j \in 1 .. m : i < j => place[i] < place[j]
      /\ \A k \in 1 .. n : body[k] \in S => \E i \in 1 .. m : place[i] = k
  <2>1. /\ m \in Nat /\ place \in [1 .. m -> 1 .. n]
        /\ \A i \in 1 .. m : r[i] = body[place[i]] /\ body[place[i]] \in S
        /\ \A i, j \in 1 .. m : i < j => place[i] < place[j]
        /\ \A k \in 1 .. n : body[k] \in S => \E i \in 1 .. m : place[i] = k
    BY <1>5 DEF Picks
  <2>2. DOMAIN r = 1 .. m
    BY <1>4
  <2>3. \A i \in 1 .. m : place[i] \in 1 .. n
    BY <2>1
  <2> QED
    BY <2>1, <2>2, <2>3
<1> HIDE DEF m, n
<1>7. PICK last \in 1 .. m : place[last] = n
  BY <1>1, <1>2, <1>6
<1>8. last = m
  <2>1. m \in 1 .. m /\ place[m] <= n
    BY <1>1, <1>6, <1>7
  <2>2. ~(last < m)
    BY <1>1, <1>6, <1>7, <2>1
  <2> QED
    BY <1>6, <1>7, <2>2
<1>9. \A i, j \in 1 .. m : place[i] = place[j] => i = j
  <2>1. ASSUME NEW i \in 1 .. m, NEW j \in 1 .. m, place[i] = place[j], i # j PROVE FALSE
    <3>1. i < j \/ j < i
      BY <1>6, <2>1
    <3>2. place[i] \in Nat /\ place[j] \in Nat
      BY <1>1, <1>6
    <3> QED
      BY <1>6, <2>1, <3>1, <3>2
  <2> QED
    BY <2>1
<1>10. /\ used(body[n]) \subseteq Needed
       /\ \A k \in 1 .. n : body[k].id \in Needed => used(body[k]) \subseteq Needed
  BY NeededClosed DEF n
<1>11. ASSUME NEW i \in 1 .. m PROVE fits(params, r, i)
  <2>1. PICK k \in 1 .. n : k = place[i]
    BY <1>6
  <2>2. PICK J \in Instructions : J = body[k] /\ J = r[i]
    BY <1>1, <1>6, <2>1
  <2>3. used(J) \subseteq Needed
    BY <1>2, <1>6, <1>10, <2>1, <2>2
  <2>4. ASSUME NEW x \in DOMAIN J.args, NEW w, isOfWidth(params, body, k, J.args[x], w)
        PROVE  isOfWidth(params, r, i, J.args[x], w)
    <3>1. CASE \E h \in 1 .. (k - 1) : J.args[x] = Val(body[h].id) /\ body[h].width = w
      <4>1. PICK h \in 1 .. (k - 1) : J.args[x] = Val(body[h].id) /\ body[h].width = w
        BY <3>1
      <4>2. h \in 1 .. n /\ h < k
        BY <1>1, <2>1
      <4>3. body[h].id \in used(J)
        BY <4>1 DEF used, Range, Val
      <4>4. PICK g \in 1 .. m : place[g] = h
        BY <1>2, <1>6, <2>3, <4>2, <4>3
      <4>5. g < i
        <5>1. ~(i < g)
          BY <1>1, <1>6, <2>1, <4>2, <4>4
        <5>2. g # i
          BY <1>1, <2>1, <4>2, <4>4
        <5> QED
          BY <1>6, <5>1, <5>2
      <4>6. g \in 1 .. (i - 1) /\ r[g] = body[h]
        BY <1>6, <4>4, <4>5
      <4> QED
        BY <4>1, <4>6 DEF isOfWidth
    <3>2. CASE ~\E h \in 1 .. (k - 1) : J.args[x] = Val(body[h].id) /\ body[h].width = w
      BY <2>4, <3>2 DEF isOfWidth
    <3> QED
      BY <3>1, <3>2
  <2>5. Supplied(params, body, k, r, i)
    BY <2>2, <2>4 DEF Supplied
  <2>6. fits(params, body, k)
    BY <1>1
  <2> QED
    BY <2>2, <2>5, <2>6, FitsKept
<1>12. \A i \in 1 .. m : r[i].op = "ret" <=> i = m
  <2>1. ASSUME NEW i \in 1 .. m PROVE r[i].op = "ret" <=> i = m
    <3>1. place[i] = n <=> i = m
      BY <1>7, <1>8, <1>9
    <3> QED
      BY <1>1, <1>6, <3>1
  <2> QED
    BY <2>1
<1>13. ASSUME NEW i \in 1 .. m PROVE r[i].id > Len(params)
  <2>1. PICK k \in 1 .. n : r[i] = body[k]
    BY <1>6
  <2> QED
    BY <1>1, <2>1
<1>14. ASSUME NEW i \in 1 .. m, NEW j \in 1 .. m, r[j].id = r[i].id PROVE j = i
  <2>1. PICK k \in 1 .. n : k = place[i] /\ r[i] = body[k]
    BY <1>6
  <2>2. PICK h \in 1 .. n : h = place[j] /\ r[j] = body[h]
    BY <1>6
  <2>3. h = k
    BY <1>1, <1>14, <2>1, <2>2
  <2> QED
    BY <1>9, <2>1, <2>2, <2>3
<1>15. r # <<>> /\ m = Len(r)
  BY <1>6, <1>7 DEF m
<1> QED
  BY <1>1, <1>4, <1>6, <1>11, <1>12, <1>13, <1>14, <1>15 DEF isWellFormed

-----------------------------------------------------------------------------
(* New instructions. *)

LEMMA FreshIdFacts ==
  ASSUME isWellFormed(params, body)
  PROVE  /\ freshId \in Nat /\ freshId >= Len(params)
         /\ \A k \in 1 .. Len(body) : freshId >= body[k].id
<1> DEFINE n == Len(body)
           ids == {Len(params)} \cup {J.id : J \in Range(body)}
           T == {m \in Nat : m <= n => \E x \in ids : /\ x >= Len(params)
                                                      /\ \A k \in 1 .. m : x >= body[k].id}
<1>1. /\ n \in Nat /\ DOMAIN body = 1 .. n /\ Len(params) \in Nat
      /\ \A k \in 1 .. n : body[k] \in Instructions
  BY WellFormedMeans
<1>2. /\ Len(params) \in ids /\ \A k \in 1 .. n : body[k].id \in ids
      /\ \A x \in ids : x \in Nat
      /\ \A x \in ids : x = Len(params) \/ \E k \in 1 .. n : x = body[k].id
  BY <1>1, InstructionFacts DEF Range
<1> HIDE DEF ids, n
<1>3. 0 \in T
  BY <1>1, <1>2
<1>4. ASSUME NEW m \in Nat, m \in T PROVE m + 1 \in T
  <2> SUFFICES ASSUME m + 1 <= n
               PROVE  \E x \in ids : x >= Len(params) /\ \A k \in 1 .. (m + 1) : x >= body[k].id
    OBVIOUS
  <2>1. PICK x \in ids : x >= Len(params) /\ \A k \in 1 .. m : x >= body[k].id
    BY <1>1, <1>4
  <2>2. PICK y \in ids : y = body[m + 1].id
    BY <1>1, <1>2
  <2>3. x \in Nat /\ y \in Nat
    BY <1>2
  <2>4. CASE x >= y
    <3>1. \A k \in 1 .. (m + 1) : x >= body[k].id
      BY <2>1, <2>2, <2>4
    <3> QED
      BY <2>1, <3>1
  <2>5. CASE y > x
    <3>1. \A k \in 1 .. m : body[k].id \in Nat
      BY <1>1, <1>2
    <3>2. \A k \in 1 .. (m + 1) : y >= body[k].id
      BY <2>1, <2>2, <2>3, <2>5, <3>1
    <3>3. y >= Len(params)
      BY <1>1, <2>1, <2>3, <2>5
    <3> QED
      BY <3>2, <3>3
  <2> QED
    BY <2>3, <2>4, <2>5
<1>5. n \in T
  <2> HIDE DEF T
  <2> QED
    BY <1>1, <1>3, <1>4, NatInd
<1>6. PICK x \in ids : x >= Len(params) /\ \A k \in 1 .. n : x >= body[k].id
  BY <1>1, <1>5
<1>7. \A y \in ids : x >= y
  BY <1>2, <1>6
<1>8. freshId = Max(ids)
  BY DEF freshId, ids
<1>9. Max(ids) \in ids /\ \A y \in ids : Max(ids) >= y
  BY <1>7 DEF Max
<1> QED
  BY <1>2, <1>8, <1>9 DEF n

News == [is : {"new"}, n : Nat]
Templates ==
  [op : Arithmetic \cup Relations \cup Casts, id : {0}, from : Widths, width : Widths,
   args : Seq(Operands \cup News)]

\* In the i-th of the instructions new, in front of the k-th of code, a has w bits.
Usable(P, code, k, new, i, a, w) ==
  \/ \E m \in 1 .. (i - 1) : a = New(m) /\ new[m].width = w
  \/ a \in Operands /\ isOfWidth(P, code, k, a, w)

Builds(P, code, k, new, i) ==
  /\ hasResultType(new[i]) /\ Len(new[i].args) = Len(operandWidths(new[i]))
  /\ \A j \in 1 .. Len(new[i].args) :
       Usable(P, code, k, new, i, new[i].args[j], operandWidths(new[i])[j])

IsReplacement(P, code, k, new) ==
  new \in Seq(Templates) /\ \A i \in 1 .. Len(new) : Builds(P, code, k, new, i)

\* An operand as it is inserted.
Numbered(a) == IF a.is = "new" THEN Val(freshId + a.n) ELSE a

LEMMA InsertedFacts ==
  ASSUME freshId \in Nat, NEW new \in Seq(Templates)
  PROVE  LET q == Inserted(new)
         IN  /\ q \in Seq(Instructions) /\ Len(q) = Len(new)
             /\ \A i \in 1 .. Len(new) :
                  /\ q[i].op = new[i].op /\ q[i].id = freshId + i
                  /\ q[i].from = new[i].from /\ q[i].width = new[i].width
                  /\ Len(q[i].args) = Len(new[i].args)
                  /\ \A j \in 1 .. Len(new[i].args) : q[i].args[j] = Numbered(new[i].args[j])
<1> DEFINE q == Inserted(new)
           A(J) == [j \in DOMAIN J.args |-> Numbered(J.args[j])]
           Made(K, J, i) == K = [J EXCEPT !.id = freshId + i, !.args = A(J)]
<1>1. Len(new) \in Nat /\ DOMAIN new = 1 .. Len(new) /\ \A i \in 1 .. Len(new) : new[i] \in Templates
  OBVIOUS
<1>2. q = [i \in 1 .. Len(new) |-> [new[i] EXCEPT !.id = freshId + i, !.args = A(new[i])]]
  BY <1>1 DEF Inserted, Numbered
<1>3. ASSUME NEW J \in Templates, NEW i \in 1 .. Len(new), NEW K, Made(K, J, i)
      PROVE  /\ K \in Instructions /\ K.op = J.op /\ K.id = freshId + i /\ K.from = J.from
             /\ K.width = J.width /\ Len(K.args) = Len(J.args)
             /\ \A j \in 1 .. Len(J.args) : K.args[j] = Numbered(J.args[j])
  <2>1. /\ J.op \in Arithmetic \cup Relations \cup Casts /\ J.from \in Widths /\ J.width \in Widths
        /\ J.args \in Seq(Operands \cup News) /\ DOMAIN J.args = 1 .. Len(J.args)
        /\ Len(J.args) \in Nat /\ \A j \in 1 .. Len(J.args) : J.args[j] \in Operands \cup News
        /\ J = [op |-> J.op, id |-> J.id, from |-> J.from, width |-> J.width, args |-> J.args]
    BY DEF Templates
  <2>2. \A a \in Operands \cup News : Numbered(a) \in Operands
    <3>1. ASSUME NEW a \in News PROVE Numbered(a) \in Operands
      <4>1. a.is = "new" /\ a.n \in Nat
        BY DEF News
      <4> QED
        BY <4>1 DEF Numbered, Val, Operands
    <3>2. ASSUME NEW a \in Operands PROVE Numbered(a) \in Operands
      <4>1. a.is # "new"
        BY OperandFacts
      <4> QED
        BY <4>1 DEF Numbered
    <3> QED
      BY <3>1, <3>2
  <2>3. PICK d : d = A(J)
    OBVIOUS
  <2>4. d \in [1 .. Len(J.args) -> Operands] /\ \A j \in 1 .. Len(J.args) : d[j] = Numbered(J.args[j])
    BY <2>1, <2>2, <2>3
  <2>5. d \in Seq(Operands) /\ Len(d) = Len(J.args)
    <3>1. PICK z \in Nat : z = Len(J.args)
      BY <2>1
    <3>2. d \in [1 .. z -> Operands]
      BY <2>4, <3>1
    <3> QED
      BY <3>1, <3>2
  <2>6. K = [op |-> J.op, id |-> freshId + i, from |-> J.from, width |-> J.width, args |-> d]
    <3>1. PICK o, z, f, w, a :
            /\ J = [op |-> o, id |-> z, from |-> f, width |-> w, args |-> a]
            /\ o = J.op /\ z = J.id /\ f = J.from /\ w = J.width /\ a = J.args
      BY <2>1
    <3>2. PICK r : r = [J EXCEPT !.id = freshId + i]
      OBVIOUS
    <3>3. r = [op |-> o, id |-> freshId + i, from |-> f, width |-> w, args |-> a]
      BY <3>1, <3>2
    <3>4. [r EXCEPT !.args = d]
            = [op |-> o, id |-> freshId + i, from |-> f, width |-> w, args |-> d]
      BY <3>3
    <3>5. K = [[J EXCEPT !.id = freshId + i] EXCEPT !.args = d]
      <4> HIDE DEF A
      <4> QED
        BY <1>3, <2>3
    <3>6. K = [r EXCEPT !.args = d]
      BY <3>2, <3>5
    <3> QED
      BY <3>1, <3>4, <3>6
  <2>7. K \in Instructions
    <3>1. freshId + i \in Nat
      BY <1>1
    <3> QED
      BY <2>1, <2>5, <2>6, <3>1 DEF Instructions, Ops
  <2> QED
    BY <2>4, <2>5, <2>6, <2>7
<1> HIDE DEF A
<1>4. \A i \in 1 .. Len(new) : Made(q[i], new[i], i)
  BY <1>2
<1> HIDE DEF Made
<1>5. ASSUME NEW i \in 1 .. Len(new)
      PROVE  /\ q[i] \in Instructions /\ q[i].op = new[i].op /\ q[i].id = freshId + i
             /\ q[i].from = new[i].from /\ q[i].width = new[i].width
             /\ Len(q[i].args) = Len(new[i].args)
             /\ \A j \in 1 .. Len(new[i].args) : q[i].args[j] = Numbered(new[i].args[j])
  <2>1. PICK J \in Templates : J = new[i]
    BY <1>1
  <2>2. PICK K : K = q[i]
    OBVIOUS
  <2>3. Made(K, J, i)
    BY <1>4, <2>1, <2>2
  <2>4. /\ K \in Instructions /\ K.op = J.op /\ K.id = freshId + i /\ K.from = J.from
        /\ K.width = J.width /\ Len(K.args) = Len(J.args)
        /\ \A j \in 1 .. Len(J.args) : K.args[j] = Numbered(J.args[j])
    BY <1>3, <2>3
  <2> HIDE DEF q
  <2> QED
    BY <2>1, <2>2, <2>4
<1>6. q \in Seq(Instructions) /\ Len(q) = Len(new)
  <2>1. q \in [1 .. Len(new) -> Instructions]
    BY <1>2, <1>5
  <2> HIDE DEF q
  <2> QED
    BY <1>1, <2>1
<1> HIDE DEF q
<1>7. /\ q \in Seq(Instructions) /\ Len(q) = Len(new)
      /\ \A i \in 1 .. Len(new) :
           /\ q[i].op = new[i].op /\ q[i].id = freshId + i
           /\ q[i].from = new[i].from /\ q[i].width = new[i].width
           /\ Len(q[i].args) = Len(new[i].args)
           /\ \A j \in 1 .. Len(new[i].args) : q[i].args[j] = Numbered(new[i].args[j])
  BY <1>5, <1>6
<1> QED
  BY <1>7 DEF q

LEMMA SameShape ==
  ASSUME NEW J, NEW K, K.op = J.op, K.from = J.from, K.width = J.width
  PROVE  operandWidths(K) = operandWidths(J) /\ (hasResultType(J) => hasResultType(K))
BY DEF operandWidths, hasResultType

LEMMA ReplacementWellFormed ==
  ASSUME isWellFormed(params, body), NEW k \in 1 .. Len(body), body[k].op # "ret",
         NEW new, new # <<>>, IsReplacement(params, body, k, new),
         new[Len(new)].width = body[k].width
  PROVE  isWellFormed(params, Splice(ReplaceUses(body, body[k].id, Val(freshId + Len(new))), k,
                                     Inserted(new)))
<1> DEFINE q == Inserted(new)
           m == Len(new)
           mid == SubSeq(body, 1, k - 1) \o q
           v == Val(freshId + m)
<1>1. new \in Seq(Templates) /\ \A i \in 1 .. m : Builds(params, body, k, new, i)
  BY DEF IsReplacement
<1>2. /\ body \in Seq(Instructions) /\ Len(body) \in Nat /\ k \in Nat /\ Len(params) \in Nat
      /\ \A j \in 1 .. Len(body) : body[j] \in Instructions
  BY WellFormedMeans
<1>3. /\ freshId \in Nat /\ freshId >= Len(params)
      /\ \A j \in 1 .. Len(body) : freshId >= body[j].id
  BY FreshIdFacts
<1>4. /\ q \in Seq(Instructions) /\ Len(q) = m
      /\ \A i \in 1 .. m :
           /\ q[i].op = new[i].op /\ q[i].id = freshId + i
           /\ q[i].from = new[i].from /\ q[i].width = new[i].width
           /\ Len(q[i].args) = Len(new[i].args)
           /\ \A j \in 1 .. Len(new[i].args) : q[i].args[j] = Numbered(new[i].args[j])
  BY <1>1, <1>3, InsertedFacts
<1>5. m \in Nat \ {0} /\ \A i \in 1 .. m : new[i] \in Templates
  BY <1>1
<1> HIDE DEF q
<1>6. /\ \A j \in 1 .. (k - 1) : mid[j] = body[j]
      /\ \A j \in 1 .. m : mid[k - 1 + j] = q[j]
  <2> DEFINE a == SubSeq(body, 1, k - 1)
  <2>1. a \in Seq(Instructions) /\ Len(a) = k - 1 /\ \A j \in 1 .. (k - 1) : a[j] = body[j]
    BY <1>2
  <2> HIDE DEF a
  <2>2. PICK p \in Nat : p = k - 1
    BY <1>2
  <2>3. Len(a) = p /\ mid = a \o q
    BY <2>1, <2>2 DEF a
  <2> HIDE DEF mid
  <2>4. \A j \in 1 .. p : mid[j] = a[j]
    BY <1>4, <2>1, <2>3
  <2>5. \A j \in 1 .. m : mid[p + j] = q[j]
    BY <1>4, <2>1, <2>3
  <2> QED
    BY <2>1, <2>2, <2>4, <2>5
<1> HIDE DEF mid
<1>7. \A i \in 1 .. (m + 1) : Covers(mid, k - 1 + i, body, k)
  <2>1. \A i \in 1 .. (m + 1) : \A j \in 1 .. (k - 1) : j \in 1 .. (k - 1 + i - 1) /\ mid[j] = body[j]
    BY <1>2, <1>5, <1>6
  <2> QED
    BY <2>1 DEF Covers
<1>8. ASSUME NEW i \in 1 .. m, NEW a \in Operands \cup News, NEW w,
             Usable(params, body, k, new, i, a, w)
      PROVE  isOfWidth(params, mid, k - 1 + i, Numbered(a), w)
  <2>1. CASE \E h \in 1 .. (i - 1) : a = New(h) /\ new[h].width = w
    <3>1. PICK h \in 1 .. (i - 1) : a = New(h) /\ new[h].width = w
      BY <2>1
    <3>2. h \in 1 .. m /\ k - 1 + h \in 1 .. (k - 1 + i - 1)
      BY <1>2, <1>5, <3>1
    <3>3. mid[k - 1 + h] = q[h] /\ q[h].id = freshId + h /\ q[h].width = w
      BY <1>4, <1>6, <3>1, <3>2
    <3>4. Numbered(a) = Val(freshId + h)
      BY <3>1 DEF Numbered, New
    <3>5. PICK g \in 1 .. (k - 1 + i - 1) : g = k - 1 + h
      BY <3>2
    <3>6. Numbered(a) = Val(mid[g].id) /\ mid[g].width = w
      BY <3>3, <3>4, <3>5
    <3> QED
      BY <3>5, <3>6 DEF isOfWidth
  <2>2. CASE a \in Operands /\ isOfWidth(params, body, k, a, w)
    <3>1. Numbered(a) = a
      BY <2>2, OperandFacts DEF Numbered
    <3>2. Covers(mid, k - 1 + i, body, k)
      <4>1. i \in 1 .. (m + 1)
        BY <1>5
      <4> HIDE DEF m
      <4> QED
        BY <1>7, <4>1
    <3> QED
      BY <2>2, <3>1, <3>2, WidthKept
  <2> QED
    BY <1>8, <2>1, <2>2 DEF Usable
<1>9. ASSUME NEW i \in 1 .. m PROVE fits(params, mid, k - 1 + i)
  <2>1. PICK J \in Templates : J = new[i]
    BY <1>5
  <2>2. PICK K \in Instructions : K = q[i] /\ K = mid[k - 1 + i]
    <3>1. mid[k - 1 + i] = q[i]
      BY <1>6
    <3>2. q[i] \in Instructions
      BY <1>4
    <3> QED
      BY <3>1, <3>2
  <2>3. /\ K.op = J.op /\ K.from = J.from /\ K.width = J.width /\ Len(K.args) = Len(J.args)
        /\ \A j \in 1 .. Len(J.args) : K.args[j] = Numbered(J.args[j])
    BY <1>4, <2>1, <2>2
  <2>4. operandWidths(K) = operandWidths(J) /\ (hasResultType(J) => hasResultType(K))
    BY <2>3, SameShape
  <2>5. /\ hasResultType(J) /\ Len(J.args) = Len(operandWidths(J))
        /\ \A j \in 1 .. Len(J.args) :
             Usable(params, body, k, new, i, J.args[j], operandWidths(J)[j])
    BY <1>1, <2>1 DEF Builds
  <2>6. \A j \in 1 .. Len(J.args) : J.args[j] \in Operands \cup News
    BY DEF Templates
  <2>7. DOMAIN K.args = 1 .. Len(J.args)
    BY <2>3, InstructionFacts
  <2>8. \A j \in 1 .. Len(J.args) :
          isOfWidth(params, mid, k - 1 + i, K.args[j], operandWidths(K)[j])
    BY <1>8, <2>3, <2>4, <2>5, <2>6
  <2> QED
    BY <2>2, <2>3, <2>4, <2>5, <2>7, <2>8 DEF fits
<1>10. v \in Operands
  BY <1>3, <1>5 DEF v, Val, Operands
<1>11. isOfWidth(params, mid, k + m, v, body[k].width)
  <2>1. m \in 1 .. m /\ k - 1 + m \in 1 .. (k + m - 1)
    BY <1>2, <1>5
  <2>2. mid[k - 1 + m] = q[m] /\ q[m].id = freshId + m /\ q[m].width = body[k].width
    BY <1>4, <1>6, <2>1
  <2>3. PICK g \in 1 .. (k + m - 1) : g = k - 1 + m
    BY <2>1
  <2>4. v = Val(mid[g].id) /\ mid[g].width = body[k].width
    BY <2>2, <2>3
  <2> QED
    BY <2>3, <2>4 DEF isOfWidth
<1>12. ASSUME NEW i \in 1 .. Len(q)
       PROVE  /\ q[i].op # "ret" /\ q[i].id > Len(params)
              /\ \A j \in 1 .. Len(body) : body[j].id # q[i].id
              /\ \A j \in 1 .. Len(q) : q[j].id = q[i].id => j = i
              /\ fits(params, mid, k - 1 + i)
  <2>1. i \in 1 .. m /\ new[i] \in Templates /\ q[i].id = freshId + i
    BY <1>4, <1>5
  <2>2. q[i].op # "ret"
    <3>1. new[i].op \in Arithmetic \cup Relations \cup Casts
      BY <2>1 DEF Templates
    <3> QED
      BY <1>4, <2>1, <3>1 DEF Arithmetic, Divisions, Shifts, Relations, Casts
  <2>3. \A j \in 1 .. Len(body) : body[j].id \in Nat
    BY <1>2, InstructionFacts
  <2>4. \A j \in 1 .. Len(body) : body[j].id # q[i].id
    BY <1>3, <1>5, <2>1, <2>3
  <2>5. \A j \in 1 .. Len(q) : q[j].id = q[i].id => j = i
    BY <1>3, <1>4, <1>5, <2>1
  <2> QED
    BY <1>2, <1>3, <1>5, <1>9, <2>1, <2>2, <2>4, <2>5
<1>13. Replaceable(params, body, k, v, q)
  BY <1>4, <1>11, <1>12 DEF Replaceable, mid
<1> QED
  <2> HIDE DEF v
  <2>1. isWellFormed(params, Splice(ReplaceUses(body, body[k].id, v), k, q))
    BY <1>4, <1>10, <1>13, SpliceWellFormed
  <2> QED
    BY <2>1 DEF v, q

-----------------------------------------------------------------------------
(* Replacements, made one instruction after another. *)

\* a has w bits behind the instructions new.
Behind(P, code, k, new, a, w) == Usable(P, code, k, new, Len(new) + 1, a, w)

Makes(P, code, k, new, w) ==
  IsReplacement(P, code, k, new) /\ new # <<>> /\ new[Len(new)].width = w

\* t is new with one more instruction, the result of which has w bits.
Adds(P, code, k, new, t, w) ==
  /\ IsReplacement(P, code, k, t) /\ Makes(P, code, k, t, w)
  /\ t \in Seq(Templates) /\ Len(t) = Len(new) + 1 /\ Behind(P, code, k, t, New(Len(t)), w)
  /\ \A a, v : Behind(P, code, k, new, a, v) => Behind(P, code, k, t, a, v)

LEMMA NothingReplaces ==
  ASSUME NEW P, NEW code, NEW k
  PROVE  /\ IsReplacement(P, code, k, <<>>) /\ Len(<<>>) = 0 /\ <<>> \in Seq(Templates)
         /\ \A a \in Operands : \A w : isOfWidth(P, code, k, a, w) => Behind(P, code, k, <<>>, a, w)
BY DEF IsReplacement, Behind, Usable

LEMMA BehindMeans ==
  ASSUME NEW P, NEW code, NEW k, NEW new \in Seq(Templates), NEW a, NEW w,
         Behind(P, code, k, new, a, w)
  PROVE  a \in Operands \cup News
<1>1. Len(new) \in Nat
  OBVIOUS
<1>2. ASSUME NEW m \in 1 .. (Len(new) + 1 - 1) PROVE New(m) \in News
  BY <1>1, <1>2 DEF New, News
<1> QED
  BY <1>2 DEF Behind, Usable

LEMMA AddInstruction ==
  ASSUME NEW P, NEW code, NEW k, NEW new, IsReplacement(P, code, k, new), NEW J \in Templates,
         hasResultType(J), Len(J.args) = Len(operandWidths(J)),
         \A j \in 1 .. Len(J.args) : Behind(P, code, k, new, J.args[j], operandWidths(J)[j]),
         NEW t, t = Append(new, J)
  PROVE  Adds(P, code, k, new, t, J.width)
<1>1. new \in Seq(Templates) /\ \A i \in 1 .. Len(new) : Builds(P, code, k, new, i)
  BY DEF IsReplacement
<1>2. PICK n \in Nat : n = Len(new)
  BY <1>1
<1>3. /\ t \in Seq(Templates) /\ Len(t) = n + 1 /\ t[n + 1] = J
      /\ \A i \in 1 .. n : t[i] = new[i]
  BY <1>1, <1>2
<1>4. ASSUME NEW i \in 1 .. (n + 1), NEW h \in 1 .. (n + 2), i <= h, NEW a, NEW w,
             Usable(P, code, k, new, i, a, w)
      PROVE  Usable(P, code, k, t, h, a, w)
  <2>1. CASE \E m \in 1 .. (i - 1) : a = New(m) /\ new[m].width = w
    <3>1. PICK m \in 1 .. (i - 1) : a = New(m) /\ new[m].width = w
      BY <2>1
    <3>2. m \in 1 .. (h - 1) /\ t[m] = new[m]
      BY <1>2, <1>3, <1>4, <3>1
    <3> QED
      BY <3>1, <3>2 DEF Usable
  <2>2. CASE a \in Operands /\ isOfWidth(P, code, k, a, w)
    BY <2>2 DEF Usable
  <2> QED
    BY <1>4, <2>1, <2>2 DEF Usable
<1>5. ASSUME NEW i \in 1 .. (n + 1) PROVE Builds(P, code, k, t, i)
  <2>1. CASE i \in 1 .. n
    <3>1. t[i] = new[i] /\ Builds(P, code, k, new, i)
      BY <1>1, <1>2, <1>3, <2>1
    <3>2. i \in 1 .. (n + 1) /\ i \in 1 .. (n + 2) /\ i <= i
      BY <1>2
    <3> QED
      BY <1>4, <3>1, <3>2 DEF Builds
  <2>2. CASE i = n + 1
    <3>1. n + 1 \in 1 .. (n + 1) /\ n + 1 \in 1 .. (n + 2) /\ n + 1 <= n + 1
      BY <1>2
    <3>2. \A j \in 1 .. Len(J.args) : Usable(P, code, k, t, n + 1, J.args[j], operandWidths(J)[j])
      BY <1>2, <1>4, <3>1 DEF Behind
    <3> QED
      BY <1>3, <2>2, <3>2 DEF Builds
  <2> QED
    BY <1>2, <2>1, <2>2
<1>6. IsReplacement(P, code, k, t)
  BY <1>3, <1>5 DEF IsReplacement
<1>7. t # <<>> /\ t[Len(t)].width = J.width
  BY <1>2, <1>3
<1>8. Behind(P, code, k, t, New(Len(t)), J.width)
  <2>1. n + 1 \in 1 .. (n + 2 - 1) /\ t[n + 1].width = J.width
    BY <1>2, <1>3
  <2> QED
    BY <1>2, <1>3, <2>1 DEF Behind, Usable
<1>9. ASSUME NEW a, NEW v, Behind(P, code, k, new, a, v) PROVE Behind(P, code, k, t, a, v)
  <2>1. n + 1 \in 1 .. (n + 1) /\ n + 2 \in 1 .. (n + 2) /\ n + 1 <= n + 2
    BY <1>2
  <2>2. Usable(P, code, k, new, n + 1, a, v)
    BY <1>2, <1>9 DEF Behind
  <2>3. Usable(P, code, k, t, n + 2, a, v)
    BY <1>4, <2>1, <2>2
  <2>4. Len(t) + 1 = n + 2
    BY <1>2, <1>3
  <2> QED
    BY <2>3, <2>4 DEF Behind
<1> QED
  BY <1>2, <1>3, <1>6, <1>7, <1>8, <1>9 DEF Adds, Makes

LEMMA AddArith ==
  ASSUME NEW P, NEW code, NEW k, NEW new, IsReplacement(P, code, k, new), NEW op \in Arithmetic,
         NEW w \in Widths, NEW x, NEW y, Behind(P, code, k, new, x, w),
         Behind(P, code, k, new, y, w)
  PROVE  /\ Adds(P, code, k, new, Append(new, Arith(op, w, x, y)), w)
         /\ Arith(op, w, x, y) \in Templates
<1> DEFINE J == Arith(op, w, x, y)
<1>1. x \in Operands \cup News /\ y \in Operands \cup News
  BY BehindMeans DEF IsReplacement
<1>2. <<x, y>> \in Seq(Operands \cup News)
  BY <1>1
<1>3. J = [op |-> op, id |-> 0, from |-> w, width |-> w, args |-> <<x, y>>]
  BY DEF Arith, Instr
<1>4. J \in Templates
  BY <1>2, <1>3 DEF Templates
<1>5. J.op = op /\ J.from = w /\ J.width = w /\ J.args = <<x, y>>
  BY <1>3
<1> HIDE DEF J
<1>6. op \notin Relations \cup Casts \cup {"ret", "select"}
  BY DEF Arithmetic, Divisions, Shifts, Relations, Casts
<1>7. operandWidths(J) = <<w, w>> /\ hasResultType(J)
  BY <1>5, <1>6 DEF operandWidths, hasResultType, Casts
<1>8. /\ Len(J.args) = 2 /\ Len(operandWidths(J)) = 2
      /\ \A j \in 1 .. Len(J.args) : Behind(P, code, k, new, J.args[j], operandWidths(J)[j])
  BY <1>5, <1>7
<1>9. Adds(P, code, k, new, Append(new, J), J.width)
  BY <1>4, <1>7, <1>8, AddInstruction
<1> QED
  BY <1>4, <1>5, <1>9 DEF J

LEMMA AddByConst ==
  ASSUME NEW P, NEW code, NEW k, NEW new, IsReplacement(P, code, k, new), NEW op \in Arithmetic,
         NEW w \in Widths, NEW x, Behind(P, code, k, new, x, w), NEW c \in Int
  PROVE  /\ Adds(P, code, k, new, Append(new, ByConst(op, w, x, c)), w)
         /\ ByConst(op, w, x, c) \in Templates
<1>1. Behind(P, code, k, new, Const(w, c), w)
  BY ConstFacts DEF Behind, Usable
<1> QED
  BY <1>1, AddArith DEF ByConst

LEMMA AddNegate ==
  ASSUME NEW P, NEW code, NEW k, NEW new, IsReplacement(P, code, k, new),
         NEW w \in Widths, NEW x, Behind(P, code, k, new, x, w)
  PROVE  /\ Adds(P, code, k, new, Append(new, Negate(w, x)), w)
         /\ Negate(w, x) \in Templates
<1>1. Behind(P, code, k, new, Const(w, 0), w) /\ "sub" \in Arithmetic
  BY ConstFacts DEF Behind, Usable, Arithmetic
<1> QED
  BY <1>1, AddArith DEF Negate

LEMMA AddCast ==
  ASSUME NEW P, NEW code, NEW k, NEW new, IsReplacement(P, code, k, new),
         NEW op \in Casts, NEW v \in Widths, NEW w \in Widths, NEW x, Behind(P, code, k, new, x, v),
         IF op = "trunc" THEN w < v ELSE v < w
  PROVE  /\ Adds(P, code, k, new, Append(new, Instr(op, v, w, <<x>>)), w)
         /\ Instr(op, v, w, <<x>>) \in Templates
<1> DEFINE J == Instr(op, v, w, <<x>>)
<1>1. x \in Operands \cup News
  BY BehindMeans DEF IsReplacement
<1>2. <<x>> \in Seq(Operands \cup News)
  BY <1>1
<1>3. J = [op |-> op, id |-> 0, from |-> v, width |-> w, args |-> <<x>>]
  BY DEF Instr
<1>4. J \in Templates
  <2>1. op \in Arithmetic \cup Relations \cup Casts
    OBVIOUS
  <2>2. PICK d \in Seq(Operands \cup News) : d = <<x>>
    BY <1>2
  <2>3. [op |-> op, id |-> 0, from |-> v, width |-> w, args |-> d] \in Templates
    BY <2>1 DEF Templates
  <2> QED
    BY <1>3, <2>2, <2>3
<1>5. J.op = op /\ J.from = v /\ J.width = w /\ J.args = <<x>>
  BY <1>3
<1> HIDE DEF J
<1>6. op \notin Relations \cup Arithmetic \cup {"ret", "select"}
  BY DEF Arithmetic, Divisions, Shifts, Relations, Casts
<1>7. operandWidths(J) = <<v>>
  BY <1>5, <1>6 DEF operandWidths
<1>8. hasResultType(J)
  <2>1. v \in Nat /\ w \in Nat /\ w > 0
    BY WidthFacts
  <2> QED
    BY <1>5, <1>6, <2>1 DEF hasResultType, Casts
<1>9. /\ Len(J.args) = 1 /\ Len(operandWidths(J)) = 1
      /\ \A j \in 1 .. Len(J.args) : Behind(P, code, k, new, J.args[j], operandWidths(J)[j])
  BY <1>5, <1>7
<1>10. Adds(P, code, k, new, Append(new, J), J.width)
  BY <1>4, <1>8, <1>9, AddInstruction
<1> QED
  BY <1>4, <1>5, <1>10 DEF J

LEMMA AddCompare ==
  ASSUME NEW P, NEW code, NEW k, NEW new, IsReplacement(P, code, k, new), NEW w \in Widths,
         NEW x, NEW y, Behind(P, code, k, new, x, w), Behind(P, code, k, new, y, w)
  PROVE  /\ Adds(P, code, k, new, Append(new, Instr("uge", w, 1, <<x, y>>)), 1)
         /\ Instr("uge", w, 1, <<x, y>>) \in Templates
<1> DEFINE J == Instr("uge", w, 1, <<x, y>>)
<1>1. x \in Operands \cup News /\ y \in Operands \cup News
  BY BehindMeans DEF IsReplacement
<1>2. <<x, y>> \in Seq(Operands \cup News)
  BY <1>1
<1>3. J = [op |-> "uge", id |-> 0, from |-> w, width |-> 1, args |-> <<x, y>>]
  BY DEF Instr
<1>4. J \in Templates
  <2>1. "uge" \in Arithmetic \cup Relations \cup Casts /\ 1 \in Widths
    BY DEF Relations, Widths
  <2>2. PICK d \in Seq(Operands \cup News) : d = <<x, y>>
    BY <1>2
  <2>3. [op |-> "uge", id |-> 0, from |-> w, width |-> 1, args |-> d] \in Templates
    BY <2>1 DEF Templates
  <2> QED
    BY <1>3, <2>2, <2>3
<1>5. J.op = "uge" /\ J.from = w /\ J.width = 1 /\ J.args = <<x, y>>
  BY <1>3
<1> HIDE DEF J
<1>6. "uge" \in Relations /\ "uge" \notin Arithmetic \cup Casts \cup {"ret", "select"}
  BY DEF Arithmetic, Divisions, Shifts, Relations, Casts
<1>7. operandWidths(J) = <<w, w>> /\ hasResultType(J)
  BY <1>5, <1>6 DEF operandWidths, hasResultType, Casts
<1>8. /\ Len(J.args) = 2 /\ Len(operandWidths(J)) = 2
      /\ \A j \in 1 .. Len(J.args) : Behind(P, code, k, new, J.args[j], operandWidths(J)[j])
  BY <1>5, <1>7
<1>9. Adds(P, code, k, new, Append(new, J), J.width)
  BY <1>4, <1>7, <1>8, AddInstruction
<1> QED
  BY <1>4, <1>5, <1>9 DEF J

LEMMA CountlZeroInt ==
  ASSUME NEW x \in Int
  PROVE  countl_zero(x) \in 0 .. IntBits
<1>1. IntBits \in 0 .. Int64 /\ IntBits \in Nat
  BY WidthFacts
<1>2. PICK m \in Nat \ {0} : m = 2^IntBits
  BY <1>1, SizeFacts
<1>3. PICK y \in Nat : y = x % m /\ y < m
  <2>1. x % m \in 0 .. (m - 1)
    OBVIOUS
  <2> QED
    BY <2>1
<1> DEFINE T == {n \in Nat : n <= IntBits /\ y < 2^n}
<1>4. IntBits \in T
  BY <1>1, <1>2, <1>3
<1>5. PICK n \in T : \A i \in T : n <= i
  <2>1. T \in SUBSET Nat /\ T # {}
    BY <1>4
  <2> HIDE DEF T
  <2> QED
    BY <2>1, NatMin
<1>6. n = 0 \/ y >= 2^(n - 1)
  <2> SUFFICES ASSUME n # 0, ~(y >= 2^(n - 1)) PROVE FALSE
    OBVIOUS
  <2>1. n - 1 \in 0 .. Int64 /\ n - 1 \in Nat /\ n - 1 <= IntBits
    BY <1>1, <1>5
  <2>2. PICK p \in Nat \ {0} : p = 2^(n - 1)
    BY <2>1, SizeFacts
  <2>3. n - 1 \in T
    BY <2>1, <2>2
  <2> QED
    BY <1>5, <2>1, <2>3
<1>7. n \in 0 .. IntBits /\ y < 2^n
  BY <1>1, <1>5
<1>8. bit_width(y) \in 0 .. IntBits
  BY <1>6, <1>7 DEF bit_width
<1>9. countl_zero(x) = IntBits - bit_width(y)
  BY <1>2, <1>3 DEF countl_zero
<1> QED
  BY <1>1, <1>8, <1>9

\* The widths a division is replaced in.
Narrow == {IntBits \div 2, IntBits}

LEMMA NarrowFacts ==
  ASSUME NEW w \in Narrow
  PROVE  /\ w \in Widths /\ promoted(w) \in Widths /\ promoted(w) = 2 * w
         /\ w \in Nat /\ w > 1 /\ 2 * w <= Int64 /\ w < promoted(w) /\ w # Int64
BY WidthFacts DEF Narrow, Widths, promoted

LEMMA ShiftedByInt ==
  ASSUME NEW w \in Narrow, NEW d \in Nat, d > 1
  PROVE  LET l == w - countl_zero(d - 1)
         IN  l \in Int /\ (IF l < 0 THEN 0 ELSE reciprocal(2^w, 2^l, d) % 2^IntBits) \in Int
<1>1. PICK c \in 0 .. IntBits : c = countl_zero(d - 1)
  BY CountlZeroInt
<1>2. w \in Nat /\ 2 * w <= Int64 /\ IntBits \in Nat /\ Int64 = 2 * IntBits
  BY NarrowFacts, WidthFacts
<1>3. PICK l \in Int : l = w - c
  BY <1>2
<1>4. CASE l < 0
  BY <1>1, <1>3, <1>4
<1>5. CASE ~(l < 0)
  <2>1. l \in 0 .. Int64 /\ w \in 0 .. Int64 /\ IntBits \in 0 .. Int64
    BY <1>2, <1>3, <1>5
  <2>2. PICK p \in Nat \ {0}, q \in Nat \ {0}, b \in Nat \ {0} :
          p = 2^w /\ q = 2^l /\ b = 2^IntBits
    BY <2>1, SizeFacts
  <2>3. p * q \in Int
    OBVIOUS
  <2>4. PICK e \in Int : e = (p * q) \div d
    BY <2>3
  <2>5. reciprocal(p, q, d) = e - p + 1
    BY <2>4 DEF reciprocal
  <2>6. (e - p + 1) % b \in Int
    OBVIOUS
  <2> QED
    BY <1>1, <1>3, <1>5, <2>2, <2>5, <2>6
<1> QED
  BY <1>4, <1>5

\* Four instructions behind s.
LEMMA AppendFour ==
  ASSUME NEW s \in Seq(Templates), NEW x \in Templates, NEW y \in Templates,
         NEW z \in Templates, NEW u \in Templates
  PROVE  s \o <<x, y, z, u>> = Append(Append(Append(Append(s, x), y), z), u)
OBVIOUS

LEMMA AddsMeans ==
  ASSUME NEW P, NEW code, NEW k, NEW new, NEW t, NEW w, Adds(P, code, k, new, t, w)
  PROVE  /\ IsReplacement(P, code, k, t) /\ Makes(P, code, k, t, w) /\ t \in Seq(Templates)
         /\ Len(t) = Len(new) + 1 /\ Behind(P, code, k, t, New(Len(new) + 1), w)
         /\ \A a, v : Behind(P, code, k, new, a, v) => Behind(P, code, k, t, a, v)
BY DEF Adds

LEMMA UDivGeneralMakes ==
  ASSUME NEW P, NEW code, NEW k, NEW w \in Narrow, NEW n \in Operands,
         isOfWidth(P, code, k, n, w), NEW d \in Nat, d > 1
  PROVE  /\ Makes(P, code, k, replaceUDivGeneral(n, w, d), w)
         /\ Len(replaceUDivGeneral(n, w, d)) \in {5, 6}
<1> DEFINE v == promoted(w)
<1>1. PICK l \in Int, m \in Int :
        /\ l = w - countl_zero(d - 1)
        /\ m = IF l < 0 THEN 0 ELSE reciprocal(2^w, 2^l, d) % 2^IntBits
  BY ShiftedByInt
<1>2. /\ w \in Widths /\ v \in Widths /\ w < v /\ v = 2 * w /\ w \in Int
      /\ {"mul", "lshr", "add"} \subseteq Arithmetic /\ {"zext", "trunc"} \subseteq Casts
  BY NarrowFacts DEF Arithmetic, Shifts, Casts
<1> DEFINE z == Instr("zext", w, v, <<n>>)
           s1 == Append(<<>>, z)
           s == IF m = 1 THEN s1 ELSE Append(s1, ByConst("mul", v, New(1), m))
           h == Len(s)
           i1 == ByConst("lshr", v, New(h), w)
           i2 == Arith("add", v, New(1), New(h + 1))
           i3 == ByConst("lshr", v, New(h + 2), l)
           i4 == Instr("trunc", v, w, <<New(h + 3)>>)
           t1 == Append(s, i1)
           t2 == Append(t1, i2)
           t3 == Append(t2, i3)
           t4 == Append(t3, i4)
<1> HIDE DEF v
<1>3. Adds(P, code, k, <<>>, s1, v) /\ z \in Templates
  BY <1>2, NothingReplaces, AddCast
<1>4. /\ IsReplacement(P, code, k, s1) /\ Len(s1) = 1 /\ s1 \in Seq(Templates)
      /\ Behind(P, code, k, s1, New(1), v)
  <2> HIDE DEF s1
  <2> QED
    BY <1>3, AddsMeans, NothingReplaces
<1>5. /\ IsReplacement(P, code, k, s) /\ h \in {1, 2} /\ s \in Seq(Templates)
      /\ Behind(P, code, k, s, New(1), v) /\ Behind(P, code, k, s, New(h), v)
  <2>1. CASE m = 1
    BY <1>4, <2>1
  <2>2. CASE m # 1
    <3>1. Adds(P, code, k, s1, s, v)
      BY <1>2, <1>4, <2>2, AddByConst
    <3> HIDE DEF s, s1
    <3>2. Len(s) = 2 /\ Len(s1) + 1 = 2
      BY <1>4, <3>1 DEF Adds
    <3> QED
      BY <1>4, <3>1, <3>2, AddsMeans
  <2> QED
    BY <2>1, <2>2
<1>6. /\ s = <<z>> \o (IF m = 1 THEN <<>> ELSE <<ByConst("mul", v, New(1), m)>>)
      /\ h = 1 + Len(IF m = 1 THEN <<>> ELSE <<ByConst("mul", v, New(1), m)>>)
  <2>1. CASE m = 1
    BY <1>3, <1>4, <2>1
  <2>2. CASE m # 1
    <3>1. ByConst("mul", v, New(1), m) \in Templates
      BY <1>2, <1>4, AddByConst
    <3>2. PICK j \in Templates : j = ByConst("mul", v, New(1), m)
      BY <3>1
    <3>3. Append(Append(<<>>, z), j) = <<z>> \o <<j>>
      BY <1>3
    <3> QED
      BY <1>4, <2>2, <3>2, <3>3
  <2> QED
    BY <2>1, <2>2
<1> HIDE DEF s1, s
<1>7. Adds(P, code, k, s, t1, v) /\ i1 \in Templates
  BY <1>2, <1>5, AddByConst
<1>8. /\ IsReplacement(P, code, k, t1) /\ Len(t1) = h + 1 /\ t1 \in Seq(Templates)
      /\ Behind(P, code, k, t1, New(1), v) /\ Behind(P, code, k, t1, New(h + 1), v)
  <2> HIDE DEF t1
  <2> QED
    BY <1>5, <1>7, AddsMeans
<1> HIDE DEF t1
<1>9. Adds(P, code, k, t1, t2, v) /\ i2 \in Templates
  BY <1>2, <1>8, AddArith
<1>10. /\ IsReplacement(P, code, k, t2) /\ Len(t2) = h + 2 /\ t2 \in Seq(Templates)
       /\ Behind(P, code, k, t2, New(h + 2), v)
  <2> HIDE DEF t2
  <2>1. h + 1 + 1 = h + 2
    BY <1>5
  <2> QED
    BY <1>8, <1>9, <2>1, AddsMeans
<1> HIDE DEF t2
<1>11. Adds(P, code, k, t2, t3, v) /\ i3 \in Templates
  BY <1>2, <1>10, AddByConst
<1>12. /\ IsReplacement(P, code, k, t3) /\ Len(t3) = h + 3 /\ t3 \in Seq(Templates)
       /\ Behind(P, code, k, t3, New(h + 3), v)
  <2> HIDE DEF t3
  <2>1. h + 2 + 1 = h + 3
    BY <1>5
  <2> QED
    BY <1>10, <1>11, <2>1, AddsMeans
<1> HIDE DEF t3
<1>13. Adds(P, code, k, t3, t4, w) /\ i4 \in Templates
  BY <1>2, <1>12, AddCast
<1>14. Makes(P, code, k, t4, w) /\ Len(t4) = h + 4
  <2> HIDE DEF t4
  <2>1. h + 3 + 1 = h + 4
    BY <1>5
  <2> QED
    BY <1>12, <1>13, <2>1, AddsMeans
<1>15. replaceUDivGeneral(n, w, d) = s \o <<i1, i2, i3, i4>>
  BY <1>1, <1>2, <1>6 DEF replaceUDivGeneral, v
<1>16. s \o <<i1, i2, i3, i4>> = t4
  <2> HIDE DEF i1, i2, i3, i4
  <2> QED
    BY <1>5, <1>7, <1>9, <1>11, <1>13, AppendFour DEF t1, t2, t3
<1>17. Makes(P, code, k, replaceUDivGeneral(n, w, d), w) /\ Len(replaceUDivGeneral(n, w, d)) = h + 4
  <2> HIDE DEF i1, i2, i3, i4, t4, h
  <2> QED
    BY <1>14, <1>15, <1>16
<1> QED
  <2> HIDE DEF h
  <2> QED
    BY <1>5, <1>17

LEMMA WidthCases ==
  ASSUME NEW w \in Widths
  PROVE  /\ w = 1 \/ w \in Narrow \/ w = Int64
         /\ w \in Narrow => w # 1 /\ w # Int64
         /\ w # 1 => w > 1
         /\ Size(1) = 2
BY WidthFacts DEF Widths, Narrow, Size

LEMMA UDivMakes ==
  ASSUME NEW P, NEW code, NEW k, NEW w \in Widths, NEW n \in Operands,
         isOfWidth(P, code, k, n, w), NEW d \in Nat, d < Size(w)
  PROVE  /\ replaceUDiv(n, w, d) = <<>> \/ Makes(P, code, k, replaceUDiv(n, w, d), w)
         /\ Len(replaceUDiv(n, w, d)) \in 0 .. 6
         /\ d > 1 /\ w \in Narrow => replaceUDiv(n, w, d) # <<>>
<1>1. /\ IsReplacement(P, code, k, <<>>) /\ Len(<<>>) = 0 /\ Behind(P, code, k, <<>>, n, w)
  BY NothingReplaces
<1>2. PICK m \in Nat \ {0} : m = Size(w)
  BY SizeFacts
<1>3. CASE d \in {0, 1}
  <2>1. replaceUDiv(n, w, d) = <<>>
    BY <1>3 DEF replaceUDiv
  <2> QED
    BY <1>1, <1>3, <2>1
<1>4. d > 1 => w > 1
  BY WidthCases
<1>5. CASE d > 1 /\ 2 * d >= Size(w)
  <2> DEFINE x == Instr("uge", w, 1, <<n, Const(w, d)>>)
             y == Instr("zext", 1, w, <<New(1)>>)
             t == Append(<<>>, x)
             u == Append(t, y)
  <2>1. Behind(P, code, k, <<>>, Const(w, d), w)
    BY ConstFacts DEF Behind, Usable
  <2>2. Adds(P, code, k, <<>>, t, 1) /\ x \in Templates
    BY <1>1, <2>1, AddCompare
  <2> HIDE DEF x
  <2>3. IsReplacement(P, code, k, t) /\ Len(t) = 1 /\ Behind(P, code, k, t, New(1), 1)
    <3> HIDE DEF t
    <3> QED
      BY <1>1, <2>2 DEF Adds
  <2>4. Adds(P, code, k, t, u, w) /\ y \in Templates
    <3>1. 1 \in Widths /\ 1 < w /\ "zext" \in Casts
      BY <1>4, <1>5 DEF Widths, Casts
    <3> HIDE DEF t
    <3> QED
      BY <2>3, <3>1, AddCast
  <2> HIDE DEF y
  <2>5. <<x, y>> = u
    BY <2>2, <2>4
  <2>6. Makes(P, code, k, u, w) /\ Len(u) = 2
    <3> HIDE DEF u, t
    <3> QED
      BY <2>3, <2>4 DEF Adds
  <2>7. replaceUDiv(n, w, d) = <<x, y>>
    BY <1>2, <1>5 DEF replaceUDiv, x, y
  <2> HIDE DEF u
  <2>8. u # <<>>
    BY <2>6 DEF Makes
  <2> QED
    BY <2>5, <2>6, <2>7, <2>8
<1>6. CASE d > 1 /\ 2 * d < Size(w) /\ isPowerOf2(d)
  <2> DEFINE x == ByConst("lshr", w, n, log2(d))
             t == Append(<<>>, x)
  <2>1. log2(d) \in Int
    <3>1. Int64 \in Nat
      BY WidthFacts
    <3>2. \E i \in 0 .. Int64 : d = 2^i
      BY <1>6 DEF isPowerOf2
    <3>3. log2(d) \in 0 .. Int64
      BY <3>2 DEF log2
    <3> QED
      BY <3>1, <3>3
  <2>2. "lshr" \in Arithmetic
    BY DEF Arithmetic, Shifts
  <2>3. Adds(P, code, k, <<>>, t, w) /\ x \in Templates
    BY <1>1, <2>1, <2>2, AddByConst
  <2> HIDE DEF x
  <2>4. t = <<x>> /\ Makes(P, code, k, t, w) /\ Len(t) = 1
    <3>1. t = <<x>>
      BY <2>3
    <3> HIDE DEF t
    <3> QED
      BY <1>1, <2>3, <3>1 DEF Adds
  <2>5. replaceUDiv(n, w, d) = <<x>>
    BY <1>2, <1>6 DEF replaceUDiv, x
  <2> HIDE DEF t
  <2>6. t # <<>>
    BY <2>4 DEF Makes
  <2> QED
    BY <2>4, <2>5, <2>6
<1>7. CASE d > 1 /\ 2 * d < Size(w) /\ ~isPowerOf2(d)
  <2>1. replaceUDiv(n, w, d) = IF w = Int64 THEN <<>> ELSE replaceUDivGeneral(n, w, d)
    BY <1>2, <1>7 DEF replaceUDiv
  <2>2. CASE w = Int64
    BY <1>1, <2>1, <2>2, WidthCases
  <2>3. CASE w # Int64
    <3>1. w \in Narrow
      BY <1>4, <1>7, <2>3, WidthCases
    <3>2. /\ Makes(P, code, k, replaceUDivGeneral(n, w, d), w)
          /\ Len(replaceUDivGeneral(n, w, d)) \in {5, 6}
      BY <1>7, <3>1, UDivGeneralMakes
    <3>3. replaceUDivGeneral(n, w, d) # <<>>
      BY <3>2 DEF Makes
    <3> QED
      BY <2>1, <2>3, <3>2, <3>3
  <2> QED
    BY <2>2, <2>3
<1> QED
  BY <1>2, <1>3, <1>5, <1>6, <1>7

\* A negation for a negative divisor behind a quotient.
LEMMA NegatedMakes ==
  ASSUME NEW P, NEW code, NEW k, NEW w \in Widths, NEW s, NEW m, NEW h \in Nat,
         Adds(P, code, k, s, m, w), Len(m) = h
  PROVE  /\ Makes(P, code, k, m \o <<Negate(w, New(h))>>, w)
         /\ Len(m \o <<Negate(w, New(h))>>) = h + 1 /\ m \o <<Negate(w, New(h))>> # <<>>
         /\ Makes(P, code, k, m \o <<>>, w) /\ Len(m \o <<>>) = h /\ m \o <<>> # <<>>
<1>1. /\ IsReplacement(P, code, k, m) /\ Makes(P, code, k, m, w) /\ m \in Seq(Templates)
      /\ Behind(P, code, k, m, New(h), w)
  BY DEF Adds
<1>2. Adds(P, code, k, m, Append(m, Negate(w, New(h))), w) /\ Negate(w, New(h)) \in Templates
  BY <1>1, AddNegate
<1>3. Makes(P, code, k, Append(m, Negate(w, New(h))), w)
  BY <1>2 DEF Adds
<1>4. PICK x \in Templates : x = Negate(w, New(h))
  BY <1>2
<1>5. m \o <<x>> = Append(m, x) /\ m \o <<>> = m /\ Len(Append(m, x)) = h + 1
  BY <1>1
<1>6. Append(m, x) # <<>> /\ m # <<>>
  BY <1>1, <1>3, <1>4 DEF Makes
<1> QED
  BY <1>1, <1>3, <1>4, <1>5, <1>6

LEMMA Log2Int ==
  ASSUME NEW d, isPowerOf2(d)
  PROVE  log2(d) \in 0 .. Int64
<1>1. \E i \in 0 .. Int64 : d = 2^i
  BY DEF isPowerOf2
<1> QED
  BY <1>1 DEF log2

LEMMA SDivPow2Makes ==
  ASSUME NEW P, NEW code, NEW k, NEW w \in Widths, NEW n \in Operands,
         isOfWidth(P, code, k, n, w), NEW d \in Int, isPowerOf2(Abs(d))
  PROVE  /\ Makes(P, code, k, replaceSDivPow2(n, w, d), w)
         /\ Len(replaceSDivPow2(n, w, d)) \in {4, 5} /\ replaceSDivPow2(n, w, d) # <<>>
<1>1. PICK l \in Int : l = log2(Abs(d))
  BY Log2Int, WidthFacts
<1>2. w \in Int /\ {"ashr", "lshr", "add"} \subseteq Arithmetic
  BY WidthFacts DEF Arithmetic, Shifts
<1> DEFINE i1 == ByConst("ashr", w, n, l - 1)
           i2 == ByConst("lshr", w, New(1), w - l)
           i3 == Arith("add", w, n, New(2))
           i4 == ByConst("ashr", w, New(3), l)
           t1 == Append(<<>>, i1)
           t2 == Append(t1, i2)
           t3 == Append(t2, i3)
           t4 == Append(t3, i4)
<1>3. /\ IsReplacement(P, code, k, <<>>) /\ Len(<<>>) = 0 /\ Behind(P, code, k, <<>>, n, w)
  BY NothingReplaces
<1>4. Adds(P, code, k, <<>>, t1, w) /\ i1 \in Templates
  <2>1. PICK c \in Int : c = l - 1
    BY <1>1
  <2>2. /\ Adds(P, code, k, <<>>, Append(<<>>, ByConst("ashr", w, n, c)), w)
        /\ ByConst("ashr", w, n, c) \in Templates
    BY <1>2, <1>3, AddByConst
  <2> QED
    BY <2>1, <2>2
<1>5. /\ IsReplacement(P, code, k, t1) /\ Len(t1) = 1
      /\ Behind(P, code, k, t1, New(1), w) /\ Behind(P, code, k, t1, n, w)
  <2> HIDE DEF t1
  <2> QED
    BY <1>3, <1>4 DEF Adds
<1> HIDE DEF t1
<1>6. Adds(P, code, k, t1, t2, w) /\ i2 \in Templates
  BY <1>1, <1>2, <1>5, AddByConst
<1>7. /\ IsReplacement(P, code, k, t2) /\ Len(t2) = 2
      /\ Behind(P, code, k, t2, New(2), w) /\ Behind(P, code, k, t2, n, w)
  <2> HIDE DEF t2
  <2> QED
    BY <1>5, <1>6 DEF Adds
<1> HIDE DEF t2
<1>8. Adds(P, code, k, t2, t3, w) /\ i3 \in Templates
  BY <1>2, <1>7, AddArith
<1>9. /\ IsReplacement(P, code, k, t3) /\ Len(t3) = 3
      /\ Behind(P, code, k, t3, New(3), w)
  <2> HIDE DEF t3
  <2> QED
    BY <1>7, <1>8 DEF Adds
<1> HIDE DEF t3
<1>10. Adds(P, code, k, t3, t4, w) /\ i4 \in Templates
  BY <1>1, <1>2, <1>9, AddByConst
<1>11. Len(t4) = 4
  <2> HIDE DEF t4
  <2> QED
    BY <1>9, <1>10 DEF Adds
<1> HIDE DEF i1, i2, i3, i4
<1>12. <<i1, i2, i3, i4>> = t4
  <2>1. <<>> \o <<i1, i2, i3, i4>> = t4
    BY <1>3, <1>4, <1>6, <1>8, <1>10, NothingReplaces, AppendFour DEF t1, t2, t3
  <2>2. <<i1, i2, i3, i4>> \in Seq(Templates)
    BY <1>4, <1>6, <1>8, <1>10
  <2>3. \A s \in Seq(Templates) : <<>> \o s = s
    OBVIOUS
  <2> HIDE DEF t4
  <2> QED
    BY <2>1, <2>2, <2>3
<1>13. replaceSDivPow2(n, w, d) = <<i1, i2, i3, i4>> \o IF d < 0 THEN <<Negate(w, New(4))>> ELSE <<>>
  BY <1>1 DEF replaceSDivPow2, i1, i2, i3, i4
<1> HIDE DEF t4
<1>14. replaceSDivPow2(n, w, d) = t4 \o IF d < 0 THEN <<Negate(w, New(4))>> ELSE <<>>
  BY <1>12, <1>13
<1>15. /\ Makes(P, code, k, t4 \o <<Negate(w, New(4))>>, w)
       /\ Len(t4 \o <<Negate(w, New(4))>>) = 5 /\ t4 \o <<Negate(w, New(4))>> # <<>>
       /\ Makes(P, code, k, t4 \o <<>>, w) /\ Len(t4 \o <<>>) = 4 /\ t4 \o <<>> # <<>>
  <2>0. PICK h \in Nat : h = 4
    OBVIOUS
  <2>1. PICK u, t : Adds(P, code, k, u, t, w) /\ Len(t) = h /\ t = t4
    BY <1>10, <1>11, <2>0
  <2>2. /\ Makes(P, code, k, t \o <<Negate(w, New(h))>>, w)
        /\ Len(t \o <<Negate(w, New(h))>>) = h + 1 /\ t \o <<Negate(w, New(h))>> # <<>>
        /\ Makes(P, code, k, t \o <<>>, w) /\ Len(t \o <<>>) = h /\ t \o <<>> # <<>>
    BY <2>1, NegatedMakes
  <2> QED
    BY <2>0, <2>1, <2>2
<1> QED
  BY <1>14, <1>15

Six(s, x, y, z, u, a, b) ==
  s \o <<x, y, z, u, a, b>> = Append(Append(Append(Append(Append(Append(s, x), y), z), u), a), b)

LEMMA AppendSix ==
  ASSUME NEW s \in Seq(Templates), NEW x \in Templates, NEW y \in Templates,
         NEW z \in Templates, NEW u \in Templates, NEW a \in Templates, NEW b \in Templates
  PROVE  Six(s, x, y, z, u, a, b)
BY SMTT(30) DEF Six

LEMMA ShiftedBySigned ==
  ASSUME NEW w \in Narrow, NEW d \in Int, Abs(d) > 1
  PROVE  LET leading == w - countl_zero(Abs(d) - 1)
             l == IF leading < 1 THEN 1 ELSE leading
         IN  l \in Int /\ SignedValue(IntBits, (1 + 2^(w + l - 1) \div Abs(d) - 2^w) % 2^IntBits) \in Int
<1>1. PICK a \in Nat \ {0} : a = Abs(d)
  BY DEF Abs
<1>2. PICK c \in 0 .. IntBits : c = countl_zero(a - 1)
  BY CountlZeroInt
<1>3. w \in Nat /\ w > 1 /\ 2 * w <= Int64 /\ IntBits \in Nat /\ Int64 = 2 * IntBits /\ w \in Widths
  BY NarrowFacts, WidthFacts
<1>4. PICK l \in Int : l = IF w - c < 1 THEN 1 ELSE w - c
  BY <1>2, <1>3
<1>5. 1 <= l /\ l <= w
  BY <1>2, <1>3, <1>4
<1>6. w + l - 1 \in 0 .. Int64 /\ w \in 0 .. Int64 /\ IntBits \in 0 .. Int64
  BY <1>3, <1>5
<1>7. PICK q \in Nat \ {0}, p \in Nat \ {0}, b \in Nat \ {0} :
        q = 2^(w + l - 1) /\ p = 2^w /\ b = 2^IntBits
  BY <1>6, SizeFacts
<1>8. PICK e \in Int : e = q \div a
  OBVIOUS
<1>9. (1 + e - p) % b \in 0 .. (b - 1)
  OBVIOUS
<1>10. PICK x \in Int : x = (1 + e - p) % b
  BY <1>9
<1>11. SignedValue(IntBits, x) \in Int
  BY <1>7 DEF SignedValue, Size
<1>12. SignedValue(IntBits, (1 + 2^(w + l - 1) \div Abs(d) - 2^w) % 2^IntBits) \in Int
  BY <1>1, <1>7, <1>8, <1>10, <1>11
<1> QED
  BY <1>1, <1>2, <1>4, <1>12

LEMMA SDivGeneralMakes ==
  ASSUME NEW P, NEW code, NEW k, NEW w \in Narrow, NEW n \in Operands,
         isOfWidth(P, code, k, n, w), NEW d \in Int, Abs(d) > 1
  PROVE  /\ Makes(P, code, k, replaceSDivGeneral(n, w, d), w)
         /\ Len(replaceSDivGeneral(n, w, d)) \in 7 .. 9
         /\ replaceSDivGeneral(n, w, d) # <<>>
<1> DEFINE v == promoted(w)
<1>1. PICK l \in Int, m \in Int :
        /\ l = IF w - countl_zero(Abs(d) - 1) < 1 THEN 1 ELSE w - countl_zero(Abs(d) - 1)
        /\ m = SignedValue(IntBits, (1 + 2^(w + l - 1) \div Abs(d) - 2^w) % 2^IntBits)
  BY ShiftedBySigned
<1>2. /\ w \in Widths /\ v \in Widths /\ w < v /\ v = 2 * w /\ w \in Int
      /\ {"mul", "lshr", "ashr", "add", "sub"} \subseteq Arithmetic /\ {"sext", "trunc"} \subseteq Casts
  BY NarrowFacts DEF Arithmetic, Shifts, Casts
<1> DEFINE z == Instr("sext", w, v, <<n>>)
           s1 == Append(<<>>, z)
           s == IF m = 1 THEN s1 ELSE Append(s1, ByConst("mul", v, New(1), m))
           h == Len(s)
           i1 == ByConst("lshr", v, New(h), w)
           i2 == Instr("trunc", v, w, <<New(h + 1)>>)
           i3 == Arith("add", w, n, New(h + 2))
           i4 == ByConst("ashr", w, New(h + 3), l - 1)
           i5 == ByConst("ashr", w, n, w - 1)
           i6 == Arith("sub", w, New(h + 4), New(h + 5))
           t1 == Append(s, i1)
           t2 == Append(t1, i2)
           t3 == Append(t2, i3)
           t4 == Append(t3, i4)
           t5 == Append(t4, i5)
           t6 == Append(t5, i6)
<1> HIDE DEF v
<1>n. /\ IsReplacement(P, code, k, <<>>) /\ Len(<<>>) = 0 /\ Behind(P, code, k, <<>>, n, w)
      /\ l - 1 \in Int /\ w - 1 \in Int
  <2>1. IsReplacement(P, code, k, <<>>) /\ Len(<<>>) = 0 /\ Behind(P, code, k, <<>>, n, w)
    BY NothingReplaces
  <2>2. l - 1 \in Int /\ w - 1 \in Int
    BY <1>2
  <2> QED
    BY <2>1, <2>2
<1>3. Adds(P, code, k, <<>>, s1, v) /\ z \in Templates
  BY <1>2, <1>n, AddCast
<1>4. /\ IsReplacement(P, code, k, s1) /\ Len(s1) = 1 /\ s1 \in Seq(Templates)
      /\ Behind(P, code, k, s1, New(1), v) /\ Behind(P, code, k, s1, n, w)
  <2> HIDE DEF s1
  <2> QED
    BY <1>3, <1>n DEF Adds
<1>5. /\ IsReplacement(P, code, k, s) /\ h \in {1, 2} /\ s \in Seq(Templates)
      /\ Behind(P, code, k, s, n, w) /\ Behind(P, code, k, s, New(h), v)
  <2>1. CASE m = 1
    BY <1>4, <2>1
  <2>2. CASE m # 1
    <3>1. Adds(P, code, k, s1, s, v)
      BY <1>2, <1>4, <2>2, AddByConst
    <3> HIDE DEF s, s1
    <3>2. Len(s) = 2 /\ Len(s1) + 1 = 2
      BY <1>4, <3>1 DEF Adds
    <3> QED
      BY <1>4, <3>1, <3>2, AddsMeans
  <2> QED
    BY <2>1, <2>2
<1>6. /\ s = <<z>> \o (IF m = 1 THEN <<>> ELSE <<ByConst("mul", v, New(1), m)>>)
      /\ h = 1 + Len(IF m = 1 THEN <<>> ELSE <<ByConst("mul", v, New(1), m)>>)
  <2>1. CASE m = 1
    BY <1>3, <1>4, <2>1
  <2>2. CASE m # 1
    <3>1. ByConst("mul", v, New(1), m) \in Templates
      BY <1>2, <1>4, AddByConst
    <3>2. PICK j \in Templates : j = ByConst("mul", v, New(1), m)
      BY <3>1
    <3>3. Append(Append(<<>>, z), j) = <<z>> \o <<j>>
      BY <1>3
    <3> QED
      BY <1>4, <2>2, <3>2, <3>3
  <2> QED
    BY <2>1, <2>2
<1> HIDE DEF s1, s
<1>7. Adds(P, code, k, s, t1, v) /\ i1 \in Templates
  BY <1>2, <1>5, AddByConst
<1>8. /\ IsReplacement(P, code, k, t1) /\ Len(t1) = h + 1
      /\ Behind(P, code, k, t1, n, w) /\ Behind(P, code, k, t1, New(h + 1), v)
  <2> HIDE DEF t1
  <2> QED
    BY <1>5, <1>7, AddsMeans
<1> HIDE DEF t1
<1>9. Adds(P, code, k, t1, t2, w) /\ i2 \in Templates
  BY <1>2, <1>8, AddCast
<1>10. /\ IsReplacement(P, code, k, t2) /\ Len(t2) = h + 2
       /\ Behind(P, code, k, t2, New(h + 2), w) /\ Behind(P, code, k, t2, n, w)
  <2> HIDE DEF t2
  <2>1. h + 1 + 1 = h + 2
    BY <1>5
  <2> QED
    BY <1>8, <1>9, <2>1, AddsMeans
<1> HIDE DEF t2
<1>11. Adds(P, code, k, t2, t3, w) /\ i3 \in Templates
  BY <1>2, <1>10, AddArith
<1>12. /\ IsReplacement(P, code, k, t3) /\ Len(t3) = h + 3
       /\ Behind(P, code, k, t3, New(h + 3), w) /\ Behind(P, code, k, t3, n, w)
  <2> HIDE DEF t3
  <2>1. h + 2 + 1 = h + 3
    BY <1>5
  <2> QED
    BY <1>10, <1>11, <2>1, AddsMeans
<1> HIDE DEF t3
<1>13. Adds(P, code, k, t3, t4, w) /\ i4 \in Templates
  BY <1>2, <1>12, <1>n, AddByConst
<1>14. /\ IsReplacement(P, code, k, t4) /\ Len(t4) = h + 4
       /\ Behind(P, code, k, t4, New(h + 4), w) /\ Behind(P, code, k, t4, n, w)
  <2> HIDE DEF t4
  <2>1. h + 3 + 1 = h + 4
    BY <1>5
  <2> QED
    BY <1>12, <1>13, <2>1, AddsMeans
<1> HIDE DEF t4
<1>15. Adds(P, code, k, t4, t5, w) /\ i5 \in Templates
  BY <1>2, <1>14, <1>n, AddByConst
<1>16. /\ IsReplacement(P, code, k, t5) /\ Len(t5) = h + 5
       /\ Behind(P, code, k, t5, New(h + 4), w) /\ Behind(P, code, k, t5, New(h + 5), w)
  <2> HIDE DEF t5
  <2>1. h + 4 + 1 = h + 5
    BY <1>5
  <2> QED
    BY <1>14, <1>15, <2>1, AddsMeans
<1> HIDE DEF t5
<1>17. Adds(P, code, k, t5, t6, w) /\ i6 \in Templates
  BY <1>2, <1>16, AddArith
<1>18. Len(t6) = h + 6
  <2> HIDE DEF t6
  <2>1. h + 5 + 1 = h + 6
    BY <1>5
  <2> QED
    BY <1>16, <1>17, <2>1, AddsMeans
<1>19. replaceSDivGeneral(n, w, d)
         = s \o <<i1, i2, i3, i4, i5, i6>> \o IF d < 0 THEN <<Negate(w, New(h + 6))>> ELSE <<>>
  <2>1. PICK q : q = IF m = 1 THEN <<>> ELSE <<ByConst("mul", v, New(1), m)>>
    OBVIOUS
  <2>2. s = <<z>> \o q /\ h = 1 + Len(q)
    BY <1>6, <2>1
  <2>3. PICK e : e = 1 + Len(q)
    OBVIOUS
  <2>4. PICK f : f = IF d < 0 THEN <<Negate(w, New(e + 6))>> ELSE <<>>
    OBVIOUS
  <2>5. replaceSDivGeneral(n, w, d)
          = <<Instr("sext", w, v, <<n>>)>> \o q \o
            <<ByConst("lshr", v, New(e), w),
              Instr("trunc", v, w, <<New(e + 1)>>),
              Arith("add", w, n, New(e + 2)),
              ByConst("ashr", w, New(e + 3), l - 1),
              ByConst("ashr", w, n, w - 1),
              Arith("sub", w, New(e + 4), New(e + 5))>> \o f
    BY <1>1, <1>2, <2>1, <2>3, <2>4 DEF replaceSDivGeneral, v
  <2> HIDE DEF h
  <2> QED
    BY <2>2, <2>3, <2>4, <2>5
<1>20. s \o <<i1, i2, i3, i4, i5, i6>> = t6
  <2> HIDE DEF i1, i2, i3, i4, i5, i6, t6
  <2>1. /\ s \in Seq(Templates) /\ i1 \in Templates /\ i2 \in Templates /\ i3 \in Templates
        /\ i4 \in Templates /\ i5 \in Templates /\ i6 \in Templates
    BY <1>5, <1>7, <1>9, <1>11, <1>13, <1>15, <1>17
  <2>2. s \o <<i1, i2, i3, i4, i5, i6>>
          = Append(Append(Append(Append(Append(Append(s, i1), i2), i3), i4), i5), i6)
    <3>1. Six(s, i1, i2, i3, i4, i5, i6)
      BY <2>1, AppendSix
    <3> QED
      BY <3>1 DEF Six
  <2>3. t6 = Append(Append(Append(Append(Append(Append(s, i1), i2), i3), i4), i5), i6)
    BY DEF t1, t2, t3, t4, t5, t6
  <2> QED
    BY <2>2, <2>3
<1>21. PICK f \in Nat : f = h + 6 /\ f \in {7, 8}
  <2> HIDE DEF h
  <2> QED
    BY <1>5
<1> HIDE DEF i1, i2, i3, i4, i5, i6, t6, h
<1>22. replaceSDivGeneral(n, w, d) = t6 \o IF d < 0 THEN <<Negate(w, New(f))>> ELSE <<>>
  BY <1>19, <1>20, <1>21
<1>23. /\ Makes(P, code, k, t6 \o <<Negate(w, New(f))>>, w)
       /\ Len(t6 \o <<Negate(w, New(f))>>) = f + 1 /\ t6 \o <<Negate(w, New(f))>> # <<>>
       /\ Makes(P, code, k, t6 \o <<>>, w) /\ Len(t6 \o <<>>) = f /\ t6 \o <<>> # <<>>
  BY <1>2, <1>17, <1>18, <1>21, NegatedMakes
<1>24. f \in 7 .. 9 /\ f + 1 \in 7 .. 9
  BY <1>21
<1> QED
  BY <1>22, <1>23, <1>24

-----------------------------------------------------------------------------
(* What is put in place of a division, a remainder or a multiplication. *)

\* s is empty or computes w bits in at most m instructions.
Replaces(P, code, k, s, w, m) ==
  (s = <<>> \/ Makes(P, code, k, s, w)) /\ s \in Seq(Templates) /\ Len(s) \in 0 .. m

LEMMA NothingIsEnough ==
  ASSUME NEW P, NEW code, NEW k, NEW w, NEW m \in Nat
  PROVE  Replaces(P, code, k, <<>>, w, m)
BY DEF Replaces

LEMMA MakesIsEnough ==
  ASSUME NEW P, NEW code, NEW k, NEW w, NEW m \in Nat, NEW s, Makes(P, code, k, s, w),
         NEW h \in 0 .. m, Len(s) = h
  PROVE  Replaces(P, code, k, s, w, m)
<1>1. s \in Seq(Templates)
  BY DEF Makes, IsReplacement
<1> QED
  BY <1>1 DEF Replaces

LEMMA SingleMakes ==
  ASSUME NEW P, NEW code, NEW k, NEW w \in Widths, NEW op \in Arithmetic,
         NEW x \in Operands, isOfWidth(P, code, k, x, w),
         NEW y \in Operands, isOfWidth(P, code, k, y, w)
  PROVE  /\ Makes(P, code, k, <<Arith(op, w, x, y)>>, w) /\ Arith(op, w, x, y) \in Templates
         /\ Len(<<Arith(op, w, x, y)>>) = 1
<1>1. /\ IsReplacement(P, code, k, <<>>) /\ Behind(P, code, k, <<>>, x, w)
      /\ Behind(P, code, k, <<>>, y, w)
  BY NothingReplaces
<1>2. /\ Adds(P, code, k, <<>>, Append(<<>>, Arith(op, w, x, y)), w)
      /\ Arith(op, w, x, y) \in Templates
  BY <1>1, AddArith
<1>3. PICK J \in Templates : J = Arith(op, w, x, y)
  BY <1>2
<1>4. Append(<<>>, J) = <<J>> /\ Len(<<J>>) = 1
  OBVIOUS
<1>5. Makes(P, code, k, Append(<<>>, Arith(op, w, x, y)), w)
  BY <1>2 DEF Adds
<1> QED
  BY <1>2, <1>3, <1>4, <1>5

LEMMA NegateMakes ==
  ASSUME NEW P, NEW code, NEW k, NEW w \in Widths,
         NEW x \in Operands, isOfWidth(P, code, k, x, w)
  PROVE  Makes(P, code, k, <<Negate(w, x)>>, w) /\ Len(<<Negate(w, x)>>) = 1
<1>1. Const(w, 0) \in Operands /\ isOfWidth(P, code, k, Const(w, 0), w) /\ "sub" \in Arithmetic
  BY ConstFacts DEF Arithmetic
<1> QED
  BY <1>1, SingleMakes DEF Negate

LEMMA ByConstMakes ==
  ASSUME NEW P, NEW code, NEW k, NEW w \in Widths, NEW op \in Arithmetic,
         NEW x \in Operands, isOfWidth(P, code, k, x, w), NEW c \in Int
  PROVE  Makes(P, code, k, <<ByConst(op, w, x, c)>>, w) /\ Len(<<ByConst(op, w, x, c)>>) = 1
<1>1. Const(w, c) \in Operands /\ isOfWidth(P, code, k, Const(w, c), w)
  BY ConstFacts
<1> QED
  BY <1>1, SingleMakes DEF ByConst

LEMMA SDivMakes ==
  ASSUME NEW P, NEW code, NEW k, NEW w \in Widths, NEW n \in Operands,
         isOfWidth(P, code, k, n, w), NEW d \in Int, w = 1 => d \in {0, -1}
  PROVE  /\ Replaces(P, code, k, replaceSDiv(n, w, d), w, 9)
         /\ d \notin {0, 1} /\ w \in Narrow => replaceSDiv(n, w, d) # <<>>
<1>1. CASE d \in {0, 1}
  <2>1. replaceSDiv(n, w, d) = <<>>
    BY <1>1 DEF replaceSDiv, Abs
  <2> QED
    BY <1>1, <2>1, NothingIsEnough
<1>2. CASE d = -1
  <2>1. replaceSDiv(n, w, d) = <<Negate(w, n)>>
    BY <1>2 DEF replaceSDiv, Abs
  <2>2. Makes(P, code, k, replaceSDiv(n, w, d), w) /\ Len(replaceSDiv(n, w, d)) = 1
    BY <2>1, NegateMakes
  <2>3. replaceSDiv(n, w, d) # <<>>
    BY <2>2 DEF Makes
  <2>4. Replaces(P, code, k, replaceSDiv(n, w, d), w, 9)
    <3>1. PICK m, h : m \in Nat /\ h \in 0 .. m /\ m = 9 /\ h = 1
      OBVIOUS
    <3> QED
      BY <2>2, <3>1, MakesIsEnough
  <2> QED
    BY <1>2, <2>3, <2>4
<1>3. d \notin {0, 1, -1} => Abs(d) > 1 /\ w # 1
  BY DEF Abs
<1>4. CASE d \notin {0, 1, -1} /\ isPowerOf2(Abs(d))
  <2>1. replaceSDiv(n, w, d) = replaceSDivPow2(n, w, d)
    BY <1>3, <1>4 DEF replaceSDiv
  <2>2. /\ Makes(P, code, k, replaceSDivPow2(n, w, d), w)
        /\ Len(replaceSDivPow2(n, w, d)) \in {4, 5} /\ replaceSDivPow2(n, w, d) # <<>>
    BY <1>4, SDivPow2Makes
  <2>3. Replaces(P, code, k, replaceSDivPow2(n, w, d), w, 9)
    <3>1. PICK h : h = Len(replaceSDivPow2(n, w, d))
      OBVIOUS
    <3>2. h \in {4, 5}
      BY <2>2, <3>1
    <3>3. PICK m \in Nat : m = 9 /\ h \in 0 .. m
      BY <3>2
    <3> QED
      BY <2>2, <3>1, <3>3, MakesIsEnough
  <2> QED
    BY <2>1, <2>2, <2>3
<1>5. CASE d \notin {0, 1, -1} /\ ~isPowerOf2(Abs(d))
  <2>1. replaceSDiv(n, w, d) = IF w = Int64 THEN <<>> ELSE replaceSDivGeneral(n, w, d)
    BY <1>3, <1>5 DEF replaceSDiv
  <2>2. CASE w = Int64
    BY <2>1, <2>2, NothingIsEnough, WidthCases
  <2>3. CASE w # Int64
    <3>1. w \in Narrow
      BY <1>3, <1>5, <2>3, WidthCases
    <3>2. /\ Makes(P, code, k, replaceSDivGeneral(n, w, d), w)
          /\ Len(replaceSDivGeneral(n, w, d)) \in 7 .. 9 /\ replaceSDivGeneral(n, w, d) # <<>>
      BY <1>3, <1>5, <3>1, SDivGeneralMakes
    <3>3. Replaces(P, code, k, replaceSDivGeneral(n, w, d), w, 9)
      <4>1. PICK h : h = Len(replaceSDivGeneral(n, w, d))
        OBVIOUS
      <4>2. h \in 7 .. 9
        BY <3>2, <4>1
      <4>3. PICK m \in Nat : m = 9 /\ h \in 0 .. m
        BY <4>2
      <4> QED
        BY <3>2, <4>1, <4>3, MakesIsEnough
    <3> QED
      BY <2>1, <2>3, <3>2, <3>3
  <2> QED
    BY <2>2, <2>3
<1> QED
  BY <1>1, <1>2, <1>4, <1>5

LEMMA RemainderMakes ==
  ASSUME NEW P, NEW code, NEW k, NEW w \in Widths, NEW n \in Operands,
         isOfWidth(P, code, k, n, w), NEW d \in Int, NEW m \in Nat,
         NEW q, Replaces(P, code, k, q, w, m)
  PROVE  /\ Replaces(P, code, k, remainderOf(q, n, w, d), w, m + 2)
         /\ q # <<>> => remainderOf(q, n, w, d) # <<>>
<1>1. CASE q = <<>>
  <2>1. remainderOf(q, n, w, d) = <<>>
    BY <1>1 DEF remainderOf
  <2> QED
    BY <1>1, <2>1, NothingIsEnough
<1>2. CASE q # <<>>
  <2>1. /\ Makes(P, code, k, q, w) /\ IsReplacement(P, code, k, q) /\ q \in Seq(Templates)
        /\ Len(q) <= m
    BY <1>2 DEF Replaces, Makes
  <2>2. PICK h \in Nat : h = Len(q)
    BY <2>1
  <2>3. h \in 1 .. (h + 1 - 1) /\ q[h].width = w
    BY <1>2, <2>1, <2>2 DEF Makes
  <2>4. Behind(P, code, k, q, New(h), w)
    BY <2>2, <2>3 DEF Behind, Usable
  <2>5. Behind(P, code, k, q, n, w) /\ {"mul", "sub"} \subseteq Arithmetic
    BY DEF Behind, Usable, Arithmetic
  <2>6. PICK i, t : i = ByConst("mul", w, New(h), d) /\ t = Append(q, i)
    OBVIOUS
  <2>7. Adds(P, code, k, q, t, w) /\ i \in Templates
    BY <2>1, <2>4, <2>5, <2>6, AddByConst
  <2>8. /\ IsReplacement(P, code, k, t) /\ t \in Seq(Templates) /\ Len(t) = h + 1
        /\ Behind(P, code, k, t, New(h + 1), w) /\ Behind(P, code, k, t, n, w)
    BY <2>2, <2>5, <2>7, AddsMeans
  <2>9. PICK j, u : j = Arith("sub", w, n, New(h + 1)) /\ u = Append(t, j)
    OBVIOUS
  <2>10. Adds(P, code, k, t, u, w) /\ j \in Templates
    BY <2>5, <2>8, <2>9, AddArith
  <2>11. Makes(P, code, k, u, w) /\ Len(u) = h + 2
    BY <2>8, <2>10, AddsMeans
  <2>12. remainderOf(q, n, w, d) = q \o <<i, j>>
    BY <1>2, <2>2, <2>6, <2>9 DEF remainderOf
  <2>13. q \o <<i, j>> = u
    BY <2>1, <2>6, <2>7, <2>9, <2>10
  <2>14. u # <<>>
    BY <2>11 DEF Makes
  <2>15. h + 2 \in 0 .. (m + 2)
    BY <2>1, <2>2
  <2>16. m + 2 \in Nat
    OBVIOUS
  <2> QED
    BY <2>11, <2>12, <2>13, <2>14, <2>15, <2>16, MakesIsEnough
<1> QED
  BY <1>1, <1>2

LEMMA URemMakes ==
  ASSUME NEW P, NEW code, NEW k, NEW w \in Widths, NEW n \in Operands,
         isOfWidth(P, code, k, n, w), NEW d \in Nat, d < Size(w)
  PROVE  /\ Replaces(P, code, k, replaceURem(n, w, d), w, 11)
         /\ d > 1 /\ w \in Narrow => replaceURem(n, w, d) # <<>>
<1>1. CASE d \in {0, 1}
  <2>1. replaceURem(n, w, d) = <<>>
    BY <1>1 DEF replaceURem
  <2> QED
    BY <1>1, <2>1, NothingIsEnough
<1>2. CASE d > 1 /\ isPowerOf2(d)
  <2>1. replaceURem(n, w, d) = <<ByConst("and", w, n, d - 1)>>
    BY <1>2 DEF replaceURem
  <2>2. PICK c \in Int : c = d - 1
    OBVIOUS
  <2>3. "and" \in Arithmetic
    BY DEF Arithmetic
  <2>4. Makes(P, code, k, replaceURem(n, w, d), w) /\ Len(replaceURem(n, w, d)) = 1
    BY <2>1, <2>2, <2>3, ByConstMakes
  <2>5. replaceURem(n, w, d) # <<>>
    BY <2>4 DEF Makes
  <2>6. PICK m, h : m \in Nat /\ h \in 0 .. m /\ m = 11 /\ h = 1
    OBVIOUS
  <2> QED
    BY <2>4, <2>5, <2>6, MakesIsEnough
<1>3. CASE d > 1 /\ ~isPowerOf2(d)
  <2>1. PICK q : q = replaceUDiv(n, w, d)
    OBVIOUS
  <2>2. /\ q = <<>> \/ Makes(P, code, k, q, w)
        /\ Len(q) \in 0 .. 6 /\ (w \in Narrow => q # <<>>)
    BY <1>3, <2>1, UDivMakes
  <2>0. PICK b \in Nat : b = 9 /\ b + 2 = 11
    OBVIOUS
  <2>3. Replaces(P, code, k, q, w, b)
    <3>1. PICK h \in 0 .. b : h = Len(q)
      BY <2>0, <2>2
    <3> QED
      BY <2>2, <3>1, NothingIsEnough, MakesIsEnough
  <2>4. replaceURem(n, w, d) = remainderOf(q, n, w, d)
    BY <1>3, <2>1 DEF replaceURem
  <2>6. /\ Replaces(P, code, k, remainderOf(q, n, w, d), w, b + 2)
        /\ q # <<>> => remainderOf(q, n, w, d) # <<>>
    <3>1. d \in Int
      OBVIOUS
    <3> QED
      BY <2>3, <3>1, RemainderMakes
  <2> QED
    BY <2>0, <2>2, <2>4, <2>6
<1> QED
  BY <1>1, <1>2, <1>3

LEMMA SRemMakes ==
  ASSUME NEW P, NEW code, NEW k, NEW w \in Widths, NEW n \in Operands,
         isOfWidth(P, code, k, n, w), NEW d \in Int, w = 1 => d \in {0, -1}
  PROVE  /\ Replaces(P, code, k, replaceSRem(n, w, d), w, 11)
         /\ d \notin {0, 1} /\ w \in Narrow => replaceSRem(n, w, d) # <<>>
<1>1. PICK m \in Nat : m = 9 /\ m + 2 = 11
  OBVIOUS
<1>2. PICK q : q = replaceSDiv(n, w, d)
  OBVIOUS
<1>3. Replaces(P, code, k, q, w, m) /\ (d \notin {0, 1} /\ w \in Narrow => q # <<>>)
  BY <1>1, <1>2, SDivMakes
<1>4. replaceSRem(n, w, d) = remainderOf(q, n, w, d)
  BY <1>2 DEF replaceSRem
<1> QED
  BY <1>1, <1>3, <1>4, RemainderMakes

-----------------------------------------------------------------------------
(* A multiplication. *)

Terms == [shift : Int, add : BOOLEAN]

LEMMA DigitInt ==
  ASSUME NEW n \in Int
  PROVE  (IF n % 2 = 1 THEN 2 - (n % 4) ELSE 0) \in Int
BY SMT

LEMMA NafTyped ==
  ASSUME NEW x \in Int
  PROVE  computeNAF(x) \in Seq(Terms)
<1> DEFINE D == [rest : Int, terms : Seq(Terms)]
           n == Int64 + 1
           digit(a) == IF a % 2 = 1 THEN 2 - (a % 4) ELSE 0
           longer(r, i) ==
             [rest  |-> (r.rest - digit(r.rest)) \div 2,
              terms |-> IF digit(r.rest) = 0 THEN r.terms
                        ELSE Append(r.terms, [shift |-> i, add |-> digit(r.rest) = 1])]
           z == [rest |-> x, terms |-> <<>>]
           Step(g, k) == IF k = 0 THEN z
                         ELSE CHOOSE r \in {longer(q, k - 1) : q \in {g[k - 1]}} : TRUE
           naf == CHOOSE g : g = [k \in 0 .. n |-> Step(g, k)]
           f == [p \in Nat \X D |-> longer(p[2], p[1] - 1)]
<1>1. n \in Nat
  BY WidthFacts
<1>2. z \in D
  OBVIOUS
<1>3. ASSUME NEW r \in D, NEW i \in Int PROVE longer(r, i) \in D
  <2>1. PICK a \in Int : a = r.rest
    OBVIOUS
  <2>2. PICK d \in Int : d = digit(a)
    BY DigitInt
  <2>3. (a - d) \div 2 \in Int
    OBVIOUS
  <2>4. PICK e \in Terms : e = [shift |-> i, add |-> d = 1]
    <3>1. PICK b \in BOOLEAN : b = (d = 1)
      OBVIOUS
    <3>2. [shift |-> i, add |-> b] \in Terms
      BY DEF Terms
    <3> QED
      BY <3>1, <3>2
  <2>5. (IF d = 0 THEN r.terms ELSE Append(r.terms, e)) \in Seq(Terms)
    OBVIOUS
  <2>6. longer(r, i) = [rest |-> (a - d) \div 2, terms |-> IF d = 0 THEN r.terms ELSE Append(r.terms, e)]
    BY <2>1, <2>2, <2>4
  <2> HIDE DEF longer
  <2> QED
    BY <2>3, <2>5, <2>6
<1>4. \A g, k : k # 0 => Step(g, k) = longer(g[k - 1], k - 1)
  <2> HIDE DEF longer
  <2> QED
    OBVIOUS
<1> HIDE DEF longer
<1>5. f \in [Nat \X D -> D]
  <2> HIDE DEF D
  <2> QED
    BY <1>3
<1>6. PICK g \in [0 .. n -> D] : Iteration(g, n, z, f)
  <2> HIDE DEF f, D, z, n
  <2> QED
    BY <1>1, <1>2, <1>5, Iterates
<1>7. \A k \in 0 .. n : g[k] = Step(g, k)
  <2>1. ASSUME NEW k \in 1 .. n PROVE g[k] = Step(g, k)
    <3>1. g[k - 1] \in D /\ k \in Nat /\ k # 0
      <4> HIDE DEF D
      <4> QED
        BY <1>1
    <3>2. f[<<k, g[k - 1]>>] = longer(g[k - 1], k - 1)
      <4> HIDE DEF D
      <4> QED
        BY <3>1
    <3> HIDE DEF f, Step, z, D
    <3> QED
      BY <1>4, <1>6, <3>1, <3>2 DEF Iteration
  <2>2. g[0] = Step(g, 0)
    BY <1>6 DEF Iteration
  <2> HIDE DEF Step
  <2> QED
    BY <1>1, <2>1, <2>2
<1>8. g = [k \in 0 .. n |-> Step(g, k)]
  <2> HIDE DEF Step, D
  <2> QED
    BY <1>6, <1>7
<1>9. naf = [k \in 0 .. n |-> Step(naf, k)]
  <2> HIDE DEF Step
  <2> QED
    BY <1>8
<1> HIDE DEF naf
<1>10. \A k \in 0 .. n : naf[k] = Step(naf, k)
  <2> HIDE DEF Step, n
  <2> QED
    BY <1>9
<1>11. naf[0] \in D
  <2>1. naf[0] = Step(naf, 0)
    BY <1>1, <1>10
  <2> QED
    BY <1>2, <2>1
<1>12. ASSUME NEW k \in 1 .. n, naf[k - 1] \in D PROVE naf[k] \in D
  <2>1. naf[k] = longer(naf[k - 1], k - 1)
    <3>1. naf[k] = Step(naf, k) /\ k # 0
      <4> HIDE DEF Step
      <4> QED
        BY <1>1, <1>10
    <3> HIDE DEF Step
    <3> QED
      BY <1>4, <3>1
  <2>2. k - 1 \in Int
    BY <1>1
  <2> HIDE DEF D
  <2> QED
    BY <1>3, <1>12, <2>1, <2>2
<1>13. naf[n] \in D
  <2> HIDE DEF D, n
  <2>1. \A k \in 0 .. n : naf[k] \in D
    BY <1>1, <1>11, <1>12, StaysIn
  <2> QED
    BY <1>1, <2>1
<1>14. computeNAF(x) = naf[n].terms
  BY DEF computeNAF, naf, longer
<1> QED
  BY <1>13, <1>14

LEMMA ArithBuilds ==
  ASSUME NEW P, NEW code, NEW k, NEW new \in Seq(Templates), NEW i, NEW op \in Arithmetic, NEW w,
         NEW x, NEW y, new[i] = Arith(op, w, x, y),
         Usable(P, code, k, new, i, x, w), Usable(P, code, k, new, i, y, w)
  PROVE  Builds(P, code, k, new, i) /\ new[i].width = w
<1>1. new[i] = [op |-> op, id |-> 0, from |-> w, width |-> w, args |-> <<x, y>>]
  BY DEF Arith, Instr
<1>2. /\ operandWidths(new[i]) = <<w, w>> /\ hasResultType(new[i])
      /\ Len(new[i].args) = 2 /\ new[i].args[1] = x /\ new[i].args[2] = y
  <2>1. new[i].op = op /\ new[i].width = w /\ new[i].from = w /\ new[i].args = <<x, y>>
    BY <1>1
  <2>2. op \notin Relations \cup Casts \cup {"ret", "select"}
    BY DEF Arithmetic, Divisions, Shifts, Relations, Casts
  <2>3. operandWidths(new[i]) = <<w, w>> /\ hasResultType(new[i])
    BY <2>1, <2>2 DEF operandWidths, hasResultType, Casts
  <2> QED
    BY <2>1, <2>3
<1> QED
  BY <1>1, <1>2 DEF Builds

LEMMA ArithTemplate ==
  ASSUME NEW op \in Arithmetic, NEW w \in Widths, NEW x \in Operands \cup News, NEW y \in Operands \cup News
  PROVE  Arith(op, w, x, y) \in Templates
<1>1. <<x, y>> \in Seq(Operands \cup News)
  OBVIOUS
<1> QED
  BY <1>1 DEF Arith, Instr, Templates

\* A term of the sum: the multiplicand, 0 or the result of one of the first a instructions.
Addend(v, x, w, a) == v = x \/ v = Const(w, 0) \/ \E m \in 1 .. a : v = New(m)

LEMMA JoinLength ==
  ASSUME NEW X, NEW s \in Seq(X), NEW t \in Seq(X)
  PROVE  Len(s \o t) = Len(s) + Len(t)
OBVIOUS

LEMMA AddendFacts ==
  ASSUME NEW P, NEW code, NEW k, NEW w \in Widths, NEW x \in Operands,
         isOfWidth(P, code, k, x, w), NEW a \in Nat, NEW v, Addend(v, x, w, a)
  PROVE  /\ v \in Operands \cup News
         /\ \A new : \A i \in Int :
              i > a /\ (\A m \in 1 .. a : new[m].width = w) => Usable(P, code, k, new, i, v, w)
<1>1. Const(w, 0) \in Operands /\ isOfWidth(P, code, k, Const(w, 0), w)
  BY ConstFacts
<1>2. CASE v = x \/ v = Const(w, 0)
  BY <1>1, <1>2 DEF Usable
<1>3. CASE \E m \in 1 .. a : v = New(m)
  <2>1. PICK m \in 1 .. a : v = New(m)
    BY <1>3
  <2>2. v \in News
    BY <2>1 DEF New, News
  <2>3. \A i \in Int : i > a => m \in 1 .. (i - 1)
    OBVIOUS
  <2> QED
    BY <2>1, <2>2, <2>3 DEF Usable
<1> QED
  BY <1>2, <1>3 DEF Addend

LEMMA MulGeneralMakes ==
  ASSUME NEW P, NEW code, NEW k, NEW w \in Widths, NEW x \in Operands,
         isOfWidth(P, code, k, x, w), NEW c \in Int
  PROVE  /\ replaceMulGeneral(x, w, c) \in Seq(Templates)
         /\ replaceMulGeneral(x, w, c) = <<>> \/ Makes(P, code, k, replaceMulGeneral(x, w, c), w)
<1>1. PICK naf \in Seq(Terms) : naf = computeNAF(c)
  BY NafTyped
<1>2. PICK n \in Nat : n = Len(naf) /\ DOMAIN naf = 1 .. n
  OBVIOUS
<1>3. \A q \in 1 .. n : naf[q].shift \in Int /\ naf[q].add \in BOOLEAN
  <2>1. \A q \in 1 .. n : naf[q] \in Terms
    BY <1>2
  <2>2. \A r \in Terms : r.shift \in Int /\ r.add \in BOOLEAN
    BY DEF Terms
  <2> QED
    BY <2>1, <2>2
<1>4. PICK u \in {0, 1} : u = IF naf[1].shift = 0 THEN 1 ELSE 0
  OBVIOUS
<1>5. PICK shifts, positive, lead :
        /\ shifts = [q \in 1 .. (n - u) |-> ByConst("shl", w, x, naf[q + u].shift)]
        /\ positive = [q \in 1 .. n |-> [value |-> IF naf[q].shift = 0 THEN x ELSE New(q - u),
                                         add   |-> naf[q].add]]
        /\ lead = IF naf[1].add THEN <<>> ELSE <<[value |-> Const(w, 0), add |-> TRUE]>>
  OBVIOUS
<1>6. PICK t : t = lead \o positive
  OBVIOUS
<1>7. PICK sums :
        sums = [q \in 1 .. (Len(t) - 1) |->
                 Arith(IF t[q + 1].add THEN "add" ELSE "sub", w,
                       IF q = 1 THEN t[1].value ELSE New(Len(shifts) + q - 1), t[q + 1].value)]
  OBVIOUS
<1>8. replaceMulGeneral(x, w, c) = shifts \o sums
  BY <1>1, <1>2, <1>4, <1>5, <1>6, <1>7 DEF replaceMulGeneral
<1>9. {"shl", "add", "sub"} \subseteq Arithmetic
  BY DEF Arithmetic, Shifts
<1> DEFINE TV == [value : Operands \cup News, add : BOOLEAN]
<1>10. Const(w, 0) \in Operands
  BY ConstFacts
<1>11. lead \in Seq(TV) /\ Len(lead) \in {0, 1} /\ (Len(lead) = 1 => lead[1].value = Const(w, 0))
  <2>1. CASE naf[1].add
    BY <1>5, <2>1
  <2>2. CASE ~naf[1].add
    <3>1. PICK e \in TV : e = [value |-> Const(w, 0), add |-> TRUE] /\ e.value = Const(w, 0)
      <4>1. PICK z \in Operands \cup News : z = Const(w, 0)
        BY <1>10
      <4>2. [value |-> z, add |-> TRUE] \in TV
        OBVIOUS
      <4> QED
        BY <4>1, <4>2
    <3>2. lead = <<e>>
      BY <1>5, <2>2, <3>1
    <3> QED
      BY <3>1, <3>2
  <2> QED
    BY <2>1, <2>2
<1>12. CASE n = 0
  <2>1. shifts \in Seq(Templates) /\ Len(shifts) = 0
    <3>1. 1 .. (n - u) = 1 .. 0
      BY <1>12
    <3>2. shifts \in [1 .. 0 -> Templates]
      BY <1>5, <3>1
    <3> QED
      BY <3>2
  <2>2. positive \in Seq(TV) /\ Len(positive) = 0
    <3>1. positive \in [1 .. 0 -> TV]
      BY <1>5, <1>12
    <3> QED
      BY <3>1
  <2>3. Len(t) \in {0, 1}
    BY <1>6, <1>11, <2>2
  <2>4. sums \in Seq(Templates) /\ Len(sums) = 0
    <3>1. 1 .. (Len(t) - 1) = 1 .. 0
      <4>1. PICK l \in {0, 1} : l = Len(t)
        BY <2>3
      <4>2. 1 .. (l - 1) = 1 .. 0
        OBVIOUS
      <4> QED
        BY <4>1, <4>2
    <3>2. sums \in [1 .. 0 -> Templates]
      BY <1>7, <3>1
    <3> QED
      BY <3>2
  <2>5. shifts \o sums = <<>>
    BY <2>1, <2>4
  <2> QED
    BY <1>8, <2>5
<1>13. CASE n # 0
  <2>1. PICK a \in Nat : a = n - u
    BY <1>13
  <2>2. /\ shifts \in Seq(Templates) /\ Len(shifts) = a /\ DOMAIN shifts = 1 .. a
        /\ \A i \in 1 .. a : \E s \in Int : shifts[i] = Arith("shl", w, x, Const(w, s))
    <3>1. ASSUME NEW i \in 1 .. a
          PROVE  /\ shifts[i] \in Templates
                 /\ \E s \in Int : shifts[i] = Arith("shl", w, x, Const(w, s))
      <4>1. i + u \in 1 .. n
        BY <2>1
      <4>2. PICK s \in Int : s = naf[i + u].shift
        BY <1>3, <4>1
      <4>3. shifts[i] = Arith("shl", w, x, Const(w, s))
        BY <1>5, <2>1, <4>2 DEF ByConst
      <4>4. Const(w, s) \in Operands
        BY ConstFacts
      <4>5. Arith("shl", w, x, Const(w, s)) \in Templates
        BY <1>9, <4>4, ArithTemplate
      <4> QED
        BY <4>3, <4>5
    <3>2. shifts \in [1 .. a -> Templates]
      BY <1>5, <2>1, <3>1
    <3> QED
      BY <3>1, <3>2
  <2>3. /\ positive \in Seq(TV) /\ Len(positive) = n
        /\ \A q \in 1 .. n : Addend(positive[q].value, x, w, a)
    <3>1. ASSUME NEW q \in 1 .. n
          PROVE  positive[q] \in TV /\ Addend(positive[q].value, x, w, a)
      <4>1. PICK v : v = IF naf[q].shift = 0 THEN x ELSE New(q - u)
        OBVIOUS
      <4>2. positive[q] = [value |-> v, add |-> naf[q].add]
        BY <1>5, <4>1
      <4>3. Addend(v, x, w, a)
        <5>1. CASE naf[q].shift = 0
          BY <4>1, <5>1 DEF Addend
        <5>2. CASE naf[q].shift # 0
          <6>1. u = 1 => q # 1
            BY <1>4, <5>2
          <6>2. q - u \in 1 .. a
            BY <2>1, <6>1
          <6> QED
            BY <4>1, <5>2, <6>2 DEF Addend
        <5> QED
          BY <5>1, <5>2
      <4>4. v \in Operands \cup News
        BY <4>3, AddendFacts
      <4> QED
        BY <1>3, <4>2, <4>3, <4>4
    <3>2. positive \in [1 .. n -> TV]
      <4> HIDE DEF TV
      <4> QED
        BY <1>5, <3>1
    <3> HIDE DEF TV
    <3> QED
      BY <3>1, <3>2
  <2>4. PICK b \in Nat : b = Len(t) - 1 /\ Len(t) = b + 1 /\ t \in Seq(TV)
    <3> HIDE DEF TV
    <3>1. PICK e \in {0, 1} : e = Len(lead)
      BY <1>11
    <3>2. lead \in Seq(TV) /\ positive \in Seq(TV)
      BY <1>11, <2>3
    <3>3. t \in Seq(TV) /\ Len(t) = e + n
      BY <1>6, <2>3, <3>1, <3>2, JoinFacts
    <3>4. e + n - 1 \in Nat
      BY <1>13
    <3> QED
      BY <3>3, <3>4
  <2>5. ASSUME NEW q \in 1 .. (b + 1) PROVE Addend(t[q].value, x, w, a)
    <3> HIDE DEF TV
    <3>1. PICK e \in {0, 1} : e = Len(lead)
      BY <1>11
    <3>2. /\ \A j \in 1 .. e : t[j] = lead[j]
          /\ \A j \in 1 .. n : t[e + j] = positive[j]
          /\ b + 1 = e + n
      BY <1>6, <1>11, <2>3, <2>4, <3>1
    <3>3. CASE q \in 1 .. e
      <4>1. q = 1 /\ e = 1
        BY <3>3
      <4> QED
        BY <1>11, <3>1, <3>2, <4>1 DEF Addend
    <3>4. CASE q \notin 1 .. e
      <4>1. PICK j \in 1 .. n : q = e + j
        BY <3>2, <3>4
      <4> QED
        BY <2>3, <3>2, <4>1
    <3> QED
      BY <3>3, <3>4
  <2>6. ASSUME NEW q \in 1 .. b
        PROVE  \E op \in Arithmetic : \E y, v :
                 /\ sums[q] = Arith(op, w, y, v) /\ Addend(y, x, w, a + q - 1)
                 /\ Addend(v, x, w, a + q - 1)
    <3>1. PICK op \in Arithmetic : op = IF t[q + 1].add THEN "add" ELSE "sub"
      BY <1>9
    <3>2. PICK y, v : y = (IF q = 1 THEN t[1].value ELSE New(a + q - 1)) /\ v = t[q + 1].value
      OBVIOUS
    <3>3. sums[q] = Arith(op, w, y, v)
      BY <1>7, <2>2, <2>4, <3>1, <3>2
    <3>4. \A z : Addend(z, x, w, a) => Addend(z, x, w, a + q - 1)
      <4>1. 1 .. a \subseteq 1 .. (a + q - 1)
        OBVIOUS
      <4> QED
        BY <4>1 DEF Addend
    <3>5. Addend(y, x, w, a + q - 1)
      <4>1. CASE q = 1
        <5>1. 1 \in 1 .. (b + 1)
          OBVIOUS
        <5> QED
          BY <2>5, <3>2, <3>4, <4>1, <5>1
      <4>2. CASE q # 1
        <5>1. a + q - 1 \in 1 .. (a + q - 1)
          BY <4>2
        <5> QED
          BY <3>2, <4>2, <5>1 DEF Addend
      <4> QED
        BY <4>1, <4>2
    <3>6. Addend(v, x, w, a + q - 1)
      <4>1. q + 1 \in 1 .. (b + 1)
        OBVIOUS
      <4> QED
        BY <2>5, <3>2, <3>4, <4>1
    <3> QED
      BY <3>3, <3>5, <3>6
  <2>7. sums \in Seq(Templates) /\ Len(sums) = b /\ DOMAIN sums = 1 .. b
    <3>1. ASSUME NEW q \in 1 .. b PROVE sums[q] \in Templates
      <4>1. PICK op, y, v :
              /\ op \in Arithmetic /\ sums[q] = Arith(op, w, y, v) /\ Addend(y, x, w, a + q - 1)
              /\ Addend(v, x, w, a + q - 1)
        BY <2>6
      <4>2. y \in Operands \cup News /\ v \in Operands \cup News
        <5>1. PICK h \in Nat : h = a + q - 1
          OBVIOUS
        <5> QED
          BY <4>1, <5>1, AddendFacts
      <4> QED
        BY <4>1, <4>2, ArithTemplate
    <3>2. sums \in [1 .. b -> Templates]
      BY <1>7, <2>4, <3>1
    <3> QED
      BY <3>2
  <2>8. PICK r : r = shifts \o sums
    OBVIOUS
  <2>9. /\ r \in Seq(Templates) /\ Len(r) = a + b
        /\ \A i \in 1 .. a : r[i] = shifts[i]
        /\ \A q \in 1 .. b : r[a + q] = sums[q]
    <3>1. shifts \in Seq(Templates) /\ Len(shifts) = a /\ sums \in Seq(Templates) /\ Len(sums) = b
      BY <2>2, <2>7
    <3>2. r \in Seq(Templates) /\ Len(r) = a + b
      <4>1. r \in Seq(Templates)
        BY <2>8, <3>1
      <4>2. Len(r) = Len(shifts) + Len(sums)
        BY <2>8, <3>1, JoinLength
      <4> QED
        BY <3>1, <4>1, <4>2
    <3>3. \A i \in 1 .. a : r[i] = shifts[i]
      BY <2>8, <3>1
    <3>4. ASSUME NEW q \in 1 .. b PROVE r[a + q] = sums[q]
      <4>1. a + q \in 1 .. (a + b) /\ a + q > a /\ (a + q) - a = q
        OBVIOUS
      <4> QED
        BY <2>8, <3>1, <4>1
    <3> QED
      BY <3>2, <3>3, <3>4
  <2> DEFINE Good(i) == Builds(P, code, k, r, i) /\ r[i].width = w
  <2>10. ASSUME NEW i \in 1 .. a PROVE Good(i)
    <3>1. PICK s \in Int : r[i] = Arith("shl", w, x, Const(w, s))
      BY <2>2, <2>9
    <3>2. /\ Usable(P, code, k, r, i, x, w) /\ Usable(P, code, k, r, i, Const(w, s), w)
      BY ConstFacts DEF Usable
    <3> QED
      BY <1>9, <2>9, <3>1, <3>2, ArithBuilds
  <2>11. ASSUME NEW q \in 1 .. b PROVE Good(a + q)
    \* The sums before this one have w bits.
    <3>1. \A m \in 1 .. (a + q - 1) : r[m].width = w
      <4>1. ASSUME NEW m \in 1 .. (a + q - 1) PROVE r[m].width = w
        <5>1. CASE m \in 1 .. a
          BY <2>10, <5>1
        <5>2. CASE m \notin 1 .. a
          <6>1. PICK j \in 1 .. b : m = a + j
            BY <5>2
          <6>2. PICK op, y, v : op \in Arithmetic /\ sums[j] = Arith(op, w, y, v)
            BY <2>6
          <6> QED
            BY <2>9, <6>1, <6>2 DEF Arith, Instr
        <5> QED
          BY <5>1, <5>2
      <4> QED
        BY <4>1
    <3>2. PICK op, y, v :
            /\ op \in Arithmetic /\ r[a + q] = Arith(op, w, y, v) /\ Addend(y, x, w, a + q - 1)
            /\ Addend(v, x, w, a + q - 1)
      BY <2>6, <2>9
    <3>3. PICK h \in Nat, i \in Nat : h = a + q - 1 /\ i = a + q /\ i > h
      OBVIOUS
    <3>4. Usable(P, code, k, r, i, y, w) /\ Usable(P, code, k, r, i, v, w)
      BY <3>1, <3>2, <3>3, AddendFacts
    <3> QED
      BY <2>9, <3>2, <3>3, <3>4, ArithBuilds
  <2>12. ASSUME NEW i \in 1 .. (a + b) PROVE Good(i)
    <3>1. CASE i \in 1 .. a
      BY <2>10, <3>1
    <3>2. CASE i \notin 1 .. a
      <4>1. PICK q \in 1 .. b : i = a + q
        BY <3>2
      <4> HIDE DEF Good
      <4> QED
        BY <2>11, <4>1
    <3> QED
      BY <3>1, <3>2
  <2>13. IsReplacement(P, code, k, r)
    BY <2>9, <2>12 DEF IsReplacement
  <2>14. r # <<>> => r[Len(r)].width = w
    <3> SUFFICES ASSUME r # <<>> PROVE r[a + b].width = w
      BY <2>9
    <3>1. a + b \in 1 .. (a + b)
      BY <2>9
    <3> QED
      BY <2>12, <3>1
  <2> QED
    BY <1>8, <2>8, <2>9, <2>13, <2>14 DEF Makes
<1> QED
  BY <1>12, <1>13

LEMMA MulMakes ==
  ASSUME NEW P, NEW code, NEW k, NEW w \in Widths, NEW x \in Operands,
         isOfWidth(P, code, k, x, w), NEW c \in Int
  PROVE  replaceMul(x, w, c) = <<>> \/ Makes(P, code, k, replaceMul(x, w, c), w)
<1>1. CASE c \in {0, 1}
  BY <1>1 DEF replaceMul
<1>2. CASE c = Size(w) - 1 /\ c \notin {0, 1}
  <2>1. replaceMul(x, w, c) = <<Negate(w, x)>>
    BY <1>2 DEF replaceMul
  <2> QED
    BY <2>1, NegateMakes
<1>3. CASE c \notin {0, 1, Size(w) - 1}
  <2>1. replaceMul(x, w, c) = replaceMulGeneral(x, w, c)
    BY <1>3 DEF replaceMul
  <2> QED
    BY <2>1, MulGeneralMakes
<1> QED
  BY <1>1, <1>2, <1>3

LEMMA ReplacementMakes ==
  ASSUME NEW P, NEW code, NEW k, NEW J \in Instructions, J.op \in Arithmetic, J.width \in Widths,
         J.args[1] \in Operands, isOfWidth(P, code, k, J.args[1], J.width),
         J.args[2].n \in Nat, J.args[2].n < Size(J.width)
  PROVE  /\ Replacement(J) = <<>> \/ Makes(P, code, k, Replacement(J), J.width)
         /\ J.op \in Divisions /\ J.width \in Narrow /\ J.args[2].n > 1 => Replacement(J) # <<>>
<1>1. PICK w, c, x : /\ w \in Widths /\ w = J.width /\ c \in Nat /\ c = J.args[2].n /\ c < Size(w)
                     /\ x \in Operands /\ x = J.args[1] /\ isOfWidth(P, code, k, x, w)
  OBVIOUS
<1>2. PICK op : op = J.op
  OBVIOUS
<1>3. PICK m \in Nat \ {0} : m = Size(w)
  BY <1>1, SizeFacts
<1>4. PICK d \in Int : d = SignedValue(w, c)
  BY <1>1, <1>3 DEF SignedValue
<1>5. (w = 1 => d \in {0, -1}) /\ (c > 1 => d \notin {0, 1})
  <2>1. w = 1 => m = 2
    BY <1>1, <1>3, WidthCases
  <2> QED
    BY <1>1, <1>3, <1>4, <2>1 DEF SignedValue
<1> DEFINE Fit(s) == /\ s = <<>> \/ Makes(P, code, k, s, w)
                     /\ c > 1 /\ w \in Narrow => s # <<>>
<1>6. PICK all : all = CASE op = "mul" -> replaceMul(x, w, c)
                         [] op = "udiv" -> replaceUDiv(x, w, c)
                         [] op = "sdiv" -> replaceSDiv(x, w, d)
                         [] op = "urem" -> replaceURem(x, w, c)
                         [] op = "srem" -> replaceSRem(x, w, d)
                         [] op \notin Divisions \cup {"mul"} -> <<>>
  OBVIOUS
<1>7. Replacement(J) = IF Len(all) > Limit(op) THEN <<>> ELSE all
  BY <1>1, <1>2, <1>4, <1>6 DEF Replacement
<1>8. CASE op = "mul"
  <2>1. all = replaceMul(x, w, c)
    BY <1>6, <1>8
  <2>2. all = <<>> \/ Makes(P, code, k, all, w)
    BY <1>1, <2>1, MulMakes
  <2>3. op \notin Divisions
    BY <1>8 DEF Divisions
  <2> QED
    BY <1>1, <1>2, <1>7, <2>2, <2>3
<1>9. CASE op \in Divisions
  <2>1. Fit(all) /\ all \in Seq(Templates) /\ Len(all) \in 0 .. 11
    <3>1. CASE op = "udiv"
      <4>1. all = replaceUDiv(x, w, c)
        BY <1>6, <3>1 DEF Divisions
      <4>2. /\ all = <<>> \/ Makes(P, code, k, all, w)
            /\ Len(all) \in 0 .. 6 /\ (c > 1 /\ w \in Narrow => all # <<>>)
        BY <1>1, <4>1, UDivMakes
      <4>3. all \in Seq(Templates)
        <5>1. CASE all = <<>>
          BY <5>1
        <5>2. CASE Makes(P, code, k, all, w)
          BY <5>2 DEF Makes, IsReplacement
        <5> QED
          BY <4>2, <5>1, <5>2
      <4>4. 0 .. 6 \subseteq 0 .. 11
        OBVIOUS
      <4> QED
        BY <4>2, <4>3, <4>4
    <3>2. CASE op = "sdiv"
      <4>1. all = replaceSDiv(x, w, d)
        BY <1>6, <3>2 DEF Divisions
      <4>2. /\ Replaces(P, code, k, all, w, 9)
            /\ d \notin {0, 1} /\ w \in Narrow => all # <<>>
        BY <1>1, <1>5, <4>1, SDivMakes
      <4>3. 0 .. 9 \subseteq 0 .. 11
        OBVIOUS
      <4> QED
        BY <1>5, <4>2, <4>3 DEF Replaces
    <3>3. CASE op = "urem"
      <4>1. all = replaceURem(x, w, c)
        BY <1>6, <3>3 DEF Divisions
      <4>2. /\ Replaces(P, code, k, all, w, 11)
            /\ c > 1 /\ w \in Narrow => all # <<>>
        BY <1>1, <4>1, URemMakes
      <4> QED
        BY <4>2 DEF Replaces
    <3>4. CASE op = "srem"
      <4>1. all = replaceSRem(x, w, d)
        BY <1>6, <3>4 DEF Divisions
      <4>2. /\ Replaces(P, code, k, all, w, 11)
            /\ d \notin {0, 1} /\ w \in Narrow => all # <<>>
        BY <1>1, <1>5, <4>1, SRemMakes
      <4> QED
        BY <1>5, <4>2 DEF Replaces
    <3> QED
      BY <1>9, <3>1, <3>2, <3>3, <3>4 DEF Divisions
  <2>2. Limit(op) = 20
    BY <1>9 DEF Limit, Divisions
  <2>3. Replacement(J) = all
    <3>1. PICK l \in 0 .. 11 : l = Len(all)
      BY <2>1
    <3>2. ~(l > 20)
      OBVIOUS
    <3>3. ~(Len(all) > 20)
      BY <3>1, <3>2
    <3> QED
      BY <1>7, <2>2, <3>3
  <2> QED
    BY <1>1, <2>1, <2>3
<1>10. CASE op \notin Divisions \cup {"mul"}
  <2>1. all = <<>>
    BY <1>6, <1>10 DEF Divisions
  <2> QED
    BY <1>2, <1>7, <1>10, <2>1
<1> QED
  BY <1>8, <1>9, <1>10

-----------------------------------------------------------------------------
(* Every visit leaves well-formed code. *)

LEMMA VisitFacts ==
  ASSUME isWellFormed(params, body), at \in 1 .. Len(body)
  PROVE  /\ I \in Instructions /\ fits(params, body, at) /\ I.id \in Nat /\ at \in Nat
         /\ I.op # "ret" => I.width \in Widths
         /\ I.op \in Arithmetic \cup Relations \cup Casts \cup {"select"} => I.op # "ret"
         /\ \A i \in DOMAIN I.args : I.args[i] \in Operands
         /\ DOMAIN I.args = 1 .. Len(I.args)
<1>1. /\ Len(body) \in Nat /\ body[at] \in Instructions /\ fits(params, body, at)
  BY WellFormedMeans
<1>2. I = body[at]
  BY DEF I
<1>3. I.op \in Arithmetic \cup Relations \cup Casts \cup {"select"} => I.op # "ret"
  BY DEF Arithmetic, Divisions, Shifts, Relations, Casts
<1>4. I.op # "ret" => I.width \in Widths
  BY <1>1, <1>2, FitsMeans
<1> QED
  BY <1>1, <1>2, <1>3, <1>4, InstructionFacts

LEMMA ReplaceByWellFormed ==
  ASSUME isWellFormed(params, body), at \in 1 .. Len(body), I.op # "ret",
         NEW v \in Operands, isOfWidth(params, body, at, v, I.width), ReplaceBy(v)
  PROVE  isWellFormed(params', body') /\ at' \in Nat
<1>1. params' = params /\ body' = RemoveAt(ReplaceUses(body, body[at].id, v), at)
  BY DEF ReplaceBy, I
<1>2. body[at].op # "ret" /\ isOfWidth(params, body, at, v, body[at].width)
  BY DEF I
<1>3. at' \in Nat
  BY VisitFacts DEF ReplaceBy
<1> QED
  BY <1>1, <1>2, <1>3, RemoveWellFormed

LEMMA ExpandWellFormed ==
  ASSUME isWellFormed(params, body), at \in 1 .. Len(body), I.op # "ret",
         NEW new, Makes(params, body, at, new, I.width), Expand(new)
  PROVE  isWellFormed(params', body') /\ at' \in Nat
<1>1. /\ params' = params
      /\ body' = Splice(ReplaceUses(body, body[at].id, Val(freshId + Len(new))), at, Inserted(new))
  BY DEF Expand, I, Splice
<1>2. /\ body[at].op # "ret" /\ new # <<>> /\ IsReplacement(params, body, at, new)
      /\ new[Len(new)].width = body[at].width
  BY DEF I, Makes
<1>3. at' \in Nat
  <2>1. new \in Seq(Templates)
    BY <1>2 DEF IsReplacement
  <2>2. Len(new) \in Nat /\ at \in Nat /\ at' = at + Len(new)
    BY <2>1, VisitFacts DEF Expand
  <2> QED
    BY <2>2
<1> QED
  BY <1>1, <1>2, <1>3, ReplacementWellFormed

LEMMA DefinitionFacts ==
  ASSUME isWellFormed(params, body), at \in 1 .. Len(body), NEW v, NEW w \in Widths, NEW op,
         isOfWidth(params, body, at, v, w), addsConstant(v, op), op \in Arithmetic
  PROVE  LET J == definition(v)
         IN  /\ J.args[1] \in Operands /\ isOfWidth(params, body, at, J.args[1], w)
             /\ J.args[2] \in Operands /\ isOfWidth(params, body, at, J.args[2], w)
             /\ IsConstant(J.args[2])
<1>1. (\E J \in Range(body) : v = Val(J.id)) /\ definition(v).op = op /\ IsConstant(definition(v).args[2])
  <2>1. isDefined(v) /\ definition(v).op = op /\ IsConstant(definition(v).args[2])
    BY DEF addsConstant
  <2>2. \E J \in Range(body) : v = Val(J.id)
    BY <2>1 DEF isDefined
  <2> QED
    BY <2>1, <2>2
<1>2. PICK J : J \in Range(body) /\ v = Val(J.id) /\ J = definition(v)
  BY <1>1 DEF definition
<1>3. PICK i \in 1 .. Len(body) : J = body[i]
  BY <1>2, WellFormedMeans DEF Range
<1>4. /\ J \in Instructions /\ J.id > Len(params) /\ fits(params, body, i) /\ Len(body) \in Nat
      /\ DOMAIN params = 1 .. Len(params)
      /\ \A j \in 1 .. Len(body) : body[j].id = J.id => j = i
  BY <1>3, WellFormedMeans
<1>5. v.is = "value" /\ v.n = J.id /\ v.n \notin DOMAIN params
  BY <1>2, <1>4, WellFormedMeans, InstructionFacts DEF Val
<1>6. ~IsConst(v) /\ ~IsPoison(v)
  BY <1>5 DEF IsConst, IsPoison
<1>7. PICK j \in 1 .. (at - 1) : v = Val(body[j].id) /\ body[j].width = w
  BY <1>5, <1>6 DEF isOfWidth
<1>8. j = i /\ i < at
  BY <1>4, <1>5, <1>7 DEF Val
<1>9. /\ J.width = w /\ Len(J.args) = 2 /\ isOfWidth(params, body, i, J.args[1], w)
      /\ isOfWidth(params, body, i, J.args[2], w)
  BY <1>1, <1>2, <1>3, <1>4, <1>7, <1>8, FitsMeans
<1>10. Covers(body, at, body, i)
  <2>1. 1 .. (i - 1) \subseteq 1 .. (at - 1)
    BY <1>4, <1>8
  <2> QED
    BY <2>1 DEF Covers
<1>11. J.args[1] \in Operands /\ J.args[2] \in Operands
  BY <1>4, <1>9, InstructionFacts
<1> QED
  BY <1>1, <1>2, <1>9, <1>10, <1>11, WidthKept

LEMMA ChainFacts ==
  ASSUME isWellFormed(params, body), at \in 1 .. Len(body), NEW w \in Widths,
         NEW op \in Arithmetic, NEW x \in Operands, NEW c \in Operands, IsConstant(c),
         isOfWidth(params, body, at, x, w), isOfWidth(params, body, at, c, w)
  PROVE  LET ends == chain(op, w, x, c)
         IN  /\ ends[1] \in Operands /\ isOfWidth(params, body, at, ends[1], w)
             /\ ends[2] \in Operands /\ isOfWidth(params, body, at, ends[2], w)
<1> DEFINE D == {l \in Operands \X Operands :
                   /\ IsConstant(l[2]) /\ isOfWidth(params, body, at, l[1], w)
                   /\ isOfWidth(params, body, at, l[2], w)}
           n == Len(body)
           z == <<x, c>>
           longer(link) ==
             IF addsConstant(link[1], op)
             THEN LET J == definition(link[1])
                  IN  <<J.args[1], FoldArith(op, w, link[2], J.args[2])>>
             ELSE link
           Step(g, k) == IF k = 0 THEN z
                         ELSE CHOOSE l \in {longer(link) : link \in {g[k - 1]}} : TRUE
           links == CHOOSE g : g = [k \in 0 .. n |-> Step(g, k)]
           f == [p \in Nat \X D |-> longer(p[2])]
<1>1. n \in Nat
  BY WellFormedMeans
<1>2. z \in D
  OBVIOUS
<1>3. ASSUME NEW l \in D PROVE longer(l) \in D
  <2>1. /\ l[1] \in Operands /\ l[2] \in Operands /\ IsConstant(l[2])
        /\ isOfWidth(params, body, at, l[1], w) /\ isOfWidth(params, body, at, l[2], w)
    OBVIOUS
  <2>2. CASE addsConstant(l[1], op)
    <3>1. PICK a, b : a = definition(l[1]).args[1] /\ b = definition(l[1]).args[2]
      OBVIOUS
    <3>2. /\ a \in Operands /\ isOfWidth(params, body, at, a, w)
          /\ b \in Operands /\ isOfWidth(params, body, at, b, w) /\ IsConstant(b)
      BY <2>1, <2>2, <3>1, DefinitionFacts
    <3>3. PICK e : e = FoldArith(op, w, l[2], b)
      OBVIOUS
    <3>4. I.id \in Nat
      BY VisitFacts
    <3>5. e \in Operands /\ IsConstant(e) /\ isOfWidth(params, body, at, e, w)
      BY <2>1, <3>2, <3>3, <3>4, FoldArithFacts
    <3>6. longer(l) = <<a, e>>
      BY <2>2, <3>1, <3>3
    <3>7. <<a, e>> \in D
      BY <3>2, <3>5
    <3> HIDE DEF longer, D
    <3> QED
      BY <3>6, <3>7
  <2>3. CASE ~addsConstant(l[1], op)
    <3>1. longer(l) = l
      BY <2>3
    <3> HIDE DEF longer, D
    <3> QED
      BY <3>1
  <2> QED
    BY <2>2, <2>3
<1>4. \A g, k : k # 0 => Step(g, k) = longer(g[k - 1])
  <2> HIDE DEF longer
  <2> QED
    OBVIOUS
<1> HIDE DEF longer
<1>5. f \in [Nat \X D -> D]
  <2> HIDE DEF D
  <2> QED
    BY <1>3
<1>6. PICK g \in [0 .. n -> D] : Iteration(g, n, z, f)
  <2> HIDE DEF f, D, z, n
  <2> QED
    BY <1>1, <1>2, <1>5, Iterates
<1>7. \A k \in 0 .. n : g[k] = Step(g, k)
  <2>1. ASSUME NEW k \in 1 .. n PROVE g[k] = Step(g, k)
    <3>1. g[k - 1] \in D /\ k \in Nat /\ k # 0
      <4> HIDE DEF D
      <4> QED
        BY <1>1
    <3>2. f[<<k, g[k - 1]>>] = longer(g[k - 1])
      <4> HIDE DEF D
      <4> QED
        BY <3>1
    <3> HIDE DEF f, Step, z, D
    <3> QED
      BY <1>4, <1>6, <3>1, <3>2 DEF Iteration
  <2>2. g[0] = Step(g, 0)
    BY <1>6 DEF Iteration
  <2> HIDE DEF Step
  <2> QED
    BY <1>1, <2>1, <2>2
<1>8. g = [k \in 0 .. n |-> Step(g, k)]
  <2> HIDE DEF Step, D
  <2> QED
    BY <1>6, <1>7
<1>9. links = [k \in 0 .. n |-> Step(links, k)]
  <2> HIDE DEF Step
  <2> QED
    BY <1>8
<1> HIDE DEF links
<1>10. \A k \in 0 .. n : links[k] = Step(links, k)
  <2> HIDE DEF Step, n
  <2> QED
    BY <1>9
<1>11. links[0] \in D
  <2>1. links[0] = Step(links, 0)
    BY <1>1, <1>10
  <2>2. links[0] = z
    BY <2>1
  <2> HIDE DEF D, z
  <2> QED
    BY <1>2, <2>2
<1>12. ASSUME NEW k \in 1 .. n, links[k - 1] \in D PROVE links[k] \in D
  <2>1. links[k] = longer(links[k - 1])
    <3>1. links[k] = Step(links, k) /\ k # 0
      <4> HIDE DEF Step
      <4> QED
        BY <1>1, <1>10
    <3> HIDE DEF Step
    <3> QED
      BY <1>4, <3>1
  <2> HIDE DEF D
  <2> QED
    BY <1>3, <1>12, <2>1
<1>13. links[n] \in D
  <2> HIDE DEF D, n
  <2>1. \A k \in 0 .. n : links[k] \in D
    BY <1>1, <1>11, <1>12, StaysIn
  <2> QED
    BY <1>1, <2>1
<1>14. chain(op, w, x, c) = links[n]
  BY DEF chain, links, longer
<1> QED
  BY <1>13, <1>14

\* The two operands of an arithmetic instruction.
LEMMA ArithmeticOperands ==
  ASSUME isWellFormed(params, body), at \in 1 .. Len(body), I.op \in Arithmetic
  PROVE  /\ I.op # "ret" /\ I.width \in Widths
         /\ I.args[1] \in Operands /\ isOfWidth(params, body, at, I.args[1], I.width)
         /\ I.args[2] \in Operands /\ isOfWidth(params, body, at, I.args[2], I.width)
<1>1. I = body[at]
  BY DEF I
<1>2. /\ Len(I.args) = 2 /\ isOfWidth(params, body, at, I.args[1], I.width)
      /\ isOfWidth(params, body, at, I.args[2], I.width)
  BY <1>1, VisitFacts, FitsMeans
<1>3. 1 \in DOMAIN I.args /\ 2 \in DOMAIN I.args
  BY <1>2, VisitFacts
<1> QED
  BY <1>2, <1>3, VisitFacts

LEMMA ConstWellFormed ==
  ASSUME isWellFormed(params, body), at \in 1 .. Len(body), I.op # "ret", NEW c \in Int,
         ReplaceBy(Const(I.width, c))
  PROVE  isWellFormed(params', body') /\ at' \in Nat
<1>1. I.width \in Widths
  BY VisitFacts
<1> QED
  BY <1>1, ConstFacts, ReplaceByWellFormed

LEMMA PoisonWellFormed ==
  ASSUME isWellFormed(params, body), at \in 1 .. Len(body), I.op # "ret",
         ReplaceBy(PoisonValue(I.id))
  PROVE  isWellFormed(params', body') /\ at' \in Nat
BY VisitFacts, PoisonFacts, ReplaceByWellFormed

LEMMA KeepWellFormed ==
  ASSUME isWellFormed(params, body), at \in 1 .. Len(body), Keep
  PROVE  isWellFormed(params', body') /\ at' \in Nat
<1>1. at \in Nat /\ at' = at + 1
  BY VisitFacts DEF Keep
<1> QED
  BY <1>1 DEF Keep

LEMMA CombineWellFormed ==
  ASSUME isWellFormed(params, body), Combine
  PROVE  isWellFormed(params', body') /\ at' \in Nat
<1>1. at \in 1 .. Len(body) /\ I.op \in {"add", "mul"} /\ IsConstant(I.args[2])
  BY DEF Combine, Visiting
<1>2. I.op \in Arithmetic
  BY <1>1 DEF Arithmetic
<1>3. PICK ends : ends = chain(I.op, I.width, I.args[1], I.args[2])
  OBVIOUS
<1>4. \/ Expand(<<Arith(I.op, I.width, ends[1], ends[2])>>)
      \/ Keep
  BY <1>3 DEF Combine
<1>5. /\ ends[1] \in Operands /\ isOfWidth(params, body, at, ends[1], I.width)
      /\ ends[2] \in Operands /\ isOfWidth(params, body, at, ends[2], I.width)
  BY <1>1, <1>2, <1>3, ArithmeticOperands, ChainFacts
<1>6. Makes(params, body, at, <<Arith(I.op, I.width, ends[1], ends[2])>>, I.width)
  BY <1>1, <1>2, <1>5, ArithmeticOperands, SingleMakes
<1> QED
  BY <1>1, <1>2, <1>4, <1>6, ArithmeticOperands, ExpandWellFormed, KeepWellFormed

LEMMA SimplifyByConstantWellFormed ==
  ASSUME isWellFormed(params, body), SimplifyByConstant
  PROVE  isWellFormed(params', body') /\ at' \in Nat
<1>1. at \in 1 .. Len(body) /\ I.op \in Arithmetic
  BY DEF SimplifyByConstant, Visiting, ByConstant
<1>2. \/ ReplaceBy(I.args[1])
      \/ ReplaceBy(Const(I.width, 0))
      \/ ReplaceBy(PoisonValue(I.id))
      \/ Keep
  BY DEF SimplifyByConstant
<1>3. I.op # "ret"
  BY <1>1, ArithmeticOperands
<1>4. CASE ReplaceBy(I.args[1])
  BY <1>1, <1>3, <1>4, ArithmeticOperands, ReplaceByWellFormed
<1>5. CASE ReplaceBy(Const(I.width, 0))
  BY <1>1, <1>3, <1>5, ConstWellFormed
<1> QED
  BY <1>1, <1>2, <1>3, <1>4, <1>5, PoisonWellFormed, KeepWellFormed

LEMMA SimplifyOnItselfWellFormed ==
  ASSUME isWellFormed(params, body), SimplifyOnItself
  PROVE  isWellFormed(params', body') /\ at' \in Nat
<1>1. at \in 1 .. Len(body) /\ I.op \in Arithmetic
  BY DEF SimplifyOnItself, Visiting, OnItself
<1>2. \/ Expand(<<ByConst("mul", I.width, I.args[1], 2)>>)
      \/ ReplaceBy(I.args[1])
      \/ ReplaceBy(Const(I.width, 0))
      \/ ReplaceBy(Const(I.width, 1))
      \/ Keep
  BY DEF SimplifyOnItself
<1>3. I.op # "ret"
  BY <1>1, ArithmeticOperands
<1>4. CASE Expand(<<ByConst("mul", I.width, I.args[1], 2)>>)
  <2>1. "mul" \in Arithmetic
    BY DEF Arithmetic
  <2>2. Makes(params, body, at, <<ByConst("mul", I.width, I.args[1], 2)>>, I.width)
    BY <1>1, <2>1, ArithmeticOperands, ByConstMakes
  <2> QED
    BY <1>1, <1>3, <1>4, <2>2, ExpandWellFormed
<1>5. CASE ReplaceBy(I.args[1])
  BY <1>1, <1>3, <1>5, ArithmeticOperands, ReplaceByWellFormed
<1>6. CASE ReplaceBy(Const(I.width, 0)) \/ ReplaceBy(Const(I.width, 1))
  BY <1>1, <1>3, <1>6, ConstWellFormed
<1> QED
  BY <1>1, <1>2, <1>4, <1>5, <1>6, KeepWellFormed

LEMMA SimplifyCompareWellFormed ==
  ASSUME isWellFormed(params, body), SimplifyCompare
  PROVE  isWellFormed(params', body') /\ at' \in Nat
<1>1. at \in 1 .. Len(body) /\ I.op \in Relations
  BY DEF SimplifyCompare, Visiting
<1>2. PICK c \in {0, 1} : ReplaceBy(Const(1, c))
  BY DEF SimplifyCompare
<1>3. I.op # "ret" /\ I.width = 1
  <2>1. I = body[at]
    BY DEF I
  <2> QED
    BY <1>1, <2>1, VisitFacts, FitsMeans
<1> QED
  BY <1>1, <1>2, <1>3, ConstWellFormed

LEMMA SimplifySelectWellFormed ==
  ASSUME isWellFormed(params, body), SimplifySelect
  PROVE  isWellFormed(params', body') /\ at' \in Nat
<1>1. at \in 1 .. Len(body) /\ I.op = "select" /\ ReplaceBy(I.args[2])
  BY DEF SimplifySelect, Visiting
<1>2. I = body[at]
  BY DEF I
<1>3. Len(I.args) = 3 /\ isOfWidth(params, body, at, I.args[2], I.width)
  BY <1>1, <1>2, VisitFacts, FitsMeans
<1>4. I.args[2] \in Operands
  BY <1>1, <1>3, VisitFacts
<1> QED
  BY <1>1, <1>3, <1>4, ReplaceByWellFormed

LEMMA FoldWellFormed ==
  ASSUME isWellFormed(params, body), Fold
  PROVE  isWellFormed(params', body') /\ at' \in Nat
<1>1. at \in 1 .. Len(body) /\ isFoldable(I) /\ ReplaceBy(fold(I)) /\ I.op # "ret"
  BY DEF Fold, Visiting, isFoldable
<1>2. I = body[at]
  BY DEF I
<1>3. fold(I) \in Operands /\ isOfWidth(params, body, at, fold(I), I.width)
  BY <1>1, <1>2, VisitFacts, FoldFits
<1> QED
  BY <1>1, <1>3, ReplaceByWellFormed

LEMMA PropagateWellFormed ==
  ASSUME isWellFormed(params, body), Propagate
  PROVE  isWellFormed(params', body') /\ at' \in Nat
<1>1. at \in 1 .. Len(body) /\ propagates(I) /\ ReplaceBy(PoisonValue(I.id))
  BY DEF Propagate, Visiting
<1>2. I.op \in Arithmetic \cup Relations \cup Casts \cup {"select"}
  BY <1>1 DEF propagates
<1> QED
  BY <1>1, <1>2, VisitFacts, PoisonWellFormed

LEMMA NumberWellFormed ==
  ASSUME isWellFormed(params, body), Number
  PROVE  isWellFormed(params', body') /\ at' \in Nat
<1>1. PICK k \in Earlier : ReplaceBy(Val(body[k].id))
  BY DEF Number
<1>2. /\ at \in 1 .. Len(body) /\ k \in 1 .. (at - 1) /\ body[k].op = I.op /\ I.op # "ret"
      /\ body[k].width = I.width
  BY <1>1 DEF Number, Visiting, Earlier, sameNumber
<1>3. isOfWidth(params, body, at, Val(body[k].id), I.width)
  BY <1>2 DEF isOfWidth
<1>4. k \in 1 .. Len(body)
  BY <1>2, WellFormedMeans
<1>5. body[k].id \in Nat
  BY <1>4, WellFormedMeans, InstructionFacts
<1>6. Val(body[k].id) \in Operands
  BY <1>5 DEF Val, Operands
<1> QED
  BY <1>1, <1>2, <1>3, <1>6, ReplaceByWellFormed

LEMMA ReplacementFits ==
  ASSUME NEW P, NEW code, isWellFormed(P, code), NEW k \in 1 .. Len(code),
         NEW J, J = code[k], J.op \in Arithmetic, IsConst(J.args[2])
  PROVE  /\ Replacement(J) = <<>> \/ Makes(P, code, k, Replacement(J), J.width)
         /\ J.op \in Divisions /\ J.width \in Narrow /\ J.args[2].n > 1 => Replacement(J) # <<>>
<1>1. J \in Instructions /\ fits(P, code, k)
  BY WellFormedMeans
<1>2. /\ Len(J.args) = 2 /\ isOfWidth(P, code, k, J.args[1], J.width) /\ J.width = J.from
      /\ isOfWidth(P, code, k, J.args[2], J.width)
  BY <1>1, FitsMeans
<1>3. J.width \in Widths /\ J.args[1] \in Operands /\ J.args[2] \in Operands
  BY <1>1, <1>2, InstructionFacts
<1>4. J.args[2].n \in Bits(J.width)
  BY <1>2, <1>3, ConstantBits
<1>5. J.args[2].n \in Nat /\ J.args[2].n < Size(J.width)
  BY <1>3, <1>4, SignedInt
<1> QED
  BY <1>1, <1>2, <1>3, <1>5, ReplacementMakes

LEMMA ReduceWellFormed ==
  ASSUME isWellFormed(params, body), Reduce
  PROVE  isWellFormed(params', body') /\ at' \in Nat
<1>1. at \in 1 .. Len(body) /\ I.op \in Arithmetic /\ IsConst(I.args[2])
  BY DEF Reduce, Visiting, Reducible
<1>2. PICK new : new = Replacement(I)
  OBVIOUS
<1>3. (new # <<>> /\ Expand(new)) \/ Keep
  BY <1>2 DEF Reduce
<1>4. I = body[at]
  BY DEF I
<1>5. new = <<>> \/ Makes(params, body, at, new, I.width)
  BY <1>1, <1>2, <1>4, ReplacementFits
<1>6. I.op # "ret"
  BY <1>1, ArithmeticOperands
<1> QED
  BY <1>1, <1>3, <1>5, <1>6, ExpandWellFormed, KeepWellFormed

-----------------------------------------------------------------------------
(* What a walk begins with. *)

LEMMA StartCombineWellFormed ==
  ASSUME isWellFormed(params, body), StartCombine
  PROVE  isWellFormed(params', body') /\ at' \in Nat
<1> DEFINE code2 == [k \in DOMAIN body |-> AddInstead(Canonical(body[k], IsConstant))]
<1>1. params' = params /\ body' = code2 /\ at' = 1
  BY DEF StartCombine, Begin
<1>2. ASSUME NEW k \in 1 .. Len(body)
      PROVE  Rewritten(params, body, k, AddInstead(Canonical(body[k], IsConstant)))
  <2>1. PICK J : J = body[k]
    OBVIOUS
  <2>2. J \in Instructions /\ fits(params, body, k)
    BY <2>1, WellFormedMeans
  <2>3. PICK K : K = Canonical(J, IsConstant)
    OBVIOUS
  <2>4. Rewritten(params, body, k, K) /\ K.op = J.op /\ (J.op = "sub" => K = J)
    BY <2>1, <2>2, <2>3, CanonicalRewrites
  <2>5. CASE J.op = "sub"
    BY <2>1, <2>2, <2>3, <2>4, <2>5, AddInsteadRewrites
  <2>6. CASE J.op # "sub"
    <3>1. AddInstead(K) = K
      BY <2>4, <2>6 DEF AddInstead
    <3> QED
      BY <2>1, <2>3, <2>4, <3>1
  <2> QED
    BY <2>5, <2>6
<1>3. DOMAIN body = 1 .. Len(body)
  BY WellFormedMeans
<1>4. code2 \in [DOMAIN body -> Instructions] /\ \A k \in 1 .. Len(body) : Rewritten(params, body, k, code2[k])
  BY <1>2, <1>3 DEF Rewritten
<1> HIDE DEF code2
<1> QED
  BY <1>1, <1>4, PointwiseWellFormed

LEMMA CanonicalWellFormed ==
  ASSUME isWellFormed(params, body), params' = params,
         body' = [k \in DOMAIN body |-> Canonical(body[k], IsConst)]
  PROVE  isWellFormed(params', body')
<1> DEFINE code2 == [k \in DOMAIN body |-> Canonical(body[k], IsConst)]
<1>1. ASSUME NEW k \in 1 .. Len(body)
      PROVE  Rewritten(params, body, k, Canonical(body[k], IsConst))
  BY WellFormedMeans, CanonicalRewrites
<1>2. DOMAIN body = 1 .. Len(body)
  BY WellFormedMeans
<1>3. code2 \in [DOMAIN body -> Instructions] /\ \A k \in 1 .. Len(body) : Rewritten(params, body, k, code2[k])
  BY <1>1, <1>2 DEF Rewritten
<1>4. body' = code2
  OBVIOUS
<1> HIDE DEF code2
<1> QED
  BY <1>3, <1>4, PointwiseWellFormed

LEMMA StepWellFormed ==
  ASSUME isWellFormed(params, body), at \in Nat, [Next]_vars
  PROVE  isWellFormed(params', body') /\ at' \in Nat
<1>1. CASE DeadCodeElimination
  <2>1. PICK r : /\ r = Kept(body, {J \in Range(body) : J.op = "ret" \/ J.id \in Needed})
                 /\ body' = r /\ params' = params /\ at' = 0
    BY <1>1 DEF DeadCodeElimination, Finish
  <2> QED
    BY <2>1, EliminationWellFormed
<1>2. CASE StartCombine
  BY <1>2, StartCombineWellFormed
<1>3. CASE Combine
  BY <1>3, CombineWellFormed
<1>4. CASE CombineNothing \/ SimplifyNothing \/ FoldNothing \/ PropagateNothing \/ NumberNothing \/ ReduceNothing
  <2>1. Keep /\ at \in 1 .. Len(body)
    BY <1>4 DEF Visiting, CombineNothing, SimplifyNothing, FoldNothing, PropagateNothing, NumberNothing, ReduceNothing
  <2> QED
    BY <2>1, KeepWellFormed
<1>5. CASE StartSimplify \/ StartReduce
  <2>1. params' = params /\ body' = [k \in DOMAIN body |-> Canonical(body[k], IsConst)] /\ at' = 1
    BY <1>5 DEF StartSimplify, StartReduce, Begin
  <2> QED
    BY <2>1, CanonicalWellFormed
<1>6. CASE SimplifyByConstant
  BY <1>6, SimplifyByConstantWellFormed
<1>7. CASE SimplifyOnItself
  BY <1>7, SimplifyOnItselfWellFormed
<1>8. CASE SimplifyCompare
  BY <1>8, SimplifyCompareWellFormed
<1>9. CASE SimplifySelect
  BY <1>9, SimplifySelectWellFormed
<1>10. CASE StartFold \/ StartPoison \/ StartNumber
  BY <1>10 DEF StartFold, StartPoison, StartNumber, Begin
<1>11. CASE Fold
  BY <1>11, FoldWellFormed
<1>12. CASE Propagate
  BY <1>12, PropagateWellFormed
<1>13. CASE Number
  BY <1>13, NumberWellFormed
<1>14. CASE Reduce
  BY <1>14, ReduceWellFormed
<1>15. CASE EndWalk
  BY <1>15 DEF EndWalk, Finish
<1>16. CASE UNCHANGED vars
  BY <1>16 DEF vars
<1> QED
  BY <1>1, <1>2, <1>3, <1>4, <1>5, <1>6, <1>7, <1>8, <1>9, <1>10, <1>11, <1>12, <1>13, <1>14,
     <1>15, <1>16 DEF Next

\* The code of every program is well-formed, and every visit of every pass leaves it
\* well-formed: each operand keeps the type the operation asks for and is computed before it
\* is used, whatever a walk has replaced, removed or inserted before it.
THEOREM CodeStaysWellFormed == Spec => []isWellFormed(params, body)
<1> DEFINE Inv == isWellFormed(params, body) /\ at \in Nat
<1>1. Init => Inv
  BY ProgramsAssumption DEF Init
<1>2. Inv /\ [Next]_vars => Inv'
  BY StepWellFormed
<1> QED
  BY <1>1, <1>2, PTL DEF Spec

-----------------------------------------------------------------------------
(***************************************************************************)
(* What a walk that changes nothing has found, and what a round in which   *)
(* no walk changes anything has: the inductive invariant behind            *)
(* DivisionsReplaced. A change anywhere starts the round again.            *)
(***************************************************************************)
Simplified(J) ==
  J.op \in Arithmetic /\ ~IsConst(J.args[1]) /\ IsConst(J.args[2]) =>
    /\ ~isUnchanged(J.op, J.width, J.args[2].n)
    /\ ~isZero(J.op, J.width, J.args[2].n)
    /\ ~isPoison(J.op, J.width, J.args[2].n)

Reduced(J) == J.op \in Arithmetic /\ IsConst(J.args[2]) => Replacement(J) = <<>>

AllSimplified == \A k \in DOMAIN body : Simplified(body[k])
AllFolded == \A k \in DOMAIN body : ~isFoldable(body[k])
AllReduced == \A k \in DOMAIN body : Reduced(body[k])

Progress ==
  /\ pass = "simplify" /\ ~swept => \A k \in DOMAIN body : k < at => Simplified(body[k])
  /\ pass = "fold" /\ ~swept => \A k \in DOMAIN body : k < at => ~isFoldable(body[k])
  /\ pass = "reduce" /\ ~swept => \A k \in DOMAIN body : k < at => Reduced(body[k])
  /\ pass \in {"fold", "poison", "number", "reduce"} /\ ~swept /\ ~changed => AllSimplified
  /\ pass \in {"poison", "number", "reduce"} /\ ~swept /\ ~changed => AllFolded
  /\ pass = "done" => AllSimplified /\ AllFolded /\ AllReduced

\* A visit that changes the code makes the walk one that says nothing.
Changes == swept' = TRUE /\ pass' = pass /\ pass \in Walks

LEMMA ChangesKeepProgress ==
  ASSUME Changes
  PROVE  Progress'
<1>1. swept' = TRUE /\ pass' # "done"
  BY DEF Changes, Walks
<1> QED
  BY <1>1 DEF Progress

\* A visit that keeps I, and what the walk has found of it.
LEMMA KeepKeepsProgress ==
  ASSUME Progress, Keep, at \in 1 .. Len(body), pass \in Walks,
         pass = "simplify" => Simplified(I), pass = "fold" => ~isFoldable(I),
         pass = "reduce" => Reduced(I), isWellFormed(params, body)
  PROVE  Progress'
<1>1. /\ at' = at + 1 /\ body' = body /\ pass' = pass /\ swept' = swept /\ changed' = changed
      /\ at \in Nat /\ DOMAIN body \subseteq Int /\ I = body[at] /\ pass # "done"
  BY WellFormedMeans DEF Keep, I, Walks
<1>2. \A k \in DOMAIN body : k < at' => k < at \/ k = at
  BY <1>1
<1>3. AllSimplified' = AllSimplified /\ AllFolded' = AllFolded
  BY <1>1 DEF AllSimplified, AllFolded
<1>4. pass = "simplify" /\ ~swept => \A k \in DOMAIN body : k < at' => Simplified(body[k])
  BY <1>1, <1>2 DEF Progress
<1>5. pass = "fold" /\ ~swept => \A k \in DOMAIN body : k < at' => ~isFoldable(body[k])
  BY <1>1, <1>2 DEF Progress
<1>6. pass = "reduce" /\ ~swept => \A k \in DOMAIN body : k < at' => Reduced(body[k])
  BY <1>1, <1>2 DEF Progress
<1> QED
  BY <1>1, <1>3, <1>4, <1>5, <1>6 DEF Progress

\* A walk begins at the first instruction; if its first loop has changed nothing, the code
\* is the one the walks before it have left.
LEMMA BeginKeepsProgress ==
  ASSUME Progress, isWellFormed(params, body), isWellFormed(params', body'),
         NEW p \in Walks, NEW code, Begin(p, code)
  PROVE  Progress'
<1>1. /\ at' = 1 /\ pass' = pass /\ changed' = changed /\ body' = code /\ pass = p
      /\ swept' = (swept \/ code # body) /\ pass # "done"
  BY DEF Begin, Walks
<1>2. \A k \in DOMAIN body' : ~(k < at')
  <2>1. \A k \in 1 .. Len(body') : ~(k < 1)
    BY WellFormedMeans
  <2>2. DOMAIN body' = 1 .. Len(body')
    BY WellFormedMeans
  <2> QED
    BY <1>1, <2>1, <2>2
<1>3. CASE code # body
  BY <1>1, <1>2, <1>3 DEF Progress
<1>4. CASE code = body
  <2>1. ~swept' => ~swept
    BY <1>1, <1>4
  <2>2. AllSimplified' = AllSimplified /\ AllFolded' = AllFolded
    BY <1>1, <1>4 DEF AllSimplified, AllFolded
  <2> QED
    BY <1>1, <1>2, <2>1, <2>2 DEF Progress
<1> QED
  BY <1>3, <1>4

LEMMA NextPassFacts ==
  /\ DOMAIN NextPass = {"dce", "combine", "simplify", "fold", "poison", "number"}
  /\ NextPass["dce"] = "combine" /\ NextPass["combine"] = "simplify"
  /\ NextPass["simplify"] = "fold" /\ NextPass["fold"] = "poison"
  /\ NextPass["poison"] = "number" /\ NextPass["number"] = "reduce"
BY DEF NextPass

LEMMA EndWalkKeepsProgress ==
  ASSUME Progress, isWellFormed(params, body), at \in Nat, EndWalk
  PROVE  Progress'
<1>1. /\ pass \in Walks /\ at > Len(body) /\ body' = body /\ at' = 0
      /\ swept' = FALSE
  BY DEF EndWalk, Finish
<1>2. /\ \A k \in DOMAIN body : k < at
      /\ \A k \in DOMAIN body' : ~(k < at')
  <2>1. DOMAIN body = 1 .. Len(body) /\ Len(body) \in Nat
    BY WellFormedMeans
  <2> QED
    BY <1>1, <2>1
<1>3. /\ AllSimplified' = AllSimplified /\ AllFolded' = AllFolded
      /\ AllReduced' = AllReduced
  BY <1>1 DEF AllSimplified, AllFolded, AllReduced
<1>4. /\ pass = "simplify" /\ ~swept => AllSimplified
      /\ pass = "fold" /\ ~swept => AllFolded
      /\ pass = "reduce" /\ ~swept => AllReduced
      /\ pass \in {"fold", "poison", "number", "reduce"} /\ ~swept /\ ~changed => AllSimplified
      /\ pass \in {"poison", "number", "reduce"} /\ ~swept /\ ~changed => AllFolded
  BY <1>2 DEF Progress, AllSimplified, AllFolded, AllReduced
<1>5. CASE pass = "reduce" /\ swept
  <2>1. pass' = "reduce" /\ changed' = TRUE
    BY <1>5 DEF EndWalk
  <2> QED
    BY <1>1, <1>2, <2>1 DEF Progress
<1>6. CASE pass = "reduce" /\ ~swept
  <2>1. pass' = IF changed THEN "dce" ELSE "done"
    BY <1>6, NextPassFacts DEF EndWalk, Finish
  <2> QED
    BY <1>2, <1>3, <1>4, <1>6, <2>1 DEF Progress
<1>7. CASE pass # "reduce"
  <2>1. /\ pass \in {"combine", "simplify", "fold", "poison", "number"}
        /\ pass' = NextPass[pass] /\ changed' = (changed \/ swept)
    BY <1>1, <1>7, NextPassFacts DEF EndWalk, Finish, Walks
  <2>2. ~changed' => ~changed /\ ~swept
    BY <2>1
  <2>3. CASE pass = "combine"
    BY <1>2, <2>1, <2>3, NextPassFacts DEF Progress
  <2>4. CASE pass = "simplify"
    BY <1>2, <1>3, <1>4, <2>1, <2>2, <2>4, NextPassFacts DEF Progress
  <2>5. CASE pass = "fold"
    BY <1>2, <1>3, <1>4, <2>1, <2>2, <2>5, NextPassFacts DEF Progress
  <2>6. CASE pass = "poison"
    BY <1>2, <1>3, <1>4, <2>1, <2>2, <2>6, NextPassFacts DEF Progress
  <2>7. CASE pass = "number"
    BY <1>2, <1>3, <1>4, <2>1, <2>2, <2>7, NextPassFacts DEF Progress
  <2> QED
    BY <2>1, <2>3, <2>4, <2>5, <2>6, <2>7
<1> QED
  BY <1>5, <1>6, <1>7

LEMMA StepKeepsProgress ==
  ASSUME Progress, isWellFormed(params, body), at \in Nat, [Next]_vars
  PROVE  Progress'
<1>0. isWellFormed(params', body')
  BY StepWellFormed
<1>w. {"combine", "simplify", "fold", "poison", "number", "reduce"} = Walks
  BY DEF Walks
<1>1. CASE DeadCodeElimination
  <2>1. pass' = "combine"
    BY <1>1, NextPassFacts DEF DeadCodeElimination, Finish
  <2> QED
    BY <2>1 DEF Progress
<1>2. CASE StartCombine \/ StartSimplify \/ StartFold \/ StartPoison \/ StartNumber \/ StartReduce
  <2>1. PICK p, code : p \in Walks /\ Begin(p, code)
    BY <1>2, <1>w DEF StartCombine, StartSimplify, StartFold, StartPoison, StartNumber, StartReduce
  <2> QED
    BY <1>0, <2>1, BeginKeepsProgress
<1>3. CASE Combine \/ CombineNothing
  <2>1. pass = "combine" /\ at \in 1 .. Len(body) /\ (Keep \/ Changes)
    BY <1>3, <1>w DEF Combine, CombineNothing, Visiting, Expand, Changes
  <2>2. CASE Changes
    BY <2>2, ChangesKeepProgress
  <2>3. CASE Keep
    <3>1. pass \in Walks /\ pass \notin {"simplify", "fold", "reduce"}
      BY <1>w, <2>1
    <3> QED
      BY <2>1, <2>3, <3>1, KeepKeepsProgress
  <2>4. Keep \/ Changes
    BY <2>1
  <2> QED
    BY <2>2, <2>3, <2>4, Zenon
<1>4. CASE SimplifyByConstant \/ SimplifyOnItself \/ SimplifyCompare \/ SimplifySelect \/ SimplifyNothing
  <2>1. pass = "simplify" /\ at \in 1 .. Len(body) /\ pass \in Walks
    BY <1>4, <1>w DEF SimplifyByConstant, SimplifyOnItself, SimplifyCompare, SimplifySelect, SimplifyNothing, Visiting
  <2>2. \A v : ReplaceBy(v) => Changes
    BY <2>1 DEF ReplaceBy, Changes
  <2>3. \A new : Expand(new) => Changes
    BY <2>1 DEF Expand, Changes
  <2>4. Changes \/ (Keep /\ Simplified(I))
    <3>1. CASE SimplifyByConstant
      BY <2>2, <3>1 DEF SimplifyByConstant, Simplified
    <3>2. CASE SimplifyOnItself
      BY <2>2, <2>3, <3>2 DEF SimplifyOnItself, OnItself, Simplified
    <3>3. CASE SimplifyCompare \/ SimplifySelect
      BY <2>2, <3>3 DEF SimplifyCompare, SimplifySelect
    <3>4. CASE SimplifyNothing
      BY <3>4 DEF SimplifyNothing, ByConstant, Simplified
    <3> QED
      BY <1>4, <3>1, <3>2, <3>3, <3>4
  <2> QED
    BY <2>1, <2>4, KeepKeepsProgress, ChangesKeepProgress
<1>5. CASE Fold \/ FoldNothing
  <2>1. /\ pass = "fold" /\ at \in 1 .. Len(body) /\ pass \in Walks
        /\ Changes \/ (Keep /\ ~isFoldable(I))
    BY <1>5, <1>w DEF Fold, FoldNothing, Visiting, ReplaceBy, Changes
  <2> QED
    BY <2>1, KeepKeepsProgress, ChangesKeepProgress
<1>6. CASE Propagate \/ PropagateNothing
  <2>1. /\ pass = "poison" /\ at \in 1 .. Len(body) /\ pass \in Walks
        /\ Changes \/ Keep
    BY <1>6, <1>w DEF Propagate, PropagateNothing, Visiting, ReplaceBy, Changes
  <2> QED
    BY <2>1, KeepKeepsProgress, ChangesKeepProgress
<1>7. CASE Number \/ NumberNothing
  <2>1. /\ pass = "number" /\ at \in 1 .. Len(body) /\ pass \in Walks
        /\ Changes \/ Keep
    BY <1>7, <1>w DEF Number, NumberNothing, Visiting, ReplaceBy, Changes
  <2> QED
    BY <2>1, KeepKeepsProgress, ChangesKeepProgress
<1>8. CASE Reduce \/ ReduceNothing
  <2>1. /\ pass = "reduce" /\ at \in 1 .. Len(body) /\ pass \in Walks
        /\ Changes \/ (Keep /\ Reduced(I))
    BY <1>8, <1>w DEF Reduce, ReduceNothing, Reducible, Visiting, Expand, Changes, Reduced
  <2> QED
    BY <2>1, KeepKeepsProgress, ChangesKeepProgress
<1>9. CASE EndWalk
  BY <1>9, EndWalkKeepsProgress
<1>10. CASE UNCHANGED vars
  BY <1>10 DEF vars, Progress, AllSimplified, AllFolded, AllReduced
<1> QED
  BY <1>1, <1>2, <1>3, <1>4, <1>5, <1>6, <1>7, <1>8, <1>9, <1>10 DEF Next

\* What is left when nothing more can be done.
LEMMA ProgressMeans ==
  ASSUME Progress, isWellFormed(params, body)
  PROVE  DivisionsReplaced
<1> SUFFICES ASSUME pass = "done", NEW J \in Range(body)
             PROVE  /\ ~isFoldable(J)
                    /\ J.op \in Divisions /\ J.width \notin {1, Int64} => ~IsConst(J.args[2])
  BY DEF DivisionsReplaced
<1>1. PICK k \in 1 .. Len(body) : J = body[k] /\ k \in DOMAIN body
  BY WellFormedMeans DEF Range
<1>2. Simplified(J) /\ ~isFoldable(J) /\ Reduced(J)
  BY <1>1 DEF Progress, AllSimplified, AllFolded, AllReduced
<1> SUFFICES ASSUME J.op \in Divisions, J.width \notin {1, Int64}, IsConst(J.args[2])
             PROVE  FALSE
  BY <1>2
<1>3. J.op \in Arithmetic /\ J.op # "ret"
  BY DEF Arithmetic, Divisions
<1>4. J \in Instructions /\ fits(params, body, k)
  BY <1>1, WellFormedMeans
<1>5. Len(J.args) = 2 /\ isOfWidth(params, body, k, J.args[2], J.width) /\ J.width \in Widths
  BY <1>1, <1>3, <1>4, FitsMeans
<1>6. J.args[2] \in Operands /\ DOMAIN J.args = 1 .. 2
  BY <1>4, <1>5, InstructionFacts
<1>7. ~IsConst(J.args[1])
  <2> SUFFICES ASSUME IsConst(J.args[1]) PROVE isFoldable(J)
    BY <1>2
  <2>1. \A v \in Range(J.args) : v = J.args[1] \/ v = J.args[2]
    BY <1>6 DEF Range
  <2> QED
    BY <1>3, <2>1 DEF isFoldable, IsConstant
<1>8. J.width \in Narrow /\ J.width > 1
  BY <1>5, WidthCases
<1>9. Replacement(J) = <<>>
  BY <1>2, <1>3 DEF Reduced
<1>10. ~(J.args[2].n > 1)
  BY <1>1, <1>3, <1>8, <1>9, ReplacementFits
<1>11. J.args[2].n \in Nat
  BY <1>6, OperandFacts
<1>12. J.args[2].n \in {0, 1}
  BY <1>10, <1>11
<1>13. /\ ~isUnchanged(J.op, J.width, J.args[2].n) /\ ~isZero(J.op, J.width, J.args[2].n)
       /\ ~isPoison(J.op, J.width, J.args[2].n)
  BY <1>2, <1>3, <1>7 DEF Simplified
<1>14. CASE J.args[2].n = 0
  BY <1>13, <1>14 DEF isPoison
<1>15. CASE J.args[2].n = 1
  BY <1>8, <1>13, <1>15 DEF isUnchanged, isZero, Divisions
<1> QED
  BY <1>12, <1>14, <1>15

\* When the loop of the pass manager has come to its end, no instruction is left that has only
\* constant operands, and no division or remainder by a constant in the types those are
\* replaced in: the round in which nothing changed has walked over all of them.
THEOREM NothingLeftToReplace == Spec => []DivisionsReplaced
<1> DEFINE Inv == isWellFormed(params, body) /\ at \in Nat /\ Progress
<1>1. Init => Inv
  BY ProgramsAssumption DEF Init, Progress
<1>2. Inv /\ [Next]_vars => Inv'
  BY StepWellFormed, StepKeepsProgress
<1>3. Inv => DivisionsReplaced
  BY ProgressMeans
<1> QED
  BY <1>1, <1>2, <1>3, PTL DEF Spec
=============================================================================
