---------------------------- MODULE ScalarField ----------------------------
(***************************************************************************)
(* Scalars: arithmetic modulo the order of the curve, by the value the     *)
(* limbs hold.  The order has no special form, so products are reduced by  *)
(* Montgomery's method, a limb at a time; everything else subtracts the    *)
(* order once.                                                             *)
(***************************************************************************)
EXTENDS Integers

CONSTANTS
  N,            \* the order, a prime
  ScalarRange,  \* one more than what is kept of a scalar as it is read
  LimbBase,     \* the base of the limbs
  Limbs         \* how many limbs a scalar has

\* What the limbs hold.
ScalarRadix == LimbBase ^ Limbs

\* What the constants have to be: one subtraction is enough for a scalar as it is read.
ScalarShape ==
  /\ N \in Nat /\ 2 < N /\ N % 2 = 1
  /\ N < ScalarRange /\ ScalarRange <= ScalarRadix
  /\ ScalarRange < 2 * N

WrapScalar(x) ==
  IF x < 0 THEN x + ScalarRadix ELSE IF x >= ScalarRadix THEN x - ScalarRadix ELSE x

\* The order is subtracted if there was a carry or no borrow.
SubtractOrder(r, overflow) == IF overflow \/ r >= N THEN WrapScalar(r - N) ELSE r

\* p256_scalar_from_bytes32 and its like: one conditional subtraction.
ScalarFromBytes(v) == SubtractOrder(v % ScalarRange, FALSE)

ScalarAdd(a, b) == SubtractOrder(WrapScalar(a + b), a + b >= ScalarRadix)

ScalarIsZero(a) == a = 0

\* Deviation: a scalar at or above the order is reduced, not rejected.
SigDecodeReduced(v) ==
  IF ScalarFromBytes(v) = 0 THEN [ok |-> FALSE] ELSE [ok |-> TRUE, value |-> ScalarFromBytes(v)]

\* The strict decoding of a signature's scalars and of private keys: 1 .. n - 1,
\* with no bit above the scalar's width.
SigDecode(v) ==
  IF v >= ScalarRange \/ v = 0 \/ v >= N THEN [ok |-> FALSE] ELSE [ok |-> TRUE, value |-> v]

-----------------------------------------------------------------------------

\* -n^(-1) modulo the limb base.
NPrime == CHOOSE x \in 0 .. LimbBase - 1 : (x * N + 1) % LimbBase = 0

\* R^2 modulo the order, R what the limbs hold.
R2 == (ScalarRadix * ScalarRadix) % N

\* a * b / R: adds a limb of a times b, then the multiple of the order that clears
\* the lowest limb, and drops that limb.
MontMul(a, b) ==
  LET t[i \in 0 .. Limbs] ==
        IF i = 0 THEN 0
        ELSE LET s == t[i - 1] + ((a \div LimbBase ^ (i - 1)) % LimbBase) * b
                 m == ((s % LimbBase) * NPrime) % LimbBase
             IN  (s + m * N) \div LimbBase
  IN  SubtractOrder(t[Limbs] % ScalarRadix, t[Limbs] >= ScalarRadix)

ScalarMulModN(a, b) == MontMul(MontMul(a, R2), b)

Width(x) == CHOOSE w \in 1 .. 30 : 2 ^ (w - 1) <= x /\ x < 2 ^ w

\* start squared and, where the exponent has a one among its lowest "bits" bits,
\* multiplied by a, from the top.
PowerFrom(start, a, exponent, bits, Times(_, _)) ==
  LET power[i \in 0 .. bits, r \in 0 .. ScalarRadix - 1] ==
        IF i = 0 THEN r
        ELSE power[i - 1, IF (exponent \div 2 ^ (i - 1)) % 2 = 1
                          THEN Times(Times(r, r), a) ELSE Times(r, r)]
  IN  power[bits, start]

\* a^(n - 2).
ScalarInvert(a) == PowerFrom(1, a, N - 2, Width(N), ScalarMulModN)

\* The same without leaving Montgomery's representation: the ones at the top of the
\* exponent come from a chain of doublings, 3 * 2^block of them, the rest bit by bit.
ScalarInvertChain(a, block) ==
  LET am == MontMul(a, R2)
      squared(x, times) == PowerFrom(x, x, 0, times, MontMul)
      ones[j \in 0 .. block] ==
        IF j = 0 THEN am ELSE MontMul(squared(ones[j - 1], 2 ^ (j - 1)), ones[j - 1])
      once == ones[block]
      doubled == MontMul(squared(once, 2 ^ block), once)
      top == MontMul(squared(doubled, 2 ^ block), once)
  IN  MontMul(PowerFrom(top, am, N - 2, Width(N) - 3 * 2 ^ block, MontMul), 1)
=============================================================================
