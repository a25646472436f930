----------------------------- MODULE PrimeField -----------------------------
(***************************************************************************)
(* The field arithmetic under the curves.  First by the value the limbs    *)
(* hold: an addition or subtraction runs over all limbs and leaves a carry *)
(* or a borrow, and a mask made of it selects whether the prime is taken   *)
(* off or put back.  Then the fast reductions of a product modulo the      *)
(* three primes, word by word.  The primes are sums of powers of the word  *)
(* base, so that the high words of a product fold into the low ones with   *)
(* small factors.  The base is a parameter: the identities hold for every  *)
(* base, and so do the bounds on what is left over after each pass; the    *)
(* program's base is 2^32.  Words are signed until the carries have been   *)
(* passed on, as in the code.                                              *)
(***************************************************************************)
EXTENDS Integers, Sequences

(* A field f is [p, radix]: its prime, and one more than the limbs of an       *)
(* element can hold.                                                           *)

\* What a field has to be, for the three curves and for their small copies.
FieldShape(f) ==
  /\ f.p \in Nat /\ f.radix \in Nat
  /\ 3 < f.p /\ f.p < f.radix

\* What the limbs keep of a sum or a difference.
Wrap(f, x) ==
  IF x < 0 THEN x + f.radix ELSE IF x >= f.radix THEN x - f.radix ELSE x

\* a - p over the limbs, with the last borrow.
SubP(f, a) == [out |-> Wrap(f, a - f.p), borrow |-> a < f.p]

\* Deviation: the carry out of the top limb is dropped.
ReduceOnceNoCarry(f, a, overflow) == IF SubP(f, a).borrow THEN a ELSE SubP(f, a).out

ReduceOnce(f, a, overflow) ==
  IF overflow \/ ~SubP(f, a).borrow THEN SubP(f, a).out ELSE a

FieldAdd(f, a, b) == ReduceOnce(f, Wrap(f, a + b), a + b >= f.radix)

\* A borrow puts the prime back.
FieldSub(f, a, b) == IF a < b THEN Wrap(f, Wrap(f, a - b) + f.p) ELSE a - b

\* p - a is p itself for a zero.
FieldNeg(f, a) == ReduceOnce(f, Wrap(f, f.p - a), FALSE)

\* a^(p - 2), a bit of the exponent at a time, from the top.
FieldInvert(f, a, Mul(_, _)) ==
  LET bits == CHOOSE w \in 1 .. 30 : 2 ^ (w - 1) <= f.p /\ f.p < 2 ^ w
      power[i \in 0 .. bits, r \in 0 .. f.p - 1] ==
        IF i = 0 THEN r
        ELSE power[i - 1, IF ((f.p - 2) \div 2 ^ (i - 1)) % 2 = 1
                          THEN Mul(Mul(r, r), a) ELSE Mul(r, r)]
  IN  power[bits, 1]

-----------------------------------------------------------------------------
(* The reductions. *)

\* Value of a little-endian sequence of words.
Value(W, words) ==
  LET n == Len(words)
      top[i \in 0 .. n] == IF i = 0 THEN 0 ELSE top[i - 1] * W + words[n + 1 - i]
  IN  top[n]

\* Passes the carry of every word to the next, rounding down, and keeps what the
\* last one leaves over.
Propagate(W, r) ==
  LET carried[i \in 0 .. Len(r)] ==
        IF i = 0 THEN [words |-> <<>>, over |-> 0]
        ELSE LET last == carried[i - 1]
                 sum == r[i] + last.over
             IN  [words |-> Append(last.words, sum % W), over |-> sum \div W]
  IN  carried[Len(r)]

\* The words of a number that "count" of them can hold.
Words(W, count, x) == Propagate(W, [i \in 1 .. count |-> IF i = 1 THEN x ELSE 0]).words

\* Folds what was left over back into the words it is congruent to: "coefficient"
\* says how often it goes into each.
FoldOver(W, c, coefficient) ==
  Propagate(W, [i \in 1 .. Len(c.words) |-> c.words[i] + coefficient[i] * c.over])

-----------------------------------------------------------------------------
(* p256(W) = W^8 - W^7 + W^6 + W^3 - 1 *)

P256Prime(W) ==
  LET W3 == W * W * W
      W6 == W3 * W3
  IN  W6 * W * W - W6 * W + W6 + W3 - 1

\* 2^256 is congruent to 2^224 - 2^192 - 2^96 + 1.
P256Over == << 1, 0, 0, -1, 0, 0, -1, 1 >>

\* Sixteen words of a product, folded into eight.
P256Fold(k) ==
  LET c(i) == k[i + 1]
  IN  << c(0) + c(8) + c(9) - c(11) - c(12) - c(13) - c(14),
         c(1) + c(9) + c(10) - c(12) - c(13) - c(14) - c(15),
         c(2) + c(10) + c(11) - c(13) - c(14) - c(15),
         c(3) + 2*c(11) + 2*c(12) + c(13) - c(15) - c(8) - c(9),
         c(4) + 2*c(12) + 2*c(13) + c(14) - c(9) - c(10),
         c(5) + 2*c(13) + 2*c(14) + c(15) - c(10) - c(11),
         c(6) + 3*c(14) + 2*c(15) + c(13) - c(8) - c(9),
         c(7) + 3*c(15) + c(8) - c(10) - c(11) - c(12) - c(13) >>

\* Deviation: what the first pass leaves over is not folded again.
P256SolinasOnePass(W, k) == FoldOver(W, Propagate(W, P256Fold(k)), P256Over)

\* fe256_solinas up to the conditional subtractions.
P256Solinas(W, k) ==
  FoldOver(W, FoldOver(W, Propagate(W, P256Fold(k)), P256Over), P256Over)

-----------------------------------------------------------------------------
(* p384(W) = W^12 - W^4 - W^3 + W - 1 *)

P384Prime(W) ==
  LET W3 == W * W * W
      W6 == W3 * W3
  IN  W6 * W6 - W3 * W - W3 + W - 1

\* 2^384 is congruent to 2^128 + 2^96 - 2^32 + 1.
P384Over == << 1, -1, 0, 1, 1, 0, 0, 0, 0, 0, 0, 0 >>

\* Twenty-four words of a product, folded into twelve.  Factors below zero are
\* written as their distance from the word base, so that the sums are unsigned.
P384Fold(W, k) ==
  LET c(i) == k[i + 1]
      m(d, i) == (W - d) * k[i + 1]
  IN  << c(0) + c(12) + c(20) + m(1, 22) + m(1, 23),
         c(1) + m(1, 12) + c(13) + m(1, 20) + c(21) + c(22),
         c(2) + m(1, 12) + m(1, 13) + c(14) + m(1, 20) + m(1, 21) + c(23),
         c(3) + m(1, 13) + m(1, 14) + c(15) + m(1, 21) + m(2, 22) + m(1, 23),
         c(4) + c(12) + m(1, 14) + m(1, 15) + c(16) + c(20) + m(1, 22) + m(3, 23),
         c(5) + c(13) + m(1, 15) + m(1, 16) + c(17) + c(21) + c(22),
         c(6) + c(14) + m(1, 16) + m(1, 17) + c(18) + c(22) + 2*c(23),
         c(7) + c(15) + m(1, 17) + m(1, 18) + c(19) + c(23),
         c(8) + c(16) + m(1, 18) + m(1, 19) + c(20),
         c(9) + c(17) + m(1, 19) + m(1, 20) + c(21),
         c(10) + c(18) + m(1, 20) + m(1, 21) + c(22),
         c(11) + c(19) + m(1, 21) + m(1, 22) + c(23) >>

\* fe384_solinas up to the conditional subtractions.
P384Solinas(W, k) ==
  FoldOver(W, FoldOver(W, Propagate(W, P384Fold(W, k)), P384Over), P384Over)

\* The four conditional subtractions after both: what was left over is not kept.
SubtractFour(W, prime, c) ==
  LET once(x) == IF x >= prime THEN x - prime ELSE x
  IN  once(once(once(once(Value(W, c.words)))))

\* What a reduction should end with: the remainder of the number the words hold.
Remainder(W, prime, words) ==
  LET n == Len(words)
      rest[i \in 0 .. n] ==
        IF i = 0 THEN 0 ELSE (rest[i - 1] * W + words[n + 1 - i]) % prime
  IN  rest[n]

\* Nothing is left over after the second pass, and the conditional subtractions end
\* with the remainder.
ReducesTo(W, prime, words, c) ==
  c.over = 0 /\ SubtractFour(W, prime, c) = Remainder(W, prime, words)

-----------------------------------------------------------------------------
(* p521 = R - 1, R one more than its bits can hold *)

\* Deviation: the carry out of the top bit is cut off.
MersenneNoWrap(R, product) ==
  LET wrapped == ((product % R) + product \div R) % R
  IN  IF wrapped >= R - 1 THEN wrapped - (R - 1) ELSE wrapped

\* fe521_mul: the high half is added to the low half, the carry out of the top bit
\* is worth one, and the prime is subtracted once if need be.
Mersenne(R, product) ==
  LET sum == (product % R) + product \div R
      wrapped == (sum % R) + sum \div R
  IN  IF wrapped >= R - 1 THEN wrapped - (R - 1) ELSE wrapped

-----------------------------------------------------------------------------
(* fe384_invert follows an addition chain.  Its exponents are kept as the     *)
(* sets of their one bits: a squaring shifts them, a multiplication unites    *)
(* them, which is exact as long as the two sets are disjoint.                 *)

Squared(e, times) == {i + times : i \in e}
Times(e, f) == IF e \cap f = {} THEN e \cup f ELSE {-1}

\* ones(2k) from ones(k).
Doubled(e, k) == Times(Squared(e, k), e)

\* "count" times k squarings and a multiplication by a block of k one bits: the blocks
\* follow each other below e.
Extended(e, block, k, count) ==
  Times(Squared(e, k * count), UNION {Squared(block, k * i) : i \in 0 .. count - 1})

P384InversionExponent ==
  LET p1 == {0}
      p2 == Doubled(p1, 1)
      p4 == Doubled(p2, 2)
      p8 == Doubled(p4, 4)
      p16 == Doubled(p8, 8)
      p32 == Doubled(p16, 16)
      ones224 == Extended(p32, p32, 32, 6)
      ones255 == Extended(ones224, p1, 1, 31)
      bit96 == Times(Squared(Squared(ones255, 1), 32), p32)
      bit2 == Extended(Squared(bit96, 64), p1, 1, 30)
  IN  Times(Squared(Squared(bit2, 1), 1), p1)
=============================================================================
