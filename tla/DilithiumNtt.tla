--------------------------- MODULE DilithiumNtt ---------------------------
(***************************************************************************)
(* The number-theoretic transform of ML-DSA and its inverse, which the ARM *)
(* build links before those of liboqs.  The loops take four lanes of a     *)
(* vector at once, then two, then one; the pairs of a level do not meet,   *)
(* so a level is one step here.  Lanes are signed and wrap.  (So does the  *)
(* product in the scalar mont_reduce in every build, although its overflow *)
(* is undefined.)                                                          *)
(***************************************************************************)
EXTENDS Integers, Sequences
LOCAL INSTANCE SequencesExt

CONSTANTS
  Levels,  \* a polynomial has 2^Levels coefficients (2^8)
  Word,    \* how many values a lane has (2^32)
  Q,       \* the prime
  QInv,    \* its inverse modulo Word
  Zetas,   \* the table of twiddle factors, from 0
  Scale,   \* what the inverse transform multiplies with in the end
  Zeta     \* the root of unity the table is of (1753)

N == 2 ^ Levels
Index == 0 .. N - 1

\* The inverse adds coefficients up without reducing them: a lane must hold N of them.
NttShape ==
  /\ Levels \in Nat \ {0} /\ Q \in Nat /\ N * Q <= Word \div 2
  /\ (Q * QInv) % Word = 1

Lane(x) == ((x + Word \div 2) % Word) - Word \div 2

\* The quotient of a product by Word, modulo Q.
mont_reduce(a) ==
  LET t == Lane(Lane(a) * QInv)
  IN  Lane((a - t * Q) \div Word)

butterfly(lo, hi, zeta) ==
  LET t == mont_reduce(zeta * hi)
  IN  <<Lane(lo + t), Lane(lo - t)>>

inv_butterfly(lo, hi, zeta) ==
  <<Lane(lo + hi), mont_reduce(zeta * Lane(lo - hi))>>

\* Where the butterflies of a level have their lower half, len below the upper.
Lower(len) == {i \in Index : (i \div len) % 2 = 0}

\* The halves of all butterflies of a level, put back to where they came from.
Stored(pair, len) ==
  [i \in Index |-> IF i \in Lower(len) THEN pair[i][1] ELSE pair[i - len][2]]

\* Groups of 2 * len get the factors of the table one after the other, over all levels.
dilithium_ntt(a) ==
  LET Stage(x, level) ==
        LET len == N \div 2 ^ level
        IN  Stored([i \in Lower(len) |->
                      butterfly(x[i], x[i + len], Zetas[2 ^ (level - 1) + (i \div (2 * len))])],
                   len)
  IN  FoldLeft(Stage, a, [level \in 1 .. Levels |-> level])

\* The levels and the table backwards, with negated factors.
dilithium_invntt(a) ==
  LET Stage(level, x) ==
        LET len == N \div 2 ^ level
        IN  Stored([i \in Lower(len) |->
                      inv_butterfly(x[i], x[i + len], -Zetas[2 ^ level - 1 - (i \div (2 * len))])],
                   len)
      unscaled == FoldRight(Stage, [level \in 1 .. Levels |-> level], a)
  IN  [i \in Index |-> mont_reduce(Scale * unscaled[i])]

k_zetas == <<
  0, 25847, -2608894, -518909, 237124, -777960, -876248, 466468,
  1826347, 2353451, -359251, -2091905, 3119733, -2884855, 3111497, 2680103,
  2725464, 1024112, -1079900, 3585928, -549488, -1119584, 2619752, -2108549,
  -2118186, -3859737, -1399561, -3277672, 1757237, -19422, 4010497, 280005,
  2706023, 95776, 3077325, 3530437, -1661693, -3592148, -2537516, 3915439,
  -3861115, -3043716, 3574422, -2867647, 3539968, -300467, 2348700, -539299,
  -1699267, -1643818, 3505694, -3821735, 3507263, -2140649, -1600420, 3699596,
  811944, 531354, 954230, 3881043, 3900724, -2556880, 2071892, -2797779,
  -3930395, -1528703, -3677745, -3041255, -1452451, 3475950, 2176455, -1585221,
  -1257611, 1939314, -4083598, -1000202, -3190144, -3157330, -3632928, 126922,
  3412210, -983419, 2147896, 2715295, -2967645, -3693493, -411027, -2477047,
  -671102, -1228525, -22981, -1308169, -381987, 1349076, 1852771, -1430430,
  -3343383, 264944, 508951, 3097992, 44288, -1100098, 904516, 3958618,
  -3724342, -8578, 1653064, -3249728, 2389356, -210977, 759969, -1316856,
  189548, -3553272, 3159746, -1851402, -2409325, -177440, 1315589, 1341330,
  1285669, -1584928, -812732, -1439742, -3019102, -3881060, -3628969, 3839961,
  2091667, 3407706, 2316500, 3817976, -3342478, 2244091, -2446433, -3562462,
  266997, 2434439, -1235728, 3513181, -3520352, -3759364, -1197226, -3193378,
  900702, 1859098, 909542, 819034, 495491, -1613174, -43260, -522500,
  -655327, -3122442, 2031748, 3207046, -3556995, -525098, -768622, -3595838,
  342297, 286988, -2437823, 4108315, 3437287, -3342277, 1735879, 203044,
  2842341, 2691481, -2590150, 1265009, 4055324, 1247620, 2486353, 1595974,
  -3767016, 1250494, 2635921, -3548272, -2994039, 1869119, 1903435, -1050970,
  -1333058, 1237275, -3318210, -1430225, -451100, 1312455, 3306115, -1962642,
  -1279661, 1917081, -2546312, -1374803, 1500165, 777191, 2235880, 3406031,
  -542412, -2831860, -1671176, -1846953, -2584293, -3724270, 594136, -3776993,
  -2013608, 2432395, 2454455, -164721, 1957272, 3369112, 185531, -1207385,
  -3183426, 162844, 1616392, 3014001, 810149, 1652634, -3694233, -1799107,
  -3038916, 3523897, 3866901, 269760, 2213111, -975884, 1717735, 472078,
  -426683, 1723600, -1803090, 1910376, -1667432, -1104333, -260646, -3833893,
  -2939036, -2235985, -420899, -2286327, 183443, -976891, 1612842, -3545687,
  -554416, 3919660, -48306, -1362209, 3937738, 1400424, -846154, 1976782 >>

-----------------------------------------------------------------------------

\* A number with its low "bits" bits in reverse.
Reversed(x, bits) ==
  LET swap[b \in 0 .. bits] ==
        IF b = 0 THEN 0 ELSE swap[b - 1] + ((x \div 2 ^ (b - 1)) % 2) * 2 ^ (bits - b)
  IN  swap[bits]

Power(x, e) ==
  LET power[k \in 0 .. e] == IF k = 0 THEN 1 ELSE (power[k - 1] * x) % Q
  IN  power[e]

\* The value of a polynomial at the place of coefficient j of its transform.
ValueAt(a, j) ==
  LET root == Power(Zeta, 2 * Reversed(j, Levels) + 1)
      horner[k \in 0 .. N] == IF k = 0 THEN 0 ELSE (horner[k - 1] * root + a[N - k]) % Q
  IN  horner[N]

\* The transform of a polynomial is its values at the odd powers of the root of unity;
\* the inverse leads back, times Word; and no lane wraps on the way, whatever the
\* coefficients below the prime in size.
TransformsExact(a) ==
  \A transformed \in {dilithium_ntt(a)}, back \in {dilithium_invntt(a)} : \A j \in Index :
    /\ transformed[j] % Q = ValueAt(a, j)
    /\ -Q < back[j] /\ back[j] < Q
    /\ ValueAt(back, j) = (Word * a[j]) % Q

\* Products modulo the real prime, a byte of one factor at a time.
Times(x, y) ==
  LET q == 8380417
      factor == y % q
      AndByte(product, shift) ==
        (((product * 256) % q) + (((x % q) * ((factor \div shift) % 256)) % q)) % q
  IN  FoldLeft(AndByte, 0, <<65536, 256, 1>>)

\* The real table holds 2^32 times the powers of 1753 in bit-reversed order, each by its
\* smallest representative, and the real scale is 2^64 / 256.  The first bit of k is the
\* last of the exponent, so it is squared most often.
TableExact(k) ==
  LET SquareMultiply(power, bit) ==
        Times(Times(power, power), IF (k \div bit) % 2 = 1 THEN 1753 ELSE 1)
      root == FoldLeft(SquareMultiply, 1, <<1, 2, 4, 8, 16, 32, 64, 128>>)
      entry == k_zetas[k + 1]
  IN  /\ k > 0 => entry % 8380417 = Times(-4186625, root)
      /\ -4190208 <= entry /\ entry <= 4190208
      /\ Times(41978, 256) = Times(-4186625, -4186625)
=============================================================================
