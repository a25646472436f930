----------------------------- MODULE MCProviders -----------------------------
(***************************************************************************)
(* The providers, from outside and, for the elliptic curves, from inside.  *)
(* From outside: every scheme and parameter set between three parties,     *)
(* over any three of the four providers, with and without liboqs.  From    *)
(* inside: signing and verifying over the three curves, each a small copy: *)
(* P-256 over 2^8 - 2^7 + 2^6 + 2^3 - 1 = 199 with its own reduction on    *)
(* words of one bit, P-384 over 251, P-521 over 2^5 - 1.  All have a = -3, *)
(* a base point of prime order and scalars of two windows (P-521: one      *)
(* window and the bit above it).  Signing starts from probe 0; the other   *)
(* probes put every element and scalar through the arithmetic.  RSA has    *)
(* primes of two limbs of four bits, and 7 for the public exponent.  The   *)
(* AEAD modes run on small blocks; the probes are the powers of GHASH's    *)
(* field and the limbs of Poly1305's.  The transforms of ML-DSA have       *)
(* sixteen coefficients.                                                   *)
(***************************************************************************)
EXTENDS ProviderProofs, PrimeField

VARIABLES
  curve,  \* the curve under check, "words" for the reductions by themselves, "RSA",
          \* "AEAD", "NTT", "hashes", or "parties" for an exchange
  probe,  \* the number its arithmetic is probed with
  pc, key, digest, attempts, nonce, sig,
  deal, stage, keys, artefact, harm, verdict,
  rsaStage, primes, rsaKey, message

signerVars == <<probe, pc, key, digest, attempts, nonce, sig>>
partyVars == <<deal, stage, keys, artefact, harm, verdict>>
rsaVars == <<rsaStage, primes, rsaKey, message>>
aeadVars == <<aeadStage, job, wire, arrived, out, genuine>>

Parties == INSTANCE Exchange

Table256 == << [X |-> 1, Y |-> 2], [X |-> 197, Y |-> 197], [X |-> 47, Y |-> 3],
  [X |-> 121, Y |-> 30], [X |-> 110, Y |-> 19], [X |-> 46, Y |-> 106], [X |-> 154, Y |-> 122],
  [X |-> 73, Y |-> 82], [X |-> 168, Y |-> 122], [X |-> 156, Y |-> 32], [X |-> 158, Y |-> 96],
  [X |-> 96, Y |-> 59], [X |-> 174, Y |-> 133], [X |-> 12, Y |-> 107], [X |-> 37, Y |-> 179] >>
Table384 == << [X |-> 1, Y |-> 120], [X |-> 249, Y |-> 131], [X |-> 126, Y |-> 171],
  [X |-> 237, Y |-> 107], [X |-> 132, Y |-> 235], [X |-> 20, Y |-> 76], [X |-> 97, Y |-> 208],
  [X |-> 51, Y |-> 127], [X |-> 169, Y |-> 238], [X |-> 35, Y |-> 137], [X |-> 27, Y |-> 118],
  [X |-> 73, Y |-> 40], [X |-> 14, Y |-> 6], [X |-> 102, Y |-> 32], [X |-> 101, Y |-> 156] >>
Table521 == << [X |-> 3, Y |-> 8], [X |-> 4, Y |-> 6], [X |-> 28, Y |-> 11], [X |-> 8, Y |-> 10],
  [X |-> 9, Y |-> 2], [X |-> 20, Y |-> 9], [X |-> 5, Y |-> 1], [X |-> 12, Y |-> 8],
  [X |-> 16, Y |-> 23], [X |-> 17, Y |-> 14], [X |-> 27, Y |-> 26], [X |-> 19, Y |-> 11],
  [X |-> 14, Y |-> 19], [X |-> 15, Y |-> 11], [X |-> 15, Y |-> 20] >>

Small256 == INSTANCE P256 WITH
  W <- 2, b <- 6, n <- 197, Table <- Table256, Windows <- 2, TopBits <- 0,
  ScalarRange <- 256, LimbBase <- 16, Limbs <- 2,
  Key <- {1, 100, 196}, Hash <- {0, 196, 255}, Output <- {0, 1, 2, 51, 146, 196, 197, 255},
  PadRange <- 1, Pad <- 0, CompareShift <- 0, MaxAttempts <- 2, CoordinateRange <- 256
Small384 == INSTANCE P384 WITH
  fe384_p <- 251, b <- 95, n <- 239, Table <- Table384, Windows <- 2, TopBits <- 0,
  ScalarRange <- 256, LimbBase <- 16, Limbs <- 2, Block <- 0,
  Key <- {1, 100, 238}, Hash <- {0, 238, 255}, Output <- {0, 1, 2, 17, 237, 238, 239, 255},
  PadRange <- 1, Pad <- 0, CompareShift <- 0, MaxAttempts <- 2, CoordinateRange <- 256
Small521 == INSTANCE P521 WITH
  m <- 5, b <- 15, n <- 29, Table <- Table521, Windows <- 1, TopBits <- 1,
  ScalarRange <- 32, LimbBase <- 16, Limbs <- 2,
  Key <- {1, 2, 9, 27, 28}, Hash <- {0, 1, 9, 15}, Output <- 0 .. 15,
  PadRange <- 16, Pad <- 1, CompareShift <- 4, MaxAttempts <- 2, CoordinateRange <- 64

\* Of the candidates made from the draws 193, 211, 227 and 251 are prime, 209 and 217 are not.
SmallRsa == INSTANCE Rsa WITH
  LimbBits <- 4, PrimeLimbs <- 2, PublicExponent <- 7, SmallPrime <- {3, 5},
  Draw <- {193, 17, 18, 24, 35, 251}, Witness <- {0, 5, 30, 200}, LastTested <- 127,
  Message <- {m * 331 : m \in 0 .. 190}, MaxIntBytes <- 21

\* Sixteen coefficients are the fewest that meet every loop; 16 * 2017 fits a half of 2^16
\* about as tightly as 256 * 8380417 fits a half of 2^32.
SmallZetas == [k \in 0 .. 15 |->
  << 0, 753, -974, -841, -63, 308, -235, -644, -720, -514, 772, 708, -182, -679, -903, -964 >>[k + 1]]
SmallNtt == INSTANCE DilithiumNtt WITH
  Levels <- 4, Word <- 65536, Q <- 2017, QInv <- 31777, Zetas <- SmallZetas, Scale <- 994, Zeta <- 227

ASSUME ShapesMet ==
  /\ FieldShape(Small256!Field) /\ FieldShape(Small384!Field) /\ FieldShape(Small521!Field)
  /\ Small256!Scalars!ScalarShape /\ Small384!Scalars!ScalarShape /\ Small521!Scalars!ScalarShape
  /\ SmallRsa!RsaShape /\ SmallNtt!NttShape

-----------------------------------------------------------------------------
(* What the curves are measured against: chords and tangents on affine points, *)
(* for a curve [p, b, n, g] with its prime, its coefficient b, the order of    *)
(* its base point and that point.                                              *)

Infinity == [inf |-> TRUE]
Point(c, x, y) == [inf |-> FALSE, X |-> x % c.p, Y |-> y % c.p]

Curve256 == [p |-> 199, b |-> 6, n |-> 197, g |-> Table256[1]]
Curve384 == [p |-> 251, b |-> 95, n |-> 239, g |-> Table384[1]]
Curve521 == [p |-> 31, b |-> 15, n |-> 29, g |-> Table521[1]]

Base(c) == Point(c, c.g.X, c.g.Y)

OnCurve(c, x, y) == (y * y) % c.p = ((((x * x) % c.p) * x) - 3 * x + c.b) % c.p

InverseMod(a, m) == CHOOSE x \in 1 .. m - 1 : (a * x) % m = 1

\* The third point of the line through two points, reflected.
Chord(c, p, q, slope) ==
  LET x == slope * slope - p.X - q.X
  IN  Point(c, x, slope * (p.X - (x % c.p)) - p.Y)

Sum(c, p, q) ==
  IF p.inf THEN q
  ELSE IF q.inf THEN p
  ELSE IF p.X # q.X
       THEN Chord(c, p, q, ((q.Y - p.Y) * InverseMod((q.X - p.X) % c.p, c.p)) % c.p)
  ELSE IF p.Y = q.Y /\ p.Y # 0
       THEN Chord(c, p, p, ((3 * p.X * p.X - 3) * InverseMod((2 * p.Y) % c.p, c.p)) % c.p)
  ELSE Infinity

\* k times a point.
Multiple(c, k, p) ==
  LET times[i \in 0 .. k] ==
        IF i = 0 THEN Infinity
        ELSE IF i % 2 = 1 THEN Sum(c, times[i - 1], p)
        ELSE LET half == times[i \div 2] IN Sum(c, half, half)
  IN  times[k]

\* The affine point a Jacobian triple stands for.
Meaning(c, j) ==
  IF j.Z = 0 THEN Infinity
  ELSE LET zinv == InverseMod(j.Z, c.p)
           zinv2 == (zinv * zinv) % c.p
       IN  Point(c, j.X * zinv2, j.Y * ((zinv2 * zinv) % c.p))

\* FIPS 186: r and s in range, and the x of (e/s) G + (r/s) Q is r modulo n.
IsSignature(c, q, e, r, s) ==
  /\ r \in 1 .. c.n - 1 /\ s \in 1 .. c.n - 1
  /\ OnCurve(c, q.X, q.Y)
  /\ LET w == InverseMod(s, c.n)
         x == Sum(c, Multiple(c, (e * w) % c.n, Base(c)),
                     Multiple(c, (r * w) % c.n, Point(c, q.X, q.Y)))
     IN  ~x.inf /\ x.X % c.n = r

-----------------------------------------------------------------------------

NoJob == [scheme |-> "gcm", text |-> 0, aad |-> 0]

MCInit ==
  /\ curve \in {"P-256", "P-384", "P-521", "words", "parties", "RSA", "AEAD", "NTT", "hashes"}
  /\ probe = 0
  /\ Small256!Signer!Init
  /\ Parties!Init
  /\ SmallRsa!Init
  /\ Aead!Init
  /\ Init
  /\ curve # "parties" =>
       deal = [scheme |-> "hash", par |-> "Sha256", maker |-> "arm", user |-> "arm",
               checker |-> "arm", liboqs |-> TRUE, sha_ni |-> TRUE]
  /\ curve # "AEAD" => job = NoJob
  /\ curve # "hashes" => function = "liboqs"

LastProbe ==
  CASE curve = "P-256" -> 198 [] curve = "P-384" -> 250 [] curve = "P-521" -> 30
    [] curve = "words" -> 4095 [] curve = "AEAD" -> 127 [] curve = "NTT" -> 63

NextProbe ==
  /\ curve \notin {"parties", "RSA", "hashes"} /\ key = 0
  /\ aeadStage = "job" /\ job = NoJob
  /\ probe' = (probe + 1) % (LastProbe + 1)
  /\ UNCHANGED <<pc, key, digest, attempts, nonce, sig>>

SignerStep ==
  /\ probe = 0
  /\ UNCHANGED probe
  /\ \/ curve = "P-256" /\ Small256!Signer!Next
     \/ curve = "P-384" /\ Small384!Signer!Next
     \/ curve = "P-521" /\ Small521!Signer!Next

MCNext ==
  /\ UNCHANGED curve
  /\ \/ (NextProbe \/ SignerStep) /\ UNCHANGED <<partyVars, rsaVars, aeadVars, vars>>
     \/ curve = "parties" /\ Parties!Next /\ UNCHANGED <<signerVars, rsaVars, aeadVars, vars>>
     \/ curve = "RSA" /\ SmallRsa!Next /\ UNCHANGED <<signerVars, partyVars, aeadVars, vars>>
     \/ curve = "AEAD" /\ probe = 0 /\ Aead!Next
        /\ UNCHANGED <<signerVars, partyVars, rsaVars, vars>>
     \/ curve = "hashes" /\ Next /\ UNCHANGED <<signerVars, partyVars, rsaVars, aeadVars>>

MCSpec == MCInit /\ [][MCNext]_<<curve, signerVars, partyVars, rsaVars, aeadVars, vars>>

-----------------------------------------------------------------------------
(* Properties *)

\* Nothing altered or mixed up is accepted, whatever the providers.
Sound == Parties!Sound

\* An exchange succeeds exactly between the providers that agree on every encoding.
Interop == Parties!Interop

\* What was altered is told as that, in an answer of the library.
AlterationTold == Parties!TypeOK /\ Parties!AlterationTold

\* Twenty-four words, each zero or the largest: the twelve high ones by the bits of
\* the probe, the low ones all alike.
Pattern(W, count, low) ==
  [i \in 1 .. 2 * count |->
     IF i <= count THEN low
     ELSE ((probe \div 2 ^ (i - count - 1)) % 2) * (W - 1)]

ReductionsExact ==
  /\ \A W \in {3, 8} : \A low \in {0, 1, W - 1} :
       probe < 256 =>
         LET words == Pattern(W, 8, low)
         IN  ReducesTo(W, P256Prime(W), words, P256Solinas(W, words))
  /\ \A W \in {3, 4} : \A low \in {0, W - 1} :
       LET words == Pattern(W, 12, low)
       IN  ReducesTo(W, P384Prime(W), words, P384Solinas(W, words))
  /\ P384InversionExponent = {0} \cup (2 .. 31) \cup (96 .. 127) \cup (129 .. 383)

FieldLaw(prime, AddOp(_, _), SubOp(_, _), MulOp(_, _), NegOp(_), InvertOp(_)) ==
  /\ \A x \in 0 .. prime - 1 :
       /\ AddOp(probe, x) = (probe + x) % prime
       /\ SubOp(probe, x) = (probe - x) % prime
       /\ MulOp(probe, x) = (probe * x) % prime
  /\ NegOp(probe) = (-probe) % prime
  /\ probe # 0 => (probe * InvertOp(probe)) % prime = 1

\* Every element of a field is added, subtracted, multiplied, negated and inverted as
\* modulo its prime, and the reductions by words are exact at the extremes of their
\* words, where rare carries are.
FieldExact ==
  CASE curve = "P-256" ->
         FieldLaw(199, Small256!fe256_add, Small256!fe256_sub, Small256!fe256_mul,
                  Small256!fe256_neg, Small256!fe256_invert)
    [] curve = "P-384" ->
         FieldLaw(251, Small384!fe384_add, Small384!fe384_sub, Small384!fe384_mul,
                  Small384!fe384_neg, Small384!fe384_invert)
    [] curve = "P-521" ->
         FieldLaw(31, Small521!fe521_add, Small521!fe521_sub, Small521!fe521_mul,
                  LAMBDA x : FieldNeg(Small521!Field, x), Small521!fe521_invert)
    [] curve = "words" -> ReductionsExact
    [] OTHER -> TRUE

-----------------------------------------------------------------------------

ScalarLaw(n, AddOp(_, _), MulOp(_, _), InvertOp(_), FromBytes(_), Decode(_), width) ==
  /\ probe < n =>
       /\ \A x \in 0 .. n - 1 :
            AddOp(probe, x) = (probe + x) % n /\ MulOp(probe, x) = (probe * x) % n
       /\ probe # 0 => (probe * InvertOp(probe)) % n = 1
  /\ \A top \in 0 .. 1 :
       LET v == probe + top * width
       IN  /\ FromBytes(v) = probe % n
           /\ Decode(v).ok = (v \in 1 .. n - 1)

\* Scalars are added, multiplied and inverted as modulo the order, a value as it is
\* read is reduced by it, and only 1 .. n - 1 is taken for half of a signature or a
\* private key.
ScalarsExact ==
  CASE curve = "P-256" ->
         ScalarLaw(197, Small256!p256_scalar_add, Small256!p256_scalar_mul_mod_n,
                   Small256!p256_scalar_invert, Small256!p256_scalar_from_bytes32,
                   Small256!p256_scalar_sig_decode, 256)
    [] curve = "P-384" ->
         ScalarLaw(239, Small384!p384_scalar_add, Small384!p384_scalar_mul_mod_n,
                   Small384!p384_scalar_invert, Small384!p384_scalar_from_bytes48,
                   Small384!p384_scalar_sig_decode, 256)
    [] curve = "P-521" ->
         ScalarLaw(29, Small521!p521_scalar_add, Small521!p521_scalar_mul_mod_n,
                   Small521!p521_scalar_invert, Small521!p521_scalar_from_bytes66,
                   Small521!p521_scalar_sig_decode, 32)
    [] OTHER -> TRUE

\* What is under the ciphers: the products of GHASH and Poly1305, the round keys of AES,
\* and the words ChaCha20 mixes.
CiphersExact ==
  curve = "AEAD" /\ aeadStage = "job" /\ job = NoJob =>
    /\ Aead!GhashExact(probe)
    /\ Aead!PolyExact(probe)
    /\ probe = 0 => Aead!WordsExact

\* Polynomials with coefficients of the largest size in three patterns of signs, and one
\* with a single coefficient.
Polynomials ==
  LET Sign(bit) == IF (probe \div 2 ^ bit) % 2 = 0 THEN 1 ELSE -1
  IN  { [i \in 0 .. 15 |-> 2016 * Sign(i % 6)], [i \in 0 .. 15 |-> 2016 * Sign(i \div 3)],
        [i \in 0 .. 15 |-> 2016 * Sign(i % 6) * (IF i < 8 THEN 1 ELSE -1)],
        [i \in 0 .. 15 |-> IF i = probe % 16 THEN probe ELSE 0] }

\* The transforms of ML-DSA, on these, and their table.
TransformsExact ==
  curve = "NTT" =>
    /\ \A a \in Polynomials : SmallNtt!TransformsExact(a)
    /\ \A quarter \in 0 .. 3 : SmallNtt!TableExact(64 * quarter + probe)

\* The arithmetic is that of the definitions, however the limbs, words and lanes of a
\* processor hold it.
ArithmeticExact == FieldExact /\ ScalarsExact /\ CiphersExact /\ TransformsExact

\* All forms of a doubling and an addition, for the multiple "probe" of the base point
\* with some of its Jacobian coordinates, and any other.
PointLaw ==
  LET Scaled(q, z) == [X |-> (q.X * z * z) % 31, Y |-> (q.Y * ((z * z * z) % 31)) % 31, Z |-> z]
      G1 == Base(Curve521)
      p == Multiple(Curve521, probe, G1)
      jacobians == IF p.inf THEN {[X |-> 1, Y |-> 1, Z |-> 0], [X |-> 0, Y |-> 1, Z |-> 0]}
                   ELSE {Scaled(p, z) : z \in {1, 2, 17, 30}}
  IN  \A j \in jacobians :
        /\ Meaning(Curve521, Small521!p521_point_double(j)) = Sum(Curve521, p, p)
        /\ Meaning(Curve521, Small521!p521_point_double_ct(j)) = Sum(Curve521, p, p)
        /\ \A k \in 1 .. 28 :
             LET q == Multiple(Curve521, k, G1)
             IN  /\ \A z \in {1, 5} :
                      /\ Meaning(Curve521, Small521!p521_point_add(j, Scaled(q, z))) = Sum(Curve521, p, q)
                      /\ Meaning(Curve521, Small521!p521_point_add(Scaled(q, z), j)) = Sum(Curve521, p, q)
                 /\ Meaning(Curve521, Small521!p521_point_add_affine(j, q)) = Sum(Curve521, p, q)
                 /\ k # probe =>
                      Meaning(Curve521, Small521!p521_point_add_affine_ct(j, q)) = Sum(Curve521, p, q)

MultiplicationLaw(c, MulBase(_), MulAny(_, _), ToAffine(_)) ==
  LET expected == Multiple(c, probe, Base(c))
      base == MulBase(probe)
      other == MulAny([X |-> c.g.X, Y |-> c.g.Y, Z |-> 1], probe)
  IN  probe < c.n =>
        /\ Meaning(c, base) = expected
        /\ Meaning(c, other) = expected
        /\ ~expected.inf => ToAffine(base) = [X |-> expected.X, Y |-> expected.Y, Z |-> 1]

\* Points add up by the group law, and both multiplications of the base point give the
\* multiple, for every scalar below the order: the constant-time addition, which has no
\* case for equal points, never meets them there.
GroupExact ==
  CASE curve = "P-256" ->
         MultiplicationLaw(Curve256,
           Small256!Signer!ScalarMulBase, Small256!Signer!ScalarMul, Small256!Signer!ToAffine)
    [] curve = "P-384" ->
         MultiplicationLaw(Curve384,
           Small384!p384_scalar_mul_base, Small384!p384_scalar_mul, Small384!p384_to_affine)
    [] curve = "P-521" ->
         /\ probe < 29 => PointLaw
         /\ MultiplicationLaw(Curve521,
              Small521!p521_scalar_mul_base, Small521!p521_scalar_mul, Small521!p521_to_affine)
    [] OTHER -> TRUE

-----------------------------------------------------------------------------

Accepts(PublicKey(_), Verify(_, _, _, _), IaVerify(_, _, _, _)) ==
  sig.ok =>
    /\ Verify(PublicKey(key), digest, sig.r, sig.s)
    /\ IaVerify(PublicKey(key), digest, sig.r, sig.s)

\* Whatever nonce came out of the draw, accepted or given up on, what is returned as a
\* signature verifies under the signer's public key, with either assembly provider.
SignaturesVerify ==
  pc = "signed" =>
    CASE curve = "P-256" -> Accepts(Small256!p256_compute_public_key,
                                    Small256!p256_ecdsa_verify, Small256!ia_p256_ecdsa_verify)
      [] curve = "P-384" -> Accepts(Small384!p384_compute_public_key,
                                    Small384!p384_ecdsa_verify, Small384!ia_p384_ecdsa_verify)
      [] curve = "P-521" -> Accepts(Small521!p521_compute_public_key,
                                    Small521!p521_ecdsa_verify, Small521!ia_p521_ecdsa_verify)

\* Pairs near a signature and near the ends of the range, each half also in the
\* encodings that are congruent to it.
Presented(n, width) ==
  LET near == {0, 1, n - 1, n, n + 1, width - 1}
      own == IF sig.ok THEN {sig.r, sig.r + n, n - sig.r} ELSE {1}
      ownS == IF sig.ok THEN {sig.s, sig.s + n, n - sig.s, sig.s + width} ELSE {1}
  IN  (own \X (near \cup ownS)) \cup ((near \cup own) \X ownS)

Agrees(c, width, PublicKey(_), Verify(_, _, _, _)) ==
  \A q \in {PublicKey(key), [X |-> 0, Y |-> 0], [X |-> 2, Y |-> 2], [X |-> width - 1, Y |-> 1]} :
    \A rs \in Presented(c.n, width) :
      Verify(q, digest, rs[1], rs[2]) = IsSignature(c, q, digest, rs[1], rs[2])

\* Verification accepts what the definition of ECDSA calls a signature, and nothing
\* else: no other encoding of its halves and no point that is not on the curve.
VerifyIsEcdsa ==
  pc = "signed" =>
    CASE curve = "P-256" ->
           Agrees(Curve256, 256, Small256!p256_compute_public_key, Small256!p256_ecdsa_verify)
      [] curve = "P-384" ->
           Agrees(Curve384, 256, Small384!p384_compute_public_key, Small384!p384_ecdsa_verify)
      [] curve = "P-521" ->
           Agrees(Curve521, 32, Small521!p521_compute_public_key, Small521!p521_ecdsa_verify)

\* rfc6979_generate_k: "Generate a deterministic per-message scalar k in [1, n-1]".
NonceInRange ==
  pc \in {"sign", "signed"} /\ curve = "P-521" => nonce \in 1 .. 28

-----------------------------------------------------------------------------

\* The test's own errors, and what a test of a few rounds cannot promise: a composite
\* that every drawn base vouches for is taken for a prime.
TruePrimes == SmallRsa!IsPrime(rsaKey.p) /\ SmallRsa!IsPrime(rsaKey.q)

\* The numbers of a key fit together and survive its DER, the paddings give back what
\* was put in and nothing else, and the private operation undoes the public one for
\* every message whose residues are less than p apart the wrong way round.
RsaExact ==
  /\ curve = "RSA" /\ rsaStage = "p" =>
       /\ SmallRsa!PrimesPass
       /\ SmallRsa!LengthsExact
       /\ SmallRsa!OaepExact
       /\ SmallRsa!PssExact
  /\ rsaStage = "key" /\ TruePrimes =>
       /\ message = 0 => SmallRsa!KeyExact(rsaKey) /\ SmallRsa!DerExact(rsaKey)
       /\ SmallRsa!OnceIsEnough(rsaKey, message) => SmallRsa!Inverts(rsaKey, message)

\* The same for every message: "If m_p < m_q, add p first to keep it positive."
PrivateInverts ==
  rsaStage = "key" /\ TruePrimes => SmallRsa!Inverts(rsaKey, message)
=============================================================================
