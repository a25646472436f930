------------------------------- MODULE Ecdsa -------------------------------
(***************************************************************************)
(* Points of y^2 = x^3 - 3x + b in Jacobian coordinates, X/Z^2 and Y/Z^3,  *)
(* and ECDSA over them.  Private scalars are multiplied by the             *)
(* constant-time forms, which compute the general formula whatever the     *)
(* points are and select the special case of the neutral element           *)
(* afterwards; they have no case for the sum of a point and itself.  The   *)
(* signer draws its nonce from HMAC output, at most MaxAttempts times, and *)
(* signs with what it drew last; anyone verifies what is presented as a    *)
(* signature.  HMAC is external: its output is any member of Output.       *)
(***************************************************************************)
EXTENDS ScalarField, Sequences

CONSTANTS
  Add(_, _), Sub(_, _), Mul(_, _), Invert(_),   \* the field
  InField(_),     \* is a coordinate as it was read below the prime?
  B,              \* the coefficient b
  Table,          \* the precomputed points 1*G .. 15*G, affine
  Windows,        \* how many windows of four bits a scalar has
  TopBits,        \* how many bits it has above them: none, or one (P-521)
  ScalarInverse(_),  \* the inversion modulo the order
  Key,               \* private keys in use
  Hash,              \* hashes of messages
  Output,            \* outputs of HMAC
  PadRange,          \* what the nonce buffer has below an HMAC output: 1, or
                     \* 2^16 for P-521, where HMAC is shorter than the order
  Pad,               \* the value it starts with: bytes of 0x01
  CompareShift,      \* how far the limbs that are compared with the order are
                     \* above the bytes of the nonce
  MaxAttempts,       \* how often a nonce is drawn
  CoordinateRange    \* one more than the coordinates verify lets through

VARIABLES
  pc,        \* what the signer does next
  key,       \* its private scalar
  digest,    \* the hash of its message
  attempts,  \* how many nonces it drew
  nonce,     \* the nonce buffer
  sig        \* its signature

vars == <<pc, key, digest, attempts, nonce, sig>>

-----------------------------------------------------------------------------
(* Points. *)

Sqr(a) == Mul(a, a)
Twice(a) == Add(a, a)

Points == [X : Nat, Y : Nat, Z : Nat]
Jacobian(x, y, z) == [X |-> x, Y |-> y, Z |-> z]
Identity == Jacobian(0, 1, 0)
IsIdentity(p) == p.Z = 0
Affine(q) == Jacobian(q.X, q.Y, 1)

\* Deviation: points are not looked up on the curve.
ValidateRangeOnly(x, y) == InField(x) /\ InField(y) /\ ~(x = 0 /\ y = 0)

ValidatePublicPoint(x, y) ==
  /\ InField(x) /\ InField(y)
  /\ ~(x = 0 /\ y = 0)
  /\ Sqr(y) = Sub(Add(Mul(Sqr(x), x), B), Add(Twice(x), x))

-----------------------------------------------------------------------------
(* The formulas, and the forms that test for their special cases. *)

DoubleFormula(p) ==
  LET delta == Sqr(p.Z)
      gamma == Sqr(p.Y)
      beta == Mul(p.X, gamma)
      product == Mul(Sub(p.X, delta), Add(p.X, delta))
      alpha == Add(Twice(product), product)
      beta4 == Twice(Twice(beta))
      x3 == Sub(Sqr(alpha), Twice(beta4))
      gamma8 == Twice(Twice(Twice(Sqr(gamma))))
  IN  Jacobian(x3,
               Sub(Mul(alpha, Sub(beta4, x3)), gamma8),
               Sub(Sub(Sqr(Add(p.Y, p.Z)), gamma), delta))

Double(p) == IF IsIdentity(p) THEN p ELSE DoubleFormula(p)

\* What both points have to be brought to before they are added: the x of both,
\* the y of p, the differences h and r, and the factor of z.
Common(p, q) ==
  LET z1 == Sqr(p.Z)
      z2 == Sqr(q.Z)
      u1 == Mul(p.X, z2)
      s1 == Mul(p.Y, Mul(q.Z, z2))
  IN  [u |-> u1, s |-> s1, h |-> Sub(Mul(q.X, z1), u1),
       r |-> Sub(Mul(q.Y, Mul(p.Z, z1)), s1), z |-> Mul(p.Z, q.Z)]

AddFormula(m) ==
  LET h2 == Sqr(m.h)
      h3 == Mul(m.h, h2)
      uh2 == Mul(m.u, h2)
      x3 == Sub(Sub(Sqr(m.r), h3), Twice(uh2))
  IN  Jacobian(x3, Sub(Mul(m.r, Sub(uh2, x3)), Mul(m.s, h3)), Mul(m.h, m.z))

\* Deviation: the sum of a point and itself is left to the formula.
AddNoDouble(p, q) ==
  IF IsIdentity(p) THEN q
  ELSE IF IsIdentity(q) THEN p
  ELSE AddFormula(Common(p, q))

PointAdd(p, q) ==
  IF IsIdentity(p) THEN q
  ELSE IF IsIdentity(q) THEN p
  ELSE LET m == Common(p, q)
       IN  IF m.h = 0 /\ m.r = 0 THEN Double(p) ELSE AddFormula(m)

\* The same for a q with Z = 1.
PointAddAffine(p, q) ==
  IF IsIdentity(p) THEN Affine(q)
  ELSE LET m == Common(p, Affine(q))
       IN  IF m.h = 0 /\ m.r = 0 THEN Double(p) ELSE AddFormula(m)

-----------------------------------------------------------------------------
(* The constant-time forms. *)

PointSelect(a, b, useA) == IF useA THEN a ELSE b

\* A window of zero bits reads an entry nobody uses.
TableSelect(window) == Table[IF window = 0 THEN 1 ELSE window]

DoubleCt(p) == PointSelect(Identity, DoubleFormula(p), p.Z = 0)

\* Deviation: the neutral element is not selected.
AddAffineCtNoSelect(p, q) == AddFormula(Common(p, Affine(q)))

AddAffineCt(p, q) ==
  PointSelect(Affine(q), AddFormula(Common(p, Affine(q))), p.Z = 0)

\* One step of the fixed-base multiplication: "doublings" doublings, and the
\* addition of what the window names.
WindowStep(p, doublings, window) ==
  LET doubled[i \in 0 .. doublings, q \in Points] ==
        IF i = 0 THEN q ELSE doubled[i - 1, DoubleCt(q)]
      d == doubled[doublings, p]
  IN  PointSelect(AddAffineCt(d, TableSelect(window)), d, window # 0)

\* k*G, a window at a time from the top.  P-521 has one bit above the windows.
ScalarMulBase(k) ==
  LET step[i \in 0 .. Windows, r \in Points] ==
        IF i = 0 THEN r
        ELSE step[i - 1, WindowStep(r, 4, (k \div 16 ^ (i - 1)) % 16)]
  IN  step[Windows, IF TopBits = 0 THEN Identity
                    ELSE WindowStep(Identity, 1, (k \div 16 ^ Windows) % 2)]

\* k*base, a bit at a time from the bottom.
ScalarMul(base, k) ==
  LET step[i \in Nat, sum \in Points, addend \in Points] ==
        IF i = 4 * Windows + TopBits THEN sum
        ELSE step[i + 1,
                  PointSelect(PointAdd(sum, addend), sum, (k \div 2 ^ i) % 2 = 1),
                  Double(addend)]
  IN  step[0, Identity, base]

ToAffine(p) ==
  IF IsIdentity(p) THEN p
  ELSE LET zinv == Invert(p.Z)
           zinv2 == Sqr(zinv)
       IN  Jacobian(Mul(p.X, zinv2), Mul(p.Y, Mul(zinv, zinv2)), 1)

\* The public key of a private scalar, by its coordinates.
ComputePublicKey(k) ==
  LET q == ToAffine(ScalarMulBase(k)) IN [X |-> q.X, Y |-> q.Y]

-----------------------------------------------------------------------------
(* ECDSA. *)

NoSignature == [ok |-> FALSE]
Signature(r, s) == [ok |-> TRUE, r |-> r, s |-> s]

\* Deviation: the nonce is not inverted.
SignNotInverted(d0, hash, buffer) ==
  LET r == ScalarFromBytes(ToAffine(ScalarMulBase(buffer)).X)
  IN  Signature(r, ScalarMulModN(ScalarFromBytes(buffer),
                                 ScalarAdd(ScalarFromBytes(hash), ScalarMulModN(r, d0))))

\* The signing equation, given the nonce buffer.
SignWith(d0, hash, buffer) ==
  LET e == ScalarFromBytes(hash)
      d == ScalarFromBytes(d0)
      k == ScalarFromBytes(buffer)
      R == ToAffine(ScalarMulBase(buffer))
      r == ScalarFromBytes(R.X)
      s == ScalarMulModN(ScalarInverse(k), ScalarAdd(e, ScalarMulModN(r, d)))
  IN  IF \/ ScalarIsZero(d) \/ ScalarIsZero(k) \/ IsIdentity(R)
         \/ ScalarIsZero(r) \/ ScalarIsZero(s)
      THEN NoSignature
      ELSE Signature(r, s)

\* Deviation: the public key is not validated and the sum may be the neutral element.
VerifyUnchecked(q, hash, r0, s0) ==
  /\ SigDecode(r0).ok /\ SigDecode(s0).ok
  /\ LET w == ScalarInverse(s0)
         x == ToAffine(PointAdd(ScalarMulBase(ScalarMulModN(ScalarFromBytes(hash), w)),
                                ScalarMul(Affine(q), ScalarMulModN(r0, w))))
     IN  ScalarFromBytes(x.X) = r0

Verify(q, hash, r0, s0) ==
  /\ SigDecode(r0).ok /\ SigDecode(s0).ok
  /\ q.X < CoordinateRange /\ q.Y < CoordinateRange
  /\ LET x0 == q.X % ScalarRange
         y0 == q.Y % ScalarRange
         w == ScalarInverse(s0)
         x == ToAffine(PointAdd(ScalarMulBase(ScalarMulModN(ScalarFromBytes(hash), w)),
                                ScalarMul(Jacobian(x0, y0, 1), ScalarMulModN(r0, w))))
     IN  /\ ValidatePublicPoint(x0, y0)
         /\ ~IsIdentity(x)
         /\ ScalarFromBytes(x.X) = r0

\* The stored form of a key pair's public half, and what the store lets in.
ValidPrivate(v) == SigDecode(v).ok
ValidPublic(q) ==
  q.X < ScalarRange /\ q.Y < ScalarRange /\ ValidatePublicPoint(q.X, q.Y)

-----------------------------------------------------------------------------
(* The signer. *)

Init ==
  /\ pc = "idle"
  /\ key = 0 /\ digest = 0
  /\ attempts = 0 /\ nonce = 0
  /\ sig = NoSignature

Begin(d, hash) ==
  /\ pc = "idle"
  /\ ValidPrivate(d)
  /\ pc' = "draw"
  /\ key' = d /\ digest' = hash
  /\ attempts' = 0 /\ nonce' = 0
  /\ sig' = NoSignature

\* The check of a drawn nonce: not zero, and below the order as the limbs that are
\* put together from its bytes are.
NonceAccepted(v) == v # 0 /\ v * 2 ^ CompareShift < N

\* HMAC output goes to the front of the buffer.
Drawn(v) ==
  /\ pc = "draw"
  /\ nonce' = v
  /\ attempts' = attempts + 1
  /\ UNCHANGED <<key, digest, sig>>

Accept(t) ==
  LET v == t * PadRange + Pad
  IN  NonceAccepted(v) /\ Drawn(v) /\ pc' = "sign"

\* The last refused nonce is returned like an accepted one.
Refuse(t) ==
  LET v == t * PadRange + Pad
  IN  /\ ~NonceAccepted(v)
      /\ Drawn(v)
      /\ pc' = IF attempts' = MaxAttempts THEN "sign" ELSE "draw"

Sign ==
  /\ pc = "sign"
  /\ sig' = SignWith(key, digest, nonce)
  /\ pc' = "signed"
  /\ UNCHANGED <<key, digest, attempts, nonce>>

Done ==
  /\ pc = "signed"
  /\ pc' = "idle"
  /\ UNCHANGED <<key, digest, attempts, nonce, sig>>

Next ==
  \/ \E d \in Key, hash \in Hash : Begin(d, hash)
  \/ \E t \in Output : Accept(t) \/ Refuse(t)
  \/ Sign
  \/ Done
=============================================================================
