--------------------------------- MODULE P384 ---------------------------------
(***************************************************************************)
(* P-384: the curve's functions by the names they have in the code, six limbs *)
(* to a scalar.  The smallest prime of its shape is beyond the checker's   *)
(* integers, so the reduction of a product is checked by itself, by words, and *)
(* appears here as the remainder it computes.                              *)
(***************************************************************************)
EXTENDS PrimeField

CONSTANTS
  fe384_p,                                \* the prime
  b, n, Table,                            \* the curve: b, the order, 1*G .. 15*G
  Windows, TopBits,                       \* four-bit windows of a scalar, bits above
  ScalarRange, LimbBase, Limbs, Block,           \* the shape of a scalar
  Key, Hash, Output, PadRange, Pad, CompareShift, MaxAttempts,
  CoordinateRange                         \* see Ecdsa

VARIABLES pc, key, digest, attempts, nonce, sig

fe384_reduce(product) == product % fe384_p

Field == [p |-> fe384_p, radix |-> LimbBase ^ Limbs]

fe384_sub_p(x) == SubP(Field, x)
fe384_reduce_once(x, overflow) == ReduceOnce(Field, x, overflow)
fe384_add(x, y) == FieldAdd(Field, x, y)
fe384_sub(x, y) == FieldSub(Field, x, y)
fe384_neg(x) == FieldNeg(Field, x)
fe384_mul(x, y) == fe384_reduce(x * y)
fe384_is_zero(x) == x = 0
fe384_equal(x, y) == x = y
fe384_invert(x) == FieldInvert(Field, x, fe384_mul)
fe384_in_field(x) == fe384_sub_p(x).borrow

Scalars == INSTANCE ScalarField WITH N <- n

p384_scalar_from_bytes48(v) == Scalars!ScalarFromBytes(v)
p384_scalar_add(x, y) == Scalars!ScalarAdd(x, y)
p384_mont_mul_n(x, y) == Scalars!MontMul(x, y)
p384_scalar_mul_mod_n(x, y) == Scalars!ScalarMulModN(x, y)
p384_scalar_invert(x) == Scalars!ScalarInvertChain(x, Block)
p384_scalar_is_zero(x) == Scalars!ScalarIsZero(x)
p384_scalar_sig_decode(v) == Scalars!SigDecode(v)

Signer == INSTANCE Ecdsa WITH
  Add <- fe384_add, Sub <- fe384_sub, Mul <- fe384_mul, Invert <- fe384_invert,
  InField <- fe384_in_field, B <- b, N <- n, ScalarInverse <- p384_scalar_invert

p384_point_is_identity(q) == Signer!IsIdentity(q)
p384_validate_public_point(x, y) == Signer!ValidatePublicPoint(x, y)
p384_point_double(q) == Signer!Double(q)
p384_point_add(q, r) == Signer!PointAdd(q, r)
p384_point_add_affine(q, r) == Signer!PointAddAffine(q, r)
p384_point_ct_select(q, r, useQ) == Signer!PointSelect(q, r, useQ)
p384_G_table_select(window) == Signer!TableSelect(window)
p384_point_double_ct(q) == Signer!DoubleCt(q)
p384_point_add_affine_ct(q, r) == Signer!AddAffineCt(q, r)
p384_scalar_mul_base(k) == Signer!ScalarMulBase(k)
p384_scalar_mul(q, k) == Signer!ScalarMul(q, k)
p384_to_affine(q) == Signer!ToAffine(q)
p384_compute_public_key(k) == Signer!ComputePublicKey(k)
p384_ecdsa_sign(d, hash, k) == Signer!SignWith(d, hash, k)
p384_ecdsa_verify(q, hash, r, s) == Signer!Verify(q, hash, r, s)

\* The x86 provider's copies, over its own HMAC and hashes.
ia_p384_ecdsa_sign(d, hash, k) == p384_ecdsa_sign(d, hash, k)
ia_p384_ecdsa_verify(q, hash, r, s) == p384_ecdsa_verify(q, hash, r, s)
=============================================================================
