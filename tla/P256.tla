--------------------------------- MODULE P256 ---------------------------------
(***************************************************************************)
(* P-256: its prime and reduction, and the curve's functions by the names they *)
(* have in the code.  Its words are those of base W, and 2^256 is W^8.     *)
(***************************************************************************)
EXTENDS PrimeField

CONSTANTS
  W,                                      \* the base of the words of a product
  b, n, Table,                            \* the curve: b, the order, 1*G .. 15*G
  Windows, TopBits,                       \* four-bit windows of a scalar, bits above
  ScalarRange, LimbBase, Limbs,           \* the shape of a scalar
  Key, Hash, Output, PadRange, Pad, CompareShift, MaxAttempts,
  CoordinateRange                         \* see Ecdsa

VARIABLES pc, key, digest, attempts, nonce, sig

fe256_p == P256Prime(W)
fe256_solinas(c) == SubtractFour(W, fe256_p, P256Solinas(W, c))
fe256_reduce(product) == fe256_solinas(Words(W, 16, product))

Field == [p |-> fe256_p, radix |-> W ^ 8]

fe256_sub_p(x) == SubP(Field, x)
fe256_reduce_once(x, overflow) == ReduceOnce(Field, x, overflow)
fe256_add(x, y) == FieldAdd(Field, x, y)
fe256_sub(x, y) == FieldSub(Field, x, y)
fe256_neg(x) == FieldNeg(Field, x)
fe256_mul(x, y) == fe256_reduce(x * y)
fe256_is_zero(x) == x = 0
fe256_equal(x, y) == x = y
fe256_invert(x) == FieldInvert(Field, x, fe256_mul)
fe256_in_field(x) == fe256_sub_p(x).borrow

Scalars == INSTANCE ScalarField WITH N <- n

p256_scalar_from_bytes32(v) == Scalars!ScalarFromBytes(v)
p256_scalar_add(x, y) == Scalars!ScalarAdd(x, y)
p256_mont_mul_n(x, y) == Scalars!MontMul(x, y)
p256_scalar_mul_mod_n(x, y) == Scalars!ScalarMulModN(x, y)
p256_scalar_invert(x) == Scalars!ScalarInvert(x)
p256_scalar_is_zero(x) == Scalars!ScalarIsZero(x)
p256_scalar_sig_decode(v) == Scalars!SigDecode(v)

Signer == INSTANCE Ecdsa WITH
  Add <- fe256_add, Sub <- fe256_sub, Mul <- fe256_mul, Invert <- fe256_invert,
  InField <- fe256_in_field, B <- b, N <- n, ScalarInverse <- p256_scalar_invert

p256_point_is_identity(q) == Signer!IsIdentity(q)
p256_validate_public_point(x, y) == Signer!ValidatePublicPoint(x, y)
p256_point_double(q) == Signer!Double(q)
p256_point_add(q, r) == Signer!PointAdd(q, r)
p256_point_add_affine(q, r) == Signer!PointAddAffine(q, r)
p256_point_ct_select(q, r, useQ) == Signer!PointSelect(q, r, useQ)
p256_G_table_select(window) == Signer!TableSelect(window)
p256_point_double_ct(q) == Signer!DoubleCt(q)
p256_point_add_affine_ct(q, r) == Signer!AddAffineCt(q, r)
p256_scalar_mul_base(k) == Signer!ScalarMulBase(k)
p256_scalar_mul(q, k) == Signer!ScalarMul(q, k)
p256_to_affine(q) == Signer!ToAffine(q)
p256_compute_public_key(k) == Signer!ComputePublicKey(k)
p256_ecdsa_sign(d, hash, k) == Signer!SignWith(d, hash, k)
p256_ecdsa_verify(q, hash, r, s) == Signer!Verify(q, hash, r, s)

\* The x86 provider's copies, over its own HMAC and hashes.
ia_p256_ecdsa_sign(d, hash, k) == p256_ecdsa_sign(d, hash, k)
ia_p256_ecdsa_verify(q, hash, r, s) == p256_ecdsa_verify(q, hash, r, s)
=============================================================================
