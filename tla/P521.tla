--------------------------------- MODULE P521 ---------------------------------
(***************************************************************************)
(* P-521: its prime and reduction, and the curve's functions by the names they *)
(* have in the code.  An element has m bits, one of them above the last full *)
(* window; limbs hold more than that.                                      *)
(***************************************************************************)
EXTENDS PrimeField

CONSTANTS
  m,                                      \* the bits of an element
  b, n, Table,                            \* the curve: b, the order, 1*G .. 15*G
  Windows, TopBits,                       \* four-bit windows of a scalar, bits above
  ScalarRange, LimbBase, Limbs,           \* the shape of a scalar
  Key, Hash, Output, PadRange, Pad, CompareShift, MaxAttempts,
  CoordinateRange                         \* see Ecdsa

VARIABLES pc, key, digest, attempts, nonce, sig

fe521_p == 2 ^ m - 1
fe521_reduce(product) == Mersenne(2 ^ m, product)

Field == [p |-> fe521_p, radix |-> LimbBase ^ Limbs]

fe521_sub_p(x) == SubP(Field, x)
fe521_reduce_once(x, overflow) == ReduceOnce(Field, x, overflow)
fe521_add(x, y) == FieldAdd(Field, x, y)

\* Differences are cut to m bits, before and after the prime is put back.
fe521_sub(x, y) == IF x < y THEN (((x - y) % 2 ^ m) + fe521_p) % 2 ^ m ELSE x - y

fe521_mul(x, y) == fe521_reduce(x * y)
fe521_is_zero(x) == x = 0
fe521_equal(x, y) == x = y
fe521_invert(x) == FieldInvert(Field, x, fe521_mul)
fe521_in_field(x) == fe521_sub_p(x).borrow

Scalars == INSTANCE ScalarField WITH N <- n

p521_scalar_from_bytes66(v) == Scalars!ScalarFromBytes(v)
p521_scalar_from_bytes66_hash(hash) == p521_scalar_from_bytes66(hash)
p521_scalar_add(x, y) == Scalars!ScalarAdd(x, y)
p521_mont_mul_n(x, y) == Scalars!MontMul(x, y)
p521_scalar_mul_mod_n(x, y) == Scalars!ScalarMulModN(x, y)
p521_scalar_invert(x) == Scalars!ScalarInvert(x)
p521_scalar_is_zero(x) == Scalars!ScalarIsZero(x)
p521_scalar_sig_decode(v) == Scalars!SigDecode(v)

Signer == INSTANCE Ecdsa WITH
  Add <- fe521_add, Sub <- fe521_sub, Mul <- fe521_mul, Invert <- fe521_invert,
  InField <- fe521_in_field, B <- b, N <- n, ScalarInverse <- p521_scalar_invert

p521_point_is_identity(q) == Signer!IsIdentity(q)
p521_validate_public_point(x, y) == Signer!ValidatePublicPoint(x, y)
p521_point_double(q) == Signer!Double(q)
p521_point_add(q, r) == Signer!PointAdd(q, r)
p521_point_add_affine(q, r) == Signer!PointAddAffine(q, r)
p521_point_ct_select(q, r, useQ) == Signer!PointSelect(q, r, useQ)
p521_G_table_select(window) == Signer!TableSelect(window)
p521_point_double_ct(q) == Signer!DoubleCt(q)
p521_point_add_affine_ct(q, r) == Signer!AddAffineCt(q, r)
p521_scalar_mul_base(k) == Signer!ScalarMulBase(k)
p521_scalar_mul(q, k) == Signer!ScalarMul(q, k)
p521_to_affine(q) == Signer!ToAffine(q)
p521_compute_public_key(k) == Signer!ComputePublicKey(k)
p521_ecdsa_sign(d, hash, k) == Signer!SignWith(d, hash, k)
p521_ecdsa_verify(q, hash, r, s) == Signer!Verify(q, hash, r, s)

\* The x86 provider's copies, over its own HMAC and hashes.  Its verification lets no
\* coordinate through that has a bit above the 521.
Strict == INSTANCE Ecdsa WITH
  Add <- fe521_add, Sub <- fe521_sub, Mul <- fe521_mul, Invert <- fe521_invert,
  InField <- fe521_in_field, B <- b, N <- n, ScalarInverse <- p521_scalar_invert,
  CoordinateRange <- ScalarRange

ia_p521_ecdsa_sign(d, hash, k) == Strict!SignWith(d, hash, k)
ia_p521_ecdsa_verify(q, hash, r, s) == Strict!Verify(q, hash, r, s)
=============================================================================
