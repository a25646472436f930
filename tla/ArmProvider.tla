----------------------------- MODULE ArmProvider -----------------------------
(***************************************************************************)
(* The dispatch of the ARM provider: what each operation does with the key *)
(* it is given, for every algorithm tag.  An id is the key it stands for;  *)
(* the stores behind the ids are modules of their own.                     *)
(***************************************************************************)
EXTENDS ProviderTerms

CONSTANT Liboqs  \* whether the build has the post-quantum algorithms

\* Key attributes: the store the key goes to, what half of which parameter set it
\* is, and the number of bytes to generate.
Attrs(store, half, par, key_bytes) ==
  [store |-> store, half |-> half, par |-> par, key_bytes |-> key_bytes]
make_key_attrs == Attrs("symmetric", "secret", "none", 0)

alg_sha(v) == <<"sha", v>>
alg_hmac(v) == <<"hmac", v>>
alg_ecdsa == <<"ecdsa">>
alg_ecdh == <<"ecdh">>
alg_aes_gcm == <<"AesGcm">>
alg_chacha20_poly1305 == <<"ChaCha20Poly1305">>
alg_rsa_oaep == <<"oaep">>
alg_rsa_pss == <<"pss">>
alg_slh_dsa(v) == <<"slh_dsa">>
alg_ml_dsa(v) == <<"ml_dsa", v>>
alg_ml_kem(v) == <<"ml_kem", v>>

make_hmac_generate_attrs(v, len) == Attrs("symmetric", "secret", "none", len)
make_hmac_verify_attrs(v, len) == Attrs("symmetric", "secret", "none", len)
make_aes256_gcm_encrypt_attrs == Attrs("symmetric", "secret", "none", 32)
make_aes256_gcm_decrypt_attrs == Attrs("symmetric", "secret", "none", 32)
make_chacha20_poly1305_encrypt_attrs == Attrs("symmetric", "secret", "none", 32)
make_chacha20_poly1305_decrypt_attrs == Attrs("symmetric", "secret", "none", 32)

ScalarBytes == [P256 |-> 32, P384 |-> 48, P521 |-> 66]
ec_private_key_export_size(c) == ScalarBytes[c]
ec_public_key_export_size(c) == 2 * ScalarBytes[c] + 1
ec_private(c) == Attrs("ec", "private", c, ec_private_key_export_size(c))

make_ecdsa_generate_attrs(c) == ec_private(c)
make_ecdsa_sign_attrs(c) == ec_private(c)
make_ecdsa_verify_attrs(c) == Attrs("ec", "public", c, ec_public_key_export_size(c))
make_ecdh_generate_attrs(c) == ec_private(c)
make_ecdh_agree_attrs(c) == ec_private(c)

make_rsa_oaep_encrypt_attrs(bits) == Attrs("rsa", "public", bits, 0)
make_rsa_oaep_decrypt_attrs(bits) == Attrs("rsa", "private", bits, 0)
make_rsa_pss_sign_attrs(bits) == Attrs("rsa", "private", bits, 0)
make_rsa_pss_verify_attrs(bits) == Attrs("rsa", "public", bits, 0)
make_rsa_key_pair_attrs(bits) == Attrs("rsa", "private", bits, 0)

make_slh_dsa_sign_attrs(v) == make_key_attrs
make_slh_dsa_verify_attrs(v) == make_key_attrs
make_slh_dsa_generate_attrs(v) == make_key_attrs

\* Without liboqs there is no such key type.
pqc(half, v) == IF Liboqs THEN Attrs("pqc", half, v, 0) ELSE make_key_attrs
make_ml_dsa_sign_attrs(v) == pqc("private", v)
make_ml_dsa_verify_attrs(v) == pqc("public", v)
make_ml_dsa_generate_attrs(v) == pqc("private", v)
make_ml_kem_generate_attrs(v) == pqc("private", v)
make_ml_kem_encap_attrs(v) == pqc("public", v)
make_ml_kem_decap_attrs(v) == pqc("private", v)

-----------------------------------------------------------------------------
(* Keys.                                                                     *)

\* The length of a key tells its curve, its half and its form.
ec_key_validate(attrs, bytes) ==
  /\ bytes.half = attrs.half /\ bytes.par = attrs.par
  /\ bytes.form = IF attrs.half = "private" THEN "big-endian" ELSE "point"

pqc_sizes_match(attrs, bytes) == bytes.half = attrs.half /\ bytes.par = attrs.par

\* RSA and symmetric keys are stored as they come.
import_key(attrs, bytes) ==
  LET accepted == CASE attrs.store = "ec" -> ec_key_validate(attrs, bytes)
                    [] attrs.store = "pqc" -> pqc_sizes_match(attrs, bytes)
                    [] OTHER -> TRUE
  IN When(accepted,
          Value(IF attrs.half = "public" THEN Stored(attrs, NoBytes, bytes)
                ELSE Stored(attrs, bytes, NoBytes)))

rsa_generate_key_pair(attrs, of) ==
  Value(Keep(attrs, Bytes("private", attrs.par, of, "pkcs1")))

\* A fresh key, of; only the post-quantum store keeps both halves.
generate_key(attrs, of) ==
  CASE attrs.store = "ec" -> Value(Keep(attrs, Bytes("private", attrs.par, of, "big-endian")))
    [] attrs.store = "rsa" -> When(attrs.half = "private", rsa_generate_key_pair(attrs, of))
    [] attrs.store = "pqc" ->
         When(attrs.half = "private", Value(Stored(attrs, Bytes("private", attrs.par, of, "raw"),
                                                          Bytes("public", attrs.par, of, "raw"))))
    [] OTHER -> When(attrs.key_bytes # 0, Value(Keep(attrs, Bytes("secret", "none", of, "raw"))))

export_key(k) == When(k.private # NoBytes, Value(k.private))

export_public_key(k) ==
  CASE k.attrs.store = "rsa" ->
         When(k.attrs.half = "private" /\ k.private.half = "private",
              Value(Bytes("public", k.private.par, k.private.of, "spki")))
    [] k.attrs.store = "pqc" -> When(k.public # NoBytes, Value(k.public))
    [] k.attrs.store = "ec" /\ k.attrs.half = "private" ->
         Value(Bytes("public", k.attrs.par, k.private.of, "point"))
    [] k.attrs.store = "ec" /\ k.attrs.half = "public" -> Value(k.public)
    [] OTHER -> Refused

generate_random(par, of) == Value(Bytes("secret", par, of, "raw"))

-----------------------------------------------------------------------------
(* Digests, derivation and symmetric operations.                             *)

hash_compute(alg) == When(alg \in {alg_sha(v) : v \in Digests}, Value(Made(alg, "message")))

hkdf_derive(ikm_len, out_len, expand_only) ==
  When(out_len \in 1 .. MaxOutput, Value(Made(<<"hkdf", expand_only, out_len>>, "message")))

IsSymmetric(k) == k.attrs.store = "symmetric"

mac_compute_raw(k, alg) ==
  When(IsSymmetric(k) /\ alg \in {alg_hmac(v) : v \in Digests}, Value(Made(alg, k.private.of)))
mac_compute(k, alg) == mac_compute_raw(k, alg)

mac_verify(k, alg, mac) ==
  LET expected == mac_compute(k, alg)
  IN IF IsOk(expected) THEN Compare(mac, expected.value) ELSE expected

Ciphers == {alg_aes_gcm, alg_chacha20_poly1305}

aead_encrypt(k, alg) ==
  When(IsSymmetric(k) /\ alg \in Ciphers, Value(Made(alg, k.private.of)))

\* Deviation: the tag is computed and not compared.
DecryptAnyway(k, alg, ct) == When(IsSymmetric(k) /\ alg \in Ciphers, Status("ok"))

aead_decrypt(k, alg, ct) ==
  When(IsSymmetric(k) /\ alg \in Ciphers, Compare(ct, Made(alg, k.private.of)))

-----------------------------------------------------------------------------
(* Signatures, agreement, encryption and encapsulation.                      *)

\* The digest goes with the curve, and a signature is its two scalars, plain.
ecdsa_digest == [P256 |-> "Sha256", P384 |-> "Sha384", P521 |-> "Sha512"]
EcdsaForm(c) == <<"plain", ecdsa_digest[c], c>>

Has(k, store, half) == k.attrs.store = store /\ k.attrs.half = half

\* Both encodings of a public key are read, and its modulus must have the size
\* that was declared.
rsa_parse_public_key(k) ==
  k.public.half = "public" /\ k.public.form \in {"spki", "pkcs1"} /\ k.public.par = k.attrs.par
rsa_parse_private_key(k) == k.private.half = "private" /\ k.private.form = "pkcs1"

rsa_pss_sign(k) == When(rsa_parse_private_key(k), Value(Made(<<"pss", k.attrs.par>>, k.private.of)))
rsa_pss_verify(k, sig) ==
  Status(IF rsa_parse_public_key(k) /\ sig = Made(<<"pss", k.attrs.par>>, k.public.of)
         THEN "ok" ELSE "err_invalid_sig")

IsMlDsa(alg) == Liboqs /\ alg \in {alg_ml_dsa(v) : v \in Pars.ml_dsa}

sign_message_raw(k, alg) ==
  CASE alg = alg_rsa_pss -> When(Has(k, "rsa", "private"), rsa_pss_sign(k))
    [] IsMlDsa(alg) ->
         When(Has(k, "pqc", "private") /\ alg = alg_ml_dsa(k.attrs.par), Value(Made(alg, k.private.of)))
    [] alg = alg_ecdsa ->
         When(Has(k, "ec", "private"), Value(Made(EcdsaForm(k.attrs.par), k.private.of)))
    [] OTHER -> Refused
sign_message(k, alg) == sign_message_raw(k, alg)

\* A signature of the wrong length is an argument error.
SameLength(sig, c) == sig.how[1] = "plain" /\ sig.how[3] = c

verify_message(k, alg, sig) ==
  CASE alg = alg_rsa_pss -> When(Has(k, "rsa", "public"), rsa_pss_verify(k, sig))
    [] IsMlDsa(alg) ->
         When(k.attrs.store = "pqc" /\ k.public # NoBytes /\ alg = alg_ml_dsa(k.attrs.par),
              Compare(sig, Made(alg, k.public.of)))
    [] alg = alg_ecdsa ->
         When(Has(k, "ec", "public") /\ SameLength(sig, k.attrs.par),
              Compare(sig, Made(EcdsaForm(k.attrs.par), k.public.of)))
    [] OTHER -> Refused

raw_key_agreement(alg, k, peer) ==
  When(/\ alg = alg_ecdh /\ Has(k, "ec", "private")
       /\ peer.half = "public" /\ peer.par = k.attrs.par /\ peer.form = "point",
       Value(Agreed(k.private, peer)))

rsa_oaep_encrypt(k) ==
  When(rsa_parse_public_key(k), Value(Made(<<"oaep", k.attrs.par>>, k.public.of)))
rsa_oaep_decrypt(k, ct) ==
  When(rsa_parse_private_key(k) /\ ct = Made(<<"oaep", k.attrs.par>>, k.private.of), Status("ok"))

asymmetric_encrypt(k, alg) ==
  When(alg = alg_rsa_oaep /\ Has(k, "rsa", "public"), rsa_oaep_encrypt(k))
asymmetric_decrypt(k, alg, ct) ==
  When(alg = alg_rsa_oaep /\ Has(k, "rsa", "private"), rsa_oaep_decrypt(k, ct))

IsMlKem(k, alg) == Liboqs /\ k.attrs.store = "pqc" /\ alg = alg_ml_kem(k.attrs.par)

kem_encapsulate(k, alg) ==
  When(IsMlKem(k, alg) /\ k.public # NoBytes, Value(Made(alg, k.public.of)))
kem_decapsulate(k, alg, ct) ==
  When(IsMlKem(k, alg) /\ k.private # NoBytes, Value(Shared(ct, k.attrs.par, k.private.of)))

\* The library over this provider.
Lib == INSTANCE LibraryFunctions
=============================================================================
