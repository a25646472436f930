------------------------------ MODULE IaProvider ------------------------------
(***************************************************************************)
(* The dispatch of the x86 provider.  It is a text of its own, written     *)
(* after the ARM one: over its own symmetric and RSA key stores and        *)
(* primitives, over the ARM provider's EC and post-quantum stores.  It     *)
(* decides every case as that one does, and computes the same, except that *)
(* its SHA-256 by SHA-NI is not SHA-256 (ShaNiRounds of Hashing): what it  *)
(* makes with that, it alone recomputes.                                   *)
(***************************************************************************)
EXTENDS ProviderTerms

CONSTANTS
  Liboqs,  \* whether the build has the post-quantum algorithms
  ShaNi    \* whether it has SHA-NI: the default, SAFE_CRYPTO_IA_ASM_SHA_NI

Arm == INSTANCE ArmProvider

alg_sha(v) == Arm!alg_sha(v)
alg_hmac(v) == Arm!alg_hmac(v)
alg_ecdsa == Arm!alg_ecdsa
alg_ecdh == Arm!alg_ecdh
alg_aes_gcm == Arm!alg_aes_gcm
alg_chacha20_poly1305 == Arm!alg_chacha20_poly1305
alg_rsa_oaep == Arm!alg_rsa_oaep
alg_rsa_pss == Arm!alg_rsa_pss
alg_slh_dsa(v) == Arm!alg_slh_dsa(v)
alg_ml_dsa(v) == Arm!alg_ml_dsa(v)
alg_ml_kem(v) == Arm!alg_ml_kem(v)
make_hmac_generate_attrs(v, len) == Arm!make_hmac_generate_attrs(v, len)
make_hmac_verify_attrs(v, len) == Arm!make_hmac_verify_attrs(v, len)
make_aes256_gcm_encrypt_attrs == Arm!make_aes256_gcm_encrypt_attrs
make_aes256_gcm_decrypt_attrs == Arm!make_aes256_gcm_decrypt_attrs
make_chacha20_poly1305_encrypt_attrs == Arm!make_chacha20_poly1305_encrypt_attrs
make_chacha20_poly1305_decrypt_attrs == Arm!make_chacha20_poly1305_decrypt_attrs
make_ecdsa_generate_attrs(c) == Arm!make_ecdsa_generate_attrs(c)
make_ecdsa_sign_attrs(c) == Arm!make_ecdsa_sign_attrs(c)
make_ecdsa_verify_attrs(c) == Arm!make_ecdsa_verify_attrs(c)
make_ecdh_generate_attrs(c) == Arm!make_ecdh_generate_attrs(c)
make_ecdh_agree_attrs(c) == Arm!make_ecdh_agree_attrs(c)
make_rsa_oaep_encrypt_attrs(bits) == Arm!make_rsa_oaep_encrypt_attrs(bits)
make_rsa_oaep_decrypt_attrs(bits) == Arm!make_rsa_oaep_decrypt_attrs(bits)
make_rsa_pss_sign_attrs(bits) == Arm!make_rsa_pss_sign_attrs(bits)
make_rsa_pss_verify_attrs(bits) == Arm!make_rsa_pss_verify_attrs(bits)
make_rsa_key_pair_attrs(bits) == Arm!make_rsa_key_pair_attrs(bits)
make_slh_dsa_generate_attrs(v) == Arm!make_slh_dsa_generate_attrs(v)
make_slh_dsa_sign_attrs(v) == Arm!make_slh_dsa_sign_attrs(v)
make_slh_dsa_verify_attrs(v) == Arm!make_slh_dsa_verify_attrs(v)
make_ml_dsa_generate_attrs(v) == Arm!make_ml_dsa_generate_attrs(v)
make_ml_dsa_sign_attrs(v) == Arm!make_ml_dsa_sign_attrs(v)
make_ml_dsa_verify_attrs(v) == Arm!make_ml_dsa_verify_attrs(v)
make_ml_kem_generate_attrs(v) == Arm!make_ml_kem_generate_attrs(v)
make_ml_kem_encap_attrs(v) == Arm!make_ml_kem_encap_attrs(v)
make_ml_kem_decap_attrs(v) == Arm!make_ml_kem_decap_attrs(v)

rsa_generate_key_pair(attrs, of) == Arm!rsa_generate_key_pair(attrs, of)
rsa_oaep_encrypt(k) == Arm!rsa_oaep_encrypt(k)
rsa_oaep_decrypt(k, ct) == Arm!rsa_oaep_decrypt(k, ct)
rsa_pss_sign(k) == Arm!rsa_pss_sign(k)
rsa_pss_verify(k, sig) == Arm!rsa_pss_verify(k, sig)

\* The digest a variant gets.
Computed(v) == IF ShaNi /\ v = "Sha256" THEN "another of 32 bytes" ELSE v

generate_random(par, of) == Arm!generate_random(par, of)
import_key(attrs, bytes) == Arm!import_key(attrs, bytes)
generate_key(attrs, of) == Arm!generate_key(attrs, of)
export_key(k) == Arm!export_key(k)
export_public_key(k) == Arm!export_public_key(k)
hash_compute(alg) ==
  When(alg \in {alg_sha(v) : v \in Digests}, Value(Made(alg_sha(Computed(alg[2])), "message")))
hkdf_derive(ikm_len, out_len, expand_only) == Arm!hkdf_derive(ikm_len, out_len, expand_only)
mac_compute_raw(k, alg) ==
  When(Arm!IsSymmetric(k) /\ alg \in {alg_hmac(v) : v \in Digests},
       Value(Made(alg_hmac(Computed(alg[2])), k.private.of)))
mac_compute(k, alg) == mac_compute_raw(k, alg)
mac_verify(k, alg, mac) ==
  LET expected == mac_compute_raw(k, alg)
  IN IF IsOk(expected) THEN Compare(mac, expected.value) ELSE expected
aead_encrypt(k, alg) == Arm!aead_encrypt(k, alg)
aead_decrypt(k, alg, ct) == Arm!aead_decrypt(k, alg, ct)
EcdsaForm(c) == <<"plain", Computed(Arm!ecdsa_digest[c]), c>>
sign_message_raw(k, alg) ==
  IF alg = alg_ecdsa
  THEN When(Arm!Has(k, "ec", "private"), Value(Made(EcdsaForm(k.attrs.par), k.private.of)))
  ELSE Arm!sign_message_raw(k, alg)
sign_message(k, alg) == sign_message_raw(k, alg)
verify_message(k, alg, sig) ==
  IF alg = alg_ecdsa
  THEN When(Arm!Has(k, "ec", "public") /\ Arm!SameLength(sig, k.attrs.par),
            Compare(sig, Made(EcdsaForm(k.attrs.par), k.public.of)))
  ELSE Arm!verify_message(k, alg, sig)
raw_key_agreement(alg, k, peer) == Arm!raw_key_agreement(alg, k, peer)
asymmetric_encrypt(k, alg) == Arm!asymmetric_encrypt(k, alg)
asymmetric_decrypt(k, alg, ct) == Arm!asymmetric_decrypt(k, alg, ct)
kem_encapsulate(k, alg) == Arm!kem_encapsulate(k, alg)
kem_decapsulate(k, alg, ct) == Arm!kem_decapsulate(k, alg, ct)

\* The library over this provider.
Lib == INSTANCE LibraryFunctions
=============================================================================
