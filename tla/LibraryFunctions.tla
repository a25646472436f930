--------------------------- MODULE LibraryFunctions ---------------------------
(***************************************************************************)
(* What the functions of the library answer, over any provider: one step   *)
(* each, from the arguments to the value or the error.  The calls they are *)
(* made of, interleaved and failing, are the subject of LibraryCalls.      *)
(***************************************************************************)
EXTENDS ProviderTerms

\* What a provider has to have.  Attributes are made from a parameter set and, for
\* HMAC, a length in bytes; a generated key is named by the second argument.
CONSTANTS
  alg_sha(_), alg_hmac(_), alg_ecdsa, alg_ecdh, alg_aes_gcm, alg_chacha20_poly1305,
  alg_rsa_oaep, alg_rsa_pss, alg_slh_dsa(_), alg_ml_dsa(_), alg_ml_kem(_),
  make_hmac_generate_attrs(_, _), make_hmac_verify_attrs(_, _),
  make_aes256_gcm_encrypt_attrs, make_aes256_gcm_decrypt_attrs,
  make_chacha20_poly1305_encrypt_attrs, make_chacha20_poly1305_decrypt_attrs,
  make_ecdsa_generate_attrs(_), make_ecdsa_sign_attrs(_), make_ecdsa_verify_attrs(_),
  make_ecdh_generate_attrs(_), make_ecdh_agree_attrs(_),
  make_rsa_oaep_encrypt_attrs(_), make_rsa_oaep_decrypt_attrs(_),
  make_rsa_pss_sign_attrs(_), make_rsa_pss_verify_attrs(_), make_rsa_key_pair_attrs(_),
  make_slh_dsa_generate_attrs(_), make_slh_dsa_sign_attrs(_), make_slh_dsa_verify_attrs(_),
  make_ml_dsa_generate_attrs(_), make_ml_dsa_sign_attrs(_), make_ml_dsa_verify_attrs(_),
  make_ml_kem_generate_attrs(_), make_ml_kem_encap_attrs(_), make_ml_kem_decap_attrs(_),
  generate_random(_, _), import_key(_, _), generate_key(_, _), export_key(_), export_public_key(_),
  hash_compute(_), hkdf_derive(_, _, _), mac_compute(_, _), mac_verify(_, _, _),
  aead_encrypt(_, _), aead_decrypt(_, _, _), sign_message(_, _), verify_message(_, _, _),
  raw_key_agreement(_, _, _), asymmetric_encrypt(_, _), asymmetric_decrypt(_, _, _),
  kem_encapsulate(_, _), kem_decapsulate(_, _, _)

\* Deviation: the provider's status is passed on.
PassedOn(r, code) == r

\* A status of the provider becomes an error of the library.
OrError(r, code) == IF IsOk(r) THEN r ELSE Status(code)

Require(condition, r) == IF condition THEN r ELSE Status("InvalidArgument")

\* Deviation: a bad signature is an error like any other.
NeverFalse(r, lenient) == IF IsOk(r) THEN Status("ok") ELSE Status("VerificationFailed")

\* A verification tells a bad signature, false, from an operation that failed.
Verdict(r, lenient) ==
  CASE IsOk(r) -> Status("ok")
    [] r.status \in lenient -> Status("false")
    [] OTHER -> Status("VerificationFailed")

\* Import a key, and do with it what follows.
WithKey(attrs, bytes, Op(_)) ==
  LET key == import_key(attrs, bytes)
  IN IF IsOk(key) THEN Op(key.value) ELSE Status("KeyImportFailed")

-----------------------------------------------------------------------------
(* Keys.                                                                     *)

random_bytes_impl(par, of) == OrError(generate_random(par, of), "RandomGenerationFailed")

\* A pair, both halves exported.
Pair(attrs, of) ==
  LET key == generate_key(attrs, of)
      private == export_key(key.value)
      public == export_public_key(key.value)
  IN CASE ~IsOk(key) -> Status("KeyGenerationFailed")
       [] IsOk(key) /\ IsOk(private) /\ IsOk(public) ->
            Value([private |-> private.value, public |-> public.value])
       [] OTHER -> Status("KeyExportFailed")

ecdsa_generate_key_impl(c, of) == Pair(make_ecdsa_generate_attrs(c), of)
ecdh_generate_key_impl(c, of) == Pair(make_ecdh_generate_attrs(c), of)
generate_rsa_key_impl(bits, of) == Pair(make_rsa_key_pair_attrs(bits), of)
slh_dsa_generate_key_impl(v, of) == Pair(make_slh_dsa_generate_attrs(v), of)
ml_dsa_generate_key_impl(v, of) == Pair(make_ml_dsa_generate_attrs(v), of)
ml_kem_generate_key_impl(v, of) == Pair(make_ml_kem_generate_attrs(v), of)

-----------------------------------------------------------------------------
(* Digests, derivation and symmetric operations.                             *)

sha_impl(v) == OrError(hash_compute(alg_sha(v)), "DigestFailed")

\* The key must have twice the length of what is derived from it.
derive_key_impl(output_length, ikm_len) ==
  Require(output_length <= MaxOutput /\ ikm_len >= 2 * output_length,
          OrError(hkdf_derive(ikm_len, output_length, FALSE), "KdfOutputFailed"))

\* The pseudo-random key is one block of SHA-384.
expand_key_impl(output_length) ==
  Require(output_length <= MaxOutput,
          OrError(hkdf_derive(DigestSize["Sha384"], output_length, TRUE), "KdfOutputFailed"))

\* A key as long as the digest it was made for.
hmac_generate_impl(v, key) ==
  Require(DigestSize[key.par] >= DigestSize[v],
          WithKey(make_hmac_generate_attrs(v, DigestSize[key.par]), key,
                  LAMBDA k : OrError(mac_compute(k, alg_hmac(v)), "MacGenerationFailed")))

hmac_verify_impl(v, key, mac) ==
  Require(DigestSize[key.par] >= DigestSize[v],
          WithKey(make_hmac_verify_attrs(v, DigestSize[key.par]), key,
                  LAMBDA k : Verdict(mac_verify(k, alg_hmac(v), mac), {"err_invalid_sig"})))

Seal(attrs, key, alg) ==
  WithKey(attrs, key, LAMBDA k : OrError(aead_encrypt(k, alg), "EncryptionFailed"))
Open(attrs, key, alg, ct) ==
  WithKey(attrs, key, LAMBDA k : OrError(aead_decrypt(k, alg, ct), "DecryptionFailed"))

aes256_gcm_encrypt_impl(key) == Seal(make_aes256_gcm_encrypt_attrs, key, alg_aes_gcm)
aes256_gcm_decrypt_impl(key, ct) == Open(make_aes256_gcm_decrypt_attrs, key, alg_aes_gcm, ct)
chacha20_poly1305_encrypt_impl(key) ==
  Seal(make_chacha20_poly1305_encrypt_attrs, key, alg_chacha20_poly1305)
chacha20_poly1305_decrypt_impl(key, ct) ==
  Open(make_chacha20_poly1305_decrypt_attrs, key, alg_chacha20_poly1305, ct)

-----------------------------------------------------------------------------
(* Signatures, agreement, encryption and encapsulation.                      *)

Sign(attrs, private, alg) ==
  WithKey(attrs, private, LAMBDA k : OrError(sign_message(k, alg), "SigningFailed"))
Check(attrs, public, alg, sig, lenient) ==
  WithKey(attrs, public, LAMBDA k : Verdict(verify_message(k, alg, sig), lenient))

BadInput == {"err_invalid_sig", "err_invalid_arg"}

ecdsa_sign_impl(c, private) == Sign(make_ecdsa_sign_attrs(c), private, alg_ecdsa)
ecdsa_verify_impl(c, public, sig) ==
  Check(make_ecdsa_verify_attrs(c), public, alg_ecdsa, sig, BadInput)

rsa_pss_sign_impl(bits, private) == Sign(make_rsa_pss_sign_attrs(bits), private, alg_rsa_pss)
rsa_pss_verify_impl(bits, public, sig) ==
  Check(make_rsa_pss_verify_attrs(bits), public, alg_rsa_pss, sig, BadInput)

\* Keys and signatures of these have the size of their variant.
slh_dsa_sign_impl(v, private) ==
  Require(RawSize(private) = private_key_size[v],
          Sign(make_slh_dsa_sign_attrs(v), private, alg_slh_dsa(v)))
slh_dsa_verify_impl(v, public, sig) ==
  Require(RawSize(public) = public_key_size[v] /\ artefact_size[sig.how[2]] = artefact_size[v],
          Check(make_slh_dsa_verify_attrs(v), public, alg_slh_dsa(v), sig, {"err_invalid_sig"}))

ml_dsa_sign_impl(v, private) ==
  Require(RawSize(private) = private_key_size[v],
          Sign(make_ml_dsa_sign_attrs(v), private, alg_ml_dsa(v)))
ml_dsa_verify_impl(v, public, sig) ==
  Require(RawSize(public) = public_key_size[v] /\ artefact_size[sig.how[2]] = artefact_size[v],
          Check(make_ml_dsa_verify_attrs(v), public, alg_ml_dsa(v), sig, {"err_invalid_sig"}))

ecdh_compute_shared_secret_impl(c, private, peer) ==
  WithKey(make_ecdh_agree_attrs(c), private,
          LAMBDA k : OrError(raw_key_agreement(alg_ecdh, k, peer), "KeyAgreementFailed"))

rsa_oaep_encrypt_impl(bits, public) ==
  WithKey(make_rsa_oaep_encrypt_attrs(bits), public,
          LAMBDA k : OrError(asymmetric_encrypt(k, alg_rsa_oaep), "EncryptionFailed"))
rsa_oaep_decrypt_impl(bits, private, ct) ==
  WithKey(make_rsa_oaep_decrypt_attrs(bits), private,
          LAMBDA k : OrError(asymmetric_decrypt(k, alg_rsa_oaep, ct), "DecryptionFailed"))

ml_kem_encapsulate_impl(v, public) ==
  Require(RawSize(public) = public_key_size[v],
          WithKey(make_ml_kem_encap_attrs(v), public,
                  LAMBDA k : OrError(kem_encapsulate(k, alg_ml_kem(v)), "EncapsulationFailed")))
ml_kem_decapsulate_impl(v, private, ct) ==
  Require(RawSize(private) = private_key_size[v] /\ artefact_size[ct.how[2]] = artefact_size[v],
          WithKey(make_ml_kem_decap_attrs(v), private,
                  LAMBDA k : OrError(kem_decapsulate(k, alg_ml_kem(v), ct), "DecapsulationFailed")))

-----------------------------------------------------------------------------
(* The functions of a scheme.                                                *)

\* Keys a party hands out: a pair, or a secret as its private half.
Keys(scheme, par, of) ==
  CASE scheme \in Symmetric ->
         LET secret == random_bytes_impl(par, of)
         IN IF IsOk(secret) THEN Value([private |-> secret.value, public |-> NoBytes]) ELSE secret
    [] scheme = "ecdsa" -> ecdsa_generate_key_impl(par, of)
    [] scheme = "ecdh" -> ecdh_generate_key_impl(par, of)
    [] scheme \in {"oaep", "pss"} -> generate_rsa_key_impl(par, of)
    [] scheme = "slh_dsa" -> slh_dsa_generate_key_impl(par, of)
    [] scheme = "ml_dsa" -> ml_dsa_generate_key_impl(par, of)
    [] scheme = "ml_kem" -> ml_kem_generate_key_impl(par, of)

\* What one party makes with its key; peer is the other's public key, for agreement.
Make(scheme, par, key, peer) ==
  CASE scheme = "hash" -> sha_impl(par)
    [] scheme = "hkdf" -> derive_key_impl(OutputLength[par], 2 * OutputLength[par])
    [] scheme = "expand" -> expand_key_impl(OutputLength[par])
    [] scheme = "hmac" -> hmac_generate_impl(par, key)
    [] scheme = "aead" /\ par = "AesGcm" -> aes256_gcm_encrypt_impl(key)
    [] scheme = "aead" /\ par = "ChaCha20Poly1305" -> chacha20_poly1305_encrypt_impl(key)
    [] scheme = "ecdsa" -> ecdsa_sign_impl(par, key)
    [] scheme = "ecdh" -> ecdh_compute_shared_secret_impl(par, key, peer)
    [] scheme = "oaep" -> rsa_oaep_encrypt_impl(par, key)
    [] scheme = "pss" -> rsa_pss_sign_impl(par, key)
    [] scheme = "slh_dsa" -> slh_dsa_sign_impl(par, key)
    [] scheme = "ml_dsa" -> ml_dsa_sign_impl(par, key)
    [] scheme = "ml_kem" -> ml_kem_encapsulate_impl(par, key)

\* What the other party finds: by verifying or opening the artefact, or by comparing
\* what it makes itself with what the first one has.
Same(r, theirs) == IF IsOk(r) THEN Status(IF r.value = theirs THEN "ok" ELSE "false") ELSE r

Take(scheme, par, key, peer, artefact) ==
  CASE scheme \in Unkeyed \cup {"ecdh"} -> Same(Make(scheme, par, key, peer), artefact)
    [] scheme = "hmac" -> hmac_verify_impl(par, key, artefact)
    [] scheme = "aead" /\ par = "AesGcm" -> aes256_gcm_decrypt_impl(key, artefact)
    [] scheme = "aead" /\ par = "ChaCha20Poly1305" -> chacha20_poly1305_decrypt_impl(key, artefact)
    [] scheme = "ecdsa" -> ecdsa_verify_impl(par, key, artefact)
    [] scheme = "oaep" -> rsa_oaep_decrypt_impl(par, key, artefact)
    [] scheme = "pss" -> rsa_pss_verify_impl(par, key, artefact)
    [] scheme = "slh_dsa" -> slh_dsa_verify_impl(par, key, artefact)
    [] scheme = "ml_dsa" -> ml_dsa_verify_impl(par, key, artefact)
    [] scheme = "ml_kem" ->
         Same(ml_kem_decapsulate_impl(par, key, artefact),
              Made(<<"shared", artefact.how[2]>>, artefact.of))
=============================================================================
