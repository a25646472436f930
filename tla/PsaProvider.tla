----------------------------- MODULE PsaProvider -----------------------------
(***************************************************************************)
(* The dispatch of the PSA provider: most operations forward to the PSA    *)
(* core, which is external and holds every key to the type, the size, the  *)
(* usage and the algorithm in its attributes; the lattice schemes go to    *)
(* liboqs over a key store of the provider's own.                          *)
(***************************************************************************)
EXTENDS ProviderTerms

CONSTANT Liboqs  \* whether the build has the lattice schemes

Attrs(type, par, usage, alg) == [type |-> type, par |-> par, usage |-> usage, alg |-> alg]
make_key_attrs == Attrs("NONE", "none", {}, <<"none">>)

alg_sha(v) == <<"sha", v>>
alg_hmac(v) == <<"hmac", v>>
alg_ecdsa == <<"ecdsa", "Sha384">>
alg_ecdh == <<"ecdh">>
alg_aes_gcm == <<"AesGcm">>
alg_chacha20_poly1305 == <<"ChaCha20Poly1305">>
alg_rsa_oaep == <<"oaep", "Sha384">>
alg_rsa_pss == <<"pss", "Sha384">>
alg_slh_dsa(v) == <<"none">>
alg_ml_dsa(v) == <<"ml_dsa", v>>
alg_ml_kem(v) == <<"ml_kem", v>>

make_hmac_generate_attrs(v, len) == Attrs("HMAC", v, {"SIGN_MESSAGE"}, alg_hmac(v))
make_hmac_verify_attrs(v, len) == Attrs("HMAC", v, {"VERIFY_MESSAGE"}, alg_hmac(v))
make_ecdsa_generate_attrs(c) ==
  Attrs("ECC_KEY_PAIR", c, {"SIGN_MESSAGE", "VERIFY_MESSAGE", "EXPORT"}, alg_ecdsa)
make_ecdsa_sign_attrs(c) == Attrs("ECC_KEY_PAIR", c, {"SIGN_MESSAGE"}, alg_ecdsa)
make_ecdsa_verify_attrs(c) == Attrs("ECC_PUBLIC_KEY", c, {"VERIFY_MESSAGE"}, alg_ecdsa)
make_ecdh_generate_attrs(c) == Attrs("ECC_KEY_PAIR", c, {"DERIVE", "EXPORT"}, alg_ecdh)
make_ecdh_agree_attrs(c) == Attrs("ECC_KEY_PAIR", c, {"DERIVE"}, alg_ecdh)
make_aes256_gcm_encrypt_attrs == Attrs("AES", "256", {"ENCRYPT"}, alg_aes_gcm)
make_aes256_gcm_decrypt_attrs == Attrs("AES", "256", {"DECRYPT"}, alg_aes_gcm)
make_chacha20_poly1305_encrypt_attrs ==
  Attrs("CHACHA20", "256", {"ENCRYPT"}, alg_chacha20_poly1305)
make_chacha20_poly1305_decrypt_attrs ==
  Attrs("CHACHA20", "256", {"DECRYPT"}, alg_chacha20_poly1305)
make_rsa_oaep_encrypt_attrs(bits) == Attrs("RSA_PUBLIC_KEY", bits, {"ENCRYPT"}, alg_rsa_oaep)
make_rsa_oaep_decrypt_attrs(bits) == Attrs("RSA_KEY_PAIR", bits, {"DECRYPT"}, alg_rsa_oaep)
make_rsa_pss_sign_attrs(bits) == Attrs("RSA_KEY_PAIR", bits, {"SIGN_MESSAGE"}, alg_rsa_pss)
make_rsa_pss_verify_attrs(bits) == Attrs("RSA_PUBLIC_KEY", bits, {"VERIFY_MESSAGE"}, alg_rsa_pss)
make_rsa_key_pair_attrs(bits) ==
  Attrs("RSA_KEY_PAIR", bits,
        {"ENCRYPT", "DECRYPT", "SIGN_MESSAGE", "VERIFY_MESSAGE", "EXPORT"}, alg_rsa_oaep)
make_slh_dsa_sign_attrs(v) == make_key_attrs
make_slh_dsa_verify_attrs(v) == make_key_attrs
make_slh_dsa_generate_attrs(v) == make_key_attrs

\* Without liboqs the attributes are empty, and the PSA core knows no such type.
lattice(type, v) == IF Liboqs THEN Attrs(type, v, {}, <<"none">>) ELSE make_key_attrs
make_ml_dsa_sign_attrs(v) == lattice("MlDsaPrivate", v)
make_ml_dsa_verify_attrs(v) == lattice("MlDsaPublic", v)
make_ml_dsa_generate_attrs(v) == lattice("MlDsaPrivate", v)
make_ml_kem_generate_attrs(v) == lattice("MlKemPrivate", v)
make_ml_kem_encap_attrs(v) == lattice("MlKemPublic", v)
make_ml_kem_decap_attrs(v) == lattice("MlKemPrivate", v)

-----------------------------------------------------------------------------
(* What the PSA core does with keys and their attributes.                    *)

Symmetrics == {"HMAC", "AES", "CHACHA20"}
PrivateForm == [ECC_KEY_PAIR |-> "big-endian", RSA_KEY_PAIR |-> "pkcs1"]
PublicForm == [ECC_KEY_PAIR |-> "point", RSA_KEY_PAIR |-> "pkcs1",
               ECC_PUBLIC_KEY |-> "point", RSA_PUBLIC_KEY |-> "pkcs1"]

psa_import_key(attrs, bytes) ==
  When(\/ attrs.type \in Symmetrics
       \/ /\ attrs.type \in DOMAIN PublicForm /\ bytes.par = attrs.par
          /\ IF attrs.type \in DOMAIN PrivateForm
             THEN bytes.half = "private" /\ bytes.form = PrivateForm[attrs.type]
             ELSE bytes.half = "public" /\ bytes.form = PublicForm[attrs.type],
       Value(Keep(attrs, bytes)))

psa_generate_key(attrs, of) ==
  When(attrs.type \in DOMAIN PrivateForm,
       Value(Keep(attrs, Bytes("private", attrs.par, of, PrivateForm[attrs.type]))))

psa_export_public_key(k) ==
  When(k.attrs.type \in DOMAIN PublicForm,
       Value(IF k.private = NoBytes THEN k.public
             ELSE Bytes("public", k.attrs.par, k.private.of, PublicForm[k.attrs.type])))

\* Every use of a key must be one its attributes name.
Permitted(k, usage, alg, r) ==
  IF usage \in k.attrs.usage /\ alg = k.attrs.alg THEN r ELSE Status("err_not_permitted")

-----------------------------------------------------------------------------
(* Keys.                                                                     *)

IsPqc(type) == type \in {"MlDsaPrivate", "MlDsaPublic", "MlKemPrivate", "MlKemPublic"}
PrivateTypes == {"MlDsaPrivate", "MlKemPrivate"}

import_key(attrs, bytes) ==
  IF IsPqc(attrs.type)
  THEN When(/\ bytes.half = IF attrs.type \in PrivateTypes THEN "private" ELSE "public"
            /\ bytes.par = attrs.par, Value(Keep(attrs, bytes)))
  ELSE psa_import_key(attrs, bytes)

generate_key(attrs, of) ==
  IF IsPqc(attrs.type)
  THEN When(attrs.type \in PrivateTypes,
            Value(Stored(attrs, Bytes("private", attrs.par, of, "raw"),
                                Bytes("public", attrs.par, of, "raw"))))
  ELSE psa_generate_key(attrs, of)

export_key(k) ==
  CASE IsPqc(k.attrs.type) -> When(k.private # NoBytes, Value(k.private))
    [] "EXPORT" \in k.attrs.usage -> Value(k.private)
    [] OTHER -> Status("err_not_permitted")

export_public_key(k) ==
  IF IsPqc(k.attrs.type) THEN When(k.public # NoBytes, Value(k.public))
  ELSE psa_export_public_key(k)

generate_random(par, of) == Value(Bytes("secret", par, of, "raw"))

-----------------------------------------------------------------------------
(* Digests, derivation and symmetric operations.                             *)

hash_compute(alg) == When(alg \in {alg_sha(v) : v \in Digests}, Value(Made(alg, "message")))

\* The input is imported as a key, and the PSA core takes none of more bytes than it
\* can count the bits of.
PsaMaxKeyBytes == 8191
hkdf_derive(ikm_len, out_len, expand_only) ==
  IF ikm_len <= PsaMaxKeyBytes /\ out_len \in 1 .. MaxOutput
  THEN Value(Made(<<"hkdf", expand_only, out_len>>, "message"))
  ELSE Status("err_generic")

mac_compute(k, alg) == Permitted(k, "SIGN_MESSAGE", alg, Value(Made(alg, k.private.of)))
mac_verify(k, alg, mac) ==
  Permitted(k, "VERIFY_MESSAGE", alg, Compare(mac, Made(alg, k.private.of)))

aead_encrypt(k, alg) == Permitted(k, "ENCRYPT", alg, Value(Made(alg, k.private.of)))
aead_decrypt(k, alg, ct) == Permitted(k, "DECRYPT", alg, Compare(ct, Made(alg, k.private.of)))

-----------------------------------------------------------------------------
(* Signatures, agreement, encryption and encapsulation.                      *)

\* ECDSA signatures are two plain scalars, over SHA-384 whatever the curve.
SignatureOf(alg, bytes) ==
  Made(IF alg = alg_ecdsa THEN <<"plain", "Sha384", bytes.par>> ELSE <<"pss", bytes.par>>, bytes.of)

IsMlDsa(alg) == Liboqs /\ alg \in {alg_ml_dsa(v) : v \in Pars.ml_dsa}

sign_message(k, alg) ==
  IF IsMlDsa(alg)
  THEN When(k.attrs.type = "MlDsaPrivate" /\ alg = alg_ml_dsa(k.attrs.par),
            Value(Made(alg, k.private.of)))
  ELSE Permitted(k, "SIGN_MESSAGE", alg, Value(SignatureOf(alg, k.private)))

verify_message(k, alg, sig) ==
  IF IsMlDsa(alg)
  THEN When(IsPqc(k.attrs.type) /\ k.public # NoBytes /\ alg = alg_ml_dsa(k.attrs.par),
            Compare(sig, Made(alg, k.public.of)))
  ELSE Permitted(k, "VERIFY_MESSAGE", alg, Compare(sig, SignatureOf(alg, k.public)))

raw_key_agreement(alg, k, peer) ==
  Permitted(k, "DERIVE", alg,
            When(peer.half = "public" /\ peer.par = k.private.par /\ peer.form = "point",
                 Value(Agreed(k.private, peer))))

asymmetric_encrypt(k, alg) ==
  Permitted(k, "ENCRYPT", alg, Value(Made(<<"oaep", k.public.par>>, k.public.of)))
asymmetric_decrypt(k, alg, ct) ==
  Permitted(k, "DECRYPT", alg,
            When(ct = Made(<<"oaep", k.private.par>>, k.private.of), Status("ok")))

IsMlKem(k, alg) ==
  Liboqs /\ IsPqc(k.attrs.type) /\ alg \in {alg_ml_kem(v) : v \in Pars.ml_kem}
         /\ alg = alg_ml_kem(k.attrs.par)

kem_encapsulate(k, alg) ==
  When(IsMlKem(k, alg) /\ k.public # NoBytes, Value(Made(alg, k.public.of)))
kem_decapsulate(k, alg, ct) ==
  When(IsMlKem(k, alg) /\ k.private # NoBytes, Value(Shared(ct, k.attrs.par, k.private.of)))

\* The library over this provider.
Lib == INSTANCE LibraryFunctions
=============================================================================
