--------------------------- MODULE OpensslProvider ---------------------------
(***************************************************************************)
(* The dispatch of the OpenSSL provider over the EVP interface, which is   *)
(* external.  The attributes of a key say its type, its size and the       *)
(* algorithm it is for; the usage they also carry is never read.  Private  *)
(* scalars go in and out in the byte order of the host, little-endian on   *)
(* every target.                                                           *)
(***************************************************************************)
EXTENDS ProviderTerms, Sequences

CONSTANT Liboqs  \* whether the build has liboqs; this provider does not need it

Attrs(type, par, alg) == [type |-> type, par |-> par, alg |-> alg]
make_key_attrs == Attrs("None", "none", <<"none">>)

alg_sha(v) == <<"sha", v>>
alg_hmac(v) == <<"hmac", v>>
alg_ecdsa == <<"ecdsa">>
alg_ecdh == <<"ecdh">>
alg_aes_gcm == <<"AesGcm">>
alg_chacha20_poly1305 == <<"ChaCha20Poly1305">>
alg_rsa_oaep == <<"oaep">>
alg_rsa_pss == <<"pss">>
alg_slh_dsa(v) == <<"slh_dsa", v>>
alg_ml_dsa(v) == <<"ml_dsa", v>>
alg_ml_kem(v) == <<"ml_kem", v>>

make_hmac_generate_attrs(v, len) == Attrs("Hmac", v, alg_hmac(v))
make_hmac_verify_attrs(v, len) == Attrs("Hmac", v, alg_hmac(v))
make_ecdsa_generate_attrs(c) == Attrs("EcKeyPair", c, alg_ecdsa)
make_ecdsa_sign_attrs(c) == Attrs("EcKeyPair", c, alg_ecdsa)
make_ecdsa_verify_attrs(c) == Attrs("EcPublicKey", c, alg_ecdsa)
make_ecdh_generate_attrs(c) == Attrs("EcKeyPair", c, alg_ecdh)
make_ecdh_agree_attrs(c) == Attrs("EcKeyPair", c, alg_ecdh)
make_aes256_gcm_encrypt_attrs == Attrs("Aes256", "256", alg_aes_gcm)
make_aes256_gcm_decrypt_attrs == Attrs("Aes256", "256", alg_aes_gcm)
make_chacha20_poly1305_encrypt_attrs == Attrs("ChaCha20", "256", alg_chacha20_poly1305)
make_chacha20_poly1305_decrypt_attrs == Attrs("ChaCha20", "256", alg_chacha20_poly1305)
make_rsa_oaep_encrypt_attrs(bits) == Attrs("RsaPublicKey", bits, alg_rsa_oaep)
make_rsa_oaep_decrypt_attrs(bits) == Attrs("RsaKeyPair", bits, alg_rsa_oaep)
make_rsa_pss_sign_attrs(bits) == Attrs("RsaKeyPair", bits, alg_rsa_pss)
make_rsa_pss_verify_attrs(bits) == Attrs("RsaPublicKey", bits, alg_rsa_pss)
make_rsa_key_pair_attrs(bits) == Attrs("RsaKeyPair", bits, alg_rsa_oaep)
make_slh_dsa_sign_attrs(v) == Attrs("SlhDsaKeyPair", v, alg_slh_dsa(v))
make_slh_dsa_verify_attrs(v) == Attrs("SlhDsaPublicKey", v, alg_slh_dsa(v))
make_slh_dsa_generate_attrs(v) == Attrs("SlhDsaKeyPair", v, alg_slh_dsa(v))
make_ml_dsa_sign_attrs(v) == Attrs("MlDsaKeyPair", v, alg_ml_dsa(v))
make_ml_dsa_verify_attrs(v) == Attrs("MlDsaPublicKey", v, alg_ml_dsa(v))
make_ml_dsa_generate_attrs(v) == Attrs("MlDsaKeyPair", v, alg_ml_dsa(v))
make_ml_kem_generate_attrs(v) == Attrs("MlKemKeyPair", v, alg_ml_kem(v))
make_ml_kem_encap_attrs(v) == Attrs("MlKemPublicKey", v, alg_ml_kem(v))
make_ml_kem_decap_attrs(v) == Attrs("MlKemKeyPair", v, alg_ml_kem(v))

\* The names of OpenSSL's algorithms are found from the tags; a tag of another kind
\* has none.
digest_name == {alg_sha(v) : v \in Digests}
hmac_digest_name == {alg_hmac(v) : v \in Digests}
aead_cipher == {alg_aes_gcm, alg_chacha20_poly1305}
slh_dsa_name_from_alg == {alg_slh_dsa(v) : v \in Pars.slh_dsa}
ml_dsa_name_from_alg == {alg_ml_dsa(v) : v \in Pars.ml_dsa}
ml_kem_name_from_alg == {alg_ml_kem(v) : v \in Pars.ml_kem}

-----------------------------------------------------------------------------
(* Keys.                                                                     *)

RawTypes == {"Aes256", "ChaCha20", "Hmac", "Derive"}
Raw(k) == k.attrs.type \in RawTypes

\* Deviation: the scalar is read big-endian, as it comes.
AsItComes(bytes) == [bytes EXCEPT !.form = "host"]

\* A big-endian scalar read in the order of the host is another scalar.
Turned(of) == of \o " turned"
HostScalar(bytes) ==
  IF bytes.form = "big-endian" THEN [bytes EXCEPT !.of = Turned(@), !.form = "host"] ELSE bytes

\* The raw keys of the post-quantum algorithms must have the length of their variant.
RawKey(attrs, names, half, bytes) ==
  When(/\ attrs.alg \in names /\ bytes.form = "raw"
       /\ RawSize(bytes) = RawSize(Bytes(half, attrs.par, "any", "raw")),
       Value(Keep(attrs, [bytes EXCEPT !.half = half])))

\* The size of an RSA key is that of the key; what was claimed is not compared.
import_key(attrs, bytes) ==
  CASE attrs.type \in RawTypes -> Value(Keep(attrs, bytes))
    [] attrs.type = "EcKeyPair" ->
         When(bytes.half = "private" /\ bytes.par = attrs.par, Value(Keep(attrs, HostScalar(bytes))))
    [] attrs.type = "EcPublicKey" ->
         When(bytes.half = "public" /\ bytes.par = attrs.par, Value(Keep(attrs, bytes)))
    [] attrs.type = "RsaKeyPair" ->
         When(bytes.half = "private" /\ bytes.form = "pkcs1", Value(Keep(attrs, bytes)))
    [] attrs.type = "RsaPublicKey" ->
         When(bytes.half = "public" /\ bytes.form = "pkcs1", Value(Keep(attrs, bytes)))
    [] attrs.type = "SlhDsaKeyPair" -> RawKey(attrs, slh_dsa_name_from_alg, "private", bytes)
    [] attrs.type = "SlhDsaPublicKey" -> RawKey(attrs, slh_dsa_name_from_alg, "public", bytes)
    [] attrs.type = "MlDsaKeyPair" -> RawKey(attrs, ml_dsa_name_from_alg, "private", bytes)
    [] attrs.type = "MlDsaPublicKey" -> RawKey(attrs, ml_dsa_name_from_alg, "public", bytes)
    [] attrs.type = "MlKemKeyPair" -> RawKey(attrs, ml_kem_name_from_alg, "private", bytes)
    [] attrs.type = "MlKemPublicKey" -> RawKey(attrs, ml_kem_name_from_alg, "public", bytes)
    [] OTHER -> Refused

PairForm ==
  [EcKeyPair |-> "host", RsaKeyPair |-> "pkcs1", SlhDsaKeyPair |-> "raw", MlDsaKeyPair |-> "raw",
   MlKemKeyPair |-> "raw"]

\* Only pairs can be generated.
generate_key(attrs, of) ==
  When(attrs.type \in DOMAIN PairForm,
       Value(Stored(attrs, Bytes("private", attrs.par, of, PairForm[attrs.type]),
                    Bytes("public", attrs.par, of,
                          IF attrs.type = "EcKeyPair" THEN "point" ELSE PairForm[attrs.type]))))

\* Secrets cannot be exported.  An EC scalar is padded to the whole buffer, in the
\* byte order of the host.
export_key_raw(k) == When(~Raw(k) /\ k.private # NoBytes, Value(k.private))
export_key(k) == export_key_raw(k)
export_public_key_raw(k) == When(~Raw(k) /\ k.public # NoBytes, Value(k.public))
export_public_key(k) == export_public_key_raw(k)

generate_random(par, of) == Value(Bytes("secret", par, of, "raw"))

-----------------------------------------------------------------------------
(* Digests, derivation and symmetric operations.                             *)

hash_compute(alg) == When(alg \in digest_name, Value(Made(alg, "message")))

hkdf_derive(ikm_len, out_len, expand_only) ==
  When(out_len \in 1 .. MaxOutput, Value(Made(<<"hkdf", expand_only, out_len>>, "message")))

mac_compute_raw(k, alg) == When(alg \in hmac_digest_name /\ Raw(k), Value(Made(alg, k.private.of)))
mac_compute(k, alg) == mac_compute_raw(k, alg)

mac_verify(k, alg, mac) ==
  LET computed == mac_compute(k, alg)
  IN IF IsOk(computed) THEN Compare(mac, computed.value) ELSE Refused

aead_encrypt_raw(k, alg) == When(alg \in aead_cipher /\ Raw(k), Value(Made(alg, k.private.of)))
aead_encrypt(k, alg) == aead_encrypt_raw(k, alg)

aead_decrypt_raw(k, alg, ct) ==
  When(alg \in aead_cipher /\ Raw(k), Compare(ct, Made(alg, k.private.of)))
aead_decrypt(k, alg, ct) == aead_decrypt_raw(k, alg, ct)

-----------------------------------------------------------------------------
(* Signatures, agreement, encryption and encapsulation.                      *)

PqcSignatures == slh_dsa_name_from_alg \cup ml_dsa_name_from_alg
Rsa == {"RsaKeyPair", "RsaPublicKey"}
Ec == {"EcKeyPair", "EcPublicKey"}

\* What a signature by a key's algorithm is: always over SHA-384 and in DER for
\* ECDSA; the size of an RSA key is its own.
SignatureOf(alg, bytes) ==
  Made(CASE alg = alg_ecdsa -> <<"der", "Sha384", bytes.par>>
         [] alg = alg_rsa_pss -> <<"pss", bytes.par>>
         [] OTHER -> alg,
       bytes.of)

\* Only post-quantum keys are held to the algorithm they were stored for; EVP
\* refuses a padding that is not for the type of the key.
Suits(k, alg) ==
  CASE alg = alg_ecdsa -> k.attrs.type \in Ec
    [] alg = alg_rsa_pss -> k.attrs.type \in Rsa
    [] alg \in PqcSignatures -> k.attrs.alg = alg
    [] OTHER -> FALSE

sign_message_raw(k, alg) ==
  When(Suits(k, alg) /\ k.private # NoBytes, Value(SignatureOf(alg, k.private)))
sign_message(k, alg) == sign_message_raw(k, alg)

\* Something that is not in DER is no signature at all.
verify_message(k, alg, sig) ==
  When(/\ Suits(k, alg) /\ k.public # NoBytes
       /\ alg = alg_ecdsa => sig.how[1] = "der",
       Compare(sig, SignatureOf(alg, k.public)))

\* The peer's point is read on the curve of the key.
raw_key_agreement_raw(alg, k, peer) ==
  When(/\ alg = alg_ecdh /\ k.attrs.type = "EcKeyPair"
       /\ peer.half = "public" /\ peer.par = k.private.par,
       Value(Agreed(k.private, peer)))
raw_key_agreement(alg, k, peer) == raw_key_agreement_raw(alg, k, peer)

asymmetric_encrypt_raw(k, alg) ==
  When(alg = alg_rsa_oaep /\ k.attrs.type \in Rsa /\ k.public # NoBytes,
       Value(Made(<<"oaep", k.public.par>>, k.public.of)))
asymmetric_encrypt(k, alg) == asymmetric_encrypt_raw(k, alg)
asymmetric_decrypt_raw(k, alg, ct) ==
  When(/\ alg = alg_rsa_oaep /\ k.attrs.type = "RsaKeyPair"
       /\ ct = Made(<<"oaep", k.private.par>>, k.private.of), Status("ok"))
asymmetric_decrypt(k, alg, ct) == asymmetric_decrypt_raw(k, alg, ct)

IsMlKem(k, alg) == alg \in ml_kem_name_from_alg /\ k.attrs.alg = alg

kem_encapsulate(k, alg) ==
  When(IsMlKem(k, alg) /\ k.public # NoBytes, Value(Made(alg, k.public.of)))
kem_decapsulate_raw(k, alg, ct) ==
  When(IsMlKem(k, alg) /\ k.private # NoBytes, Value(Shared(ct, k.attrs.par, k.private.of)))
kem_decapsulate(k, alg, ct) == kem_decapsulate_raw(k, alg, ct)

\* The library over this provider.
Lib == INSTANCE LibraryFunctions
=============================================================================
