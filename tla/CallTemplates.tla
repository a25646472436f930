---------------------------- MODULE CallTemplates ----------------------------
(***************************************************************************)
(* The functions of the library that work through a key handle, each as    *)
(* the provider calls it makes and the error it answers when one fails:    *)
(*   family    the provider's key store that holds its key                 *)
(*   acquire   "import" of the caller's key or "generate" of a fresh one   *)
(*   kind      what the store keeps under the id                           *)
(*   checks    the errors it can answer before it has a key                *)
(*   ops       the provider calls on the key, in order                     *)
(*   lenient   the statuses of a verification it answers false for         *)
(***************************************************************************)
EXTENDS Integers, Sequences

AcquireError == [import |-> "KeyImportFailed", generate |-> "KeyGenerationFailed"]

\* A function that acquires a key, makes one provider call on it, and answers
\* its output.
Uses(family, kind, checks, op, error) ==
  [family |-> family, acquire |-> "import", kind |-> kind, checks |-> checks \cup {"InitFailed"},
   ops |-> <<[op |-> op, error |-> error]>>, lenient |-> {}]

Verifies(family, kind, checks, op, lenient) ==
  [Uses(family, kind, checks, op, "VerificationFailed") EXCEPT !.lenient = lenient]

\* A function that generates a key and exports both halves of it.
Generates(family, kind) ==
  [family |-> family, acquire |-> "generate", kind |-> kind, checks |-> {"InitFailed"},
   ops |-> <<[op |-> "export_key", error |-> "KeyExportFailed"],
             [op |-> "export_public_key", error |-> "KeyExportFailed"]>>, lenient |-> {}]

WrongSize == {"InvalidArgument"}
NoRandom == {"RandomGenerationFailed"}
BadSignature == {"err_invalid_sig"}
BadInput == {"err_invalid_sig", "err_invalid_arg"}

hmac_generate == Uses("sym", "Secret", WrongSize, "mac_compute", "MacGenerationFailed")
hmac_verify == Verifies("sym", "Secret", WrongSize, "mac_verify", BadSignature)
aes256_gcm_encrypt == Uses("sym", "Secret", NoRandom, "aead_encrypt", "EncryptionFailed")
aes256_gcm_decrypt == Uses("sym", "Secret", {}, "aead_decrypt", "DecryptionFailed")
chacha20_poly1305_encrypt == Uses("sym", "Secret", NoRandom, "aead_encrypt", "EncryptionFailed")
chacha20_poly1305_decrypt == Uses("sym", "Secret", {}, "aead_decrypt", "DecryptionFailed")

ecdh_generate_key == Generates("ec", "Private")
ecdh_compute_shared_secret ==
  Uses("ec", "Private", {}, "raw_key_agreement", "KeyAgreementFailed")
ecdsa_generate_key == Generates("ec", "Private")
ecdsa_sign == Uses("ec", "Private", {}, "sign_message", "SigningFailed")
ecdsa_verify == Verifies("ec", "Public", {}, "verify_message", BadInput)

generate_rsa_key == Generates("rsa", "Private")
rsa_oaep_encrypt == Uses("rsa", "Public", {}, "asymmetric_encrypt", "EncryptionFailed")
rsa_oaep_decrypt == Uses("rsa", "Private", {}, "asymmetric_decrypt", "DecryptionFailed")
rsa_pss_sign == Uses("rsa", "Private", {}, "sign_message", "SigningFailed")
rsa_pss_verify == Verifies("rsa", "Public", {}, "verify_message", BadInput)

ml_dsa_generate_key == Generates("pqc", "Pair")
ml_dsa_sign == Uses("pqc", "Private", WrongSize, "sign_message", "SigningFailed")
ml_dsa_verify == Verifies("pqc", "Public", WrongSize, "verify_message", BadSignature)
ml_kem_generate_key == Generates("pqc", "Pair")
ml_kem_encapsulate == Uses("pqc", "Public", WrongSize, "kem_encapsulate", "EncapsulationFailed")
ml_kem_decapsulate == Uses("pqc", "Private", WrongSize, "kem_decapsulate", "DecapsulationFailed")

Library ==
  [hmac_generate |-> hmac_generate, hmac_verify |-> hmac_verify,
   aes256_gcm_encrypt |-> aes256_gcm_encrypt, aes256_gcm_decrypt |-> aes256_gcm_decrypt,
   chacha20_poly1305_encrypt |-> chacha20_poly1305_encrypt,
   chacha20_poly1305_decrypt |-> chacha20_poly1305_decrypt,
   ecdh_generate_key |-> ecdh_generate_key,
   ecdh_compute_shared_secret |-> ecdh_compute_shared_secret,
   ecdsa_generate_key |-> ecdsa_generate_key,
   ecdsa_sign |-> ecdsa_sign, ecdsa_verify |-> ecdsa_verify,
   generate_rsa_key |-> generate_rsa_key,
   rsa_oaep_encrypt |-> rsa_oaep_encrypt, rsa_oaep_decrypt |-> rsa_oaep_decrypt,
   rsa_pss_sign |-> rsa_pss_sign, rsa_pss_verify |-> rsa_pss_verify,
   ml_dsa_generate_key |-> ml_dsa_generate_key,
   ml_dsa_sign |-> ml_dsa_sign, ml_dsa_verify |-> ml_dsa_verify,
   ml_kem_generate_key |-> ml_kem_generate_key,
   ml_kem_encapsulate |-> ml_kem_encapsulate, ml_kem_decapsulate |-> ml_kem_decapsulate]

\* The kinds of key a provider call accepts, by the store it looks in.
Accepts(family, op) ==
  CASE family = "sym" -> {"Secret"}
    [] op \in {"verify_message", "asymmetric_encrypt", "kem_encapsulate"} ->
         IF family = "pqc" THEN {"Public", "Pair"} ELSE {"Public"}
    [] op = "export_public_key" ->
         CASE family = "ec" -> {"Private", "Public"}
           [] family = "rsa" -> {"Private"}
           [] OTHER -> {"Public", "Pair"}
    [] OTHER -> IF family = "pqc" THEN {"Private", "Pair"} ELSE {"Private"}

-----------------------------------------------------------------------------
(* A request: the function called, whether the provider takes the key given  *)
(* (or can generate one), and whether the signature, tag, MAC or padding     *)
(* handed in is genuine.                                                     *)

Family == {"sym", "ec", "rsa", "pqc"}

Requests(Fn) == [fn : Fn, fit : BOOLEAN, genuine : BOOLEAN]
NoRequest == [fn |-> "none", fit |-> FALSE, genuine |-> FALSE]

Template(r) == Library[r.fn]
Ops(r) == Template(r).ops

\* The provider calls that succeed only on genuine input.
Judges == {"mac_verify", "verify_message", "aead_decrypt", "asymmetric_decrypt"}
Checks(r) == Ops(r)[1].op \in Judges

\* The provider calls declared noexcept although they allocate.
NoExcept == {"kem_encapsulate", "kem_decapsulate"}
MayTerminate(r) == Ops(r)[1].op \in NoExcept

Errors(r) == {Ops(r)[k].error : k \in 1 .. Len(Ops(r))}
Success(r) == IF Template(r).lenient # {} THEN "true" ELSE "output"
=============================================================================
