---------------------------- MODULE ProviderTerms ----------------------------
(***************************************************************************)
(* What callers and providers hand each other: key bytes, told apart by    *)
(* what they are of and how they are encoded; keys as a provider keeps     *)
(* them; and the results of operations on them, told apart by how exactly  *)
(* they were computed and by which key.                                    *)
(***************************************************************************)
EXTENDS Integers, FiniteSets, TLC

Digests == {"Sha256", "Sha384", "Sha512", "Sha3_256", "Sha3_384", "Sha3_512"}
Curves == {"P256", "P384", "P521"}

SlhDsaVariant == {"Sha2_128s", "Sha2_128f", "Sha2_192s", "Sha2_192f", "Sha2_256s", "Sha2_256f"}
Outputs == {"short", "long", "longest", "too long"}

\* The schemes and their parameter sets.
Pars ==
  [hash |-> Digests, hkdf |-> Outputs, expand |-> Outputs,
   hmac |-> Digests, aead |-> {"AesGcm", "ChaCha20Poly1305"},
   ecdsa |-> Curves, ecdh |-> Curves, oaep |-> {"3072", "4096"}, pss |-> {"3072", "4096"},
   slh_dsa |-> SlhDsaVariant,
   ml_dsa |-> {"Dsa44", "Dsa65", "Dsa87"}, ml_kem |-> {"Kem512", "Kem768", "Kem1024"}]

Scheme == DOMAIN Pars
Unkeyed == {"hash", "hkdf", "expand"}
Symmetric == {"hmac", "aead"}
Paired == Scheme \ (Unkeyed \cup Symmetric)
Lattice == {"ml_dsa", "ml_kem"}

DigestSize ==
  [Sha256 |-> 32, Sha384 |-> 48, Sha512 |-> 64, Sha3_256 |-> 32, Sha3_384 |-> 48, Sha3_512 |-> 64]

private_key_size ==
  [Sha2_128s |-> 64, Sha2_128f |-> 64, Sha2_192s |-> 96, Sha2_192f |-> 96, Sha2_256s |-> 128, Sha2_256f |-> 128,
   Dsa44 |-> 2560, Dsa65 |-> 4032, Dsa87 |-> 4896, Kem512 |-> 1632, Kem768 |-> 2400, Kem1024 |-> 3168]
public_key_size ==
  [Sha2_128s |-> 32, Sha2_128f |-> 32, Sha2_192s |-> 48, Sha2_192f |-> 48, Sha2_256s |-> 64, Sha2_256f |-> 64,
   Dsa44 |-> 1312, Dsa65 |-> 1952, Dsa87 |-> 2592, Kem512 |-> 800, Kem768 |-> 1184, Kem1024 |-> 1568]
\* Of a signature or of a ciphertext.
artefact_size ==
  [Sha2_128s |-> 7856, Sha2_128f |-> 17088, Sha2_192s |-> 16224, Sha2_192f |-> 35664, Sha2_256s |-> 29792, Sha2_256f |-> 49856,
   Dsa44 |-> 2420, Dsa65 |-> 3309, Dsa87 |-> 4627, Kem512 |-> 768, Kem768 |-> 1088, Kem1024 |-> 1568]

\* Lengths a derivation asks for: "long" is the first that needs more than 8191
\* bytes of key, twice its own length; "longest" is 255 blocks of SHA-384.
MaxOutput == 255 * 48
OutputLength ==
  [short |-> 64, long |-> 4096, longest |-> MaxOutput] @@ ("too long" :> MaxOutput + 1)

\* Key bytes: half is "secret", "private" or "public"; of is the key or pair they
\* belong to; form is their encoding.
Bytes(half, par, of, form) == [half |-> half, par |-> par, of |-> of, form |-> form]
NoBytes == Bytes("none", "none", "none", "none")

\* The size of a key of a post-quantum scheme, which is in no encoding.
RawSize(bytes) == IF bytes.half = "private" THEN private_key_size[bytes.par] ELSE public_key_size[bytes.par]

\* A key in a provider: the attributes it was acquired with, and its halves; a
\* secret is in private.
Stored(attrs, private, public) == [attrs |-> attrs, private |-> private, public |-> public]
Keep(attrs, bytes) ==
  IF bytes.half = "public" THEN Stored(attrs, NoBytes, bytes) ELSE Stored(attrs, bytes, NoBytes)

Value(v) == [status |-> "ok", value |-> v]
Status(s) == [status |-> s, value |-> "none"]
Refused == Status("err_invalid_arg")
IsOk(r) == r.status = "ok"
When(condition, r) == IF condition THEN r ELSE Refused

\* What an operation makes: how says by which computation, exactly; of by which
\* key; intact is FALSE once it, or the message it is for, has been altered.
Made(how, of) == [how |-> how, of |-> of, intact |-> TRUE]
Altered(artefact) == [artefact EXCEPT !.intact = FALSE]

\* A recomputation or a check of a signature or tag, as a status.
Compare(theirs, mine) == Status(IF theirs = mine THEN "ok" ELSE "err_invalid_sig")

\* The secret two scalars agree on: the same whichever is the private one.
Agreed(private, public) == Made(<<"ecdh", private.par>>, {private.of, public.of})

\* Decapsulation never fails: what was not encapsulated for the key gives a secret
\* nobody else has.
Shared(ciphertext, variant, of) ==
  Made(<<"shared", variant>>, IF ciphertext = Made(<<"ml_kem", variant>>, of) THEN of ELSE "nobody")
=============================================================================
