------------------------------- MODULE Exchange -------------------------------
(***************************************************************************)
(* Three parties that share keys and messages and nothing else, each with  *)
(* a build of the library over a provider of its own: one makes the keys,  *)
(* one signs, encrypts or derives, one checks.  What goes from one to the  *)
(* other may be altered or mixed up on the way.                            *)
(***************************************************************************)
EXTENDS ProviderTerms

VARIABLES
  deal,      \* the scheme, its parameter set, the three providers, and whether the builds
             \* have liboqs and, on x86, SHA-NI
  stage,     \* what comes next: "keys", "make", "take" or "done"
  keys,      \* the two pairs made, A and B; of a secret, its private half
  artefact,  \* what the second party made
  harm,      \* what happened to it, or to the key and the parameters, on the way
  verdict    \* how it ended: "ok", "false", or the error of the one that failed

vars == <<deal, stage, keys, artefact, harm, verdict>>

Arm == INSTANCE ArmProvider WITH Liboqs <- deal.liboqs
Ia == INSTANCE IaProvider WITH Liboqs <- deal.liboqs, ShaNi <- deal.sha_ni
Psa == INSTANCE PsaProvider WITH Liboqs <- deal.liboqs
Openssl == INSTANCE OpensslProvider WITH Liboqs <- deal.liboqs

Providers == {"arm", "ia", "psa", "openssl"}
Harms == {"none", "altered", "key", "half", "par"}
NoArtefact == Made(<<"nothing">>, "none")

\* The library functions of a party.
Keys(p, s, par, of) ==
  CASE p = "arm" -> Arm!Lib!Keys(s, par, of) [] p = "ia" -> Ia!Lib!Keys(s, par, of)
    [] p = "psa" -> Psa!Lib!Keys(s, par, of) [] p = "openssl" -> Openssl!Lib!Keys(s, par, of)
Make(p, s, par, key, peer) ==
  CASE p = "arm" -> Arm!Lib!Make(s, par, key, peer) [] p = "ia" -> Ia!Lib!Make(s, par, key, peer)
    [] p = "psa" -> Psa!Lib!Make(s, par, key, peer) [] p = "openssl" -> Openssl!Lib!Make(s, par, key, peer)
Take(p, s, par, key, peer, a) ==
  CASE p = "arm" -> Arm!Lib!Take(s, par, key, peer, a) [] p = "ia" -> Ia!Lib!Take(s, par, key, peer, a)
    [] p = "psa" -> Psa!Lib!Take(s, par, key, peer, a) [] p = "openssl" -> Openssl!Lib!Take(s, par, key, peer, a)

\* Without keys nobody makes them, only the lattice schemes need liboqs, and only where
\* there may be a SHA-256 does SHA-NI matter.
Deals ==
  UNION {[scheme : {s}, par : Pars[s], maker : IF s \in Unkeyed THEN {"arm"} ELSE Providers,
          user : Providers, checker : Providers, liboqs : IF s \in Lattice THEN BOOLEAN ELSE {TRUE},
          sha_ni : IF s \in {"hash", "hmac", "ecdsa"} THEN BOOLEAN ELSE {TRUE}] :
         s \in Scheme}

NoKeys == [name \in {"A", "B"} |-> [private |-> NoBytes, public |-> NoBytes]]

Init ==
  /\ deal \in Deals
  /\ stage = IF deal.scheme \in Unkeyed THEN "make" ELSE "keys"
  /\ keys = NoKeys
  /\ artefact = NoArtefact
  /\ harm = "none"
  /\ verdict = "none"

Fail(r) == stage' = "done" /\ verdict' = r.status

GenerateKeys ==
  LET made == [name \in {"A", "B"} |-> Keys(deal.maker, deal.scheme, deal.par, name)]
  IN /\ stage = "keys"
     /\ \/ /\ \A name \in {"A", "B"} : IsOk(made[name])
           /\ keys' = [name \in {"A", "B"} |-> made[name].value]
           /\ stage' = "make"
           /\ UNCHANGED verdict
        \/ /\ ~IsOk(made["A"])
           /\ Fail(made["A"])
           /\ UNCHANGED keys
     /\ UNCHANGED <<deal, artefact, harm>>

\* The second party encrypts to a public key; for all else it has the private half.
\* In an agreement its pair is A and the third party's is B.
ToPublic == {"oaep", "ml_kem"}
MakersKey == IF deal.scheme \in ToPublic THEN keys["A"].public ELSE keys["A"].private

MakeArtefact ==
  LET made == Make(deal.user, deal.scheme, deal.par, MakersKey, keys["B"].public)
  IN /\ stage = "make"
     /\ \/ IsOk(made) /\ artefact' = made.value /\ stage' = "take" /\ UNCHANGED verdict
        \/ ~IsOk(made) /\ Fail(made) /\ UNCHANGED artefact
     /\ UNCHANGED <<deal, keys, harm>>

\* What the third party has: the half of pair A that goes with what was made, its own
\* private half and the other's public one for an agreement.
Opposite(half) == IF half = "private" THEN "public" ELSE "private"
TakersHalf == IF deal.scheme \in ToPublic \cup Symmetric THEN "private" ELSE "public"

TakeWith(par, name, half, a) ==
  verdict' = (IF deal.scheme = "ecdh"
              THEN Take(deal.checker, "ecdh", par, keys["B"].private, keys[name][half], a)
              ELSE Take(deal.checker, deal.scheme, par, keys[name][half], NoBytes, a)).status

Arrives(h) == stage = "take" /\ stage' = "done" /\ harm' = h /\ UNCHANGED <<deal, keys, artefact>>

TakeArtefact == Arrives("none") /\ TakeWith(deal.par, "A", TakersHalf, artefact)

TakeAltered ==
  /\ Arrives("altered") /\ deal.scheme \notin Unkeyed \cup {"ecdh"}
  /\ TakeWith(deal.par, "A", TakersHalf, Altered(artefact))

TakeWithOtherKey ==
  /\ Arrives("key") /\ deal.scheme \notin Unkeyed
  /\ TakeWith(deal.par, "B", TakersHalf, artefact)

TakeWithOtherHalf ==
  /\ Arrives("half") /\ deal.scheme \in Paired
  /\ TakeWith(deal.par, "A", Opposite(TakersHalf), artefact)

TakeWithOtherPar(par) ==
  /\ Arrives("par") /\ par # deal.par /\ deal.scheme \notin Unkeyed
  /\ TakeWith(par, "A", TakersHalf, artefact)

Next ==
  \/ GenerateKeys \/ MakeArtefact
  \/ TakeArtefact \/ TakeAltered \/ TakeWithOtherKey \/ TakeWithOtherHalf
  \/ \E par \in Pars[deal.scheme] : TakeWithOtherPar(par)

Spec == Init /\ [][Next]_vars

-----------------------------------------------------------------------------
(* Properties.                                                               *)

Errors == {"InvalidArgument", "KeyImportFailed", "KeyGenerationFailed", "KeyExportFailed",
           "RandomGenerationFailed", "DigestFailed", "KdfOutputFailed", "MacGenerationFailed",
           "EncryptionFailed", "DecryptionFailed", "SigningFailed", "VerificationFailed",
           "KeyAgreementFailed", "EncapsulationFailed", "DecapsulationFailed"}

\* Type correctness: an exchange ends with an answer of the library and not before.
TypeOK ==
  /\ deal \in Deals
  /\ stage \in {"keys", "make", "take", "done"}
  /\ harm \in Harms
  /\ IF stage = "done" THEN verdict \in {"ok", "false"} \cup Errors ELSE verdict = "none"
  /\ artefact.intact

\* Whatever the providers, nothing that was altered, and nothing checked with another
\* key, the wrong half or another parameter set, is accepted.  The exception: OpenSSL
\* takes the size of an RSA key from the key and does not compare what was claimed.
Sound ==
  verdict = "ok" /\ harm # "none" =>
    harm = "par" /\ deal.scheme \in {"oaep", "pss"} /\ deal.checker = "openssl"

\* Which exchanges succeed.  Scalars are big-endian except in OpenSSL, in memory order;
\* ECDSA signatures differ in their digest and, of OpenSSL, in their encoding; ARM and
\* x86 hand out RSA public keys in an encoding the other two do not read.  The SHA-256
\* of an x86 build with SHA-NI, the default, is like no other's.
Asm == {"arm", "ia"}
SameScalars(p, q) == (p = "openssl") <=> (q = "openssl")
DigestsAlike(v, p, q) == v = "Sha256" /\ deal.sha_ni => ((p = "ia") <=> (q = "ia"))
SignsAlike(p, q) ==
  \/ p = q
  \/ {p, q} = Asm /\ (deal.par = "P256" => DigestsAlike("Sha256", p, q))
  \/ "openssl" \notin {p, q} /\ deal.par = "P384"
ReadsPublic(from, by) == from \in Asm => by \in Asm

Crosses ==
  CASE deal.scheme = "aead" -> TRUE
    [] deal.scheme \in {"hash", "hmac"} -> DigestsAlike(deal.par, deal.user, deal.checker)
    [] deal.scheme = "hkdf" ->
         deal.par = "short" \/ (deal.par # "too long" /\ "psa" \notin {deal.user, deal.checker})
    [] deal.scheme = "expand" -> deal.par # "too long"
    [] deal.scheme \in Lattice ->
         deal.liboqs \/ {deal.maker, deal.user, deal.checker} = {"openssl"}
    [] deal.scheme = "slh_dsa" -> {deal.maker, deal.user, deal.checker} = {"openssl"}
    [] deal.scheme = "ecdsa" -> SameScalars(deal.maker, deal.user) /\ SignsAlike(deal.user, deal.checker)
    [] deal.scheme = "ecdh" -> SameScalars(deal.maker, deal.user) /\ SameScalars(deal.maker, deal.checker)
    [] deal.scheme = "oaep" -> ReadsPublic(deal.maker, deal.user)
    [] deal.scheme = "pss" -> ReadsPublic(deal.maker, deal.checker)

\* An exchange that is left alone succeeds exactly between the providers that agree on
\* every encoding on the way: key halves, digests, signatures and lengths.
Interop == stage = "done" /\ harm = "none" => (verdict = "ok" <=> Crosses)

\* What was altered is told as that: a signature or a tag is false, a ciphertext is not
\* decrypted, a secret differs; never as the failure of some other step.
AlterationTold ==
  harm = "altered" /\ Crosses =>
    verdict = IF deal.scheme \in {"aead", "oaep"} THEN "DecryptionFailed" ELSE "false"
=============================================================================
