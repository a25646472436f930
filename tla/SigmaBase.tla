------------------------------ MODULE SigmaBase ------------------------------
(***************************************************************************)
(* What the SIGMA handshakes are made of: terms, sessions and the network. *)
(* The network keeps every message sent, gives any of them to any session, *)
(* any number of times or never, and damages up to MaxDamage of them in    *)
(* one field.  Up to MaxFaults provider calls fail for reasons of their    *)
(* own.                                                                    *)
(*                                                                         *)
(* A session makes one ephemeral key pair and is named by it: the public   *)
(* key of session s is s itself.  Signatures, MACs, key agreement and key  *)
(* derivation answer terms that are equal exactly when their inputs are.   *)
(* A field that was damaged on its way equals no field that was sent.      *)
(***************************************************************************)
EXTENDS Integers, Sequences

CONSTANTS
  Initiator,  \* the initiator's sessions
  Responder,  \* the responder's sessions
  PartyOf,    \* per session: the identity it runs under
  Expected,   \* per session: the identity its caller expects of the peer
  Damaged,    \* a field that is not what was sent
  MaxDamage,  \* bound on the damaged copies of messages
  MaxFaults,  \* bound on the faults of the provider
  Nobody      \* no session

Session == Initiator \cup Responder

VARIABLES
  net,     \* the messages sent, and their damaged copies
  damage,  \* how many copies were damaged
  faults,  \* how many provider calls failed
  phase,   \* per session: "new", "open", "success" or "failed"
  heard,   \* per session: the messages it went on with
  answer   \* per session: what its last call answered

vars == <<net, damage, faults, phase, heard, answer>>

\* ecdh_compute_shared_secret of our session with the peer's public key, which
\* fails for what is no point of the curve.
Agrees(peer) == peer # Damaged
Shared(ours, peer) == {ours, peer}

\* The keys of a session are slices of one HKDF output, in bytes; SIGMA takes the
\* first two, SIGMA-I all four.
MacKeySize == 48
SessionKeySize == 32
EncKeySize == 32

\* Deviation: the encryption keys start where the session key does.
KeySlicesOverlapping ==
  [mac     |-> [first |-> 0, size |-> MacKeySize],
   session |-> [first |-> MacKeySize, size |-> SessionKeySize],
   enc_r   |-> [first |-> MacKeySize, size |-> EncKeySize],
   enc_i   |-> [first |-> MacKeySize + EncKeySize, size |-> EncKeySize]]

KeySlices ==
  [mac     |-> [first |-> 0, size |-> MacKeySize],
   session |-> [first |-> MacKeySize, size |-> SessionKeySize],
   enc_r   |-> [first |-> MacKeySize + SessionKeySize, size |-> EncKeySize],
   enc_i   |-> [first |-> MacKeySize + SessionKeySize + EncKeySize, size |-> EncKeySize]]

DerivedKey(purpose, secret) == [slice |-> KeySlices[purpose], secret |-> secret]

Signature(party, ephI, ephR) == [signer |-> party, ephI |-> ephI, ephR |-> ephR]
Mac(key, party) == [key |-> key, over |-> party]

MacKey(s, peer) == DerivedKey("mac", Shared(s, peer))
SessionKey(s, peer) == DerivedKey("session", Shared(s, peer))

\* A damaged field is neither a public key nor a signature or MAC that is looked for.
ASSUME SessionAssumption ==
  /\ Initiator \cap Responder = {}
  /\ Damaged \notin Session
  /\ \A s \in Session, i \in Initiator, r \in Responder :
       /\ Signature(Expected[s], i, r) # Damaged
       /\ Mac(MacKey(i, r), Expected[s]) # Damaged

-----------------------------------------------------------------------------
(* Sessions, the network and the provider. *)

Sent(n) == {m \in net : m.step = n}

Init ==
  /\ net = {}
  /\ damage = 0
  /\ faults = 0
  /\ phase = [s \in Session |-> "new"]
  /\ heard = [s \in Session |-> <<>>]
  /\ answer = [s \in Session |-> "none"]

\* Session s, having read the messages ms, goes on in phase p.
Becomes(s, p, ms, a) ==
  /\ phase' = [phase EXCEPT ![s] = p]
  /\ heard' = [heard EXCEPT ![s] = @ \o ms]
  /\ answer' = [answer EXCEPT ![s] = a]

Send(m) == net' = net \cup {m}

Damage(m) ==
  /\ damage < MaxDamage
  /\ damage' = damage + 1
  /\ \E f \in DOMAIN m \ {"step"} : Send([m EXCEPT ![f] = Damaged])
  /\ UNCHANGED <<faults, phase, heard, answer>>

\* A provider call of session s fails; the session goes on in phase p and its
\* caller is answered a.
Fault(s, p, a) ==
  /\ faults < MaxFaults
  /\ faults' = faults + 1
  /\ phase' = [phase EXCEPT ![s] = p]
  /\ answer' = [answer EXCEPT ![s] = a]
  /\ UNCHANGED <<net, damage, heard>>

Msg1(ephI) == [step |-> 1, eph |-> ephI]

\* Step 1: sigma_initiator_begin.
InitiatorBegin(i) ==
  /\ phase[i] = "new"
  /\ Becomes(i, "open", <<>>, "ok")
  /\ Send(Msg1(i))
  /\ UNCHANGED <<damage, faults>>

InitiatorBeginFails(i) ==
  /\ phase[i] = "new"
  /\ Fault(i, "failed", "fault")

-----------------------------------------------------------------------------
(* Properties of both protocols. *)

Errors == {"none", "ok", "true", "false", "fault", "KeyAgreementFailed", "SigmaAuthFailed"}

\* Every variable has its type.
TypeOK ==
  /\ \A m \in net : m.step \in 1 .. 3 /\ (m.step # 3 => m.eph \in Session \cup {Damaged})
  /\ damage \in 0 .. MaxDamage
  /\ faults \in 0 .. MaxFaults
  /\ phase \in [Session -> {"new", "open", "success", "failed"}]
  /\ \A s \in Session : heard[s] \in Seq(net) /\ Len(heard[s]) <= 2
  /\ answer \in [Session -> Errors]

\* The session a session has heard from, or Nobody, and the key the two share.
Peer(s) == IF heard[s] = <<>> THEN Nobody ELSE heard[s][1].eph
KeyOf(s) == SessionKey(s, Peer(s))
Succeeded(S) == {s \in S : phase[s] = "success"}

\* Two keys with a byte in common.
Overlap(k, l) ==
  /\ k.secret = l.secret
  /\ k.slice.first < l.slice.first + l.slice.size
  /\ l.slice.first < k.slice.first + k.slice.size

\* The two ends of a conversation hold the same session key and no third session
\* does, however often their messages were delivered; and no byte of it is a byte
\* of a key that the protocol itself puts to use under the same shared secret.
KeysPair ==
  \A r \in Succeeded(Responder) :
    /\ {s \in Succeeded(Session) : KeyOf(s) = KeyOf(r)} = {r, Peer(r)}
    /\ \A s \in Succeeded(Session), purpose \in DOMAIN KeySlices \ {"session"} :
         ~Overlap(KeyOf(r), DerivedKey(purpose, Shared(s, Peer(s))))

\* The conversations as pairs of sessions.
AbsOffer == [r \in Responder |-> Peer(r)]
AbsPartner == [i \in Initiator |-> Peer(i)]
Agreement == INSTANCE Handshake WITH offer <- AbsOffer, partner <- AbsPartner

\* The protocol keeps the promise of Handshake: the initiator succeeds only with an
\* expected responder that answered its own offer, the responder only with an
\* expected initiator that succeeded with it.
KeepsPromise == Agreement!HSpec

\* A responder whose Msg3 was damaged, misdelivered or refused for a fault still
\* accepts the good one when it comes: step 4 does not use its state up.
ResponderRecovers ==
  \A r \in Responder, i \in Initiator :
    phase[r] = "open" /\ phase[i] = "success" /\ Peer(i) = r /\ Peer(r) = i
      /\ PartyOf[i] = Expected[r]
      ~> phase[r] = "success"
=============================================================================
