------------------------------- MODULE SigmaI -------------------------------
(***************************************************************************)
(* SIGMA-I: the identity, the signature and the MAC travel in a bundle     *)
(* that is encrypted under a key of its own for either direction.  A       *)
(* bundle that was damaged, or is opened with another key, is refused as a *)
(* whole.                                                                  *)
(***************************************************************************)
EXTENDS SigmaBase

Msg2(ephR, bundle) == [step |-> 2, eph |-> ephR, bundle |-> bundle]
Msg3(bundle) == [step |-> 3, bundle |-> bundle]

\* The key that the bundles of a role, "enc_r" or "enc_i", are encrypted under.
EncKey(role, s, peer) == DerivedKey(role, Shared(s, peer))

\* Serialised and encrypted: sigma_i_serialize_bundle, sigma_i_aes_gcm_encrypt.
Bundle(key, id, sig, mac) == [key |-> key, id |-> id, sig |-> sig, mac |-> mac]

\* Decrypts and parses: sigma_i_aes_gcm_decrypt, sigma_i_deserialize_bundle.
Opens(key, bundle) == bundle # Damaged /\ bundle.key = key

-----------------------------------------------------------------------------
(* Steps 2 to 4; step 1 is sigma_initiator_begin of SigmaBase. *)

\* Step 2: sigma_i_responder_respond.
ResponderMsg2(r, m) ==
  Msg2(r, Bundle(EncKey("enc_r", r, m.eph), PartyOf[r],
                 Signature(PartyOf[r], m.eph, r), Mac(MacKey(r, m.eph), PartyOf[r])))

ResponderRespond(r, m) ==
  /\ phase[r] = "new"
  /\ Agrees(m.eph)
  /\ Becomes(r, "open", <<m>>, "ok")
  /\ Send(ResponderMsg2(r, m))
  /\ UNCHANGED <<damage, faults>>

ResponderRespondFails(r, m) ==
  /\ phase[r] = "new"
  /\ ~Agrees(m.eph)
  /\ Becomes(r, "failed", <<>>, "KeyAgreementFailed")
  /\ UNCHANGED <<net, damage, faults>>

ResponderRespondFaults(r) ==
  /\ phase[r] = "new"
  /\ Sent(1) # {}
  /\ Fault(r, "failed", "fault")

\* Deviation: the identity in the responder's bundle is taken for the expected one.
Msg2AuthenticAnyone(i, m) ==
  LET b == m.bundle IN
  /\ Opens(EncKey("enc_r", i, m.eph), b)
  /\ b.mac = Mac(MacKey(i, m.eph), b.id)
  /\ b.sig = Signature(b.id, i, m.eph)

\* The checks of step 3 after key agreement: bundle, identity, MAC, signature.
Msg2Authentic(i, m) ==
  LET b == m.bundle IN
  /\ Opens(EncKey("enc_r", i, m.eph), b)
  /\ b.id = Expected[i]
  /\ b.mac = Mac(MacKey(i, m.eph), b.id)
  /\ b.sig = Signature(b.id, i, m.eph)

\* Step 3: sigma_i_initiator_finish, which uses the state of step 1 up.
InitiatorMsg3(i, m) ==
  Msg3(Bundle(EncKey("enc_i", i, m.eph), PartyOf[i],
              Signature(PartyOf[i], i, m.eph), Mac(MacKey(i, m.eph), PartyOf[i])))

InitiatorFinish(i, m) ==
  /\ phase[i] = "open"
  /\ Agrees(m.eph)
  /\ Msg2Authentic(i, m)
  /\ Becomes(i, "success", <<m>>, "ok")
  /\ Send(InitiatorMsg3(i, m))
  /\ UNCHANGED <<damage, faults>>

\* Unlike SIGMA, a failed key agreement keeps its own error.
InitiatorRejects(i, m) ==
  /\ phase[i] = "open"
  /\ \/ /\ ~Agrees(m.eph)
        /\ Becomes(i, "failed", <<>>, "KeyAgreementFailed")
     \/ /\ Agrees(m.eph)
        /\ ~Msg2Authentic(i, m)
        /\ Becomes(i, "failed", <<>>, "SigmaAuthFailed")
  /\ UNCHANGED <<net, damage, faults>>

\* Decryption and ecdsa_verify take a fault of the provider for a failed check.
InitiatorFinishFaults(i) ==
  /\ phase[i] = "open"
  /\ Sent(2) # {}
  /\ \E a \in {"fault", "SigmaAuthFailed"} : Fault(i, "failed", a)

\* The checks of step 4: bundle, identity, MAC, signature.
Msg3Authentic(r, m) ==
  LET ephI == heard[r][1].eph
      b == m.bundle IN
  /\ Opens(EncKey("enc_i", r, ephI), b)
  /\ b.id = Expected[r]
  /\ b.mac = Mac(MacKey(r, ephI), b.id)
  /\ b.sig = Signature(b.id, ephI, r)

\* Step 4: sigma_i_responder_finish.  The responder's state is only read.
ResponderFinish(r, m) ==
  /\ phase[r] = "open"
  /\ Msg3Authentic(r, m)
  /\ Becomes(r, "success", <<m>>, "true")
  /\ UNCHANGED <<net, damage, faults>>

\* Deviation: a bundle that does not open ends the session.
ResponderRejectsForGood(r, m) ==
  /\ phase[r] = "open"
  /\ ~Msg3Authentic(r, m)
  /\ phase' = [phase EXCEPT ![r] = "failed"]
  /\ answer' = [answer EXCEPT ![r] = "false"]
  /\ UNCHANGED <<net, damage, faults, heard>>

ResponderRejects(r, m) ==
  /\ phase[r] = "open"
  /\ ~Msg3Authentic(r, m)
  /\ answer' = [answer EXCEPT ![r] = "false"]
  /\ UNCHANGED <<net, damage, faults, phase, heard>>

\* A fault while the bundle is opened is answered false, and so is one inside
\* ecdsa_verify; one while the MAC is verified is an error.
ResponderFinishFaults(r, m) ==
  /\ phase[r] = "open"
  /\ \/ Fault(r, "open", "false")
     \/ /\ Opens(EncKey("enc_i", r, heard[r][1].eph), m.bundle)
        /\ m.bundle.id = Expected[r]
        /\ Fault(r, "open", "fault")

-----------------------------------------------------------------------------

InitiatorStep(i) ==
  \/ InitiatorBegin(i) \/ InitiatorBeginFails(i)
  \/ \E m \in Sent(2) : InitiatorFinish(i, m) \/ InitiatorRejects(i, m)
  \/ InitiatorFinishFaults(i)

ResponderStep(r) ==
  \/ \E m \in Sent(1) : ResponderRespond(r, m) \/ ResponderRespondFails(r, m)
  \/ ResponderRespondFaults(r)
  \/ \E m \in Sent(3) :
       ResponderFinish(r, m) \/ ResponderRejects(r, m) \/ ResponderFinishFaults(r, m)

Next ==
  \/ \E i \in Initiator : InitiatorStep(i)
  \/ \E r \in Responder : ResponderStep(r)
  \/ \E m \in net : Damage(m)

Spec == Init /\ [][Next]_vars

\* As in SIGMA: a Msg3 a responder would accept is not kept from it for ever.
FairSpec ==
  Spec /\ \A r \in Responder : WF_vars(\E m \in Sent(3) : ResponderFinish(r, m))

-----------------------------------------------------------------------------

\* A session that succeeds read what its peer sent in this conversation and
\* nothing else: no message that was damaged in any field, and none of another
\* conversation, gets past the checks of steps 3 and 4.
Untouched ==
  /\ \A i \in Succeeded(Initiator) :
       LET r == Peer(i) IN
       r \in Responder /\ Peer(r) = i /\ heard[i] = <<ResponderMsg2(r, Msg1(i))>>
  /\ \A r \in Succeeded(Responder) :
       LET i == Peer(r) IN
       heard[r] = <<Msg1(i), InitiatorMsg3(i, ResponderMsg2(r, Msg1(i)))>>
=============================================================================
