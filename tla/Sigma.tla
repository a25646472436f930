-------------------------------- MODULE Sigma --------------------------------
(***************************************************************************)
(* The SIGMA handshake: each step is a call of the library on a message    *)
(* that the network delivers to its session.                               *)
(***************************************************************************)
EXTENDS SigmaBase

Msg2(ephR, id, sig, mac) == [step |-> 2, eph |-> ephR, id |-> id, sig |-> sig, mac |-> mac]
Msg3(id, sig, mac) == [step |-> 3, id |-> id, sig |-> sig, mac |-> mac]

-----------------------------------------------------------------------------
(* Steps 2 to 4; step 1 is sigma_initiator_begin of SigmaBase. *)

\* Step 2: sigma_responder_respond.  It keeps Msg1 and the Msg2 it sends.
ResponderMsg2(r, m) ==
  Msg2(r, PartyOf[r], Signature(PartyOf[r], m.eph, r), Mac(MacKey(r, m.eph), PartyOf[r]))

ResponderRespond(r, m) ==
  /\ phase[r] = "new"
  /\ Agrees(m.eph)
  /\ Becomes(r, "open", <<m>>, "ok")
  /\ Send(ResponderMsg2(r, m))
  /\ UNCHANGED <<damage, faults>>

ResponderRespondFails(r, m) ==
  /\ phase[r] = "new"
  /\ ~Agrees(m.eph)
  /\ Becomes(r, "failed", <<>>, "KeyAgreementFailed")
  /\ UNCHANGED <<net, damage, faults>>

ResponderRespondFaults(r) ==
  /\ phase[r] = "new"
  /\ Sent(1) # {}
  /\ Fault(r, "failed", "fault")

\* Deviation: the identity in Msg2 is taken for the responder's.
Msg2AuthenticAnyone(i, m) ==
  /\ Agrees(m.eph)
  /\ m.mac = Mac(MacKey(i, m.eph), m.id)
  /\ m.sig = Signature(m.id, i, m.eph)

\* The checks of step 3: key agreement, identity, MAC, signature.
Msg2Authentic(i, m) ==
  /\ Agrees(m.eph)
  /\ m.id = Expected[i]
  /\ m.mac = Mac(MacKey(i, m.eph), m.id)
  /\ m.sig = Signature(m.id, i, m.eph)

\* Step 3: sigma_initiator_finish, which uses the state of step 1 up.
InitiatorMsg3(i, m) ==
  Msg3(PartyOf[i], Signature(PartyOf[i], i, m.eph), Mac(MacKey(i, m.eph), PartyOf[i]))

InitiatorFinish(i, m) ==
  /\ phase[i] = "open"
  /\ Msg2Authentic(i, m)
  /\ Becomes(i, "success", <<m>>, "ok")
  /\ Send(InitiatorMsg3(i, m))
  /\ UNCHANGED <<damage, faults>>

InitiatorRejects(i, m) ==
  /\ phase[i] = "open"
  /\ ~Msg2Authentic(i, m)
  /\ Becomes(i, "failed", <<>>, "SigmaAuthFailed")
  /\ UNCHANGED <<net, damage, faults>>

\* Key agreement and ecdsa_verify take a fault of the provider for a failed check.
InitiatorFinishFaults(i) ==
  /\ phase[i] = "open"
  /\ Sent(2) # {}
  /\ \E a \in {"fault", "SigmaAuthFailed"} : Fault(i, "failed", a)

\* Deviation: the signature of Msg3 is not verified.
Msg3AuthenticNoSignature(r, m) ==
  /\ m.id = Expected[r]
  /\ m.mac = Mac(MacKey(r, heard[r][1].eph), m.id)

\* The checks of step 4: identity, MAC, signature.
Msg3Authentic(r, m) ==
  /\ m.id = Expected[r]
  /\ m.mac = Mac(MacKey(r, heard[r][1].eph), m.id)
  /\ m.sig = Signature(m.id, heard[r][1].eph, r)

\* Step 4: sigma_responder_finish.  The responder's state is only read: a false
\* or an error leaves it as it was, and another Msg3 may be tried.
ResponderFinish(r, m) ==
  /\ phase[r] = "open"
  /\ Msg3Authentic(r, m)
  /\ Becomes(r, "success", <<m>>, "true")
  /\ UNCHANGED <<net, damage, faults>>

\* Deviation: a rejected Msg3 ends the session.
ResponderRejectsForGood(r, m) ==
  /\ phase[r] = "open"
  /\ ~Msg3Authentic(r, m)
  /\ phase' = [phase EXCEPT ![r] = "failed"]
  /\ answer' = [answer EXCEPT ![r] = "false"]
  /\ UNCHANGED <<net, damage, faults, heard>>

ResponderRejects(r, m) ==
  /\ phase[r] = "open"
  /\ ~Msg3Authentic(r, m)
  /\ answer' = [answer EXCEPT ![r] = "false"]
  /\ UNCHANGED <<net, damage, faults, phase, heard>>

\* A fault inside ecdsa_verify is answered false, any other an error.
ResponderFinishFaults(r, m) ==
  /\ phase[r] = "open"
  /\ m.id = Expected[r]
  /\ \/ Fault(r, "open", "fault")
     \/ /\ m.mac = Mac(MacKey(r, heard[r][1].eph), m.id)
        /\ Fault(r, "open", "false")

-----------------------------------------------------------------------------

InitiatorStep(i) ==
  \/ InitiatorBegin(i) \/ InitiatorBeginFails(i)
  \/ \E m \in Sent(2) : InitiatorFinish(i, m) \/ InitiatorRejects(i, m)
  \/ InitiatorFinishFaults(i)

ResponderStep(r) ==
  \/ \E m \in Sent(1) : ResponderRespond(r, m) \/ ResponderRespondFails(r, m)
  \/ ResponderRespondFaults(r)
  \/ \E m \in Sent(3) :
       ResponderFinish(r, m) \/ ResponderRejects(r, m) \/ ResponderFinishFaults(r, m)

Next ==
  \/ \E i \in Initiator : InitiatorStep(i)
  \/ \E r \in Responder : ResponderStep(r)
  \/ \E m \in net : Damage(m)

Spec == Init /\ [][Next]_vars

\* A sender repeats its Msg3 until it is through, and a responder tries every one
\* it is given: a Msg3 it would accept is not kept from it for ever.
FairSpec ==
  Spec /\ \A r \in Responder : WF_vars(\E m \in Sent(3) : ResponderFinish(r, m))

-----------------------------------------------------------------------------

\* A session that succeeds read what its peer sent in this conversation and
\* nothing else: no message that was damaged in any field, and none of another
\* conversation, gets past the checks of steps 3 and 4.
Untouched ==
  /\ \A i \in Succeeded(Initiator) :
       LET r == Peer(i) IN
       r \in Responder /\ Peer(r) = i /\ heard[i] = <<ResponderMsg2(r, Msg1(i))>>
  /\ \A r \in Succeeded(Responder) :
       LET i == Peer(r) IN
       heard[r] = <<Msg1(i), InitiatorMsg3(i, ResponderMsg2(r, Msg1(i)))>>

\* sigma.hpp, step 4: "Returns false on auth failure, error on fault."
ErrorOnFault ==
  [][\A r \in Responder : faults' # faults => ~(answer[r] # "false" /\ answer'[r] = "false")]_vars
=============================================================================
