--------------------------- MODULE SigmaProtocols ---------------------------
(***************************************************************************)
(* SIGMA or SIGMA-I, one of the two throughout, and what is proved of      *)
(* both.  The two protocols differ in what their messages look like and in *)
(* the answers of a failure; the argument sees neither.                    *)
(***************************************************************************)
EXTENDS Sigma, SequenceTheorems, TLAPS

VARIABLE protocol  \* "sigma" or "sigma_i"

I == INSTANCE SigmaI

EitherInit == protocol \in {"sigma", "sigma_i"} /\ Init

EitherNext ==
  /\ UNCHANGED protocol
  /\ \/ protocol = "sigma" /\ Next
     \/ protocol = "sigma_i" /\ I!Next

EitherSpec == EitherInit /\ [][EitherNext]_<<vars, protocol>>

\* A session that succeeds read what its peer sent in this conversation and
\* nothing else, in either protocol.
UntouchedInBoth == IF protocol = "sigma" THEN Untouched ELSE I!Untouched

-----------------------------------------------------------------------------
(* The messages and the checks of the protocol that runs. *)

Answer(r, m) == IF protocol = "sigma" THEN ResponderMsg2(r, m) ELSE I!ResponderMsg2(r, m)
Conclusion(i, m) == IF protocol = "sigma" THEN InitiatorMsg3(i, m) ELSE I!InitiatorMsg3(i, m)

Authentic2(i, m) ==
  IF protocol = "sigma" THEN Msg2Authentic(i, m) ELSE Agrees(m.eph) /\ I!Msg2Authentic(i, m)
Authentic3(r, m) == IF protocol = "sigma" THEN Msg3Authentic(r, m) ELSE I!Msg3Authentic(r, m)

\* m is the message o, some of whose fields may be damaged.
Copy(m, o) ==
  /\ DOMAIN m = DOMAIN o /\ m = [f \in DOMAIN o |-> m[f]]
  /\ \A f \in DOMAIN o : m[f] = o[f] \/ (f # "step" /\ m[f] = Damaged)

\* What a step of either protocol is to the sessions and the network.
Opening(i) ==
  /\ phase[i] = "new"
  /\ phase' = [phase EXCEPT ![i] = "open"]
  /\ net' = net \cup {Msg1(i)}
  /\ UNCHANGED heard

Answering(r, m) ==
  /\ phase[r] = "new"
  /\ m \in net /\ m.step = 1 /\ m.eph # Damaged
  /\ phase' = [phase EXCEPT ![r] = "open"]
  /\ heard' = [heard EXCEPT ![r] = @ \o <<m>>]
  /\ net' = net \cup {Answer(r, m)}

Concluding(i, m) ==
  /\ phase[i] = "open"
  /\ m \in net /\ m.step = 2 /\ Authentic2(i, m)
  /\ phase' = [phase EXCEPT ![i] = "success"]
  /\ heard' = [heard EXCEPT ![i] = @ \o <<m>>]
  /\ net' = net \cup {Conclusion(i, m)}

Accepting(r, m) ==
  /\ phase[r] = "open"
  /\ m \in net /\ m.step = 3 /\ Authentic3(r, m)
  /\ phase' = [phase EXCEPT ![r] = "success"]
  /\ heard' = [heard EXCEPT ![r] = @ \o <<m>>]
  /\ UNCHANGED net

Failing(s) ==
  /\ phase[s] = "new" \/ (s \in Initiator /\ phase[s] = "open")
  /\ phase' = [phase EXCEPT ![s] = "failed"]
  /\ UNCHANGED <<heard, net>>

Damaging(m, f) ==
  /\ m \in net /\ f \in DOMAIN m \ {"step"}
  /\ net' = net \cup {[m EXCEPT ![f] = Damaged]}
  /\ UNCHANGED <<phase, heard>>

Event ==
  \/ \E i \in Initiator : Opening(i) \/ \E m \in net : Concluding(i, m)
  \/ \E r \in Responder, m \in net : Answering(r, m) \/ Accepting(r, m)
  \/ \E s \in Session : Failing(s)
  \/ \E m \in net : \E f \in DOMAIN m : Damaging(m, f)
  \/ UNCHANGED <<phase, heard, net>>

-----------------------------------------------------------------------------

Typed ==
  /\ protocol \in {"sigma", "sigma_i"}
  /\ phase \in [Session -> {"new", "open", "success", "failed"}]
  /\ heard = [s \in Session |-> heard[s]]

\* What an initiator has read tells who its peer is, and that the peer answered it.
InitiatorInv(i) ==
  \/ phase[i] # "success" /\ heard[i] = <<>>
  \/ /\ phase[i] = "success"
     /\ \E r \in Responder :
          /\ heard[i] = <<Answer(r, Msg1(i))>>
          /\ Peer(i) = r /\ Peer(r) = i
          /\ phase[r] \in {"open", "success"}
          /\ PartyOf[r] = Expected[i]

ResponderInv(r) ==
  \/ phase[r] \in {"new", "failed"} /\ heard[r] = <<>>
  \/ \E i \in Initiator :
       /\ Peer(r) = i
       /\ phase[i] # "new"
       /\ \/ phase[r] = "open" /\ heard[r] = <<Msg1(i)>>
          \/ /\ phase[r] = "success"
             /\ phase[i] = "success" /\ Peer(i) = r
             /\ PartyOf[i] = Expected[r]
             /\ heard[r] = <<Msg1(i), Conclusion(i, Answer(r, Msg1(i)))>>

\* Where a message in the network comes from.
FromBegin(m) == \E i \in Initiator : phase[i] # "new" /\ Copy(m, Msg1(i))
FromResponder(m) ==
  \E r \in Responder : /\ phase[r] \in {"open", "success"}
                       /\ Copy(m, Answer(r, Msg1(Peer(r))))
FromInitiator(m) ==
  \E i \in Initiator : /\ phase[i] = "success"
                       /\ Copy(m, Conclusion(i, Answer(Peer(i), Msg1(i))))
Genuine(m) == FromBegin(m) \/ FromResponder(m) \/ FromInitiator(m)

IInv ==
  /\ Typed
  /\ \A i \in Initiator : InitiatorInv(i)
  /\ \A r \in Responder : ResponderInv(r)
  /\ \A m \in net : Genuine(m)

-----------------------------------------------------------------------------
(* Facts about the operators. *)

\* Reading a first message, and a second one.
LEMMA Reading ==
  /\ <<>> \o <<>> = <<>>
  /\ \A m : <<>> \o <<m>> = <<m>>
  /\ \A l, m : <<l>> \o <<m>> = <<l, m>>
<1>1. ASSUME NEW m PROVE <<>> \o <<m>> = <<m>>
  <2>1. <<m>> \in Seq({m})
    OBVIOUS
  <2>. QED
    BY <2>1, ConcatEmptySeq
<1>2. ASSUME NEW l, NEW m PROVE <<l>> \o <<m>> = <<l, m>>
  <2>1. /\ <<l>> \in Seq({l, m}) /\ Len(<<l>>) = 1 /\ <<l>>[1] = l
        /\ <<m>> \in Seq({l, m}) /\ Len(<<m>>) = 1 /\ <<m>>[1] = m
        /\ <<l, m>> \in Seq({l, m}) /\ Len(<<l, m>>) = 2 /\ <<l, m>>[1] = l /\ <<l, m>>[2] = m
    OBVIOUS
  <2>2. /\ <<l>> \o <<m>> \in Seq({l, m}) /\ Len(<<l>> \o <<m>>) = 2
        /\ \A k \in 1 .. 2 : (<<l>> \o <<m>>)[k] = IF k <= 1 THEN <<l>>[k] ELSE <<m>>[k - 1]
    BY <2>1, ConcatProperties
  <2>3. \A k \in 1 .. 2 : (<<l>> \o <<m>>)[k] = <<l, m>>[k]
    BY <2>1, <2>2
  <2>. QED
    BY <2>1, <2>2, <2>3, SeqEqual
<1>3. <<>> \o <<>> = <<>>
  <2>1. <<>> \in Seq({})
    OBVIOUS
  <2>. QED
    BY <2>1, ConcatEmptySeq
<1>. QED
  BY <1>1, <1>2, <1>3

\* The copy of a message may be damaged once more.
LEMMA CopyDamaged ==
  ASSUME NEW m, NEW o, Copy(m, o), NEW f \in DOMAIN m \ {"step"}
  PROVE  Copy([m EXCEPT ![f] = Damaged], o)
BY DEF Copy

\* A message is a copy of itself.
LEMMA CopyItself ==
  /\ \A i : Copy(Msg1(i), Msg1(i))
  /\ \A r, m : Copy(Answer(r, m), Answer(r, m))
  /\ \A i, m : Copy(Conclusion(i, m), Conclusion(i, m))
BY DEF Copy, Answer, Conclusion, Msg1, ResponderMsg2, InitiatorMsg3, Msg2, Msg3, I!ResponderMsg2,
       I!InitiatorMsg3, I!Msg2, I!Msg3

\* Which step a copy is of.
LEMMA CopyStep ==
  /\ \A m, i : Copy(m, Msg1(i)) => m.step = 1
  /\ \A m, r, l : Copy(m, Answer(r, l)) => m.step = 2
  /\ \A m, i, l : Copy(m, Conclusion(i, l)) => m.step = 3
BY DEF Copy, Answer, Conclusion, Msg1, ResponderMsg2, InitiatorMsg3, Msg2, Msg3, I!ResponderMsg2,
       I!InitiatorMsg3, I!Msg2, I!Msg3

\* A copy each of whose fields is undamaged or known is the message itself.
LEMMA CopyWhole ==
  ASSUME NEW m, NEW o, Copy(m, o), o = [f \in DOMAIN o |-> o[f]],
         \A f \in DOMAIN o \ {"step"} : m[f] # Damaged \/ m[f] = o[f]
  PROVE  m = o
BY DEF Copy

\* What step 3 accepts is the answer to its own offer, by whom it expects.
LEMMA Authentic2Genuine ==
  ASSUME protocol \in {"sigma", "sigma_i"}, NEW i \in Initiator, NEW j \in Initiator,
         NEW r \in Responder, NEW m, Copy(m, Answer(r, Msg1(j))), Authentic2(i, m)
  PROVE  j = i /\ PartyOf[r] = Expected[i] /\ m = Answer(r, Msg1(i))
<1>1. CASE protocol = "sigma"
  <2>1. /\ m.eph # Damaged
        /\ m.id = Expected[i]
        /\ m.mac = Mac(MacKey(i, m.eph), Expected[i])
        /\ m.sig = Signature(Expected[i], i, m.eph)
    BY <1>1 DEF Authentic2, Msg2Authentic, Agrees
  <2> DEFINE o == Msg2(r, PartyOf[r], Signature(PartyOf[r], j, r), Mac(MacKey(r, j), PartyOf[r]))
  <2>2. Answer(r, Msg1(j)) = o
    BY <1>1 DEF Answer, ResponderMsg2, Msg1
  <2>3. /\ o.eph = r /\ o.id = PartyOf[r] /\ o.sig = Signature(PartyOf[r], j, r)
        /\ o.mac = Mac(MacKey(r, j), PartyOf[r])
        /\ DOMAIN o = {"step", "eph", "id", "sig", "mac"}
        /\ o = [f \in DOMAIN o |-> o[f]]
    BY DEF Msg2
  <2> HIDE DEF o
  <2>4. m.eph = r
    BY <2>1, <2>2, <2>3 DEF Copy
  <2>5. m.sig # Damaged /\ m.mac # Damaged
    BY <2>1, <2>4, SessionAssumption DEF Session
  <2>6. m.sig = Signature(PartyOf[r], j, r)
    BY <2>2, <2>3, <2>5 DEF Copy
  <2>7. Expected[i] = PartyOf[r] /\ i = j
    BY <2>1, <2>4, <2>6 DEF Signature
  <2>8. m.mac = Mac(MacKey(r, j), PartyOf[r])
    BY <2>2, <2>3, <2>5 DEF Copy
  <2>9. m = o
    BY <2>1, <2>2, <2>3, <2>4, <2>6, <2>7, <2>8, CopyWhole
  <2>. QED
    BY <2>2, <2>7, <2>9
<1>2. CASE protocol = "sigma_i"
  <2> DEFINE o == I!ResponderMsg2(r, Msg1(j))
             c == I!Bundle(I!EncKey("enc_r", r, j), PartyOf[r], Signature(PartyOf[r], j, r),
                           Mac(MacKey(r, j), PartyOf[r]))
  <2>1. Answer(r, Msg1(j)) = o
    BY <1>2 DEF Answer
  <2>2. /\ o.eph = r /\ o.bundle = c
        /\ DOMAIN o = {"step", "eph", "bundle"}
        /\ o = [f \in DOMAIN o |-> o[f]]
    BY DEF I!ResponderMsg2, Msg1, I!Msg2, Signature, I!Signature, Mac, I!Mac, MacKey, I!MacKey,
           I!EncKey, I!Bundle, DerivedKey, I!DerivedKey, KeySlices,
           I!KeySlices, Shared, I!Shared,
           MacKeySize, I!MacKeySize, SessionKeySize, I!SessionKeySize, EncKeySize, I!EncKeySize
  <2>3. c.id = PartyOf[r] /\ c.sig = Signature(PartyOf[r], j, r)
    BY DEF I!Bundle
  <2>4. /\ m.eph # Damaged /\ m.bundle # Damaged
        /\ m.bundle.id = Expected[i]
        /\ m.bundle.sig = Signature(m.bundle.id, i, m.eph)
    BY <1>2 DEF Authentic2, I!Msg2Authentic, Agrees, I!Opens, Signature, I!Signature
  <2> HIDE DEF o, c
  <2>5. m.eph = r /\ m.bundle = c
    BY <2>1, <2>2, <2>4 DEF Copy
  <2>6. Expected[i] = PartyOf[r] /\ i = j
    BY <2>3, <2>4, <2>5 DEF Signature
  <2>7. m = o
    BY <2>1, <2>2, <2>4, CopyWhole
  <2>. QED
    BY <2>1, <2>6, <2>7
<1>. QED
  BY <1>1, <1>2

\* What step 4 accepts is the conclusion of the conversation, by whom it expects.
LEMMA Authentic3Genuine ==
  ASSUME protocol \in {"sigma", "sigma_i"}, NEW r \in Responder, NEW j \in Initiator,
         heard[r] = <<Msg1(j)>>,
         NEW i \in Initiator, NEW p \in Responder, NEW m,
         Copy(m, Conclusion(i, Answer(p, Msg1(i)))), Authentic3(r, m)
  PROVE  i = j /\ p = r /\ PartyOf[i] = Expected[r] /\ m = Conclusion(i, Answer(r, Msg1(i)))
<1>1. CASE protocol = "sigma"
  <2> DEFINE o == Msg3(PartyOf[i], Signature(PartyOf[i], i, p), Mac(MacKey(i, p), PartyOf[i]))
  <2>1. Conclusion(i, Answer(p, Msg1(i))) = o
    BY <1>1 DEF Conclusion, Answer, ResponderMsg2, InitiatorMsg3, Msg2
  <2>2. /\ o.id = PartyOf[i] /\ o.sig = Signature(PartyOf[i], i, p)
        /\ o.mac = Mac(MacKey(i, p), PartyOf[i])
        /\ DOMAIN o = {"step", "id", "sig", "mac"}
        /\ o = [f \in DOMAIN o |-> o[f]]
    BY DEF Msg3
  <2>3. heard[r][1].eph = j
    BY DEF Msg1
  <2>4. /\ m.id = Expected[r]
        /\ m.mac = Mac(MacKey(r, j), Expected[r])
        /\ m.sig = Signature(Expected[r], j, r)
    BY <1>1, <2>3 DEF Authentic3, Msg3Authentic
  <2> HIDE DEF o
  <2>5. MacKey(r, j) = MacKey(j, r)
    BY DEF MacKey, Shared, DerivedKey
  <2>6. m.sig # Damaged /\ m.mac # Damaged
    BY <2>4, <2>5, SessionAssumption DEF Session
  <2>7. m.sig = Signature(PartyOf[i], i, p) /\ m.mac = Mac(MacKey(i, p), PartyOf[i])
    BY <2>1, <2>2, <2>6 DEF Copy
  <2>8. Expected[r] = PartyOf[i] /\ i = j /\ p = r
    BY <2>4, <2>7 DEF Signature
  <2>9. m = o
    BY <2>1, <2>2, <2>4, <2>6, <2>8, CopyWhole
  <2>. QED
    BY <2>1, <2>8, <2>9
<1>2. CASE protocol = "sigma_i"
  <2> DEFINE o == I!InitiatorMsg3(i, I!ResponderMsg2(p, Msg1(i)))
             c == I!Bundle(I!EncKey("enc_i", i, p), PartyOf[i], Signature(PartyOf[i], i, p),
                           Mac(MacKey(i, p), PartyOf[i]))
  <2>1. Conclusion(i, Answer(p, Msg1(i))) = o
    BY <1>2 DEF Answer, Conclusion
  <2>2. /\ o.bundle = c
        /\ DOMAIN o = {"step", "bundle"}
        /\ o = [f \in DOMAIN o |-> o[f]]
    BY DEF I!InitiatorMsg3, I!ResponderMsg2, Msg1, I!Msg2, I!Msg3, Signature, I!Signature, Mac,
           I!Mac, MacKey, I!MacKey, I!EncKey, I!Bundle, DerivedKey, I!DerivedKey, KeySlices,
           I!KeySlices, Shared, I!Shared,
           MacKeySize, I!MacKeySize, SessionKeySize, I!SessionKeySize, EncKeySize, I!EncKeySize
  <2>3. c.id = PartyOf[i] /\ c.sig = Signature(PartyOf[i], i, p)
    BY DEF I!Bundle
  <2>4. heard[r][1].eph = j
    BY DEF Msg1
  <2>5. /\ m.bundle # Damaged
        /\ m.bundle.id = Expected[r]
        /\ m.bundle.sig = Signature(m.bundle.id, j, r)
    BY <1>2, <2>4 DEF Authentic3, I!Msg3Authentic, I!Opens, Signature, I!Signature
  <2> HIDE DEF o, c
  <2>6. m.bundle = c
    BY <2>1, <2>2, <2>5 DEF Copy
  <2>7. Expected[r] = PartyOf[i] /\ i = j /\ p = r
    BY <2>3, <2>5, <2>6 DEF Signature
  <2>8. m = o
    BY <2>1, <2>2, <2>5, CopyWhole
  <2>. QED
    BY <2>1, <2>7, <2>8
<1>. QED
  BY <1>1, <1>2

-----------------------------------------------------------------------------
(* The steps of both protocols are events. *)

\* Going on without having read anything.
LEMMA NothingRead ==
  ASSUME Typed, NEW s \in Session, heard[s] = <<>>, heard' = [heard EXCEPT ![s] = @ \o <<>>]
  PROVE  heard' = heard
<1>1. heard' = [heard EXCEPT ![s] = <<>>]
  BY Reading
<1>. QED
  BY <1>1 DEF Typed

\* Sessions that have read nothing yet.
LEMMA NotYetRead ==
  ASSUME IInv
  PROVE  /\ \A i \in Initiator : phase[i] # "success" => heard[i] = <<>>
         /\ \A r \in Responder : phase[r] = "new" => heard[r] = <<>>
BY DEF IInv, InitiatorInv, ResponderInv

LEMMA SigmaSteps ==
  ASSUME IInv, protocol = "sigma", Next
  PROVE  Event
<1> USE DEF Sent, Becomes, Send, Answer, Conclusion, Authentic2, Authentic3
<1>0. Typed
  BY DEF IInv
<1>1. CASE \E i \in Initiator : InitiatorStep(i)
  <2>1. PICK i \in Initiator : InitiatorStep(i)
    BY <1>1
  <2>2. CASE InitiatorBegin(i)
    BY <1>0, <2>2, NothingRead, NotYetRead DEF InitiatorBegin, Event, Opening, Session
  <2>3. CASE InitiatorBeginFails(i)
    BY <2>3 DEF InitiatorBeginFails, Fault, Event, Failing, Session
  <2>4. ASSUME NEW m \in Sent(2), InitiatorFinish(i, m) PROVE Event
    BY <2>4 DEF InitiatorFinish, Event, Concluding
  <2>5. ASSUME NEW m \in Sent(2), InitiatorRejects(i, m) PROVE Event
    BY <1>0, <2>5, NothingRead, NotYetRead DEF InitiatorRejects, Event, Failing, Session
  <2>6. CASE InitiatorFinishFaults(i)
    BY <2>6 DEF InitiatorFinishFaults, Fault, Event, Failing, Session
  <2>. QED
    BY <2>1, <2>2, <2>3, <2>4, <2>5, <2>6 DEF InitiatorStep
<1>2. CASE \E r \in Responder : ResponderStep(r)
  <2>1. PICK r \in Responder : ResponderStep(r)
    BY <1>2
  <2>2. ASSUME NEW m \in Sent(1), ResponderRespond(r, m) PROVE Event
    BY <2>2 DEF ResponderRespond, Event, Answering, Agrees
  <2>3. ASSUME NEW m \in Sent(1), ResponderRespondFails(r, m) PROVE Event
    BY <1>0, <2>3, NothingRead, NotYetRead DEF ResponderRespondFails, Event, Failing, Session
  <2>4. CASE ResponderRespondFaults(r)
    BY <2>4 DEF ResponderRespondFaults, Fault, Event, Failing, Session
  <2>5. ASSUME NEW m \in Sent(3), ResponderFinish(r, m) PROVE Event
    BY <2>5 DEF ResponderFinish, Event, Accepting
  <2>6. ASSUME NEW m \in Sent(3), ResponderRejects(r, m) PROVE Event
    BY <2>6 DEF ResponderRejects, Event
  <2>7. ASSUME NEW m \in Sent(3), ResponderFinishFaults(r, m) PROVE Event
    <3>1. phase' = [phase EXCEPT ![r] = "open"] /\ phase[r] = "open" /\ UNCHANGED <<net, heard>>
      BY <2>7 DEF ResponderFinishFaults, Fault
    <3>2. phase' = phase
      BY <1>0, <3>1 DEF Typed
    <3>. QED
      BY <3>1, <3>2 DEF Event
  <2>. QED
    BY <2>1, <2>2, <2>3, <2>4, <2>5, <2>6, <2>7 DEF ResponderStep
<1>3. CASE \E m \in net : Damage(m)
  BY <1>3 DEF Damage, Event, Damaging
<1>. QED
  BY <1>1, <1>2, <1>3 DEF Next

LEMMA SigmaISteps ==
  ASSUME IInv, protocol = "sigma_i", I!Next
  PROVE  Event
<1> USE DEF I!Sent, I!Becomes, I!Send, Answer, Conclusion, Authentic2, Authentic3
<1>0. Typed
  BY DEF IInv
<1>1. CASE \E i \in Initiator : I!InitiatorStep(i)
  <2>1. PICK i \in Initiator : I!InitiatorStep(i)
    BY <1>1
  <2>2. CASE I!InitiatorBegin(i)
    BY <1>0, <2>2, NothingRead, NotYetRead
    DEF I!InitiatorBegin, Event, Opening, Session, Msg1, I!Msg1
  <2>3. CASE I!InitiatorBeginFails(i)
    BY <2>3 DEF I!InitiatorBeginFails, I!Fault, Event, Failing, Session
  <2>4. ASSUME NEW m \in I!Sent(2), I!InitiatorFinish(i, m) PROVE Event
    BY <2>4 DEF I!InitiatorFinish, Event, Concluding, Agrees, I!Agrees
  <2>5. ASSUME NEW m \in I!Sent(2), I!InitiatorRejects(i, m) PROVE Event
    BY <1>0, <2>5, NothingRead, NotYetRead DEF I!InitiatorRejects, Event, Failing, Session
  <2>6. CASE I!InitiatorFinishFaults(i)
    BY <2>6 DEF I!InitiatorFinishFaults, I!Fault, Event, Failing, Session
  <2>. QED
    BY <2>1, <2>2, <2>3, <2>4, <2>5, <2>6 DEF I!InitiatorStep
<1>2. CASE \E r \in Responder : I!ResponderStep(r)
  <2>1. PICK r \in Responder : I!ResponderStep(r)
    BY <1>2
  <2>2. ASSUME NEW m \in I!Sent(1), I!ResponderRespond(r, m) PROVE Event
    BY <2>2 DEF I!ResponderRespond, Event, Answering, I!Agrees
  <2>3. ASSUME NEW m \in I!Sent(1), I!ResponderRespondFails(r, m) PROVE Event
    BY <1>0, <2>3, NothingRead, NotYetRead DEF I!ResponderRespondFails, Event, Failing, Session
  <2>4. CASE I!ResponderRespondFaults(r)
    BY <2>4 DEF I!ResponderRespondFaults, I!Fault, Event, Failing, Session
  <2>5. ASSUME NEW m \in I!Sent(3), I!ResponderFinish(r, m) PROVE Event
    BY <2>5 DEF I!ResponderFinish, Event, Accepting
  <2>6. ASSUME NEW m \in I!Sent(3), I!ResponderRejects(r, m) PROVE Event
    BY <2>6 DEF I!ResponderRejects, Event
  <2>7. ASSUME NEW m \in I!Sent(3), I!ResponderFinishFaults(r, m) PROVE Event
    <3>1. phase' = [phase EXCEPT ![r] = "open"] /\ phase[r] = "open" /\ UNCHANGED <<net, heard>>
      BY <2>7 DEF I!ResponderFinishFaults, I!Fault
    <3>2. phase' = phase
      BY <1>0, <3>1 DEF Typed
    <3>. QED
      BY <3>1, <3>2 DEF Event
  <2>. QED
    BY <2>1, <2>2, <2>3, <2>4, <2>5, <2>6, <2>7 DEF I!ResponderStep
<1>3. CASE \E m \in net : I!Damage(m)
  BY <1>3 DEF I!Damage, Event, Damaging
<1>. QED
  BY <1>1, <1>2, <1>3 DEF I!Next

LEMMA Steps ==
  ASSUME IInv, EitherNext
  PROVE  Event /\ protocol' = protocol
BY SigmaSteps, SigmaISteps DEF EitherNext

-----------------------------------------------------------------------------
(* The invariant is inductive. *)

LEMMA InitIInv == EitherInit => IInv
BY DEF EitherInit, Init, IInv, Typed, InitiatorInv, ResponderInv, Session

\* Who sent a message is told by the message.
LEMMA Names ==
  /\ \A i : Msg1(i).eph = i
  /\ \A r, m : Answer(r, m).eph = r
BY DEF Msg1, Answer, ResponderMsg2, I!ResponderMsg2, Msg2, I!Msg2

\* What no event takes back.
Forward ==
  /\ protocol' = protocol
  /\ \A i \in Initiator : phase[i] # "new" => phase'[i] # "new"
  /\ \A i \in Initiator :
       phase[i] = "success" => phase'[i] = "success" /\ heard'[i] = heard[i]
  /\ \A r \in Responder :
       phase[r] \in {"open", "success"} => phase'[r] \in {"open", "success"} /\ Peer(r)' = Peer(r)

LEMMA EventsGoForward ==
  ASSUME IInv, Event, protocol' = protocol
  PROVE  Forward
<1>1. Typed
  BY DEF IInv
<1>2. Initiator \cap Responder = {}
  BY SessionAssumption
<1>3. ASSUME NEW i \in Initiator, Opening(i) PROVE Forward
  BY <1>1, <1>2, <1>3 DEF Opening, Forward, Typed, Session, Peer
<1>4. ASSUME NEW i \in Initiator, NEW m \in net, Concluding(i, m) PROVE Forward
  BY <1>1, <1>2, <1>4 DEF Concluding, Forward, Typed, Session, Peer
<1>5. ASSUME NEW r \in Responder, NEW m \in net, Answering(r, m) PROVE Forward
  BY <1>1, <1>2, <1>5 DEF Answering, Forward, Typed, Session, Peer
<1>6. ASSUME NEW r \in Responder, NEW m \in net, Accepting(r, m) PROVE Forward
  <2>1. PICK i \in Initiator : Peer(r) = i /\ heard[r] = <<Msg1(i)>>
    BY <1>6 DEF IInv, ResponderInv, Accepting
  <2>2. heard' = [heard EXCEPT ![r] = <<Msg1(i), m>>]
    BY <1>6, <2>1, Reading DEF Accepting
  <2>3. Peer(r)' = Peer(r)
    <3>1. heard'[r] = <<Msg1(i), m>>
      BY <1>1, <2>2 DEF Typed, Session
    <3>2. <<Msg1(i), m>> # <<>> /\ <<Msg1(i), m>>[1] = Msg1(i)
      OBVIOUS
    <3>. QED
      BY <2>1, <3>1, <3>2, Names DEF Peer
  <2>. QED
    BY <1>1, <1>2, <1>6, <2>2, <2>3 DEF Accepting, Forward, Typed, Session, Peer
<1>7. ASSUME NEW s \in Session, Failing(s) PROVE Forward
  BY <1>1, <1>2, <1>7 DEF Failing, Forward, Typed, Session, Peer
<1>8. ASSUME NEW m \in net, NEW f \in DOMAIN m, Damaging(m, f) PROVE Forward
  BY <1>8 DEF Damaging, Forward, Peer
<1>9. CASE UNCHANGED <<phase, heard, net>>
  BY <1>9 DEF Forward, Peer
<1>. QED
  BY <1>3, <1>4, <1>5, <1>6, <1>7, <1>8, <1>9 DEF Event

LEMMA GenuineStays ==
  ASSUME Forward, NEW m, Genuine(m)
  PROVE  Genuine(m)'
<1>1. CASE FromBegin(m)
  BY <1>1 DEF Forward, Genuine, FromBegin
<1>2. CASE FromResponder(m)
  <2>1. PICK r \in Responder : /\ phase[r] \in {"open", "success"}
                                /\ Copy(m, Answer(r, Msg1(Peer(r))))
    BY <1>2 DEF FromResponder
  <2>2. Answer(r, Msg1(Peer(r)))' = Answer(r, Msg1(Peer(r)))
    BY <2>1 DEF Forward, Answer
  <2>. QED
    BY <2>1, <2>2 DEF Forward, Genuine, FromResponder
<1>3. CASE FromInitiator(m)
  <2>1. PICK i \in Initiator : /\ phase[i] = "success"
                                /\ Copy(m, Conclusion(i, Answer(Peer(i), Msg1(i))))
    BY <1>3 DEF FromInitiator
  <2>2. Conclusion(i, Answer(Peer(i), Msg1(i)))' = Conclusion(i, Answer(Peer(i), Msg1(i)))
    BY <2>1 DEF Forward, Answer, Conclusion, Peer
  <2>. QED
    BY <2>1, <2>2 DEF Forward, Genuine, FromInitiator
<1>. QED
  BY <1>1, <1>2, <1>3 DEF Genuine

LEMMA TypedNext ==
  ASSUME IInv, Event, protocol' = protocol
  PROVE  Typed'
<1>1. Typed
  BY DEF IInv
<1>2. phase' \in [Session -> {"new", "open", "success", "failed"}]
  BY <1>1 DEF Event, Opening, Concluding, Answering, Accepting, Failing, Damaging, Typed
<1>3. heard' = [s \in Session |-> heard'[s]]
  BY <1>1 DEF Event, Opening, Concluding, Answering, Accepting, Failing, Damaging, Typed
<1>. QED
  BY <1>1, <1>2, <1>3 DEF Typed

\* The sessions that an event is not of.
LEMMA OthersStay ==
  ASSUME IInv, Forward, NEW a \in Session,
         \A s \in Session \ {a} : phase'[s] = phase[s] /\ heard'[s] = heard[s]
  PROVE  /\ \A i \in Initiator \ {a} : InitiatorInv(i)'
         /\ \A r \in Responder \ {a} : ResponderInv(r)'
<1>1. ASSUME NEW i \in Initiator \ {a} PROVE InitiatorInv(i)'
  <2>1. InitiatorInv(i)
    BY DEF IInv
  <2>2. phase'[i] = phase[i] /\ heard'[i] = heard[i] /\ Peer(i)' = Peer(i)
    BY DEF Session, Peer
  <2>. QED
    BY <2>1, <2>2 DEF InitiatorInv, Forward, Answer
<1>2. ASSUME NEW r \in Responder \ {a} PROVE ResponderInv(r)'
  <2>1. ResponderInv(r)
    BY DEF IInv
  <2>2. phase'[r] = phase[r] /\ heard'[r] = heard[r] /\ Peer(r)' = Peer(r)
    BY DEF Session, Peer
  <2>3. \A i \in Initiator : phase[i] = "success" => phase'[i] = "success" /\ Peer(i)' = Peer(i)
    BY DEF Forward, Peer
  <2>. QED
    BY <2>1, <2>2, <2>3 DEF ResponderInv, Forward, Answer, Conclusion
<1>. QED
  BY <1>1, <1>2

\* What the first message of a conversation tells a responder.
LEMMA FirstMessage ==
  ASSUME IInv, NEW r \in Responder, NEW m, Answering(r, m)
  PROVE  \E i \in Initiator : phase[i] # "new" /\ m = Msg1(i)
<1>1. PICK i \in Initiator : phase[i] # "new" /\ Copy(m, Msg1(i))
  <2>1. Genuine(m) /\ m.step = 1
    BY DEF IInv, Answering
  <2>. QED
    BY <2>1, CopyStep DEF Genuine, FromBegin, FromResponder, FromInitiator
<1> DEFINE o == Msg1(i)
<1>2. DOMAIN o = {"step", "eph"} /\ o = [f \in DOMAIN o |-> o[f]]
  BY DEF Msg1
<1>3. m.eph # Damaged
  BY DEF Answering
<1> HIDE DEF o
<1>4. m = o
  BY <1>1, <1>2, <1>3, CopyWhole DEF o
<1>. QED
  BY <1>1, <1>4 DEF o

\* What step 3 goes on with.
LEMMA SecondMessage ==
  ASSUME IInv, NEW i \in Initiator, NEW m, Concluding(i, m)
  PROVE  \E r \in Responder :
           /\ phase[r] \in {"open", "success"} /\ Peer(r) = i
           /\ PartyOf[r] = Expected[i] /\ m = Answer(r, Msg1(i))
<1>1. PICK r \in Responder : phase[r] \in {"open", "success"} /\ Copy(m, Answer(r, Msg1(Peer(r))))
  <2>1. Genuine(m) /\ m.step = 2
    BY DEF IInv, Concluding
  <2>. QED
    BY <2>1, CopyStep DEF Genuine, FromBegin, FromResponder, FromInitiator
<1>2. Peer(r) \in Initiator
  BY <1>1 DEF IInv, ResponderInv
<1>3. protocol \in {"sigma", "sigma_i"} /\ Authentic2(i, m)
  BY DEF IInv, Typed, Concluding
<1>. QED
  BY <1>1, <1>2, <1>3, Authentic2Genuine

\* What step 4 accepts.
LEMMA ThirdMessage ==
  ASSUME IInv, NEW r \in Responder, NEW m, Accepting(r, m)
  PROVE  \E i \in Initiator :
           /\ phase[i] = "success" /\ Peer(i) = r /\ Peer(r) = i
           /\ heard[r] = <<Msg1(i)>>
           /\ PartyOf[i] = Expected[r] /\ m = Conclusion(i, Answer(r, Msg1(i)))
<1>1. PICK i \in Initiator :
        phase[i] = "success" /\ Copy(m, Conclusion(i, Answer(Peer(i), Msg1(i))))
  <2>1. Genuine(m) /\ m.step = 3
    BY DEF IInv, Accepting
  <2>. QED
    BY <2>1, CopyStep DEF Genuine, FromBegin, FromResponder, FromInitiator
<1>2. Peer(i) \in Responder
  BY <1>1 DEF IInv, InitiatorInv
<1>3. PICK j \in Initiator : Peer(r) = j /\ heard[r] = <<Msg1(j)>>
  BY DEF IInv, ResponderInv, Accepting
<1>4. protocol \in {"sigma", "sigma_i"} /\ Authentic3(r, m)
  BY DEF IInv, Typed, Accepting
<1>. QED
  BY <1>1, <1>2, <1>3, <1>4, Authentic3Genuine

LEMMA EventKeepsIInv ==
  ASSUME IInv, Event, protocol' = protocol
  PROVE  IInv'
<1>1. Typed' /\ Typed /\ Forward
  BY TypedNext, EventsGoForward DEF IInv
<1>2. \A m \in net : Genuine(m)'
  BY <1>1, GenuineStays DEF IInv
<1>3. Initiator \cap Responder = {}
  BY SessionAssumption
<1>4. ASSUME NEW i \in Initiator, Opening(i) PROVE IInv'
  <2>1. InitiatorInv(i)'
    BY <1>1, <1>4, NotYetRead DEF Opening, InitiatorInv, Typed, Session
  <2>2. Genuine(Msg1(i))'
    BY <1>1, <1>4, CopyItself DEF Opening, Genuine, FromBegin, Typed, Session
  <2>3. /\ \A k \in Initiator \ {i} : InitiatorInv(k)'
        /\ \A r \in Responder \ {i} : ResponderInv(r)'
    BY <1>1, <1>4, OthersStay DEF Opening, Typed, Session
  <2>. QED
    BY <1>1, <1>2, <1>3, <1>4, <2>1, <2>2, <2>3 DEF IInv, Opening
<1>5. ASSUME NEW i \in Initiator, NEW m \in net, Concluding(i, m) PROVE IInv'
  <2>1. PICK r \in Responder :
          /\ phase[r] \in {"open", "success"} /\ Peer(r) = i
          /\ PartyOf[r] = Expected[i] /\ m = Answer(r, Msg1(i))
    BY <1>5, SecondMessage
  <2>2. phase'[i] = "success" /\ heard'[i] = <<m>>
    BY <1>1, <1>5, NotYetRead, Reading DEF Concluding, Typed, Session
  <2>3. Peer(i)' = r
    BY <2>1, <2>2, Names DEF Peer
  <2>4. /\ \A k \in Initiator \ {i} : InitiatorInv(k)'
        /\ \A q \in Responder \ {i} : ResponderInv(q)'
    BY <1>1, <1>5, OthersStay DEF Concluding, Typed, Session
  <2>5. Peer(r)' = i /\ phase'[r] \in {"open", "success"}
    BY <1>1, <2>1 DEF Forward
  <2>6. InitiatorInv(i)'
    BY <1>1, <2>1, <2>2, <2>3, <2>5 DEF InitiatorInv, Answer, Forward
  <2>7. Conclusion(i, m) = Conclusion(i, Answer(Peer(i), Msg1(i)))'
    BY <1>1, <2>1, <2>3 DEF Conclusion, Answer, Forward
  <2>8. ASSUME NEW o, o = Conclusion(i, m) PROVE Genuine(o)'
    <3>1. Copy(o, o)
      BY <2>8, CopyItself
    <3>2. Copy(o, Conclusion(i, Answer(Peer(i), Msg1(i)))')
      BY <2>7, <2>8, <3>1
    <3>. QED
      BY <2>2, <3>2 DEF Genuine, FromInitiator, Copy
  <2>. QED
    BY <1>1, <1>2, <1>3, <1>5, <2>4, <2>6, <2>8 DEF IInv, Concluding
<1>6. ASSUME NEW r \in Responder, NEW m \in net, Answering(r, m) PROVE IInv'
  <2>1. PICK i \in Initiator : phase[i] # "new" /\ m = Msg1(i)
    BY <1>6, FirstMessage
  <2>2. phase'[r] = "open" /\ heard'[r] = <<m>>
    BY <1>1, <1>6, NotYetRead, Reading DEF Answering, Typed, Session
  <2>3. Peer(r)' = i
    BY <2>1, <2>2, Names DEF Peer
  <2>4. /\ \A k \in Initiator \ {r} : InitiatorInv(k)'
        /\ \A q \in Responder \ {r} : ResponderInv(q)'
    BY <1>1, <1>6, OthersStay DEF Answering, Typed, Session
  <2>5. ResponderInv(r)'
    BY <1>1, <2>1, <2>2, <2>3 DEF ResponderInv, Forward
  <2>6. Answer(r, m) = Answer(r, Msg1(Peer(r)))'
    BY <1>1, <2>1, <2>3 DEF Answer, Forward
  <2>7. ASSUME NEW o, o = Answer(r, m) PROVE Genuine(o)'
    <3>1. Copy(o, o)
      BY <2>7, CopyItself
    <3>2. Copy(o, Answer(r, Msg1(Peer(r)))')
      BY <2>6, <2>7, <3>1
    <3>. QED
      BY <2>2, <3>2 DEF Genuine, FromResponder, Copy
  <2>. QED
    BY <1>1, <1>2, <1>3, <1>6, <2>4, <2>5, <2>7 DEF IInv, Answering
<1>7. ASSUME NEW r \in Responder, NEW m \in net, Accepting(r, m) PROVE IInv'
  <2>1. PICK i \in Initiator :
          /\ phase[i] = "success" /\ Peer(i) = r /\ Peer(r) = i
          /\ heard[r] = <<Msg1(i)>>
          /\ PartyOf[i] = Expected[r] /\ m = Conclusion(i, Answer(r, Msg1(i)))
    BY <1>7, ThirdMessage
  <2>2. phase'[r] = "success" /\ heard'[r] = <<Msg1(i), m>>
    BY <1>1, <1>7, <2>1, Reading, SMTT(30) DEF Accepting, Typed, Session
  <2>3. Peer(r)' = i
    BY <1>1, <1>7, <2>1 DEF Forward, Accepting
  <2>4. /\ \A k \in Initiator \ {r} : InitiatorInv(k)'
        /\ \A q \in Responder \ {r} : ResponderInv(q)'
    BY <1>1, <1>7, OthersStay DEF Accepting, Typed, Session
  <2>5. phase'[i] = "success" /\ Peer(i)' = r
    BY <1>1, <2>1 DEF Forward, Peer
  <2>6. ResponderInv(r)'
    BY <1>1, <2>1, <2>2, <2>3, <2>5 DEF ResponderInv, Forward, Answer, Conclusion
  <2>. QED
    BY <1>1, <1>2, <1>3, <1>7, <2>4, <2>6 DEF IInv, Accepting
<1>8. ASSUME NEW s \in Session, Failing(s) PROVE IInv'
  <2>1. /\ \A i \in Initiator \ {s} : InitiatorInv(i)'
        /\ \A r \in Responder \ {s} : ResponderInv(r)'
    BY <1>1, <1>8, OthersStay DEF Failing, Typed
  <2>2. phase'[s] = "failed" /\ heard'[s] = heard[s] /\ heard[s] = <<>>
    BY <1>1, <1>8, NotYetRead DEF Failing, Typed, Session
  <2>3. /\ s \in Initiator => InitiatorInv(s)'
        /\ s \in Responder => ResponderInv(s)'
    BY <2>2 DEF InitiatorInv, ResponderInv
  <2>. QED
    BY <1>1, <1>2, <1>8, <2>1, <2>3 DEF IInv, Failing
<1>9. ASSUME NEW m \in net, NEW f \in DOMAIN m, Damaging(m, f) PROVE IInv'
  <2>1. /\ \A i \in Initiator : InitiatorInv(i)'
        /\ \A r \in Responder : ResponderInv(r)'
    BY <1>1, <1>9 DEF IInv, Damaging, InitiatorInv, ResponderInv, Peer, Answer, Conclusion, Forward
  <2>2. Genuine([m EXCEPT ![f] = Damaged])
    BY <1>9, CopyDamaged DEF IInv, Damaging, Genuine, FromBegin, FromResponder, FromInitiator
  <2>3. Genuine([m EXCEPT ![f] = Damaged])'
    BY <1>1, <2>2, GenuineStays
  <2>. QED
    BY <1>1, <1>2, <1>9, <2>1, <2>3 DEF IInv, Damaging
<1>10. CASE UNCHANGED <<phase, heard, net>>
  <2>1. /\ \A i \in Initiator : InitiatorInv(i)'
        /\ \A r \in Responder : ResponderInv(r)'
    BY <1>1, <1>10 DEF IInv, InitiatorInv, ResponderInv, Peer, Answer, Conclusion, Forward
  <2>. QED
    BY <1>1, <1>2, <1>10, <2>1 DEF IInv
<1>. QED
  BY <1>4, <1>5, <1>6, <1>7, <1>8, <1>9, <1>10 DEF Event

\* What a session has read and what the network holds, whatever the network did.
THEOREM Invariance == EitherSpec => []IInv
<1>1. ASSUME IInv, [EitherNext]_<<vars, protocol>> PROVE IInv'
  <2>1. CASE EitherNext
    BY <1>1, <2>1, Steps, EventKeepsIInv
  <2>2. CASE UNCHANGED <<vars, protocol>>
    BY <1>1, <2>2, EventKeepsIInv DEF vars, Event
  <2>. QED
    BY <1>1, <2>1, <2>2
<1>. QED
  BY <1>1, InitIInv, PTL DEF EitherSpec

\* A session that succeeds read what its peer sent in this conversation.
THEOREM ReadUntouched == EitherSpec => []UntouchedInBoth
<1>1. ASSUME IInv PROVE UntouchedInBoth
  <2>1. ASSUME NEW i \in Succeeded(Initiator)
        PROVE  Peer(i) \in Responder /\ Peer(Peer(i)) = i /\ heard[i] = <<Answer(Peer(i), Msg1(i))>>
    BY <1>1, <2>1 DEF IInv, InitiatorInv, Succeeded
  <2>2. ASSUME NEW r \in Succeeded(Responder)
        PROVE  heard[r] = <<Msg1(Peer(r)), Conclusion(Peer(r), Answer(r, Msg1(Peer(r))))>>
    BY <1>1, <2>2 DEF IInv, ResponderInv, Succeeded
  <2>3. CASE protocol = "sigma"
    BY <2>1, <2>2, <2>3 DEF UntouchedInBoth, Untouched, Answer, Conclusion
  <2>4. CASE protocol = "sigma_i"
    <3>1. \A s \in Session : I!Peer(s) = Peer(s)
      BY DEF I!Peer, Peer
    <3>2. \A i : I!Msg1(i) = Msg1(i)
      BY DEF I!Msg1, Msg1
    <3>3. /\ I!Succeeded(Initiator) = Succeeded(Initiator)
          /\ I!Succeeded(Responder) = Succeeded(Responder)
      BY DEF I!Succeeded, Succeeded
    <3>. QED
      BY <2>1, <2>2, <2>4, <3>1, <3>2, <3>3
      DEF UntouchedInBoth, I!Untouched, Answer, Conclusion, Succeeded, Session
  <2>. QED
    BY <1>1, <2>3, <2>4 DEF IInv, Typed
<1>. QED
  BY <1>1, Invariance, PTL

\* A session key is of the two ends of a conversation, and has no byte in common
\* with a key the protocol uses.
THEOREM KeysOfAPair == EitherSpec => []KeysPair
<1>1. ASSUME IInv PROVE KeysPair
  <2> SUFFICES ASSUME NEW r \in Succeeded(Responder)
      PROVE  /\ {s \in Succeeded(Session) : KeyOf(s) = KeyOf(r)} = {r, Peer(r)}
             /\ \A s \in Succeeded(Session), purpose \in DOMAIN KeySlices \ {"session"} :
                  ~Overlap(KeyOf(r), DerivedKey(purpose, Shared(s, Peer(s))))
    BY DEF KeysPair
  <2>1. Initiator \cap Responder = {}
    BY SessionAssumption
  <2>2. r \in Responder /\ r \in Succeeded(Session)
    BY DEF Succeeded, Session
  <2>3. /\ Peer(r) \in Initiator /\ Peer(Peer(r)) = r
        /\ Peer(r) \in Succeeded(Session)
    BY <1>1 DEF IInv, ResponderInv, Succeeded, Session
  <2>4. \A s, t \in Succeeded(Session) :
          KeyOf(s) = KeyOf(t) <=> {s, Peer(s)} = {t, Peer(t)}
    BY DEF KeyOf, SessionKey, DerivedKey, Shared
  <2>5. KeyOf(Peer(r)) = KeyOf(r)
    BY <2>2, <2>3, <2>4
  <2>6. ASSUME NEW s \in Succeeded(Session), KeyOf(s) = KeyOf(r) PROVE s \in {r, Peer(r)}
    BY <2>2, <2>4, <2>6
  <2>7. {s \in Succeeded(Session) : KeyOf(s) = KeyOf(r)} = {r, Peer(r)}
    BY <2>2, <2>3, <2>5, <2>6
  <2>8. ASSUME NEW s \in Succeeded(Session), NEW purpose \in DOMAIN KeySlices \ {"session"}
        PROVE  ~Overlap(KeyOf(r), DerivedKey(purpose, Shared(s, Peer(s))))
    <3>1. purpose \in {"mac", "enc_r", "enc_i"}
      BY DEF KeySlices
    <3>2. KeyOf(r).slice = [first |-> 48, size |-> 32]
      BY DEF KeyOf, SessionKey, DerivedKey, KeySlices, MacKeySize, SessionKeySize
    <3>3. /\ KeySlices["mac"] = [first |-> 0, size |-> 48]
          /\ KeySlices["enc_r"] = [first |-> 80, size |-> 32]
          /\ KeySlices["enc_i"] = [first |-> 112, size |-> 32]
      BY DEF KeySlices, MacKeySize, SessionKeySize, EncKeySize
    <3>. QED
      BY <3>1, <3>2, <3>3 DEF Overlap, DerivedKey
  <2>. QED
    BY <2>7, <2>8
<1>. QED
  BY <1>1, Invariance, PTL

\* Either protocol, seen as offers and partners, is the agreement of Handshake.
THEOREM Refinement == EitherSpec => KeepsPromise
<1>1. Init => Agreement!HInit
  BY DEF Init, Agreement!HInit, AbsOffer, AbsPartner, Peer, Session
<1>2. ASSUME IInv, Event, protocol' = protocol PROVE [Agreement!HNext]_(Agreement!hvars)
  <2> USE DEF Agreement!hvars, Agreement!HNext, Agreement!Move
  <2>1. Typed /\ Forward
    BY <1>2, EventsGoForward DEF IInv
  <2>2. Initiator \cap Responder = {}
    BY SessionAssumption
  <2>3. ASSUME NEW i \in Initiator, Opening(i) PROVE Agreement!Offer(i)
    BY <2>3 DEF Opening, Agreement!Offer, AbsOffer, AbsPartner, Peer
  <2>4. ASSUME NEW i \in Initiator, NEW m \in net, Concluding(i, m) PROVE Agreement!HNext
    <3>1. PICK r \in Responder :
            /\ phase[r] \in {"open", "success"} /\ Peer(r) = i
            /\ PartyOf[r] = Expected[i] /\ m = Answer(r, Msg1(i))
      BY <1>2, <2>4, SecondMessage
    <3>2. heard' = [heard EXCEPT ![i] = <<m>>]
      BY <1>2, <2>1, <2>4, NotYetRead, Reading DEF Concluding
    <3>3. \A s \in Session \ {i} : Peer(s)' = Peer(s)
      BY <2>1, <3>2 DEF Peer, Typed
    <3>4. Peer(i)' = r
      BY <2>1, <3>1, <3>2, Names DEF Peer, Typed, Session
    <3>5. AbsOffer' = AbsOffer
      BY <2>2, <3>3 DEF AbsOffer, Session
    <3>6. AbsPartner' = [AbsPartner EXCEPT ![i] = r]
      BY <3>3, <3>4 DEF AbsPartner, Session
    <3>7. AbsOffer[r] = i
      BY <3>1 DEF AbsOffer
    <3>8. Agreement!Succeed(i, r)
      BY <2>4, <3>1, <3>5, <3>6, <3>7 DEF Agreement!Succeed, Concluding
    <3>. QED
      BY <3>8
  <2>5. ASSUME NEW r \in Responder, NEW m \in net, Answering(r, m) PROVE Agreement!HNext
    <3>1. PICK i \in Initiator : phase[i] # "new" /\ m = Msg1(i)
      BY <1>2, <2>5, FirstMessage
    <3>2. heard' = [heard EXCEPT ![r] = <<m>>]
      BY <1>2, <2>1, <2>5, NotYetRead, Reading DEF Answering
    <3>3. \A s \in Session \ {r} : Peer(s)' = Peer(s)
      BY <2>1, <3>2 DEF Peer, Typed
    <3>4. Peer(r)' = i
      BY <2>1, <3>1, <3>2, Names DEF Peer, Typed, Session
    <3>5. AbsPartner' = AbsPartner
      BY <2>2, <3>3 DEF AbsPartner, Session
    <3>6. AbsOffer' = [AbsOffer EXCEPT ![r] = i]
      BY <3>3, <3>4 DEF AbsOffer, Session
    <3>7. Agreement!Respond(r, i)
      BY <2>5, <3>1, <3>5, <3>6 DEF Agreement!Respond, Answering
    <3>. QED
      BY <3>7
  <2>6. ASSUME NEW r \in Responder, NEW m \in net, Accepting(r, m) PROVE Agreement!HNext
    <3>1. PICK i \in Initiator :
            /\ phase[i] = "success" /\ Peer(i) = r /\ Peer(r) = i
            /\ heard[r] = <<Msg1(i)>>
            /\ PartyOf[i] = Expected[r] /\ m = Conclusion(i, Answer(r, Msg1(i)))
      BY <1>2, <2>6, ThirdMessage
    <3>2. Peer(r)' = Peer(r)
      BY <2>1, <2>6 DEF Forward, Accepting
    <3>3. \A s \in Session \ {r} : Peer(s)' = Peer(s)
      BY <2>1, <2>6 DEF Accepting, Peer, Typed
    <3>4. AbsPartner' = AbsPartner /\ AbsOffer' = AbsOffer
      BY <2>2, <3>2, <3>3 DEF AbsPartner, AbsOffer, Session
    <3>5. AbsOffer[r] = i /\ AbsPartner[i] = r
      BY <3>1 DEF AbsOffer, AbsPartner
    <3>6. Agreement!Accept(r, i)
      BY <2>6, <3>1, <3>4, <3>5 DEF Agreement!Accept, Accepting
    <3>. QED
      BY <3>6
  <2>7. ASSUME NEW s \in Session, Failing(s) PROVE Agreement!Fail(s)
    BY <2>7 DEF Failing, Agreement!Fail, AbsOffer, AbsPartner, Peer
  <2>8. ASSUME NEW m \in net, NEW f \in DOMAIN m, Damaging(m, f) PROVE UNCHANGED Agreement!hvars
    BY <2>8 DEF Damaging, AbsOffer, AbsPartner, Peer
  <2>9. CASE UNCHANGED <<phase, heard, net>>
    BY <2>9 DEF AbsOffer, AbsPartner, Peer
  <2>. QED
    BY <1>2, <2>3, <2>4, <2>5, <2>6, <2>7, <2>8, <2>9 DEF Event, Session
<1>3. ASSUME IInv, [EitherNext]_<<vars, protocol>> PROVE [Agreement!HNext]_(Agreement!hvars)
  <2>1. CASE EitherNext
    BY <1>2, <1>3, <2>1, Steps
  <2>2. CASE UNCHANGED <<vars, protocol>>
    BY <1>2, <1>3, <2>2 DEF vars, Event
  <2>. QED
    BY <1>3, <2>1, <2>2
<1>. QED
  BY <1>1, <1>3, Invariance, PTL DEF EitherSpec, EitherInit, KeepsPromise, Agreement!HSpec
=============================================================================
