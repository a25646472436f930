------------------------------ MODULE Handshake ------------------------------
(***************************************************************************)
(* What SIGMA and SIGMA-I promise their callers, whatever the network      *)
(* loses, repeats, reorders, delivers to another session or damages.  An   *)
(* initiator's session succeeds only with a responder's session that       *)
(* answered its own offer, under the identity it expects; a responder's    *)
(* session accepts only an initiator's session that succeeded with it,     *)
(* under the identity it expects.  Sessions pair off, and only the two of  *)
(* a pair hold the same session key.                                       *)
(***************************************************************************)
CONSTANTS
  Initiator, Responder, PartyOf, Expected,
  Nobody      \* no session

VARIABLES
  phase,      \* per session: "new", "open", "success" or "failed"
  offer,      \* per responder: the initiator whose offer it answered, or Nobody
  partner     \* per initiator: the responder it succeeded with, or Nobody

hvars == <<phase, offer, partner>>

HInit ==
  /\ phase = [s \in Initiator \cup Responder |-> "new"]
  /\ offer = [r \in Responder |-> Nobody]
  /\ partner = [i \in Initiator |-> Nobody]

Move(s, from, to) == phase[s] = from /\ phase' = [phase EXCEPT ![s] = to]

Offer(i) == Move(i, "new", "open") /\ UNCHANGED <<offer, partner>>

\* A responder answers an offer that was made, as often as it comes.
Respond(r, i) ==
  /\ phase[i] # "new"
  /\ Move(r, "new", "open")
  /\ offer' = [offer EXCEPT ![r] = i]
  /\ UNCHANGED partner

\* Agreement, as the initiator sees it.
Succeed(i, r) ==
  /\ offer[r] = i
  /\ PartyOf[r] = Expected[i]
  /\ Move(i, "open", "success")
  /\ partner' = [partner EXCEPT ![i] = r]
  /\ UNCHANGED offer

\* Agreement, as the responder sees it: by now both know who the other is.
Accept(r, i) ==
  /\ offer[r] = i
  /\ partner[i] = r
  /\ PartyOf[i] = Expected[r]
  /\ Move(r, "open", "success")
  /\ UNCHANGED <<offer, partner>>

Fail(s) ==
  /\ Move(s, "new", "failed") \/ Move(s, "open", "failed")
  /\ UNCHANGED <<offer, partner>>

HNext ==
  \/ \E i \in Initiator : Offer(i)
  \/ \E i \in Initiator, r \in Responder : Respond(r, i) \/ Succeed(i, r) \/ Accept(r, i)
  \/ \E s \in Initiator \cup Responder : Fail(s)

HSpec == HInit /\ [][HNext]_hvars
=============================================================================
