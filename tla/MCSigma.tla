------------------------------ MODULE MCSigma ------------------------------
EXTENDS SigmaProtocols, TLC

CONSTANTS i1, i2, r1, r2, alice, bob, carol

\* alice opens two sessions, one to bob and one to carol; both bob and carol run
\* a session of their own that expects alice.
MCPartyOf == i1 :> alice @@ i2 :> alice @@ r1 :> bob @@ r2 :> carol
MCExpected == i1 :> bob @@ i2 :> carol @@ r1 :> alice @@ r2 :> alice

\* alice opens a session to bob, carol opens one to bob; bob expects each once.
PeersPartyOf == i1 :> alice @@ i2 :> carol @@ r1 :> bob @@ r2 :> bob
PeersExpected == i1 :> bob @@ i2 :> bob @@ r1 :> alice @@ r2 :> carol

\* The fairness of the protocol that runs.
Finishes(r) ==
  /\ UNCHANGED protocol
  /\ \/ protocol = "sigma" /\ \E m \in Sent(3) : ResponderFinish(r, m)
     \/ protocol = "sigma_i" /\ \E m \in Sent(3) : I!ResponderFinish(r, m)

MCSpec ==
  /\ EitherSpec
  /\ \A r \in Responder : WF_<<vars, protocol>>(Finishes(r))

\* ErrorOnFault is about SIGMA alone.
SigmaSpec == protocol = "sigma" /\ MCSpec
=============================================================================
