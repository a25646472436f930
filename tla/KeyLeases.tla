------------------------------ MODULE KeyLeases ------------------------------
(***************************************************************************)
(* What the library promises to the threads that call it.  A call that     *)
(* works through a key leases a place in its family's key store for as     *)
(* long as it runs, no longer, however it ends; a key the provider accepts *)
(* is turned away only when every place is leased by another call; and the *)
(* answer is one that the function's own key and arguments explain.        *)
(***************************************************************************)
EXTENDS CallTemplates, FiniteSets

CONSTANTS
  Thread,  \* the threads that call the library
  Fn,      \* the library functions they call
  Cap      \* per family: the places of its key store

VARIABLES
  process,  \* "up", or "terminated" by an exception that leaves a noexcept call
  lease,    \* per family: the threads that hold a place
  phase,    \* per thread: "idle", "called" or "leased"
  request,  \* per thread: the function, and the facts about its arguments
  reply     \* per thread: the answer to its last call

lvars == <<process, lease, phase, request, reply>>

LInit ==
  /\ process = "up"
  /\ lease = [f \in Family |-> {}]
  /\ phase = [t \in Thread |-> "idle"]
  /\ request = [t \in Thread |-> NoRequest]
  /\ reply = [t \in Thread |-> "none"]

Ask(t) ==
  /\ phase[t] = "idle"
  /\ \E r \in Requests(Fn) : request' = [request EXCEPT ![t] = r]
  /\ phase' = [phase EXCEPT ![t] = "called"]
  /\ reply' = [reply EXCEPT ![t] = "none"]
  /\ UNCHANGED <<process, lease>>

Finish(t, a) ==
  /\ reply' = [reply EXCEPT ![t] = a]
  /\ phase' = [phase EXCEPT ![t] = "idle"]
  /\ request' = [request EXCEPT ![t] = NoRequest]
  /\ UNCHANGED process

\* The places of t's family.
Leased(t) == lease[Template(request[t]).family]
Full(t) == Cardinality(Leased(t)) = Cap[Template(request[t]).family]

Lease(t) ==
  /\ phase[t] = "called"
  /\ request[t].fit
  /\ ~Full(t)
  /\ lease' = [lease EXCEPT ![Template(request[t]).family] = @ \cup {t}]
  /\ phase' = [phase EXCEPT ![t] = "leased"]
  /\ UNCHANGED <<process, request, reply>>

TurnAway(t) ==
  /\ phase[t] = "called"
  /\ \/ \E e \in Template(request[t]).checks : Finish(t, e)
     \/ /\ ~request[t].fit \/ Full(t)
        /\ Finish(t, AcquireError[Template(request[t]).acquire])
  /\ UNCHANGED lease

\* The answers that the key and the arguments of a call explain: its output only
\* for input that passes its check, false only for input that does not, unless
\* the function takes a failed provider call for a failed check.
Explains(r, a) ==
  \/ a = Success(r) /\ (Checks(r) => r.genuine)
  \/ /\ a = "false"
     /\ Template(r).lenient # {}
     /\ ~r.genuine \/ "err_invalid_arg" \in Template(r).lenient
  \/ a \in Errors(r)
  \/ a = "bad_alloc"

Give(t) ==
  /\ phase[t] = "leased"
  /\ lease' = [lease EXCEPT ![Template(request[t]).family] = @ \ {t}]
  /\ \E a \in {Success(request[t]), "false", "bad_alloc"} \cup Errors(request[t]) :
       Explains(request[t], a) /\ Finish(t, a)

\* An allocation failure inside a noexcept provider call ends the process.
Abort(t) ==
  /\ phase[t] = "leased"
  /\ MayTerminate(request[t])
  /\ process' = "terminated"
  /\ UNCHANGED <<lease, phase, request, reply>>

LNext ==
  /\ process = "up"
  /\ \E t \in Thread : Ask(t) \/ Lease(t) \/ TurnAway(t) \/ Give(t) \/ Abort(t)

LSpec == LInit /\ [][LNext]_lvars
=============================================================================
