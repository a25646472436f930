---------------------------- MODULE LibraryCalls ----------------------------
(***************************************************************************)
(* Threads that call the library at the same time.  Every function that    *)
(* needs a key acquires one in the provider's store of its family, holds   *)
(* it in a PsaKeyHandle, makes its provider calls, and destroys it as the  *)
(* handle goes out of scope, whatever way the call ends.  The stores are   *)
(* the atomic tables that KeyStore implements; an id says by its range     *)
(* which store it is of.                                                   *)
(***************************************************************************)
EXTENDS CallTemplates, FiniteSets

CONSTANTS
  Thread,  \* the threads that call the library
  Fn,      \* the library functions they call
  Cap,     \* per family: the slots of its key store
  Nobody   \* no thread

ASSUME LibraryAssumption ==
  /\ Fn \subseteq DOMAIN Library
  /\ Cap \in [Family -> 1 .. 16]
  /\ Nobody \notin Thread

VARIABLES
  process,  \* "up", or "terminated"
  table,    \* per family and id: whose key is kept there, and what of it
  pc,       \* per thread: "idle", "checks", "running" or "unwinding"
  request,  \* per thread: the function it is in, and its arguments
  handle,   \* per thread: the id its PsaKeyHandle owns, or 0
  step,     \* per thread: the provider call it is at
  answer    \* per thread: what its last call answered

vars == <<process, table, pc, request, handle, step, answer>>

\* The first id of each store.
Base == [sym |-> 1, ec |-> 32768, rsa |-> 49152, pqc |-> 57344]
Ids(f) == Base[f] .. (Base[f] + Cap[f] - 1)

\* Deviation: PQC keys are not told apart from symmetric ones.
StoreOfNoPqc(id) ==
  CASE id \in Ids("ec") -> "ec"
    [] id \in Ids("rsa") -> "rsa"
    [] OTHER -> "sym"

\* The store an id is looked up and destroyed in.
StoreOf(id) ==
  CASE id \in Ids("ec") -> "ec"
    [] id \in Ids("rsa") -> "rsa"
    [] id \in Ids("pqc") -> "pqc"
    [] OTHER -> "sym"

NoEntry == [owner |-> Nobody, kind |-> "none"]

Init ==
  /\ process = "up"
  /\ table = [f \in Family |-> [id \in Ids(f) |-> NoEntry]]
  /\ pc = [t \in Thread |-> "idle"]
  /\ request = [t \in Thread |-> NoRequest]
  /\ handle = [t \in Thread |-> 0]
  /\ step = [t \in Thread |-> 1]
  /\ answer = [t \in Thread |-> "none"]

-----------------------------------------------------------------------------

Goto(t, from, to) == pc[t] = from /\ pc' = [pc EXCEPT ![t] = to]
Answer(t, a) == answer' = [answer EXCEPT ![t] = a]

Free(f) == {id \in Ids(f) : table[f][id] = NoEntry}

Call(t) ==
  /\ Goto(t, "idle", "checks")
  /\ \E r \in Requests(Fn) : request' = [request EXCEPT ![t] = r]
  /\ step' = [step EXCEPT ![t] = 1]
  /\ Answer(t, "none")
  /\ UNCHANGED <<process, table, handle>>

\* The early returns before there is a key.
CheckFails(t) ==
  /\ Goto(t, "checks", "idle")
  /\ \E e \in Template(request[t]).checks : Answer(t, e)
  /\ request' = [request EXCEPT ![t] = NoRequest]
  /\ UNCHANGED <<process, table, handle, step>>

\* Deviation: a key generated for PQC is stored without its public half.
KeptPrivateOnly(r) == IF Template(r).kind = "Pair" THEN "Private" ELSE Template(r).kind

\* What the store keeps under the id.
Kept(r) == Template(r).kind

\* import_key or generate_key, and the PsaKeyHandle built on its id.
Acquire(t) ==
  LET r == request[t]
      f == Template(r).family IN
  /\ Goto(t, "checks", "running")
  /\ r.fit
  /\ \E id \in Free(f) :
       /\ table' = [table EXCEPT ![f][id] = [owner |-> t, kind |-> Kept(r)]]
       /\ handle' = [handle EXCEPT ![t] = id]
  /\ UNCHANGED <<process, request, step, answer>>

\* The provider does not take the key, or its store is full.
AcquireFails(t) ==
  LET r == request[t] IN
  /\ Goto(t, "checks", "idle")
  /\ ~r.fit \/ Free(Template(r).family) = {}
  /\ Answer(t, AcquireError[Template(r).acquire])
  /\ request' = [request EXCEPT ![t] = NoRequest]
  /\ UNCHANGED <<process, table, handle, step>>

-----------------------------------------------------------------------------
(* One provider call on the key. *)

Op(t) == Ops(request[t])[step[t]]

\* The provider finds the key under the handle's id, of a kind the call takes.
Resolves(t) ==
  LET f == StoreOf(handle[t]) IN
  /\ f = Template(request[t]).family
  /\ table[f][handle[t]].kind \in Accepts(f, Op(t).op)

\* The statuses the call can answer.  Any call can answer err_invalid_arg: the
\* copy of the key out of its slot may fail to allocate.
Statuses(t) ==
  {"err_invalid_arg"}
    \cup {s \in {"ok"} : Resolves(t) /\ (Op(t).op \in Judges => request[t].genuine)}
    \cup {s \in {"err_invalid_sig"} : Resolves(t) /\ Op(t).op \in Judges /\ ~request[t].genuine}

OpSucceeds(t) ==
  /\ pc[t] = "running"
  /\ "ok" \in Statuses(t)
  /\ IF step[t] < Len(Ops(request[t]))
     THEN /\ step' = [step EXCEPT ![t] = @ + 1]
          /\ UNCHANGED <<pc, answer>>
     ELSE /\ Goto(t, "running", "unwinding")
          /\ Answer(t, Success(request[t]))
          /\ UNCHANGED step
  /\ UNCHANGED <<process, table, request, handle>>

\* Deviation: the provider's status is handed on.
VerdictForwards(t, s) ==
  IF s \in Template(request[t]).lenient THEN "false" ELSE s

\* Deviation: every failed verification answers false.
VerdictAlwaysFalse(t, s) ==
  IF Template(request[t]).lenient # {} THEN "false" ELSE Op(t).error

\* What a function answers for the status of a failed call.
Verdict(t, s) ==
  IF s \in Template(request[t]).lenient THEN "false" ELSE Op(t).error

\* Deviation: the failed call is made again.
OpFailsRetried(t) ==
  /\ pc[t] = "running"
  /\ \E s \in Statuses(t) \ {"ok"} :
       Answer(t, IF answer[t] = "none" THEN Verdict(t, s) ELSE "none")
  /\ UNCHANGED <<process, table, pc, request, handle, step>>

OpFails(t) ==
  /\ Goto(t, "running", "unwinding")
  /\ \E s \in Statuses(t) \ {"ok"} : Answer(t, Verdict(t, s))
  /\ UNCHANGED <<process, table, request, handle, step>>

\* The buffer for the output fails to allocate: std::bad_alloc runs up through
\* the library function, or into the noexcept of the provider call.
OpThrows(t) ==
  /\ pc[t] = "running"
  /\ IF Op(t).op \in NoExcept
     THEN process' = "terminated" /\ UNCHANGED <<pc, answer>>
     ELSE Goto(t, "running", "unwinding") /\ Answer(t, "bad_alloc") /\ UNCHANGED process
  /\ UNCHANGED <<table, request, handle, step>>

\* Deviation: an early error return passes the handle's destructor by.
DestructSkipped(t) ==
  /\ Goto(t, "unwinding", "idle")
  /\ table' = IF answer[t] \in {"output", "true"}
              THEN [table EXCEPT ![StoreOf(handle[t])][handle[t]] = NoEntry]
              ELSE table
  /\ handle' = [handle EXCEPT ![t] = 0]
  /\ request' = [request EXCEPT ![t] = NoRequest]
  /\ UNCHANGED <<process, step, answer>>

\* ~PsaKeyHandle: destroy_key in the store of the id.  A store ignores an id that
\* is not one of its own.
Destruct(t) ==
  LET f == StoreOf(handle[t]) IN
  /\ Goto(t, "unwinding", "idle")
  /\ table' = IF handle[t] \in Ids(f) THEN [table EXCEPT ![f][handle[t]] = NoEntry] ELSE table
  /\ handle' = [handle EXCEPT ![t] = 0]
  /\ request' = [request EXCEPT ![t] = NoRequest]
  /\ UNCHANGED <<process, step, answer>>

-----------------------------------------------------------------------------

Step(t) ==
  /\ process = "up"
  /\ CheckFails(t) \/ Acquire(t) \/ AcquireFails(t)
       \/ OpSucceeds(t) \/ OpFails(t) \/ OpThrows(t) \/ Destruct(t)

Next == \E t \in Thread : (process = "up" /\ Call(t)) \/ Step(t)

Spec == Init /\ [][Next]_vars

\* A thread inside a library call keeps running; no call of the library waits for
\* another one's key.
FairSpec == Spec /\ \A t \in Thread : WF_vars(Step(t))

-----------------------------------------------------------------------------

AllErrors == UNION {Template([fn |-> f]).checks \cup Errors([fn |-> f]) : f \in DOMAIN Library}
               \cup {"KeyImportFailed", "KeyGenerationFailed"}
Kinds == {"Secret", "Private", "Public", "Pair"}

\* Every variable has its type.
TypeOK ==
  /\ process \in {"up", "terminated"}
  /\ \A f \in Family :
       table[f] \in [Ids(f) -> [owner : Thread, kind : Kinds] \cup {NoEntry}]
  /\ pc \in [Thread -> {"idle", "checks", "running", "unwinding"}]
  /\ request \in [Thread -> Requests(Fn) \cup {NoRequest}]
  /\ handle \in [Thread -> {0} \cup UNION {Ids(f) : f \in Family}]
  /\ step \in [Thread -> 1 .. 2]
  /\ answer \in [Thread -> AllErrors \cup {"none", "output", "true", "false", "bad_alloc"}]

\* A call that holds a handle finds its own key under it, in the store its id
\* leads to and in every form its provider calls ask for, whatever the other
\* threads import and destroy meanwhile: only want of memory or bad input can
\* make a provider call of the library fail.
HandleResolves ==
  \A t \in Thread :
    pc[t] \in {"running", "unwinding"} =>
      LET f == StoreOf(handle[t]) IN
      /\ handle[t] \in Ids(f)
      /\ f = Template(request[t]).family
      /\ table[f][handle[t]].owner = t
      /\ \A k \in 1 .. Len(Ops(request[t])) :
           table[f][handle[t]].kind \in Accepts(f, Ops(request[t])[k].op)

\* No key outlives the call that acquired it (README "Memory safety": destroyed
\* even when an error is returned mid-function): every slot in use is the one
\* under the handle of its owner, whose call is still in progress.
NoLeak ==
  \A f \in Family : \A id \in Ids(f) :
    table[f][id] # NoEntry =>
      LET t == table[f][id].owner IN
      pc[t] \in {"running", "unwinding"} /\ handle[t] = id

\* The verifications whose comment says that false means an invalid signature
\* answer false for nothing else (pqc_dsa.hpp, hmac_verify_impl): a provider call
\* that fails for want of memory is an error and not a verdict.
VerdictTruthful ==
  \A t \in Thread :
    pc[t] = "unwinding" /\ answer[t] = "false"
      /\ request[t].fn \in {"hmac_verify", "ml_dsa_verify"} => ~request[t].genuine

\* The library call as a lease of a place in its family's store.
Leases == INSTANCE KeyLeases WITH
  lease <- [f \in Family |->
              {t \in Thread : pc[t] \in {"running", "unwinding"} /\ Template(request[t]).family = f}],
  phase <- [t \in Thread |-> CASE pc[t] = "idle" -> "idle"
                               [] pc[t] = "checks" -> "called"
                               [] OTHER -> "leased"],
  reply <- [t \in Thread |-> IF pc[t] = "idle" THEN answer[t] ELSE "none"]

\* Seen from the callers, the library is KeyLeases: a key that the provider
\* accepts is turned away only when as many other calls of its family as there
\* are slots are in progress, and every answer is explained by the call's own
\* key and arguments, however the calls interleave.
KeepsPromise == Leases!LSpec

\* No call waits for another: every call returns, unless the process ends.
CallsReturn ==
  \A t \in Thread : pc[t] # "idle" ~> pc[t] = "idle" \/ process = "terminated"

\* README "Error handling": every function that can fail returns an error, "no
\* exceptions", "there is nothing to catch".
NothingToCatch == \A t \in Thread : answer[t] # "bad_alloc"

-----------------------------------------------------------------------------
(* What TLC gives the constants: every function, or one for each store and  *)
(* a second one of the post-quantum store, which generates; and stores of   *)
(* one slot each, where an import that meets another key finds its store    *)
(* full.                                                                    *)

AllFn == DOMAIN Library
OnePerFamily == {"hmac_verify", "ecdsa_verify", "rsa_oaep_decrypt", "ml_kem_generate_key",
                 "ml_kem_encapsulate"}
OneSlot == [f \in Family |-> 1]
=============================================================================
