------------------------------ MODULE KeyTable ------------------------------
(***************************************************************************)
(* What a key store of a provider promises to the threads that share it:   *)
(* a table from key ids to key material on which import, get and destroy   *)
(* take effect at one instant between the call and its return.  A thread   *)
(* that was called but not served yet is "called", one whose operation has *)
(* taken effect is "done".  KeyStore implements this specification.        *)
(***************************************************************************)
EXTENDS StoreInterface

VARIABLES
  table,      \* the key under each id, or NoKey
  phase,      \* per thread: "idle", "called" or "done"
  call,       \* per thread: the operation requested
  res         \* per thread: the answer to its last operation

tvars == <<table, phase, call, res>>

TInit ==
  /\ table = [id \in Id |-> NoKey]
  /\ phase = [t \in Thread |-> "idle"]
  /\ call = [t \in Thread |-> NoCall]
  /\ res = [t \in Thread |-> Code("none")]

Invoke(t) ==
  /\ phase[t] = "idle"
  /\ \E c \in Calls : call' = [call EXCEPT ![t] = c]
  /\ phase' = [phase EXCEPT ![t] = "called"]
  /\ res' = [res EXCEPT ![t] = Code("none")]
  /\ UNCHANGED table

Reject(t) ==
  /\ phase[t] = "called"
  /\ ~Acceptable(call[t])
  /\ res' = [res EXCEPT ![t] = Rejection(call[t])]
  /\ call' = [call EXCEPT ![t] = NoCall]
  /\ phase' = [phase EXCEPT ![t] = "idle"]
  /\ UNCHANGED table

Serving(t, op) == phase[t] = "called" /\ Acceptable(call[t]) /\ call[t].op = op

\* The operation of t takes effect: it answers a and leaves the table tab.
Serve(t, a, tab) ==
  /\ phase' = [phase EXCEPT ![t] = "done"]
  /\ res' = [res EXCEPT ![t] = a]
  /\ table' = tab
  /\ UNCHANGED call

\* An import takes a free id; it fails only when no id is free.
DoImport(t) ==
  /\ Serving(t, "import")
  /\ \/ \E id \in Id :
          /\ table[id] = NoKey
          /\ Serve(t, Answer("ok", id, NoKey, NoKey),
                   [table EXCEPT ![id] = call[t].key])
     \/ /\ \A id \in Id : table[id] # NoKey
        /\ Serve(t, Code("zero_id"), table)

\* A get returns the key under the id, whole, or an error that says why not.
DoGet(t) ==
  /\ Serving(t, "get")
  /\ LET k == table[call[t].id] IN
     \/ k = NoKey /\ Serve(t, Code("InvalidArgument"), table)
     \/ k # NoKey /\ Serve(t, Answer("ok", 0, k, k), table)
     \/ k # NoKey /\ Serve(t, Code("InternalError"), table)

DoDestroy(t) ==
  /\ Serving(t, "destroy")
  /\ Serve(t, Code("ok"), [table EXCEPT ![call[t].id] = NoKey])

Return(t) ==
  /\ phase[t] = "done"
  /\ phase' = [phase EXCEPT ![t] = "idle"]
  /\ call' = [call EXCEPT ![t] = NoCall]
  /\ UNCHANGED <<table, res>>

TNext == \E t \in Thread :
           Invoke(t) \/ Reject(t) \/ DoImport(t) \/ DoGet(t) \/ DoDestroy(t) \/ Return(t)

TSpec == TInit /\ [][TNext]_tvars
=============================================================================
