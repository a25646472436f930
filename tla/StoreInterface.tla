--------------------------- MODULE StoreInterface ---------------------------
(***************************************************************************)
(* The interface of a provider's key store: the ids it hands out, the      *)
(* calls threads make, and the answers they get.  KeyTable and KeyStore    *)
(* share it.                                                               *)
(***************************************************************************)
EXTENDS Integers

CONSTANTS
  Thread,     \* the threads that call the store
  Key,        \* key material that fits a slot
  Oversized,  \* key material longer than a slot
  Capacity,   \* slots of the store
  IdBase,     \* first key id of the store
  NoKey,      \* zeroed key bytes
  Nobody      \* no thread

ASSUME StoreAssumption ==
  /\ Capacity \in Nat \ {0}
  /\ IdBase \in Nat \ {0}
  /\ NoKey \notin Key \cup Oversized
  /\ Key \cap Oversized = {}
  /\ Nobody \notin Thread

Id == IdBase .. (IdBase + Capacity - 1)
AnyId == 0 .. (IdBase + Capacity)

ImportCall(k) == [op |-> "import", key |-> k, id |-> 0]
GetCall(id) == [op |-> "get", key |-> NoKey, id |-> id]
DestroyCall(id) == [op |-> "destroy", key |-> NoKey, id |-> id]
NoCall == [op |-> "none", key |-> NoKey, id |-> 0]
Calls ==    {ImportCall(k) : k \in Key \cup Oversized}
       \cup {GetCall(id) : id \in AnyId}
       \cup {DestroyCall(id) : id \in AnyId}

\* An answer: its code, the id an import returns, the bytes and the length a
\* get returns.
Answer(c, id, d, l) == [code |-> c, id |-> id, data |-> d, len |-> l]
Code(c) == Answer(c, 0, NoKey, NoKey)

\* The argument checks a store makes before it takes its lock.
Acceptable(c) ==
  IF c.op = "import" THEN c.key \in Key ELSE c.id \in Id

Rejection(c) ==
  Code(CASE c.op = "import" -> "zero_id"
         [] c.op = "get" -> "InvalidArgument"
         [] OTHER -> "ok")
=============================================================================
