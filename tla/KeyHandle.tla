------------------------------ MODULE KeyHandle ------------------------------
(***************************************************************************)
(* PsaKeyHandle: the move-only owner of one provider key.  A handle is a   *)
(* C++ object that may not exist yet, may own no key, or owns one; the     *)
(* provider reuses the id of a destroyed key at its next import, so that a *)
(* handle which still believes in an id it gave away would destroy a       *)
(* stranger's key.                                                         *)
(***************************************************************************)
CONSTANTS
  Handle,  \* the handle objects
  KeyId,   \* the ids the provider hands out
  NullId   \* null_key_id()

\* What the constants have to be.
HandleAssumption == NullId \notin KeyId

VARIABLES
  live,    \* the keys in the provider's store
  exists,  \* the handles between their constructor and their destructor
  id_,     \* per handle: the id it remembers
  valid_   \* the handles that own the key under their id

vars == <<live, exists, id_, valid_>>

Init ==
  /\ live = {}
  /\ exists = {}
  /\ id_ = [h \in Handle |-> NullId]
  /\ valid_ = {}

\* Provider::destroy_key, called only by a handle that believes it owns the key.
Destroyed(h) == IF h \in valid_ THEN live \ {id_[h]} ELSE live

-----------------------------------------------------------------------------

DefaultConstruct(h) ==
  /\ h \notin exists
  /\ exists' = exists \cup {h}
  /\ id_' = [id_ EXCEPT ![h] = NullId]
  /\ UNCHANGED <<live, valid_>>

\* import_key or generate_key returns the id of a free slot, and the handle
\* takes it at once.
Wrap(h, id) ==
  /\ h \notin exists
  /\ id \notin live
  /\ live' = live \cup {id}
  /\ exists' = exists \cup {h}
  /\ id_' = [id_ EXCEPT ![h] = id]
  /\ valid_' = valid_ \cup {h}

\* h takes over what other owns; other forgets it.
TakeOver(h, other) ==
  /\ id_' = [id_ EXCEPT ![h] = id_[other]]
  /\ valid_' = (valid_ \ {h, other}) \cup (IF other \in valid_ THEN {h} ELSE {})

MoveConstruct(h, other) ==
  /\ h \notin exists
  /\ other \in exists
  /\ exists' = exists \cup {h}
  /\ TakeOver(h, other)
  /\ UNCHANGED live

\* Deviation: the key the target owned is forgotten, not destroyed.
MoveAssignDrops(h, other) ==
  /\ {h, other} \subseteq exists
  /\ h # other
  /\ TakeOver(h, other)
  /\ UNCHANGED <<live, exists>>

MoveAssign(h, other) ==
  /\ {h, other} \subseteq exists
  /\ h # other
  /\ live' = Destroyed(h)
  /\ TakeOver(h, other)
  /\ UNCHANGED exists

\* Assigning a handle to itself is caught before reset().
SelfAssign(h) ==
  /\ h \in exists
  /\ UNCHANGED vars

\* Deviation: reset leaves the handle valid.
ResetKeeps(h) ==
  /\ h \in exists
  /\ live' = Destroyed(h)
  /\ UNCHANGED <<exists, id_, valid_>>

Reset(h) ==
  /\ h \in exists
  /\ live' = Destroyed(h)
  /\ valid_' = valid_ \ {h}
  /\ UNCHANGED <<exists, id_>>

\* ~PsaKeyHandle, on a return, an early error return or an exception alike.
Destruct(h) ==
  /\ h \in exists
  /\ live' = Destroyed(h)
  /\ exists' = exists \ {h}
  /\ valid_' = valid_ \ {h}
  /\ UNCHANGED id_

Next ==
  \E h \in Handle :
    \/ DefaultConstruct(h)
    \/ \E id \in KeyId : Wrap(h, id)
    \/ \E other \in Handle : MoveConstruct(h, other) \/ MoveAssign(h, other)
    \/ SelfAssign(h)
    \/ Reset(h)
    \/ Destruct(h)

Spec == Init /\ [][Next]_vars

-----------------------------------------------------------------------------

\* Every variable has its type, and only a handle that exists owns a key.
TypeOK ==
  /\ live \subseteq KeyId
  /\ exists \subseteq Handle
  /\ id_ \in [Handle -> KeyId \cup {NullId}]
  /\ valid_ \subseteq exists

\* No key leaks and none has two owners: whatever is moved, assigned, reset or
\* unwound, in whatever order, the keys in the store are exactly the ones that
\* valid handles hold, one handle each (README "Memory safety").
OneOwner ==
  /\ live = {id_[h] : h \in valid_}
  /\ \A g, h \in valid_ : id_[g] = id_[h] => g = h

\* A key leaves the store only together with its owner's claim on it, and one at
\* a time: no handle destroys the key of another, and none goes on believing in a
\* key it destroyed, whose id the provider may already have given to a new key.
OwnersKeep ==
  [][\A id \in live \ live' :
       /\ live \ live' = {id}
       /\ \A h \in valid_ \cap valid_' : id_[h] = id => id_'[h] # id]_vars
=============================================================================
