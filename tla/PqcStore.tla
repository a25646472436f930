------------------------------ MODULE PqcStore ------------------------------
(***************************************************************************)
(* The post-quantum key store.  A key is a private half, a public half or  *)
(* both, in a block of the heap that its slot points to; the halves of a   *)
(* block are cut apart again by the lengths in the slot.  Blocks are       *)
(* allocated before the lock is taken, and those of destroyed keys are     *)
(* zeroed and deleted after it was given back.  All slots are read and     *)
(* written under the one mutex, so a critical section is one step.         *)
(***************************************************************************)
EXTENDS Integers, FiniteSets

CONSTANTS
  Thread,    \* the threads that call the store
  Name,      \* what tells keys apart: their bytes, type and variant
  Capacity,  \* slots of the store
  IdBase,    \* first key id of the store
  Block,     \* blocks of the heap
  Null       \* no key, no block

PqcAssumption ==
  /\ Capacity \in Nat \ {0}
  /\ IdBase \in Nat \ {0}
  /\ Null \notin Block \cup Name

VARIABLES
  heap,  \* per block: whether it is allocated, and the key each half holds
  slot,  \* per index: the block, the key it was stored for, its halves, in_use
  pc,    \* per thread: the next statement
  call,  \* per thread: the call it is in
  mine,  \* per thread: the block it must store or delete, or Null
  res    \* per thread: what its last call answers

vars == <<heap, slot, pc, call, mine, res>>

Index == 1 .. Capacity
Id == IdBase .. (IdBase + Capacity - 1)
AnyId == IdBase - 1 .. IdBase + Capacity
IndexOf(id) == id - IdBase + 1

Halves == {{"private"}, {"public"}, {"private", "public"}}
Calls ==
       [op : {"import"}, name : Name, halves : Halves, wellSized : BOOLEAN]
  \cup [op : {"private", "public", "destroy"}, id : AnyId]
NoCall == [op |-> "none"]

\* The answers: an id or zero, a half of a key, or an error.
NoAnswer == [code |-> "none"]
Status(c) == [code |-> c]
Stored(id) == [code |-> "ok", id |-> id]
Copied(key, half) == [code |-> "ok", key |-> key, half |-> half]

FreeBlock == [live |-> FALSE, private |-> Null, public |-> Null]
FreeSlot == [block |-> Null, name |-> Null, halves |-> {}, in_use |-> FALSE]

Init ==
  /\ heap = [b \in Block |-> FreeBlock]
  /\ slot = [i \in Index |-> FreeSlot]
  /\ pc = [t \in Thread |-> "idle"]
  /\ call = [t \in Thread |-> NoCall]
  /\ mine = [t \in Thread |-> Null]
  /\ res = [t \in Thread |-> NoAnswer]

-----------------------------------------------------------------------------
(* Step idioms. *)

Goto(t, from, to) == pc[t] = from /\ pc' = [pc EXCEPT ![t] = to]
Reply(t, a) == res' = [res EXCEPT ![t] = a]
Take(t, b) == mine' = [mine EXCEPT ![t] = b]

\* Thread t ends its call with the answer a.
Answer(t, from, a) ==
  /\ Goto(t, from, "idle")
  /\ Reply(t, a)
  /\ call' = [call EXCEPT ![t] = NoCall]

-----------------------------------------------------------------------------

Call(t, c) ==
  /\ Goto(t, "idle", "enter")
  /\ call' = [call EXCEPT ![t] = c]
  /\ Reply(t, NoAnswer)
  /\ UNCHANGED <<heap, slot, mine>>

\* The checks before the lock: a size that is not the canonical one, a foreign id.
Refuse(t) ==
  /\ \/ call[t].op = "import" /\ ~call[t].wellSized /\ Answer(t, "enter", Stored(0))
     \/ call[t].op \in {"private", "public"} /\ call[t].id \notin Id
          /\ Answer(t, "enter", Status("InvalidArgument"))
     \/ call[t].op = "destroy" /\ call[t].id \notin Id /\ Answer(t, "enter", Status("ok"))
  /\ UNCHANGED <<heap, slot, mine>>

\* Import allocates and fills a block, then takes the first free slot.
Allocate(t) ==
  /\ call[t].op = "import" /\ call[t].wellSized
  /\ Goto(t, "enter", "store")
  /\ \E b \in Block :
       /\ ~heap[b].live
       /\ Take(t, b)
       /\ heap' = [heap EXCEPT ![b] =
            [live |-> TRUE,
             private |-> IF "private" \in call[t].halves THEN call[t].name ELSE Null,
             public |-> IF "public" \in call[t].halves THEN call[t].name ELSE Null]]
  /\ UNCHANGED <<slot, call, res>>

AllocationFails(t) ==
  /\ call[t].op = "import" /\ call[t].wellSized
  /\ Answer(t, "enter", Stored(0))
  /\ UNCHANGED <<heap, slot, mine>>

Store(t) ==
  /\ pc[t] = "store"
  /\ \E i \in Index :
       /\ ~slot[i].in_use
       /\ \A j \in 1 .. i - 1 : slot[j].in_use
       /\ slot' = [slot EXCEPT ![i] =
            [block |-> mine[t], name |-> call[t].name, halves |-> call[t].halves, in_use |-> TRUE]]
       /\ Answer(t, "store", Stored(IdBase + i - 1))
  /\ Take(t, Null)
  /\ UNCHANGED heap

\* Deviation: the block is deleted as it is.
StoreFullUnscrubbed(t) ==
  /\ pc[t] = "store"
  /\ \A i \in Index : slot[i].in_use
  /\ heap' = [heap EXCEPT ![mine[t]].live = FALSE]
  /\ Take(t, Null)
  /\ Answer(t, "store", Stored(0))
  /\ UNCHANGED slot

\* With no slot free the block is zeroed and deleted.
StoreFull(t) ==
  /\ pc[t] = "store"
  /\ \A i \in Index : slot[i].in_use
  /\ heap' = [heap EXCEPT ![mine[t]] = FreeBlock]
  /\ Take(t, Null)
  /\ Answer(t, "store", Stored(0))
  /\ UNCHANGED slot

\* pqc_key_store_get_private and pqc_key_store_get_public: the half is cut out of
\* the block by the slot's lengths.
Get(t, half) ==
  /\ call[t].op = half /\ call[t].id \in Id
  /\ LET s == slot[IndexOf(call[t].id)] IN
     IF s.in_use /\ half \in s.halves
     THEN \/ Answer(t, "enter", Copied(heap[s.block][half], half))
          \/ Answer(t, "enter", Status("InternalError"))
     ELSE Answer(t, "enter", Status("InvalidArgument"))
  /\ UNCHANGED <<heap, slot, mine>>

\* Deviation: the slot is only marked free after its block was deleted.
DetachLate(t) ==
  /\ call[t].op = "destroy" /\ call[t].id \in Id
  /\ Goto(t, "enter", "scrub")
  /\ Take(t, slot[IndexOf(call[t].id)].block)
  /\ UNCHANGED <<heap, slot, call, res>>

\* Destroy takes the block out of the slot, used or not, under the lock ...
Detach(t) ==
  /\ call[t].op = "destroy" /\ call[t].id \in Id
  /\ Goto(t, "enter", "scrub")
  /\ Take(t, slot[IndexOf(call[t].id)].block)
  /\ slot' = [slot EXCEPT ![IndexOf(call[t].id)] = FreeSlot]
  /\ UNCHANGED <<heap, call, res>>

\* ... zeroes it ...
Scrub(t) ==
  /\ mine[t] # Null
  /\ Goto(t, "scrub", "delete")
  /\ heap' = [heap EXCEPT ![mine[t]].private = Null, ![mine[t]].public = Null]
  /\ UNCHANGED <<slot, call, mine, res>>

\* ... and deletes it.
Delete(t) ==
  /\ Answer(t, "delete", Status("ok"))
  /\ heap' = [heap EXCEPT ![mine[t]].live = FALSE]
  /\ Take(t, Null)
  /\ UNCHANGED slot

NothingToDelete(t) ==
  /\ mine[t] = Null
  /\ Answer(t, "scrub", Status("ok"))
  /\ UNCHANGED <<heap, slot, mine>>

-----------------------------------------------------------------------------

Step(t) ==
  \/ Refuse(t) \/ Allocate(t) \/ AllocationFails(t) \/ Store(t) \/ StoreFull(t)
  \/ pc[t] = "enter" /\ \E half \in {"private", "public"} : Get(t, half)
  \/ Detach(t) \/ Scrub(t) \/ Delete(t) \/ NothingToDelete(t)

Next == \E t \in Thread : (\E c \in Calls : Call(t, c)) \/ Step(t)

Spec == Init /\ [][Next]_vars

-----------------------------------------------------------------------------
(* Properties *)

HalfNames == {"private", "public"}

\* Every variable has its type.
TypeOK ==
  /\ heap \in [Block -> [live : BOOLEAN, private : Name \cup {Null}, public : Name \cup {Null}]]
  /\ slot \in [Index -> [block : Block \cup {Null}, name : Name \cup {Null},
                         halves : SUBSET HalfNames, in_use : BOOLEAN]]
  /\ pc \in [Thread -> {"idle", "enter", "store", "scrub", "delete"}]
  /\ call \in [Thread -> Calls \cup {NoCall}]
  /\ mine \in [Thread -> Block \cup {Null}]
  /\ res \in [Thread -> [code : {"none", "ok", "InvalidArgument", "InternalError"}]
                   \cup [code : {"ok"}, id : Id \cup {0}]
                   \cup [code : {"ok"}, key : Name, half : HalfNames]]

\* An allocated block has one owner, a slot or a thread, and a deleted one none:
\* nothing is leaked, deleted twice, or read by a thread after it was deleted.
BlocksOwned ==
  \A b \in Block :
    Cardinality({i \in Index : slot[i].block = b}) + Cardinality({t \in Thread : mine[t] = b})
      = IF heap[b].live THEN 1 ELSE 0

\* No key material is left in memory that was given back to the heap.
FreedScrubbed == \A b \in Block : ~heap[b].live => heap[b] = FreeBlock

\* The block of a slot in use holds exactly the halves the slot says it does, all
\* of the key it was stored for.
KeysWhole ==
  \A i \in Index : slot[i].in_use =>
    /\ slot[i].block # Null
    /\ heap[slot[i].block] = [live |-> TRUE,
         private |-> IF "private" \in slot[i].halves THEN slot[i].name ELSE Null,
         public |-> IF "public" \in slot[i].halves THEN slot[i].name ELSE Null]

-----------------------------------------------------------------------------
(* The invariant of the proofs in ObjectsProofs.  By themselves neither      *)
(* BlocksOwned nor KeysWhole is inductive: a thread between two critical     *)
(* sections holds a block that it will store or delete, and what it does     *)
(* next is right only if nobody else has that block and its bytes are what   *)
(* the thread left in it.                                                    *)

\* Block b holds the given halves of a key and nothing else.
HoldsHalves(b, name, halves) ==
  heap[b] = [live |-> TRUE,
             private |-> IF "private" \in halves THEN name ELSE Null,
             public |-> IF "public" \in halves THEN name ELSE Null]

\* Where a thread is in its call, and what is in the block it has meanwhile.
ThreadInv(t) ==
  /\ pc[t] = "idle" <=> call[t] = NoCall
  /\ pc[t] \in {"idle", "enter"} => mine[t] = Null
  /\ pc[t] = "store" =>
       /\ call[t].op = "import" /\ mine[t] # Null
       /\ HoldsHalves(mine[t], call[t].name, call[t].halves)
  /\ pc[t] = "delete" =>
       mine[t] # Null /\ heap[mine[t]] = [live |-> TRUE, private |-> Null, public |-> Null]

\* No block has two owners, and those that have one are the allocated ones.
SingleOwner ==
  /\ \A i, j \in Index : slot[i].block = slot[j].block /\ slot[i].block # Null => i = j
  /\ \A t, u \in Thread : mine[t] = mine[u] /\ mine[t] # Null => t = u
  /\ \A i \in Index, t \in Thread : slot[i].block = mine[t] => mine[t] = Null
  /\ \A b \in Block :
       heap[b].live <=> (\E i \in Index : slot[i].block = b) \/ (\E t \in Thread : mine[t] = b)

\* A free slot is empty, and one in use has a key.
SlotInv(i) ==
  /\ ~slot[i].in_use => slot[i] = FreeSlot
  /\ slot[i].in_use => slot[i].name \in Name /\ slot[i].halves \in Halves

IInv ==
  /\ TypeOK
  /\ \A t \in Thread : ThreadInv(t)
  /\ SingleOwner
  /\ \A i \in Index : SlotInv(i)
  /\ KeysWhole
  /\ FreedScrubbed
=============================================================================
