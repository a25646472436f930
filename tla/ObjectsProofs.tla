---------------------------- MODULE ObjectsProofs ----------------------------
(***************************************************************************)
(* What owns keys, memory and inputs: the handles, the post-quantum store, *)
(* the secure buffers and the derivation, each by itself, and what is      *)
(* proved of them.                                                         *)
(***************************************************************************)
EXTENDS SecureBuffer, Sequences, SequenceTheorems, FiniteSetTheorems, TLAPS

CONSTANTS
  Handle, KeyId, NullId,                 \* KeyHandle
  Thread, Name, Capacity, IdBase, Null,  \* PqcStore, with the blocks of SecureBuffer
  StoredId, Key, NoKey, Text, Empty, TooLong, HashLen, CounterRange  \* Hkdf

VARIABLES
  live, exists, id_, valid_,        \* KeyHandle
  heap, slot, pc, call, mine, res,  \* PqcStore
  store, op, loop, out, given       \* Hkdf

Handles == INSTANCE KeyHandle
Pqc == INSTANCE PqcStore
Derivation == INSTANCE Hkdf WITH KeyId <- StoredId

ASSUME HandleShape == Handles!HandleAssumption
ASSUME PqcShape == Pqc!PqcAssumption
ASSUME BufferShape == BufferAssumption
ASSUME HkdfShape == Derivation!HkdfAssumption

\* No key leaks and none has two owners.
OneOwner == Handles!OneOwner

\* A key leaves the store only with its owner's claim on it, and alone.
OwnersKeep == Handles!OwnersKeep

\* An allocated block of the post-quantum store has one owner, and a deleted one none.
BlocksOwned == Pqc!TypeOK /\ Pqc!BlocksOwned

\* The block of a slot in use holds exactly the halves the slot says it does, and no key
\* material is left in memory that the post-quantum store gave back.
KeysWhole == Pqc!KeysWhole /\ Pqc!FreedScrubbed

\* What is derived is HKDF of exactly the inputs accepted since the setup.
DerivesAsGiven == Derivation!DerivesAsGiven

-----------------------------------------------------------------------------
(* The handles, for every set of them and of key ids. *)

\* The invariant: types and ownership are inductive together.
HandleInv == Handles!TypeOK /\ Handles!OneOwner

\* At first there is no handle and no key.
LEMMA HandleInit == Handles!Init => HandleInv
BY DEF Handles!Init, HandleInv, Handles!TypeOK, Handles!OneOwner

\* What the claim on a key does when it moves from one handle to another.
LEMMA HandleStep == HandleInv /\ [Handles!Next]_(Handles!vars) => HandleInv'
<1> SUFFICES ASSUME HandleInv, [Handles!Next]_(Handles!vars) PROVE HandleInv'
  OBVIOUS
<1> USE DEF HandleInv, Handles!TypeOK, Handles!OneOwner
<1>1. ASSUME NEW h \in Handle, Handles!DefaultConstruct(h) PROVE HandleInv'
  BY <1>1, HandleShape DEF Handles!DefaultConstruct, Handles!HandleAssumption
<1>2. ASSUME NEW h \in Handle, NEW id \in KeyId, Handles!Wrap(h, id) PROVE HandleInv'
  BY <1>2 DEF Handles!Wrap
<1>3. ASSUME NEW h \in Handle, NEW other \in Handle, Handles!MoveConstruct(h, other)
      PROVE  HandleInv'
  BY <1>3 DEF Handles!MoveConstruct, Handles!TakeOver
<1>4. ASSUME NEW h \in Handle, NEW other \in Handle, Handles!MoveAssign(h, other)
      PROVE  HandleInv'
  BY <1>4 DEF Handles!MoveAssign, Handles!TakeOver, Handles!Destroyed
<1>5. ASSUME NEW h \in Handle, Handles!SelfAssign(h) PROVE HandleInv'
  BY <1>5 DEF Handles!SelfAssign, Handles!vars
<1>6. ASSUME NEW h \in Handle, Handles!Reset(h) PROVE HandleInv'
  BY <1>6 DEF Handles!Reset, Handles!Destroyed
<1>7. ASSUME NEW h \in Handle, Handles!Destruct(h) PROVE HandleInv'
  BY <1>7 DEF Handles!Destruct, Handles!Destroyed
<1>8. CASE UNCHANGED Handles!vars
  BY <1>8 DEF Handles!vars
<1>. QED
  BY <1>1, <1>2, <1>3, <1>4, <1>5, <1>6, <1>7, <1>8 DEF Handles!Next

\* Every handle object has its type at all times.
THEOREM Types == Handles!Spec => []Handles!TypeOK
<1>1. HandleInv => Handles!TypeOK
  BY DEF HandleInv
<1>. QED
  BY <1>1, HandleInit, HandleStep, PTL DEF Handles!Spec

\* However handles are moved, assigned, reset and destroyed, the keys in the
\* store are exactly those that valid handles hold, each held by one of them.
THEOREM Ownership == Handles!Spec => []OneOwner
<1>1. HandleInv => OneOwner
  BY DEF HandleInv, OneOwner
<1>. QED
  BY <1>1, HandleInit, HandleStep, PTL DEF Handles!Spec

\* A key leaves the store only with its owner's claim on it, and alone.
THEOREM OneAtATime == Handles!Spec => OwnersKeep
<1> DEFINE Keeps == \A id \in live \ live' :
                      /\ live \ live' = {id}
                      /\ \A h \in valid_ \cap valid_' : id_[h] = id => id_'[h] # id
<1>1. HandleInv /\ [Handles!Next]_(Handles!vars) => [Keeps]_(Handles!vars)
  <2> SUFFICES ASSUME HandleInv, Handles!Next, NEW id \in live \ live'
      PROVE  /\ live \ live' = {id}
             /\ \A h \in valid_ \cap valid_' : id_[h] = id => id_'[h] # id
    BY DEF Handles!vars
  <2> USE DEF HandleInv, Handles!TypeOK, Handles!OneOwner
  <2>1. CASE \E h \in Handle : Handles!Reset(h) \/ Handles!Destruct(h)
    BY <2>1 DEF Handles!Reset, Handles!Destruct, Handles!Destroyed
  <2>2. CASE \E h, other \in Handle : Handles!MoveAssign(h, other)
    BY <2>2 DEF Handles!MoveAssign, Handles!TakeOver, Handles!Destroyed
  <2>. QED
    BY <2>1, <2>2 DEF Handles!Next, Handles!DefaultConstruct, Handles!Wrap, Handles!MoveConstruct,
       Handles!SelfAssign, Handles!vars
<1>. QED
  BY <1>1, HandleInit, HandleStep, PTL DEF Handles!Spec, OwnersKeep, Handles!OwnersKeep

-----------------------------------------------------------------------------
(* The post-quantum store, with the blocks of the secure buffers.            *)

\* The facts about calls that the step proofs use.
LEMMA PqcCallFacts ==
  ASSUME Pqc!PqcAssumption, NEW c \in Pqc!Calls
  PROVE  /\ c.op \in {"import", "private", "public", "destroy"}
         /\ c.op = "import" => c.name \in Name /\ c.halves \in Pqc!Halves
         /\ c.op # "import" /\ c.id \in Pqc!Id => Pqc!IndexOf(c.id) \in Pqc!Index
         /\ c # Pqc!NoCall
BY DEF Pqc!PqcAssumption, Pqc!Calls, Pqc!NoCall, Pqc!Id, Pqc!IndexOf, Pqc!Index

LEMMA PqcInCall ==
  ASSUME Pqc!IInv, NEW t \in Thread, pc[t] # "idle"
  PROVE  call[t] \in Pqc!Calls
BY DEF Pqc!IInv, Pqc!TypeOK, Pqc!ThreadInv

LEMMA PqcInitIInv == ASSUME Pqc!PqcAssumption, Pqc!Init PROVE Pqc!IInv
<1>1. Pqc!TypeOK
  BY DEF Pqc!PqcAssumption, Pqc!Init, Pqc!TypeOK, Pqc!FreeBlock, Pqc!FreeSlot, Pqc!NoAnswer,
       Pqc!HalfNames
<1>2. ASSUME NEW t \in Thread PROVE Pqc!ThreadInv(t)
  BY DEF Pqc!Init, Pqc!ThreadInv
<1>3. Pqc!SingleOwner
  BY DEF Pqc!PqcAssumption, Pqc!Init, Pqc!SingleOwner, Pqc!FreeBlock, Pqc!FreeSlot
<1>4. (\A i \in Pqc!Index : Pqc!SlotInv(i)) /\ Pqc!KeysWhole /\ Pqc!FreedScrubbed
  BY DEF Pqc!Init, Pqc!SlotInv, Pqc!KeysWhole, Pqc!FreedScrubbed, Pqc!FreeSlot
<1>. QED
  BY <1>1, <1>2, <1>3, <1>4 DEF Pqc!IInv

\* A step of a thread leaves the places of the others alone.
LEMMA PqcFrame ==
  ASSUME Pqc!IInv, NEW t \in Thread, Pqc!Step(t) \/ (\E c \in Pqc!Calls : Pqc!Call(t, c)),
         NEW u \in Thread \ {t}
  PROVE  pc'[u] = pc[u] /\ call'[u] = call[u] /\ mine'[u] = mine[u]
BY DEF Pqc!IInv, Pqc!TypeOK, Pqc!Step, Pqc!Call, Pqc!Refuse, Pqc!Allocate, Pqc!AllocationFails,
     Pqc!Store, Pqc!StoreFull, Pqc!Get, Pqc!Detach, Pqc!Scrub, Pqc!Delete, Pqc!NothingToDelete, Pqc!Answer, Pqc!Goto, Pqc!Take

\* The steps that change neither the memory nor who owns it.
PqcQuiet(t) ==
  \/ \E c \in Pqc!Calls : Pqc!Call(t, c)
  \/ Pqc!Refuse(t) \/ Pqc!AllocationFails(t) \/ Pqc!NothingToDelete(t)
  \/ pc[t] = "enter" /\ \E half \in {"private", "public"} : Pqc!Get(t, half)

LEMMA PqcQuietKeeps ==
  ASSUME NEW t \in Thread, PqcQuiet(t) PROVE UNCHANGED <<heap, slot, mine>>
BY DEF PqcQuiet, Pqc!Call, Pqc!Refuse, Pqc!AllocationFails, Pqc!NothingToDelete, Pqc!Get

LEMMA PqcQuietTypes ==
  ASSUME Pqc!PqcAssumption, Pqc!IInv, NEW t \in Thread, PqcQuiet(t)
  PROVE  Pqc!TypeOK' /\ Pqc!ThreadInv(t)'
<1>a. heap' = heap /\ slot' = slot /\ mine' = mine
  BY PqcQuietKeeps
<1>b. Pqc!TypeOK /\ Pqc!ThreadInv(t)
  BY DEF Pqc!IInv
<1>1. ASSUME NEW c \in Pqc!Calls, Pqc!Call(t, c) PROVE Pqc!TypeOK' /\ Pqc!ThreadInv(t)'
  BY <1>1, <1>a, <1>b, PqcCallFacts DEF Pqc!Call, Pqc!Goto, Pqc!Reply, Pqc!TypeOK, Pqc!NoAnswer,
       Pqc!ThreadInv
<1>2. ASSUME NEW a, a \in [code : {"none", "ok", "InvalidArgument", "InternalError"}]
                   \cup [code : {"ok"}, id : Pqc!Id \cup {0}]
                   \cup [code : {"ok"}, key : Name, half : Pqc!HalfNames],
             NEW from \in {"enter", "scrub"}, Pqc!Answer(t, from, a), mine[t] = Null
      PROVE  Pqc!TypeOK' /\ Pqc!ThreadInv(t)'
  BY <1>2, <1>a, <1>b DEF Pqc!Answer, Pqc!Goto, Pqc!Reply, Pqc!TypeOK, Pqc!ThreadInv
<1>c. pc[t] = "enter" => mine[t] = Null
  BY <1>b DEF Pqc!ThreadInv
<1>3. CASE Pqc!Refuse(t)
  BY <1>3, <1>2, <1>c DEF Pqc!Refuse, Pqc!Stored, Pqc!Status, Pqc!Answer, Pqc!Goto
<1>4. CASE Pqc!AllocationFails(t)
  BY <1>4, <1>2, <1>c DEF Pqc!AllocationFails, Pqc!Stored, Pqc!Answer, Pqc!Goto
<1>5. CASE Pqc!NothingToDelete(t)
  BY <1>5, <1>2 DEF Pqc!NothingToDelete, Pqc!Status
<1>6. ASSUME NEW half \in {"private", "public"}, pc[t] = "enter", Pqc!Get(t, half)
      PROVE  Pqc!TypeOK' /\ Pqc!ThreadInv(t)'
  <2> DEFINE i == Pqc!IndexOf(call[t].id)
  <2>1. i \in Pqc!Index
    BY <1>6, PqcInCall, PqcCallFacts DEF Pqc!Get
  <2>2. slot[i].in_use /\ half \in slot[i].halves => heap[slot[i].block][half] \in Name
    <3> SUFFICES ASSUME slot[i].in_use, half \in slot[i].halves
                 PROVE  heap[slot[i].block][half] \in Name
      OBVIOUS
    <3>1. slot[i].name \in Name
      BY <2>1 DEF Pqc!IInv, Pqc!SlotInv
    <3>2. heap[slot[i].block] = [live |-> TRUE,
             private |-> IF "private" \in slot[i].halves THEN slot[i].name ELSE Null,
             public |-> IF "public" \in slot[i].halves THEN slot[i].name ELSE Null]
      BY <2>1 DEF Pqc!IInv, Pqc!KeysWhole
    <3>. QED
      BY <3>1, <3>2
  <2>. QED
    BY <1>6, <1>2, <1>c, <2>2 DEF Pqc!Get, Pqc!Copied, Pqc!Status, Pqc!HalfNames
<1>. QED
  BY <1>1, <1>3, <1>4, <1>5, <1>6 DEF PqcQuiet

\* The steps that move a block: into a thread, into a slot, or back to the heap.
PqcMoves(t) ==
  Pqc!Allocate(t) \/ Pqc!Store(t) \/ Pqc!StoreFull(t) \/ Pqc!Detach(t) \/ Pqc!Scrub(t) \/ Pqc!Delete(t)

LEMMA PqcMovesTypes ==
  ASSUME Pqc!PqcAssumption, Pqc!IInv, NEW t \in Thread, PqcMoves(t)
  PROVE  Pqc!TypeOK'
<1> USE DEF Pqc!TypeOK, Pqc!Goto, Pqc!Answer, Pqc!Reply, Pqc!Take
<1>a. Pqc!TypeOK /\ Pqc!ThreadInv(t) /\ (pc[t] # "idle" => call[t] \in Pqc!Calls)
  BY PqcInCall DEF Pqc!IInv
<1>1. CASE Pqc!Allocate(t)
  BY <1>1, <1>a, PqcCallFacts DEF Pqc!Allocate
<1>2. CASE Pqc!Store(t)
  <2>1. call[t].name \in Name /\ call[t].halves \in Pqc!Halves
    BY <1>2, <1>a, PqcCallFacts DEF Pqc!Store, Pqc!ThreadInv
  <2>2. \A i \in Pqc!Index : IdBase + i - 1 \in Pqc!Id
    BY DEF Pqc!PqcAssumption, Pqc!Id, Pqc!Index
  <2>. QED
    BY <1>2, <1>a, <2>1, <2>2 DEF Pqc!Store, Pqc!Halves, Pqc!HalfNames, Pqc!Stored
<1>3. CASE Pqc!StoreFull(t)
  BY <1>3, <1>a DEF Pqc!StoreFull, Pqc!FreeBlock, Pqc!Stored
<1>4. CASE Pqc!Detach(t)
  <2>1. Pqc!IndexOf(call[t].id) \in Pqc!Index
    BY <1>4, <1>a, PqcCallFacts DEF Pqc!Detach
  <2>. QED
    BY <1>4, <1>a, <2>1 DEF Pqc!Detach, Pqc!FreeSlot, Pqc!HalfNames
<1>5. CASE Pqc!Scrub(t)
  BY <1>5, <1>a DEF Pqc!Scrub
<1>6. CASE Pqc!Delete(t)
  BY <1>6, <1>a, ZenonT(60) DEF Pqc!Delete, Pqc!Status
<1>. QED
  BY <1>1, <1>2, <1>3, <1>4, <1>5, <1>6 DEF PqcMoves

\* A block changes hands from one owner to one owner.
LEMMA PqcMovesOwner ==
  ASSUME Pqc!PqcAssumption, Pqc!IInv, NEW t \in Thread, PqcMoves(t)
  PROVE  Pqc!SingleOwner'
<1> USE DEF Pqc!SingleOwner, Pqc!Goto, Pqc!Answer, Pqc!Reply, Pqc!Take
<1>a. Pqc!TypeOK /\ Pqc!ThreadInv(t) /\ Pqc!SingleOwner /\ (pc[t] # "idle" => call[t] \in Pqc!Calls)
  BY PqcInCall DEF Pqc!IInv
<1>1. CASE Pqc!Allocate(t)
  <2>1. mine[t] = Null /\ slot' = slot
    BY <1>1, <1>a DEF Pqc!Allocate, Pqc!ThreadInv
  <2>2. PICK b \in Block :
          /\ ~heap[b].live /\ mine' = [mine EXCEPT ![t] = b]
          /\ heap' = [heap EXCEPT ![b] =
               [live |-> TRUE,
                private |-> IF "private" \in call[t].halves THEN call[t].name ELSE Null,
                public |-> IF "public" \in call[t].halves THEN call[t].name ELSE Null]]
    BY <1>1 DEF Pqc!Allocate
  <2>3. heap'[b].live /\ \A c \in Block \ {b} : heap'[c] = heap[c]
    BY <2>2, <1>a DEF Pqc!TypeOK
  <2>4. (\A i \in Pqc!Index : slot[i].block # b) /\ (\A u \in Thread : mine[u] # b)
    BY <2>2, <1>a
  <2>. QED
    BY <2>1, <2>2, <2>4, <2>3, <1>a DEF Pqc!TypeOK, Pqc!PqcAssumption
<1>2. CASE Pqc!Store(t)
  <2>1. mine[t] # Null /\ heap' = heap /\ mine' = [mine EXCEPT ![t] = Null]
    BY <1>2, <1>a DEF Pqc!Store, Pqc!ThreadInv
  <2>2. PICK i \in Pqc!Index : /\ ~slot[i].in_use /\ slot'[i].block = mine[t]
                           /\ \A j \in Pqc!Index \ {i} : slot'[j] = slot[j]
    BY <1>2, <1>a DEF Pqc!Store, Pqc!TypeOK
  <2>3. slot[i].block = Null
    BY <2>2 DEF Pqc!IInv, Pqc!SlotInv, Pqc!FreeSlot
  <2>4. \A u \in Thread : mine'[u] = IF u = t THEN Null ELSE mine[u]
    BY <2>1, <1>a DEF Pqc!TypeOK
  <2>5. \A j \in Pqc!Index : slot'[j].block = IF j = i THEN mine[t] ELSE slot[j].block
    BY <2>2
  <2>6. \A j \in Pqc!Index : slot[j].block # mine[t]
    BY <2>1, <1>a
  <2>7. \A j, k \in Pqc!Index : slot'[j].block = slot'[k].block /\ slot'[j].block # Null => j = k
    BY <2>5, <2>6, <1>a
  <2>8. \A u, v \in Thread : mine'[u] = mine'[v] /\ mine'[u] # Null => u = v
    BY <2>4, <1>a
  <2>9. \A j \in Pqc!Index, u \in Thread : slot'[j].block = mine'[u] => mine'[u] = Null
    BY <2>4, <2>5, <1>a
  <2>10. \A b \in Block : (\E j \in Pqc!Index : slot'[j].block = b) \/ (\E u \in Thread : mine'[u] = b)
                       <=> (\E j \in Pqc!Index : slot[j].block = b) \/ (\E u \in Thread : mine[u] = b)
    BY <2>3, <2>4, <2>5, <1>a DEF Pqc!PqcAssumption
  <2>. QED
    BY <2>1, <2>7, <2>8, <2>9, <2>10, <1>a
<1>3. CASE Pqc!StoreFull(t) \/ Pqc!Delete(t)
  <2>1. mine[t] # Null /\ mine[t] \in Block
    BY <1>3, <1>a DEF Pqc!StoreFull, Pqc!Delete, Pqc!ThreadInv, Pqc!TypeOK
  <2>2. slot' = slot /\ mine' = [mine EXCEPT ![t] = Null]
    BY <1>3 DEF Pqc!StoreFull, Pqc!Delete
  <2>3. ~heap'[mine[t]].live /\ \A b \in Block \ {mine[t]} : heap'[b] = heap[b]
    BY <1>3, <1>a, <2>1 DEF Pqc!StoreFull, Pqc!Delete, Pqc!FreeBlock, Pqc!TypeOK
  <2>. QED
    BY <2>1, <2>2, <2>3, <1>a DEF Pqc!TypeOK, Pqc!PqcAssumption
<1>4. CASE Pqc!Detach(t)
  <2> DEFINE i == Pqc!IndexOf(call[t].id)
  <2>1. i \in Pqc!Index /\ mine[t] = Null /\ heap' = heap
    BY <1>4, <1>a, PqcCallFacts DEF Pqc!Detach, Pqc!ThreadInv
  <2>2. mine' = [mine EXCEPT ![t] = slot[i].block] /\ slot' = [slot EXCEPT ![i] = Pqc!FreeSlot]
    BY <1>4 DEF Pqc!Detach
  <2>3. slot'[i].block = Null /\ \A j \in Pqc!Index \ {i} : slot'[j] = slot[j]
    BY <2>1, <2>2, <1>a DEF Pqc!TypeOK, Pqc!FreeSlot
  <2> HIDE DEF i
  <2>. QED
    BY <2>1, <2>2, <2>3, <1>a DEF Pqc!TypeOK, Pqc!PqcAssumption
<1>5. CASE Pqc!Scrub(t)
  <2>1. slot' = slot /\ mine' = mine /\ \A b \in Block : heap'[b].live = heap[b].live
    BY <1>5, <1>a DEF Pqc!Scrub, Pqc!TypeOK
  <2>. QED
    BY <2>1, <1>a
<1>. QED
  BY <1>1, <1>2, <1>3, <1>4, <1>5 DEF PqcMoves

\* What a moving thread has in its block is what its place in the call says.
LEMMA PqcMovesThread ==
  ASSUME Pqc!PqcAssumption, Pqc!IInv, NEW t \in Thread, PqcMoves(t)
  PROVE  Pqc!ThreadInv(t)'
<1> USE DEF Pqc!ThreadInv, Pqc!Goto, Pqc!Answer, Pqc!Reply, Pqc!Take
<1>a. Pqc!TypeOK /\ Pqc!ThreadInv(t) /\ (pc[t] # "idle" => call[t] \in Pqc!Calls)
  BY PqcInCall DEF Pqc!IInv
<1>1. CASE Pqc!Allocate(t)
  BY <1>1, <1>a DEF Pqc!Allocate, Pqc!TypeOK, Pqc!HoldsHalves, Pqc!PqcAssumption
<1>2. CASE Pqc!Store(t) \/ Pqc!StoreFull(t) \/ Pqc!Delete(t)
  BY <1>2, <1>a DEF Pqc!Store, Pqc!StoreFull, Pqc!Delete, Pqc!TypeOK
<1>3. CASE Pqc!Detach(t)
  BY <1>3, <1>a DEF Pqc!Detach, Pqc!TypeOK
<1>4. CASE Pqc!Scrub(t)
  <2>1. mine[t] \in Block /\ heap[mine[t]].live
    BY <1>4, <1>a DEF Pqc!Scrub, Pqc!TypeOK, Pqc!IInv, Pqc!SingleOwner
  <2> DEFINE b == mine[t]
  <2>2. heap'[b] \in [live : BOOLEAN, private : Name \cup {Null}, public : Name \cup {Null}]
    BY <1>4, <2>1, PqcMovesTypes DEF PqcMoves, Pqc!TypeOK
  <2>3. heap'[b].live /\ heap'[b].private = Null /\ heap'[b].public = Null
    BY <1>4, <1>a, <2>1 DEF Pqc!Scrub, Pqc!TypeOK
  <2>4. heap'[b] = [live |-> TRUE, private |-> Null, public |-> Null]
    BY <2>2, <2>3
  <2>5. pc' = [pc EXCEPT ![t] = "delete"] /\ pc[t] = "scrub" /\ mine' = mine /\ call' = call
        /\ mine[t] # Null
    BY <1>4 DEF Pqc!Scrub
  <2>. QED
    BY <1>a, <2>4, <2>5 DEF Pqc!TypeOK
<1>. QED
  BY <1>1, <1>2, <1>3, <1>4 DEF PqcMoves

\* A block that is not the mover's own keeps its bytes.
LEMMA PqcOthersUntouched ==
  ASSUME Pqc!PqcAssumption, Pqc!IInv, NEW t \in Thread, PqcMoves(t), NEW b \in Block,
         \/ \E i \in Pqc!Index : slot[i].block = b
         \/ \E u \in Thread \ {t} : mine[u] = b
  PROVE  heap'[b] = heap[b]
<1>a. Pqc!TypeOK /\ Pqc!SingleOwner /\ b # Null /\ heap[b].live /\ mine[t] # b
  BY DEF Pqc!IInv, Pqc!SingleOwner, Pqc!PqcAssumption
<1>. QED
  BY <1>a DEF PqcMoves, Pqc!Allocate, Pqc!Store, Pqc!StoreFull, Pqc!Detach, Pqc!Scrub,
       Pqc!Delete, Pqc!TypeOK, Pqc!Take, Pqc!Answer, Pqc!Goto

LEMMA PqcMovesOthers ==
  ASSUME Pqc!PqcAssumption, Pqc!IInv, NEW t \in Thread, PqcMoves(t), NEW u \in Thread \ {t}
  PROVE  Pqc!ThreadInv(u)'
<1>1. pc'[u] = pc[u] /\ call'[u] = call[u] /\ mine'[u] = mine[u]
  BY PqcFrame DEF PqcMoves, Pqc!Step
<1>2. mine[u] # Null => heap'[mine[u]] = heap[mine[u]]
  BY PqcOthersUntouched DEF Pqc!IInv, Pqc!TypeOK
<1>3. Pqc!ThreadInv(u)
  BY DEF Pqc!IInv
<1>. QED
  BY <1>1, <1>2, <1>3 DEF Pqc!ThreadInv, Pqc!HoldsHalves

\* Slots stay whole: the stored block is the one its thread filled.
LEMMA PqcMovesSlots ==
  ASSUME Pqc!PqcAssumption, Pqc!IInv, NEW t \in Thread, PqcMoves(t), NEW i \in Pqc!Index
  PROVE  Pqc!SlotInv(i)' /\ (slot'[i].in_use =>
           /\ slot'[i].block # Null
           /\ Pqc!HoldsHalves(slot[i].block, slot[i].name, slot[i].halves)')
<1>a. /\ Pqc!TypeOK /\ Pqc!ThreadInv(t) /\ Pqc!SlotInv(i) /\ (pc[t] # "idle" => call[t] \in Pqc!Calls)
      /\ slot[i].in_use =>
           slot[i].block # Null /\ Pqc!HoldsHalves(slot[i].block, slot[i].name, slot[i].halves)
  BY PqcInCall DEF Pqc!IInv, Pqc!KeysWhole, Pqc!HoldsHalves
<1>1. CASE slot'[i] = slot[i]
  <2>1. slot[i].in_use => heap'[slot[i].block] = heap[slot[i].block]
    BY <1>a, PqcOthersUntouched DEF Pqc!TypeOK
  <2>. QED
    BY <1>1, <1>a, <2>1 DEF Pqc!SlotInv, Pqc!HoldsHalves
<1>2. CASE slot'[i] # slot[i] /\ Pqc!Store(t)
  <2>1. slot'[i] = [block |-> mine[t], name |-> call[t].name, halves |-> call[t].halves,
                    in_use |-> TRUE]
    BY <1>2, <1>a DEF Pqc!Store, Pqc!TypeOK
  <2>2. mine[t] # Null /\ Pqc!HoldsHalves(mine[t], call[t].name, call[t].halves) /\ heap' = heap
        /\ call[t].name \in Name /\ call[t].halves \in Pqc!Halves
    BY <1>2, <1>a, PqcCallFacts DEF Pqc!Store, Pqc!ThreadInv, Pqc!Answer, Pqc!Goto
  <2>. QED
    BY <2>1, <2>2 DEF Pqc!SlotInv, Pqc!HoldsHalves
<1>3. CASE slot'[i] # slot[i] /\ Pqc!Detach(t)
  BY <1>3, <1>a DEF Pqc!Detach, Pqc!TypeOK, Pqc!SlotInv, Pqc!FreeSlot
<1>. QED
  BY <1>1, <1>2, <1>3 DEF PqcMoves, Pqc!Allocate, Pqc!StoreFull, Pqc!Scrub, Pqc!Delete

LEMMA PqcMovesFreed ==
  ASSUME Pqc!PqcAssumption, Pqc!IInv, NEW t \in Thread, PqcMoves(t)
  PROVE  Pqc!FreedScrubbed'
<1> SUFFICES ASSUME NEW b \in Block, ~heap'[b].live PROVE heap'[b] = Pqc!FreeBlock
  BY DEF Pqc!FreedScrubbed
<1>a. Pqc!TypeOK /\ Pqc!ThreadInv(t) /\ (~heap[b].live => heap[b] = Pqc!FreeBlock) /\ Pqc!SingleOwner
  BY DEF Pqc!IInv, Pqc!FreedScrubbed
<1> USE DEF Pqc!Goto, Pqc!Answer, Pqc!Take
<1>1. CASE Pqc!Allocate(t) \/ Pqc!Store(t) \/ Pqc!StoreFull(t) \/ Pqc!Detach(t)
  BY <1>1, <1>a DEF Pqc!Allocate, Pqc!Store, Pqc!StoreFull, Pqc!Detach, Pqc!TypeOK
<1>2. CASE Pqc!Scrub(t)
  <2>1. heap[mine[t]].live
    BY <1>2, <1>a DEF Pqc!Scrub, Pqc!TypeOK, Pqc!SingleOwner
  <2>. QED
    BY <1>2, <1>a, <2>1 DEF Pqc!Scrub, Pqc!TypeOK
<1>3. CASE Pqc!Delete(t)
  <2>1. heap[mine[t]] = [live |-> TRUE, private |-> Null, public |-> Null]
    BY <1>3, <1>a DEF Pqc!Delete, Pqc!ThreadInv
  <2>2. heap' = [heap EXCEPT ![mine[t]].live = FALSE] /\ mine[t] \in Block
    BY <1>3, <1>a DEF Pqc!Delete, Pqc!ThreadInv, Pqc!TypeOK
  <2>3. heap'[mine[t]] \in [live : BOOLEAN, private : Name \cup {Null}, public : Name \cup {Null}]
    BY <1>3, <2>2, PqcMovesTypes DEF PqcMoves, Pqc!TypeOK
  <2>4. /\ ~heap'[mine[t]].live
        /\ heap'[mine[t]].private = Null /\ heap'[mine[t]].public = Null
    BY <1>a, <2>1, <2>2 DEF Pqc!TypeOK
  <2>5. heap'[mine[t]] = [live |-> FALSE, private |-> Null, public |-> Null]
    BY <2>3, <2>4
  <2>6. b # mine[t] => heap'[b] = heap[b]
    BY <1>a, <2>2 DEF Pqc!TypeOK
  <2>. QED
    BY <1>a, <2>5, <2>6 DEF Pqc!FreeBlock
<1>. QED
  BY <1>1, <1>2, <1>3 DEF PqcMoves

\* The invariant is inductive.
LEMMA PqcStepIInv ==
  ASSUME Pqc!PqcAssumption, Pqc!IInv, [Pqc!Next]_(Pqc!vars) PROVE Pqc!IInv'
<1>1. CASE UNCHANGED Pqc!vars
  <2> USE <1>1 DEF Pqc!vars, Pqc!IInv
  <2>1. Pqc!TypeOK' /\ Pqc!SingleOwner'
    BY DEF Pqc!TypeOK, Pqc!SingleOwner
  <2>2. \A t \in Thread : Pqc!ThreadInv(t)'
    BY DEF Pqc!ThreadInv, Pqc!HoldsHalves
  <2>3. (\A i \in Pqc!Index : Pqc!SlotInv(i)') /\ Pqc!KeysWhole' /\ Pqc!FreedScrubbed'
    BY DEF Pqc!SlotInv, Pqc!KeysWhole, Pqc!FreedScrubbed
  <2>. QED
    BY <2>1, <2>2, <2>3
<1>2. ASSUME NEW t \in Thread, PqcQuiet(t) PROVE Pqc!IInv'
  <2>1. Pqc!TypeOK' /\ Pqc!ThreadInv(t)'
    BY <1>2, PqcQuietTypes
  <2>2. heap' = heap /\ slot' = slot /\ mine' = mine
    BY <1>2, PqcQuietKeeps
  <2>3. ASSUME NEW u \in Thread \ {t} PROVE Pqc!ThreadInv(u)'
    <3>1. pc'[u] = pc[u] /\ call'[u] = call[u]
      BY <1>2, PqcFrame DEF PqcQuiet, Pqc!Step
    <3>. QED
      BY <2>2, <3>1 DEF Pqc!IInv, Pqc!ThreadInv, Pqc!HoldsHalves
  <2>4. Pqc!SingleOwner' /\ (\A i \in Pqc!Index : Pqc!SlotInv(i)') /\ Pqc!KeysWhole' /\ Pqc!FreedScrubbed'
    BY <2>2 DEF Pqc!IInv, Pqc!SingleOwner, Pqc!SlotInv, Pqc!KeysWhole, Pqc!FreedScrubbed
  <2>. QED
    BY <2>1, <2>3, <2>4 DEF Pqc!IInv
<1>3. ASSUME NEW t \in Thread, PqcMoves(t) PROVE Pqc!IInv'
  <2>1. Pqc!TypeOK' /\ Pqc!SingleOwner' /\ Pqc!FreedScrubbed'
    BY <1>3, PqcMovesTypes, PqcMovesOwner, PqcMovesFreed
  <2>2. \A u \in Thread : Pqc!ThreadInv(u)'
    BY <1>3, PqcMovesThread, PqcMovesOthers
  <2>3. (\A i \in Pqc!Index : Pqc!SlotInv(i)') /\ Pqc!KeysWhole'
    BY <1>3, PqcMovesSlots DEF Pqc!KeysWhole, Pqc!HoldsHalves
  <2>. QED
    BY <2>1, <2>2, <2>3 DEF Pqc!IInv
<1>. QED
  BY <1>1, <1>2, <1>3 DEF Pqc!Next, Pqc!Step, PqcQuiet, PqcMoves

LEMMA PqcInvariance == ASSUME Pqc!PqcAssumption PROVE Pqc!Spec => []Pqc!IInv
<1>1. Pqc!Init => Pqc!IInv
  BY PqcInitIInv
<1>2. Pqc!IInv /\ [Pqc!Next]_(Pqc!vars) => Pqc!IInv'
  BY PqcStepIInv
<1>. QED
  BY <1>1, <1>2, PTL DEF Pqc!Spec

\* BlocksOwned: whatever threads import, copy and destroy at once, an allocated
\* block has exactly one owner, a slot or a thread, and a deleted one none.
LEMMA PqcBlocksCounted ==
  ASSUME Pqc!PqcAssumption PROVE Pqc!Spec => [](Pqc!TypeOK /\ Pqc!BlocksOwned)
<1>1. ASSUME Pqc!IInv PROVE Pqc!BlocksOwned
  <2> SUFFICES ASSUME NEW b \in Block
      PROVE  Cardinality({i \in Pqc!Index : slot[i].block = b})
               + Cardinality({t \in Thread : mine[t] = b}) = IF heap[b].live THEN 1 ELSE 0
    BY DEF Pqc!BlocksOwned, Pqc!Cardinality, Cardinality
  <2>a. Pqc!SingleOwner /\ b # Null
    BY <1>1 DEF Pqc!IInv, Pqc!PqcAssumption
  <2>1. CASE ~heap[b].live
    <3>1. {i \in Pqc!Index : slot[i].block = b} = {} /\ {t \in Thread : mine[t] = b} = {}
      BY <2>1, <2>a DEF Pqc!SingleOwner
    <3>2. Cardinality({}) = 0
      BY FS_EmptySet
    <3>. QED
      BY <2>1, <3>1, <3>2
  <2>2. ASSUME heap[b].live, NEW i \in Pqc!Index, slot[i].block = b
        PROVE  /\ Cardinality({j \in Pqc!Index : slot[j].block = b}) = 1
               /\ Cardinality({t \in Thread : mine[t] = b}) = 0
    <3>1. {j \in Pqc!Index : slot[j].block = b} = {i} /\ {t \in Thread : mine[t] = b} = {}
      BY <2>2, <2>a DEF Pqc!SingleOwner
    <3>. QED
      BY <3>1, FS_EmptySet, FS_Singleton
  <2>3. ASSUME heap[b].live, NEW u \in Thread, mine[u] = b
        PROVE  /\ Cardinality({j \in Pqc!Index : slot[j].block = b}) = 0
               /\ Cardinality({t \in Thread : mine[t] = b}) = 1
    <3>1. {j \in Pqc!Index : slot[j].block = b} = {} /\ {t \in Thread : mine[t] = b} = {u}
      BY <2>3, <2>a DEF Pqc!SingleOwner
    <3>. QED
      BY <3>1, FS_EmptySet, FS_Singleton
  <2>4. heap[b].live => (\E i \in Pqc!Index : slot[i].block = b) \/ (\E u \in Thread : mine[u] = b)
    BY <2>a DEF Pqc!SingleOwner
  <2> DEFINE slots == Cardinality({i \in Pqc!Index : slot[i].block = b})
             threads == Cardinality({t \in Thread : mine[t] = b})
  <2>5. CASE \E i \in Pqc!Index : slot[i].block = b /\ heap[b].live
    <3>1. slots = 1 /\ threads = 0
      BY <2>2, <2>5
    <3>. QED
      BY <2>5, <3>1
  <2>6. CASE \E u \in Thread : mine[u] = b /\ heap[b].live
    <3>1. slots = 0 /\ threads = 1
      BY <2>3, <2>6
    <3>. QED
      BY <2>6, <3>1
  <2>. QED
    BY <2>1, <2>4, <2>5, <2>6
<1>2. Pqc!IInv => Pqc!TypeOK /\ Pqc!BlocksOwned
  BY <1>1 DEF Pqc!IInv
<1>. QED
  BY <1>2, PqcInvariance, PTL

\* KeysWhole: the block of a slot in use holds the halves the slot was stored
\* with, whole, and memory that was given back holds nothing of a key.
LEMMA PqcKeysUntorn ==
  ASSUME Pqc!PqcAssumption PROVE Pqc!Spec => [](Pqc!KeysWhole /\ Pqc!FreedScrubbed)
<1>1. Pqc!IInv => Pqc!KeysWhole /\ Pqc!FreedScrubbed
  BY DEF Pqc!IInv
<1>. QED
  BY <1>1, PqcInvariance, PTL

\* Every block the post-quantum store has allocated is owned by one slot or by one
\* thread, however imports and destroys of several threads interleave.
THEOREM BlocksCounted == Pqc!Spec => []BlocksOwned
BY PqcShape, PqcBlocksCounted DEF BlocksOwned

\* No reader of the post-quantum store finds a half of a key where another should be,
\* and what was deleted had been zeroed.
THEOREM KeysUntorn == Pqc!Spec => []KeysWhole
BY PqcShape, PqcKeysUntorn DEF KeysWhole

-----------------------------------------------------------------------------
(* The buffers, for any of them, any blocks and any secrets.  SecretsHeld is   *)
(* about secrets alone; the invariant says whose every block is, and that      *)
(* all that is not in a buffer is zero.                                        *)

\* Storage is that of one vector, which exists.
Owned ==
  /\ \A b \in Buffer : vec[b].block # NoBlock => vec[b].exists /\ memory[vec[b].block].live
  /\ \A b, c \in Buffer : vec[b].block = vec[c].block /\ vec[b].block # NoBlock => b = c

\* A byte that is not zero lies within a vector, and an array that is not in an object
\* that exists.
Held ==
  /\ \A m \in Block, p \in Place :
       memory[m].bytes[p] # Zero => \E b \in Buffer : vec[b].block = m /\ p <= vec[b].size
  /\ \A f \in Fixed : array[f].bytes # Zero => array[f].exists

\* A secret is in one block or in one array.
OnePlace ==
  \A s \in Secret :
    /\ \A m, n \in Block, p, q \in Place :
         memory[m].bytes[p] = s /\ memory[n].bytes[q] = s => m = n
    /\ \A f, g \in Fixed : array[f].bytes = s /\ array[g].bytes = s => f = g
    /\ \A m \in Block, p \in Place, f \in Fixed :
         ~(memory[m].bytes[p] = s /\ array[f].bytes = s)

IInv == TypeOK /\ Owned /\ Held /\ OnePlace

-----------------------------------------------------------------------------
(* What the steps do to the heap and the arrays. *)

Mem == [Block -> [live : BOOLEAN, bytes : [Place -> Byte]]]

LEMMA SecureZeroIs ==
  ASSUME BufferAssumption, NEW mem \in Mem, NEW b \in Block \cup {NoBlock}, NEW from, NEW size
  PROVE  /\ SecureZero(mem, b, from, size) \in Mem
         /\ \A m \in Block :
              /\ SecureZero(mem, b, from, size)[m].live = mem[m].live
              /\ \A p \in Place : SecureZero(mem, b, from, size)[m].bytes[p] =
                   IF m = b /\ p \in from .. size THEN Zero ELSE mem[m].bytes[p]
<1>1. CASE b = NoBlock
  BY <1>1 DEF SecureZero, BufferAssumption
<1>2. CASE b # NoBlock
  <2> DEFINE row == [p \in Place |-> IF p \in from .. size THEN Zero ELSE mem[b].bytes[p]]
  <2>1. b \in Block /\ row \in [Place -> Byte]
    BY <1>2 DEF Mem, Byte
  <2>2. SecureZero(mem, b, from, size) = [mem EXCEPT ![b].bytes = row]
    BY <1>2 DEF SecureZero, Place
  <2>4. \A p \in Place : row[p] = IF p \in from .. size THEN Zero ELSE mem[b].bytes[p]
    OBVIOUS
  <2> HIDE DEF row
  <2>3. /\ [mem EXCEPT ![b].bytes = row] \in Mem
        /\ \A m \in Block :
             /\ [mem EXCEPT ![b].bytes = row][m].live = mem[m].live
             /\ [mem EXCEPT ![b].bytes = row][m].bytes = IF m = b THEN row ELSE mem[m].bytes
    BY <2>1 DEF Mem
  <2>. QED
    BY <2>2, <2>3, <2>4
<1>. QED
  BY <1>1, <1>2

LEMMA GiveBackIs ==
  ASSUME BufferAssumption, NEW mem \in Mem, NEW b \in Block \cup {NoBlock}
  PROVE  /\ GiveBack(mem, b) \in Mem
         /\ \A m \in Block :
              /\ GiveBack(mem, b)[m].live = IF m = b THEN FALSE ELSE mem[m].live
              /\ \A p \in Place : GiveBack(mem, b)[m].bytes[p] = mem[m].bytes[p]
BY DEF GiveBack, Mem, BufferAssumption

\* Bytes are left alone or zeroed.
Zeroing ==
  \A m \in Block, p \in Place : memory'[m].bytes[p] \in {memory[m].bytes[p], Zero}

LEMMA ZeroingKeepsOnePlace ==
  ASSUME BufferAssumption, OnePlace, Zeroing, array' = array
  PROVE  OnePlace'
BY DEF BufferAssumption, OnePlace, Zeroing

LEMMA InitIInv == ASSUME BufferAssumption PROVE Init => IInv
<1> SUFFICES ASSUME Init PROVE IInv
  OBVIOUS
<1>1. TypeOK
  BY DEF Init, TypeOK, Gone, Byte, Place, BufferAssumption
<1>2. Owned /\ Held
  BY DEF Init, Owned, Held, Gone, Place
<1>3. OnePlace
  BY DEF Init, OnePlace, Place, BufferAssumption
<1>. QED
  BY <1>1, <1>2, <1>3 DEF IInv

LEMMA ConstructKeeps ==
  ASSUME BufferAssumption, IInv, NEW b \in Buffer, NEW n \in 0 .. MaxSize, Construct(b, n)
  PROVE  IInv'
<1> USE DEF IInv
<1>1. CASE vec' = [vec EXCEPT ![b] = EmptyVector] /\ UNCHANGED memory
  <2>1. /\ vec'[b] = [exists |-> TRUE, block |-> NoBlock, size |-> 0]
        /\ \A c \in Buffer \ {b} : vec'[c] = vec[c]
    BY <1>1 DEF TypeOK, EmptyVector
  <2>2. array' = array
    BY DEF Construct
  <2>3. TypeOK'
    <3>1. vec' = [vec EXCEPT ![b] = [exists |-> TRUE, block |-> NoBlock, size |-> 0]]
      BY <1>1, <2>1 DEF TypeOK
    <3>2. [exists |-> TRUE, block |-> NoBlock, size |-> 0]
            \in [exists : BOOLEAN, block : Block \cup {NoBlock}, size : 0 .. MaxSize]
      BY DEF BufferAssumption
    <3>. QED
      BY <1>1, <2>2, <3>1, <3>2 DEF TypeOK
  <2>4. Owned'
    BY <1>1, <2>1 DEF Owned
  <2>5. vec[b].block = NoBlock
    BY DEF Construct, Owned
  <2>6. Held'
    BY <1>1, <2>1, <2>2, <2>5 DEF Held, BufferAssumption
  <2>7. OnePlace'
    BY <1>1, <2>2 DEF OnePlace
  <2>. QED
    BY <2>3, <2>4, <2>6, <2>7
<1>2. ASSUME NEW k \in Block, n > 0, ~memory[k].live,
             vec' = [vec EXCEPT ![b] = [exists |-> TRUE, block |-> k, size |-> n]],
             memory' = SecureZero([memory EXCEPT ![k].live = TRUE], k, 1, n)
      PROVE  IInv'
  <2> DEFINE mem == [memory EXCEPT ![k].live = TRUE]
  <2>1. /\ mem \in Mem
        /\ \A m \in Block :
             /\ mem[m].live = (IF m = k THEN TRUE ELSE memory[m].live)
             /\ mem[m].bytes = memory[m].bytes
    BY DEF TypeOK, Mem
  <2>2. memory' = SecureZero(mem, k, 1, n)
    BY <1>2
  <2> HIDE DEF mem
  <2>3. /\ memory' \in Mem
        /\ \A m \in Block :
             /\ memory'[m].live = (IF m = k THEN TRUE ELSE memory[m].live)
             /\ \A p \in Place : memory'[m].bytes[p] =
                  IF m = k /\ p \in 1 .. n THEN Zero ELSE memory[m].bytes[p]
    <3>1. /\ memory' \in Mem
          /\ \A m \in Block :
               /\ memory'[m].live = mem[m].live
               /\ \A p \in Place : memory'[m].bytes[p] =
                    IF m = k /\ p \in 1 .. n THEN Zero ELSE mem[m].bytes[p]
      BY <2>1, <2>2, SecureZeroIs
    <3>2. ASSUME NEW m \in Block
          PROVE  /\ memory'[m].live = (IF m = k THEN TRUE ELSE memory[m].live)
                 /\ \A p \in Place : memory'[m].bytes[p] =
                      IF m = k /\ p \in 1 .. n THEN Zero ELSE memory[m].bytes[p]
      <4>1. mem[m].live = (IF m = k THEN TRUE ELSE memory[m].live)
        BY <2>1
      <4>2. mem[m].bytes = memory[m].bytes
        BY <2>1
      <4>. QED
        BY <3>1, <4>1, <4>2
    <3>. QED
      BY <3>1, <3>2
  <2>4. /\ vec'[b] = [exists |-> TRUE, block |-> k, size |-> n]
        /\ \A c \in Buffer \ {b} : vec'[c] = vec[c]
    BY <1>2 DEF TypeOK
  <2>5. array' = array
    BY DEF Construct
  <2>6. \A c \in Buffer : vec[c].block # k
    BY <1>2 DEF Owned, BufferAssumption
  <2>7. TypeOK'
    BY <1>2, <2>3, <2>4, <2>5 DEF TypeOK, Mem
  <2>8. Owned'
    <3>1. ASSUME NEW c \in Buffer, vec'[c].block # NoBlock
          PROVE  vec'[c].exists /\ memory'[vec'[c].block].live
      <4>1. CASE c = b
        <5>1. memory'[k].live = TRUE
          BY <2>3
        <5>2. vec'[b].block = k /\ vec'[b].exists = TRUE
          BY <2>4
        <5>. QED
          BY <4>1, <5>1, <5>2
      <4>2. CASE c # b
        <5>1. vec'[c] = vec[c] /\ vec[c].block \in Block
          BY <2>4, <3>1, <4>2 DEF TypeOK
        <5>. QED
          BY <2>3, <3>1, <5>1 DEF Owned
      <4>. QED
        BY <4>1, <4>2
    <3>2. ASSUME NEW c \in Buffer, NEW d \in Buffer,
                 vec'[c].block = vec'[d].block, vec'[c].block # NoBlock
          PROVE  c = d
      BY <2>4, <2>6, <3>2 DEF Owned
    <3>. QED
      BY <3>1, <3>2 DEF Owned
  <2>9. vec[b].block = NoBlock
    BY DEF Construct, Owned
  <2>10. Held'
    <3>1. ASSUME NEW m \in Block, NEW p \in Place, memory'[m].bytes[p] # Zero
          PROVE  \E c \in Buffer : vec'[c].block = m /\ p <= vec'[c].size
      <4>1. memory[m].bytes[p] # Zero
        BY <2>3, <3>1
      <4>2. PICK c \in Buffer : vec[c].block = m /\ p <= vec[c].size
        BY <4>1 DEF Held
      <4>. QED
        BY <2>4, <2>9, <4>2 DEF BufferAssumption
    <3>. QED
      BY <2>5, <3>1 DEF Held
  <2>11. OnePlace'
    BY <2>3, <2>5, ZeroingKeepsOnePlace DEF Zeroing
  <2>. QED
    BY <2>7, <2>8, <2>10, <2>11
<1>. QED
  BY <1>1, <1>2 DEF Construct

\* What a vector leaves behind when it gives its storage back.
LEMMA ReleaseIs ==
  ASSUME BufferAssumption, TypeOK, NEW b \in Buffer,
         memory' = GiveBack(SecureZero(memory, vec[b].block, 1, vec[b].size), vec[b].block)
  PROVE  /\ memory' \in Mem
         /\ \A m \in Block :
              /\ memory'[m].live = (IF m = vec[b].block THEN FALSE ELSE memory[m].live)
              /\ \A p \in Place : memory'[m].bytes[p] =
                   IF m = vec[b].block /\ p \in 1 .. vec[b].size THEN Zero ELSE memory[m].bytes[p]
<1> DEFINE k == vec[b].block
           n == vec[b].size
           zeroed == SecureZero(memory, k, 1, n)
<1>1. k \in Block \cup {NoBlock} /\ memory \in Mem
  BY DEF TypeOK, Mem
<1> HIDE DEF k, n
<1>2. /\ zeroed \in Mem
      /\ \A m \in Block :
           /\ zeroed[m].live = memory[m].live
           /\ \A p \in Place : zeroed[m].bytes[p] =
                IF m = k /\ p \in 1 .. n THEN Zero ELSE memory[m].bytes[p]
  BY <1>1, SecureZeroIs
<1>3. memory' = GiveBack(zeroed, k)
  BY DEF k, n
<1> HIDE DEF zeroed
<1>4. /\ memory' \in Mem
      /\ \A m \in Block :
           /\ memory'[m].live = (IF m = k THEN FALSE ELSE zeroed[m].live)
           /\ \A p \in Place : memory'[m].bytes[p] = zeroed[m].bytes[p]
  <2>1. /\ GiveBack(zeroed, k) \in Mem
        /\ \A m \in Block :
             /\ GiveBack(zeroed, k)[m].live = IF m = k THEN FALSE ELSE zeroed[m].live
             /\ \A p \in Place : GiveBack(zeroed, k)[m].bytes[p] = zeroed[m].bytes[p]
    BY <1>1, <1>2, GiveBackIs
  <2>. QED
    BY <1>3, <2>1
<1>5. /\ memory' \in Mem
      /\ \A m \in Block :
           /\ memory'[m].live = (IF m = k THEN FALSE ELSE memory[m].live)
           /\ \A p \in Place : memory'[m].bytes[p] =
                IF m = k /\ p \in 1 .. n THEN Zero ELSE memory[m].bytes[p]
  <2>1. ASSUME NEW m \in Block
        PROVE  memory'[m].live = (IF m = k THEN FALSE ELSE memory[m].live)
    BY <1>2, <1>4
  <2>2. ASSUME NEW m \in Block, NEW p \in Place
        PROVE  memory'[m].bytes[p] =
                 IF m = k /\ p \in 1 .. n THEN Zero ELSE memory[m].bytes[p]
    <3>1. memory'[m].bytes[p] = zeroed[m].bytes[p]
      BY <1>4
    <3>2. zeroed[m].bytes[p] = IF m = k /\ p \in 1 .. n THEN Zero ELSE memory[m].bytes[p]
      BY <1>2
    <3>. QED
      BY <3>1, <3>2
  <2>. QED
    BY <1>4, <2>1, <2>2
<1>. QED
  BY <1>5 DEF k, n

\* A byte within the vector that was released is zero, one within another is left.
LEMMA ReleasedHeld ==
  ASSUME BufferAssumption, IInv, NEW b \in Buffer,
         memory' = GiveBack(SecureZero(memory, vec[b].block, 1, vec[b].size), vec[b].block),
         NEW m \in Block, NEW p \in Place, memory'[m].bytes[p] # Zero
  PROVE  \E c \in Buffer \ {b} : vec[c].block = m /\ p <= vec[c].size
<1>1. /\ memory[m].bytes[p] # Zero
      /\ ~(m = vec[b].block /\ p \in 1 .. vec[b].size)
  BY ReleaseIs DEF IInv
<1>2. PICK c \in Buffer : vec[c].block = m /\ p <= vec[c].size
  BY <1>1 DEF IInv, Held
<1>3. vec[b].size \in 0 .. MaxSize
  BY DEF IInv, TypeOK
<1>. QED
  BY <1>1, <1>2, <1>3 DEF Place, BufferAssumption

LEMMA MoveConstructKeeps ==
  ASSUME BufferAssumption, IInv, NEW b \in Buffer, NEW other \in Buffer, MoveConstruct(b, other)
  PROVE  IInv'
<1> USE DEF IInv
<1>1. /\ memory' = memory /\ array' = array /\ b # other
      /\ vec[other].exists /\ vec[b].block = NoBlock
  BY DEF MoveConstruct, Owned
<1>2. EmptyVector = [exists |-> TRUE, block |-> NoBlock, size |-> 0]
  BY DEF EmptyVector
<1>3. /\ vec'[b] = vec[other] /\ vec'[other] = EmptyVector
      /\ \A c \in Buffer \ {b, other} : vec'[c] = vec[c]
  BY <1>1 DEF MoveConstruct, TypeOK
<1>4. TypeOK'
  <2>1. EmptyVector \in [exists : BOOLEAN, block : Block \cup {NoBlock}, size : 0 .. MaxSize]
    BY <1>2 DEF BufferAssumption
  <2>. QED
    BY <1>1, <2>1 DEF MoveConstruct, TypeOK
<1>5. Owned'
  BY <1>1, <1>2, <1>3 DEF Owned
<1>6. Held'
  BY <1>1, <1>3 DEF Held, BufferAssumption
<1>7. OnePlace'
  BY <1>1 DEF OnePlace
<1>. QED
  BY <1>4, <1>5, <1>6, <1>7

LEMMA MoveAssignKeeps ==
  ASSUME BufferAssumption, IInv, NEW b \in Buffer, NEW other \in Buffer, MoveAssign(b, other)
  PROVE  IInv'
<1> USE DEF IInv
<1>1. /\ memory' = GiveBack(SecureZero(memory, vec[b].block, 1, vec[b].size), vec[b].block)
      /\ array' = array /\ b # other /\ vec[other].exists
  BY DEF MoveAssign
<1>2. EmptyVector = [exists |-> TRUE, block |-> NoBlock, size |-> 0]
  BY DEF EmptyVector
<1>3. /\ vec'[b] = vec[other] /\ vec'[other] = EmptyVector
      /\ \A c \in Buffer \ {b, other} : vec'[c] = vec[c]
  BY <1>1 DEF MoveAssign, TypeOK
<1>4. /\ memory' \in Mem
      /\ \A m \in Block :
           /\ memory'[m].live = (IF m = vec[b].block THEN FALSE ELSE memory[m].live)
           /\ \A p \in Place : memory'[m].bytes[p] =
                IF m = vec[b].block /\ p \in 1 .. vec[b].size THEN Zero ELSE memory[m].bytes[p]
  BY <1>1, ReleaseIs
<1>5. TypeOK'
  <2>1. EmptyVector \in [exists : BOOLEAN, block : Block \cup {NoBlock}, size : 0 .. MaxSize]
    BY <1>2 DEF BufferAssumption
  <2>. QED
    BY <1>1, <1>4, <2>1 DEF MoveAssign, TypeOK, Mem
<1>6. Owned'
  <2>1. ASSUME NEW c \in Buffer, vec'[c].block # NoBlock
        PROVE  vec'[c].exists /\ memory'[vec'[c].block].live
    <3>1. PICK d \in Buffer : d # b /\ vec'[c] = vec[d]
      BY <1>1, <1>2, <1>3, <2>1
    <3>2. vec[d].block \in Block /\ vec[d].exists /\ memory[vec[d].block].live
      BY <2>1, <3>1 DEF Owned, TypeOK
    <3>3. vec[d].block # vec[b].block
      BY <2>1, <3>1 DEF Owned
    <3>. QED
      BY <1>4, <3>1, <3>2, <3>3
  <2>2. ASSUME NEW c \in Buffer, NEW d \in Buffer,
               vec'[c].block = vec'[d].block, vec'[c].block # NoBlock
        PROVE  c = d
    BY <1>1, <1>2, <1>3, <2>2 DEF Owned
  <2>. QED
    BY <2>1, <2>2 DEF Owned
<1>7. Held'
  <2>1. ASSUME NEW m \in Block, NEW p \in Place, memory'[m].bytes[p] # Zero
        PROVE  \E c \in Buffer : vec'[c].block = m /\ p <= vec'[c].size
    <3>1. PICK c \in Buffer \ {b} : vec[c].block = m /\ p <= vec[c].size
      BY <1>1, <2>1, ReleasedHeld
    <3>2. CASE c = other
      BY <1>3, <3>1, <3>2
    <3>3. CASE c # other
      BY <1>3, <3>1, <3>3
    <3>. QED
      BY <3>2, <3>3
  <2>. QED
    BY <1>1, <2>1 DEF Held
<1>8. OnePlace'
  BY <1>1, <1>4, ZeroingKeepsOnePlace, ZenonT(60) DEF Zeroing
<1>. QED
  BY <1>5, <1>6, <1>7, <1>8

LEMMA DestructKeeps ==
  ASSUME BufferAssumption, IInv, NEW b \in Buffer, Destruct(b)
  PROVE  IInv'
<1> USE DEF IInv
<1>1. /\ memory' = GiveBack(SecureZero(memory, vec[b].block, 1, vec[b].size), vec[b].block)
      /\ array' = array /\ vec' = [vec EXCEPT ![b] = Gone]
  BY DEF Destruct
<1>2. vec'[b] = Gone /\ \A c \in Buffer \ {b} : vec'[c] = vec[c]
  BY <1>1 DEF TypeOK
<1>3. /\ memory' \in Mem
      /\ \A m \in Block :
           /\ memory'[m].live = (IF m = vec[b].block THEN FALSE ELSE memory[m].live)
           /\ \A p \in Place : memory'[m].bytes[p] =
                IF m = vec[b].block /\ p \in 1 .. vec[b].size THEN Zero ELSE memory[m].bytes[p]
  BY <1>1, ReleaseIs
<1>4. TypeOK'
  <2>1. Gone \in [exists : BOOLEAN, block : Block \cup {NoBlock}, size : 0 .. MaxSize]
    BY DEF Gone, BufferAssumption
  <2>. QED
    BY <1>1, <1>3, <2>1 DEF TypeOK, Mem
<1>5. Owned'
  <2>1. ASSUME NEW c \in Buffer, vec'[c].block # NoBlock
        PROVE  c # b /\ vec'[c].exists /\ memory'[vec'[c].block].live
    <3>1. c # b /\ vec'[c] = vec[c]
      BY <1>2, <2>1 DEF Gone
    <3>2. vec[c].block \in Block /\ vec[c].exists /\ memory[vec[c].block].live
      BY <2>1, <3>1 DEF Owned, TypeOK
    <3>3. vec[c].block # vec[b].block
      BY <2>1, <3>1 DEF Owned
    <3>. QED
      BY <1>3, <3>1, <3>2, <3>3
  <2>. QED
    BY <1>2, <2>1 DEF Owned
<1>6. Held'
  <2>1. ASSUME NEW m \in Block, NEW p \in Place, memory'[m].bytes[p] # Zero
        PROVE  \E c \in Buffer : vec'[c].block = m /\ p <= vec'[c].size
    BY <1>1, <1>2, <2>1, ReleasedHeld
  <2>. QED
    BY <1>1, <2>1 DEF Held
<1>7. OnePlace'
  BY <1>1, <1>3, ZeroingKeepsOnePlace DEF Zeroing
<1>. QED
  BY <1>4, <1>5, <1>6, <1>7

LEMMA ResizeKeeps ==
  ASSUME BufferAssumption, IInv, NEW b \in Buffer, NEW n \in 0 .. MaxSize, Resize(b, n)
  PROVE  IInv'
<1> USE DEF IInv
<1> DEFINE k == vec[b].block
           size == vec[b].size
<1>1. /\ memory' = SecureZero(memory, k, n + 1, size) /\ array' = array /\ n <= size
      /\ vec' = [vec EXCEPT ![b].size = n]
  BY DEF Resize
<1>2. /\ \A c \in Buffer : vec'[c].block = vec[c].block /\ vec'[c].exists = vec[c].exists
      /\ vec'[b].size = n /\ \A c \in Buffer \ {b} : vec'[c] = vec[c]
  BY <1>1 DEF TypeOK
<1>3. memory \in Mem /\ k \in Block \cup {NoBlock} /\ size \in 0 .. MaxSize
  BY DEF TypeOK, Mem
<1>4. TypeOK /\ Owned /\ Held /\ OnePlace
  OBVIOUS
<1> HIDE DEF k, size
<1>5. /\ memory' \in Mem
      /\ \A m \in Block :
           /\ memory'[m].live = memory[m].live
           /\ \A p \in Place : memory'[m].bytes[p] =
                IF m = k /\ p \in n + 1 .. size THEN Zero ELSE memory[m].bytes[p]
  <2> DEFINE zeroed == SecureZero(memory, k, n + 1, size)
  <2>1. /\ zeroed \in Mem
        /\ \A m \in Block :
             /\ zeroed[m].live = memory[m].live
             /\ \A p \in Place : zeroed[m].bytes[p] =
                  IF m = k /\ p \in n + 1 .. size THEN Zero ELSE memory[m].bytes[p]
    BY <1>3, SecureZeroIs
  <2>. QED
    BY <1>1, <2>1
<1>6. TypeOK'
  BY <1>1, <1>4, <1>5 DEF TypeOK, Mem
<1>7. Owned'
  <2>1. ASSUME NEW c \in Buffer, vec'[c].block # NoBlock
        PROVE  vec'[c].exists /\ memory'[vec'[c].block].live
    <3>1. vec[c].block \in Block /\ vec[c].exists /\ memory[vec[c].block].live
      BY <1>2, <1>4, <2>1 DEF Owned, TypeOK
    <3>. QED
      BY <1>2, <1>5, <3>1
  <2>. QED
    BY <1>2, <1>4, <2>1 DEF Owned
<1>8. Held'
  <2>1. ASSUME NEW m \in Block, NEW p \in Place, memory'[m].bytes[p] # Zero
        PROVE  \E c \in Buffer : vec'[c].block = m /\ p <= vec'[c].size
    <3>1. memory[m].bytes[p] # Zero /\ ~(m = k /\ p \in n + 1 .. size)
      BY <1>5, <2>1
    <3>2. PICK c \in Buffer : vec[c].block = m /\ p <= vec[c].size
      BY <1>4, <3>1 DEF Held
    <3>3. CASE c = b
      <4>1. m = k /\ p <= size
        BY <3>2, <3>3 DEF k, size
      <4>2. p <= n
        BY <1>3, <3>1, <4>1 DEF Place, BufferAssumption
      <4>. QED
        BY <1>2, <3>2, <3>3, <4>2
    <3>4. CASE c # b
      BY <1>2, <3>2, <3>4
    <3>. QED
      BY <3>3, <3>4
  <2>. QED
    BY <1>1, <1>4, <2>1 DEF Held
<1>9. OnePlace'
  <2>1. Zeroing
    BY <1>5 DEF Zeroing
  <2>. QED
    BY <1>1, <1>4, <2>1, ZeroingKeepsOnePlace
<1>. QED
  BY <1>6, <1>7, <1>8, <1>9

\* An array is born zero, and zeroed before it dies.
LEMMA FixedZeroKeeps ==
  ASSUME BufferAssumption, IInv, NEW f \in Fixed, FixedConstruct(f) \/ FixedDestruct(f)
  PROVE  IInv'
<1> USE DEF IInv
<1>1. PICK e \in BOOLEAN : array' = [array EXCEPT ![f] = [exists |-> e, bytes |-> Zero]]
  BY DEF FixedConstruct, FixedDestruct
<1>2. memory' = memory /\ vec' = vec
  BY DEF FixedConstruct, FixedDestruct
<1>3. array'[f].bytes = Zero /\ \A g \in Fixed \ {f} : array'[g] = array[g]
  BY <1>1 DEF TypeOK
<1>4. TypeOK'
  BY <1>1, <1>2 DEF TypeOK, Byte
<1>5. Owned' /\ Held'
  BY <1>2, <1>3 DEF Owned, Held
<1>6. OnePlace'
  BY <1>2, <1>3 DEF OnePlace, BufferAssumption
<1>. QED
  BY <1>4, <1>5, <1>6

\* A move takes what an array holds along and leaves zero.
LEMMA FixedMoveKeeps ==
  ASSUME BufferAssumption, IInv, NEW f \in Fixed, NEW other \in Fixed,
         FixedMoveConstruct(f, other) \/ FixedMoveAssign(f, other)
  PROVE  IInv'
<1> USE DEF IInv
<1>1. /\ f # other /\ array[other].exists
      /\ array' = FixedMove(f, other) /\ memory' = memory /\ vec' = vec
  BY DEF FixedMoveConstruct, FixedMoveAssign
<1>2. array' \in [Fixed -> [exists : BOOLEAN, bytes : Byte]]
  BY <1>1 DEF FixedMove, TypeOK, Byte
<1>3. /\ array'[f].exists = TRUE /\ array'[f].bytes = array[other].bytes
      /\ array'[other].bytes = Zero
      /\ \A g \in Fixed \ {f, other} : array'[g] = array[g]
  BY <1>1 DEF FixedMove, TypeOK
<1>4. TypeOK'
  BY <1>1, <1>2 DEF TypeOK
<1>5. Owned' /\ Held'
  BY <1>1, <1>3 DEF Owned, Held
<1>6. OnePlace'
  BY <1>1, <1>3 DEF OnePlace, BufferAssumption
<1>. QED
  BY <1>4, <1>5, <1>6

\* A secret that is new is in no block and no array.
LEMMA NewIs ==
  ASSUME NEW s \in Secret, New(s)
  PROVE  /\ \A m \in Block, p \in Place : memory[m].bytes[p] # s
         /\ \A f \in Fixed : array[f].bytes # s
<1>1. ASSUME NEW m \in Block, NEW p \in Place PROVE memory[m].bytes[p] # s
  <2>1. <<m, p>> \in Block \X (1 .. MaxSize) /\ <<m, p>>[1] = m /\ <<m, p>>[2] = p
    BY DEF Place
  <2>2. <<m, p>> \notin BytesOf(s)
    BY DEF New
  <2>. QED
    BY <2>1, <2>2 DEF BytesOf
<1>. QED
  BY <1>1 DEF New, ArraysOf

LEMMA FillKeeps ==
  ASSUME BufferAssumption, IInv, NEW b \in Buffer, NEW s \in Secret, Fill(b, s)
  PROVE  IInv'
<1> USE DEF IInv
<1> DEFINE k == vec[b].block
           size == vec[b].size
           row == [p \in Place |-> IF p <= size THEN s ELSE memory[k].bytes[p]]
<1>1. /\ k \in Block /\ size \in 0 .. MaxSize
      /\ memory' = [memory EXCEPT ![k].bytes = row] /\ vec' = vec /\ array' = array
  BY DEF Fill, Place, TypeOK
<1>2. row \in [Place -> Byte]
  BY <1>1 DEF TypeOK, Byte
<1>3. \A p \in Place : row[p] = IF p <= size THEN s ELSE memory[k].bytes[p]
  OBVIOUS
<1>4. TypeOK /\ Owned /\ Held /\ OnePlace
  OBVIOUS
<1>5. vec[b].block = k /\ vec[b].size = size
  OBVIOUS
<1> HIDE DEF k, size, row
<1>6. /\ memory' \in Mem
      /\ \A m \in Block :
           /\ memory'[m].live = memory[m].live
           /\ memory'[m].bytes = IF m = k THEN row ELSE memory[m].bytes
  BY <1>1, <1>2, <1>4 DEF TypeOK, Mem
<1>7. TypeOK'
  BY <1>1, <1>4, <1>6 DEF TypeOK, Mem
<1>8. Owned'
  BY <1>1, <1>4, <1>6 DEF Owned, TypeOK
<1>9. Held'
  <2>1. ASSUME NEW m \in Block, NEW p \in Place, memory'[m].bytes[p] # Zero
        PROVE  \E c \in Buffer : vec'[c].block = m /\ p <= vec'[c].size
    <3>1. CASE m = k /\ p <= size
      BY <1>1, <1>5, <3>1
    <3>2. CASE ~(m = k /\ p <= size)
      <4>1. memory[m].bytes[p] # Zero
        BY <1>3, <1>6, <2>1, <3>2
      <4>. QED
        BY <1>1, <1>4, <4>1 DEF Held
    <3>. QED
      BY <3>1, <3>2
  <2>. QED
    BY <1>1, <1>4, <2>1 DEF Held
<1>10. OnePlace'
  <2>1. \A m \in Block, p \in Place : memory[m].bytes[p] # s
    BY NewIs DEF Fill
  <2>2. \A f \in Fixed : array[f].bytes # s
    BY NewIs DEF Fill
  <2>3. ASSUME NEW m \in Block, NEW p \in Place
        PROVE  memory'[m].bytes[p] = memory[m].bytes[p] \/ (m = k /\ memory'[m].bytes[p] = s)
    BY <1>3, <1>6
  <2>. QED
    BY <1>1, <1>4, <2>1, <2>2, <2>3 DEF OnePlace
<1>. QED
  BY <1>7, <1>8, <1>9, <1>10

LEMMA FixedFillKeeps ==
  ASSUME BufferAssumption, IInv, NEW f \in Fixed, NEW s \in Secret, FixedFill(f, s)
  PROVE  IInv'
<1> USE DEF IInv
<1>1. /\ array' = [array EXCEPT ![f].bytes = s] /\ memory' = memory /\ vec' = vec
      /\ array[f].exists
  BY DEF FixedFill
<1>2. /\ array' \in [Fixed -> [exists : BOOLEAN, bytes : Byte]]
      /\ array'[f].exists = array[f].exists /\ array'[f].bytes = s
      /\ \A g \in Fixed \ {f} : array'[g] = array[g]
  BY <1>1 DEF TypeOK, Byte
<1>3. TypeOK'
  BY <1>1, <1>2 DEF TypeOK
<1>4. Owned' /\ Held'
  BY <1>1, <1>2 DEF Owned, Held
<1>5. OnePlace'
  <2>1. \A m \in Block, p \in Place : memory[m].bytes[p] # s
    BY NewIs DEF FixedFill
  <2>2. \A g \in Fixed : array[g].bytes # s
    BY NewIs DEF FixedFill
  <2>. QED
    BY <1>1, <1>2, <2>1, <2>2 DEF OnePlace
<1>. QED
  BY <1>3, <1>4, <1>5

LEMMA Invariance == ASSUME BufferAssumption PROVE Spec => []IInv
<1>1. ASSUME IInv, [Next]_vars PROVE IInv'
  <2>1. CASE Next
    BY <1>1, <2>1, ConstructKeeps, ResizeKeeps, MoveConstructKeeps, MoveAssignKeeps, DestructKeeps,
       FillKeeps, FixedZeroKeeps, FixedMoveKeeps, FixedFillKeeps DEF Next
  <2>2. CASE UNCHANGED vars
    BY <1>1, <2>2 DEF vars, IInv, TypeOK, Owned, Held, OnePlace
  <2>. QED
    BY <1>1, <2>1, <2>2
<1>. QED
  BY <1>1, InitIInv, PTL DEF Spec

\* However buffers are filled, cut, moved, assigned and destroyed, a secret is in the
\* bytes of the one buffer that holds it.
THEOREM SecretsStay == Spec => [](TypeOK /\ SecretsHeld)
<1>1. ASSUME IInv PROVE SecretsHeld
  <2> SUFFICES ASSUME NEW s \in Secret
      PROVE  /\ \A place \in BytesOf(s) : \E b \in Buffer :
                  vec[b].exists /\ vec[b].block = place[1] /\ place[2] <= vec[b].size
             /\ \A f \in ArraysOf(s) : array[f].exists
             /\ Cardinality({place[1] : place \in BytesOf(s)}) + Cardinality(ArraysOf(s)) <= 1
    BY DEF SecretsHeld
  <2> USE BufferShape DEF BufferAssumption
  <2>1. \A place \in BytesOf(s) :
          place[1] \in Block /\ place[2] \in Place /\ memory[place[1]].bytes[place[2]] = s
    BY DEF BytesOf, Place
  <2>2. ASSUME NEW place \in BytesOf(s)
        PROVE  \E b \in Buffer :
                 vec[b].exists /\ vec[b].block = place[1] /\ place[2] <= vec[b].size
    BY <1>1, <2>1 DEF IInv, Held, Owned
  <2>3. ASSUME NEW f \in ArraysOf(s) PROVE f \in Fixed /\ array[f].bytes = s /\ array[f].exists
    BY <1>1 DEF ArraysOf, IInv, Held
  <2> DEFINE blocks == {place[1] : place \in BytesOf(s)}
             arrays == ArraysOf(s)
  <2>4. \A m, n \in blocks : m = n
    BY <1>1, <2>1 DEF IInv, OnePlace
  <2>5. \A f, g \in arrays : f = g
    BY <1>1, <2>3 DEF IInv, OnePlace
  <2>6. blocks = {} \/ arrays = {}
    BY <1>1, <2>1, <2>3 DEF IInv, OnePlace
  <2> HIDE DEF blocks, arrays
  <2>7. blocks = {} \/ \E m : blocks = {m}
    BY <2>4
  <2>8. arrays = {} \/ \E f : arrays = {f}
    BY <2>5
  <2>9. Cardinality({}) = 0 /\ \A x : Cardinality({x}) = 1
    BY FS_EmptySet, FS_Singleton
  <2>10. Cardinality(blocks) = 0 \/ Cardinality(blocks) = 1
    BY <2>7, <2>9, Zenon
  <2>11. Cardinality(arrays) = 0 \/ Cardinality(arrays) = 1
    BY <2>8, <2>9, Zenon
  <2>12. Cardinality(blocks) = 0 \/ Cardinality(arrays) = 0
    BY <2>6, <2>9, Zenon
  <2>13. Cardinality(blocks) + Cardinality(arrays) <= 1
    BY <2>10, <2>11, <2>12, SMT
  <2>. QED
    BY <2>2, <2>3, <2>13 DEF blocks, arrays
<1>2. IInv => TypeOK
  BY DEF IInv
<1>. QED
  BY <1>1, <1>2, Invariance, BufferShape, PTL

-----------------------------------------------------------------------------
(* The derivation, for every block length and every range of the counter.    *)
(* DerivesAsGiven speaks of the end of the loop; the invariant says what is  *)
(* there at each turn, and that between calls the operation and the inputs   *)
(* accepted so far are the same.                                             *)

\* The operation remembers what was accepted and nothing else.
Remembers ==
  /\ DOMAIN op = {"alg", "phase", "key_id", "salt", "info"}
  /\ DOMAIN given = {"alg", "key", "salt", "info", "len"}
  /\ op.phase \in {"Init", "Setup", "KeySet", "InfoSet"}
  /\ op.alg = given.alg /\ op.salt = given.salt /\ op.info = given.info
  /\ op.phase # "Init" => op.alg \in Derivation!Algs
  /\ op.phase # "InfoSet" => Derivation!Quiet /\ out = <<>>

\* The blocks so far are T(1), T(2), and so on.
Chained ==
  /\ out \in Seq({out[i] : i \in DOMAIN out})
  /\ \A i \in 1 .. Len(out) : out[i].block =
       Derivation!Hmac(Derivation!Prk, IF i = 1 THEN NoBlock ELSE out[i - 1].block,
                       given.info, i)

\* Before the last block all are full, and the counter is one ahead of them.
Halfway ==
  /\ loop.written = Len(out) * HashLen
  /\ \A i \in 1 .. Len(out) : out[i].bytes = HashLen
  /\ loop.counter = Len(out) + 1
  /\ out # <<>> => loop.t = out[Len(out)].block

Looping ==
  /\ DOMAIN loop = {"len", "prk", "info", "written", "counter", "t"}
  /\ loop.len = given.len /\ loop.len \in 1 .. Derivation!MaxOutput
  /\ loop.prk = Derivation!Prk /\ loop.info = given.info
  /\ loop.written \in 0 .. loop.len
  /\ Chained
  /\ IF loop.written < loop.len THEN Halfway
     ELSE out # <<>> /\ Derivation!Expanded(out, Derivation!Prk, given.info, given.len)

DerivationInv ==
  /\ Remembers
  /\ ~Derivation!Quiet => Looping
  /\ DerivesAsGiven

\* Facts about products of natural numbers.
LEMMA Products ==
  ASSUME NEW h \in Nat \ {0}
  PROVE  /\ \A a, b \in Nat : a * h < b * h => a < b
         /\ \A a \in Nat : a * h \in Nat /\ (a + 1) * h = a * h + h
<1>1. \A a \in Nat : a * h \in Nat /\ (a + 1) * h = a * h + h
  OBVIOUS
<1>2. ASSUME NEW a \in Nat, NEW b \in Nat, b <= a PROVE b * h <= a * h
  <2>1. a - b \in Nat /\ a = b + (a - b)
    BY <1>2
  <2>2. a * h = b * h + (a - b) * h /\ (a - b) * h \in Nat
    BY <2>1
  <2>. QED
    BY <2>2
<1>. QED
  BY <1>1, <1>2

\* A sequence is one of its own elements.
LEMMA OfItsElements ==
  ASSUME NEW S, NEW q \in Seq(S) PROVE q \in Seq({q[i] : i \in DOMAIN q})
<1> DEFINE R == {q[i] : i \in DOMAIN q}
<1>1. Len(q) \in Nat /\ DOMAIN q = 1 .. Len(q) /\ q \in [1 .. Len(q) -> S]
  BY LenProperties
<1>2. q \in [1 .. Len(q) -> R]
  BY <1>1
<1> HIDE DEF R
<1>3. q \in Seq(R)
  BY <1>1, <1>2, SeqDef
<1>. QED
  BY <1>3 DEF R

\* One block more, after those there are.
LEMMA BlockAppended ==
  ASSUME out \in Seq({out[i] : i \in DOMAIN out}), NEW b, out' = Append(out, b)
  PROVE  /\ out' \in Seq({out'[i] : i \in DOMAIN out'})
         /\ Len(out) \in Nat /\ Len(out') = Len(out) + 1
         /\ \A i \in 1 .. Len(out) : out'[i] = out[i]
         /\ out'[Len(out) + 1] = b /\ out' # <<>>
<1> DEFINE S == {out[i] : i \in DOMAIN out} \cup {b}
<1>1. out \in Seq(S)
  BY SeqMonotonic
<1>2. b \in S
  OBVIOUS
<1> HIDE DEF S
<1>3. /\ Append(out, b) \in Seq(S) /\ Append(out, b) # <<>> /\ Len(Append(out, b)) = Len(out) + 1
      /\ \A i \in 1 .. Len(out) : Append(out, b)[i] = out[i]
      /\ Append(out, b)[Len(out) + 1] = b
  BY <1>1, <1>2, AppendProperties
<1>4. Len(out) \in Nat /\ DOMAIN out' = 1 .. Len(out')
      /\ out' \in [1 .. Len(out') -> S] /\ Len(out') \in Nat
  BY <1>1, <1>3, LenProperties
<1>5. out' \in Seq({out'[i] : i \in DOMAIN out'})
  BY <1>1, <1>2, <1>3, OfItsElements
<1>. QED
  BY <1>3, <1>4, <1>5

LEMMA DerivationInit == Derivation!Init => DerivationInv
BY DEF Derivation!Init, Derivation!Zeroized, Derivation!Nothing, Derivation!Idle, Derivation!Quiet,
       DerivationInv, Remembers, DerivesAsGiven, Derivation!DerivesAsGiven

\* A turn of the loop.
LEMMA ExpandBlockKeeps ==
  ASSUME DerivationInv, Derivation!ExpandBlock PROVE DerivationInv'
<1> DEFINE H == HashLen
           n == Len(out)
           rest == loop.len - loop.written
           take == IF rest < H THEN rest ELSE H
           t == Derivation!Hmac(loop.prk, IF loop.counter > 1 THEN loop.t ELSE NoBlock,
                                loop.info, loop.counter)
<1>1. /\ ~Derivation!Quiet /\ loop.written < loop.len
      /\ store' = store /\ op' = op /\ given' = given
      /\ out' = Append(out, [block |-> t, bytes |-> take])
      /\ loop' = [loop EXCEPT !.t = t, !.written = loop.written + take,
                              !.counter = (loop.counter + 1) % CounterRange]
  BY DEF Derivation!ExpandBlock
<1>2. Remembers /\ Looping /\ Chained /\ Halfway
  BY <1>1 DEF DerivationInv, Looping
<1>3. /\ loop'.t = t /\ loop'.written = loop.written + take
      /\ loop'.counter = (loop.counter + 1) % CounterRange
      /\ loop'.len = loop.len /\ loop'.prk = loop.prk /\ loop'.info = loop.info
      /\ DOMAIN loop' = DOMAIN loop
  BY <1>1, <1>2 DEF Looping
<1>4. /\ out' \in Seq({out'[i] : i \in DOMAIN out'})
      /\ n \in Nat /\ Len(out') = n + 1
      /\ \A i \in 1 .. n : out'[i] = out[i]
      /\ out'[n + 1] = [block |-> t, bytes |-> take] /\ out' # <<>>
  BY <1>1, <1>2, BlockAppended DEF Chained
<1>5. H \in Nat \ {0} /\ CounterRange \in Nat \ {0}
  BY HkdfShape DEF Derivation!HkdfAssumption
<1>6. /\ loop.len \in Nat \ {0} /\ loop.written = n * H /\ n * H \in Nat
      /\ loop.len <= (CounterRange - 1) * H /\ n * H < (CounterRange - 1) * H
  <2>1. CounterRange - 1 \in Nat /\ (CounterRange - 1) * H \in Nat /\ n * H \in Nat
    BY <1>4, <1>5, Products
  <2>2. loop.len \in 1 .. (CounterRange - 1) * H
    BY <1>2 DEF Looping, Derivation!MaxOutput
  <2>3. loop.written = n * H
    BY <1>2 DEF Halfway
  <2> HIDE DEF n, H
  <2>4. loop.len \in Nat \ {0} /\ loop.len <= (CounterRange - 1) * H
    BY <2>1, <2>2
  <2>. QED
    BY <1>1, <2>1, <2>3, <2>4
<1>7. n < CounterRange - 1
  <2>1. CounterRange - 1 \in Nat
    BY <1>5
  <2>. QED
    BY <1>4, <1>5, <1>6, <2>1, Products
<1>8. rest \in Nat \ {0} /\ take \in 1 .. H /\ take <= rest
  BY <1>1, <1>5, <1>6, SMTT(30)
<1>9. /\ Derivation!Prk' = Derivation!Prk /\ given'.info = given.info
      /\ ~Derivation!Quiet'
  BY <1>1, <1>3, <1>2, <1>6 DEF Derivation!Prk, Derivation!Quiet, Derivation!Idle, Looping
<1>10. t = Derivation!Hmac(Derivation!Prk,
                           IF n + 1 = 1 THEN NoBlock ELSE out[n].block, given.info, n + 1)
  <2>1. loop.counter = n + 1 /\ loop.prk = Derivation!Prk /\ loop.info = given.info
    BY <1>2 DEF Looping, Halfway
  <2>2. n # 0 => loop.t = out[n].block
    BY <1>2, <1>4, EmptySeq DEF Halfway
  <2>3. (IF loop.counter > 1 THEN loop.t ELSE NoBlock)
          = IF n + 1 = 1 THEN NoBlock ELSE out[n].block
    BY <1>4, <2>1, <2>2
  <2>. QED
    BY <2>1, <2>3
<1> HIDE DEF H, n, rest, take, t
<1>11. Chained'
  <2>1. ASSUME NEW i \in 1 .. n + 1
        PROVE  out'[i].block =
                 Derivation!Hmac(Derivation!Prk,
                   IF i = 1 THEN NoBlock ELSE out'[i - 1].block, given.info, i)
    <3>1. CASE i = n + 1
      <4>1. out'[i].block = t
        BY <1>4, <3>1
      <4>2. i # 1 => out'[i - 1] = out[n]
        BY <1>4, <3>1
      <4>. QED
        BY <1>10, <3>1, <4>1, <4>2
    <3>2. CASE i # n + 1
      <4>1. i \in 1 .. n
        BY <1>4, <3>2
      <4>2. out'[i] = out[i] /\ (i # 1 => out'[i - 1] = out[i - 1])
        BY <1>4, <4>1
      <4>3. out[i].block = Derivation!Hmac(Derivation!Prk,
              IF i = 1 THEN NoBlock ELSE out[i - 1].block, given.info, i)
        BY <1>2, <4>1 DEF Chained, n
      <4>. QED
        BY <4>2, <4>3
    <3>. QED
      BY <3>1, <3>2
  <2>. QED
    BY <1>4, <1>9, <2>1 DEF Chained
<1>12. loop'.written \in 0 .. loop'.len
  BY <1>3, <1>6, <1>8 DEF rest
<1>13. ASSUME loop'.written < loop'.len PROVE Halfway'
  <2>1. take = H
    BY <1>3, <1>6, <1>8, <1>13 DEF take, rest
  <2>2. loop'.written = (n + 1) * H
    BY <1>3, <1>4, <1>5, <1>6, <2>1, Products
  <2>3. n + 1 < CounterRange - 1
    <3>1. /\ n + 1 \in Nat /\ CounterRange - 1 \in Nat
          /\ (n + 1) * H \in Nat /\ (CounterRange - 1) * H \in Nat
      BY <1>4, <1>5, Products
    <3>2. (n + 1) * H < loop.len
      BY <1>3, <1>13, <2>2
    <3>3. loop.len \in Nat /\ loop.len <= (CounterRange - 1) * H
      BY <1>6
    <3>4. \A a, b, c \in Nat : a < b /\ b <= c => a < c
      OBVIOUS
    <3>5. (n + 1) * H < (CounterRange - 1) * H
      BY <3>1, <3>2, <3>3, <3>4
    <3>. QED
      BY <1>5, <3>1, <3>5, Products
  <2>4. loop'.counter = n + 2
    <3>1. loop.counter + 1 = n + 2 /\ n + 2 \in 0 .. CounterRange - 1
      BY <1>2, <1>4, <1>5, <2>3 DEF Halfway, n
    <3>. QED
      BY <1>3, <1>5, <3>1
  <2>5. \A i \in 1 .. n + 1 : out'[i].bytes = HashLen
    BY <1>2, <1>4, <2>1 DEF Halfway, H, n
  <2>6. loop'.t = out'[n + 1].block
    BY <1>3, <1>4
  <2>. QED
    BY <1>4, <2>2, <2>4, <2>5, <2>6 DEF Halfway, H
<1>14. ASSUME ~(loop'.written < loop'.len)
       PROVE  Derivation!Expanded(out', Derivation!Prk, given.info, given.len)
  <2>1. take = rest /\ take = loop.len - n * H
    BY <1>3, <1>6, <1>8, <1>14 DEF rest
  <2>2. \A i \in 1 .. n : out'[i].bytes = HashLen
    BY <1>2, <1>4 DEF Halfway, n
  <2>3. out'[n + 1].bytes = given.len - n * HashLen /\ out'[n + 1].bytes \in 1 .. HashLen
    BY <1>2, <1>4, <1>8, <2>1 DEF Looping, H
  <2>4. \A i \in 1 .. n + 1 : out'[i].block =
          Derivation!Hmac(Derivation!Prk, IF i = 1 THEN NoBlock ELSE out'[i - 1].block,
                          given.info, i)
    BY <1>4, <1>9, <1>11 DEF Chained
  <2>5. n + 1 - 1 = n
    BY <1>4
  <2>. QED
    BY <1>4, <2>2, <2>3, <2>4, <2>5 DEF Derivation!Expanded
<1>15. Looping'
  BY <1>1, <1>2, <1>3, <1>4, <1>9, <1>11, <1>12, <1>13, <1>14
     DEF Looping, Derivation!MaxOutput, Derivation!Expanded
<1>16. Remembers'
  BY <1>1, <1>2 DEF Remembers
<1>. QED
  BY <1>9, <1>15, <1>16 DEF DerivationInv, DerivesAsGiven, Derivation!DerivesAsGiven

\* An output begins.
LEMMA OutputKeeps ==
  ASSUME DerivationInv, NEW len, Derivation!Output(len) PROVE DerivationInv'
<1>1. /\ Derivation!Quiet /\ op.phase = "InfoSet" /\ len \in 1 .. Derivation!MaxOutput
      /\ store' = store /\ op' = op /\ out' = <<>>
      /\ given' = [given EXCEPT !.len = len, !.key = store[op.key_id]]
  BY DEF Derivation!Output
<1>2. Remembers
  BY DEF DerivationInv
<1> DEFINE prk == IF op.alg = "HkdfExpand" THEN store[op.key_id]
                  ELSE Derivation!Extract(op.salt, store[op.key_id])
<1>3. loop' = [len |-> len, prk |-> prk, info |-> op.info, written |-> 0, counter |-> 1,
               t |-> NoBlock]
  BY DEF Derivation!Output, Derivation!Idle
<1>4. /\ loop'.len = len /\ loop'.prk = prk /\ loop'.info = op.info /\ loop'.written = 0
      /\ loop'.counter = 1 /\ DOMAIN loop' = {"len", "prk", "info", "written", "counter", "t"}
  BY <1>3
<1>5. /\ given'.len = len /\ given'.key = store[op.key_id] /\ given'.alg = given.alg
      /\ given'.salt = given.salt /\ given'.info = given.info /\ DOMAIN given' = DOMAIN given
  BY <1>1, <1>2 DEF Remembers
<1>6. prk = Derivation!Prk'
  BY <1>1, <1>2, <1>5 DEF Remembers, Derivation!Algs, Derivation!Prk
<1>7. Derivation!MaxOutput \in Nat
  BY HkdfShape, Products DEF Derivation!MaxOutput, Derivation!HkdfAssumption
<1> HIDE DEF prk
<1>8. ~Derivation!Quiet'
  BY <1>1, <1>4, <1>7 DEF Derivation!Quiet, Derivation!Idle
<1>9. Len(out') = 0 /\ out' \in Seq({out'[i] : i \in DOMAIN out'})
  BY <1>1, EmptySeq
<1>10. Chained' /\ Halfway'
  <2>1. 0 = 0 * HashLen
    BY HkdfShape DEF Derivation!HkdfAssumption
  <2>. QED
    BY <1>1, <1>4, <1>9, <2>1 DEF Chained, Halfway
<1>11. Looping'
  BY <1>1, <1>2, <1>4, <1>5, <1>6, <1>7, <1>10 DEF Looping, Remembers, Derivation!MaxOutput
<1>12. Remembers'
  BY <1>1, <1>2, <1>5 DEF Remembers
<1>. QED
  BY <1>8, <1>11, <1>12 DEF DerivationInv, DerivesAsGiven, Derivation!DerivesAsGiven

LEMMA DerivationStep == DerivationInv /\ [Derivation!Next]_(Derivation!vars) => DerivationInv'
<1> SUFFICES ASSUME DerivationInv, [Derivation!Next]_(Derivation!vars) PROVE DerivationInv'
  OBVIOUS
<1>1. Remembers /\ DerivesAsGiven
  BY DEF DerivationInv
<1>2. ASSUME UNCHANGED Derivation!vars PROVE DerivationInv'
  BY <1>2, SMTT(30) DEF Derivation!vars, DerivationInv, Remembers, Looping, Chained, Halfway, DerivesAsGiven,
              Derivation!DerivesAsGiven, Derivation!Quiet, Derivation!Prk
\* A step after which nothing has been written yet.
<1>3. ASSUME Remembers', Derivation!Quiet', out' = <<>> PROVE DerivationInv'
  BY <1>3 DEF DerivationInv, DerivesAsGiven, Derivation!DerivesAsGiven
<1>4. ASSUME NEW alg \in Derivation!Algs, Derivation!Setup(alg) PROVE DerivationInv'
  <2>1. /\ op' = [alg |-> alg, phase |-> "Setup", key_id |-> 0, salt |-> Empty, info |-> Empty]
        /\ given' = [alg |-> alg, key |-> NoKey, salt |-> Empty, info |-> Empty, len |-> 0]
        /\ out' = <<>> /\ loop' = loop /\ Derivation!Quiet
    BY <1>4 DEF Derivation!Setup, Derivation!Zeroized, Derivation!Nothing
  <2>2. Derivation!Quiet'
    BY <2>1 DEF Derivation!Quiet
  <2>3. Remembers'
    BY <1>4, <2>1, <2>2 DEF Remembers
  <2>. QED
    BY <1>3, <2>1, <2>2, <2>3
<1>5. ASSUME Derivation!Abort PROVE DerivationInv'
  <2>1. /\ op' = [alg |-> "None", phase |-> "Init", key_id |-> 0, salt |-> Empty, info |-> Empty]
        /\ given' = [alg |-> "None", key |-> NoKey, salt |-> Empty, info |-> Empty, len |-> 0]
        /\ out' = <<>> /\ loop' = loop /\ Derivation!Quiet
    BY <1>5 DEF Derivation!Abort, Derivation!Zeroized, Derivation!Nothing
  <2>2. Derivation!Quiet'
    BY <2>1 DEF Derivation!Quiet
  <2>3. Remembers'
    BY <2>1, <2>2 DEF Remembers
  <2>. QED
    BY <1>3, <2>1, <2>2, <2>3
<1>6. ASSUME NEW id, Derivation!InputKey(id) PROVE DerivationInv'
  <2>1. /\ op' = [op EXCEPT !.key_id = id, !.phase = "KeySet"] /\ op.phase = "Setup"
        /\ given' = given /\ out' = out /\ loop' = loop /\ Derivation!Quiet
    BY <1>6 DEF Derivation!InputKey
  <2>2. Derivation!Quiet' /\ out' = <<>>
    BY <1>1, <2>1 DEF Derivation!Quiet, Remembers
  <2>3. Remembers'
    BY <1>1, <2>1, <2>2 DEF Remembers
  <2>. QED
    BY <1>3, <2>2, <2>3
<1>7. ASSUME NEW x, Derivation!InputSalt(x) PROVE DerivationInv'
  <2>1. /\ op' = [op EXCEPT !.salt = x] /\ op.phase = "Setup"
        /\ given' = [given EXCEPT !.salt = x]
        /\ out' = out /\ loop' = loop /\ Derivation!Quiet
    BY <1>7 DEF Derivation!InputSalt
  <2>2. Derivation!Quiet' /\ out' = <<>>
    BY <1>1, <2>1 DEF Derivation!Quiet, Remembers
  <2>3. Remembers'
    BY <1>1, <2>1, <2>2 DEF Remembers
  <2>. QED
    BY <1>3, <2>2, <2>3
<1>8. ASSUME NEW x, Derivation!InputInfo(x) PROVE DerivationInv'
  <2>1. /\ op' = [op EXCEPT !.info = x, !.phase = "InfoSet"] /\ op.phase = "KeySet"
        /\ given' = [given EXCEPT !.info = x]
        /\ out' = out /\ loop' = loop /\ Derivation!Quiet
    BY <1>8 DEF Derivation!InputInfo
  <2>2. Derivation!Quiet' /\ out' = <<>>
    BY <1>1, <2>1 DEF Derivation!Quiet, Remembers
  <2>3. Remembers'
    BY <1>1, <2>1, <2>2 DEF Remembers
  <2>. QED
    BY <1>3, <2>2, <2>3
<1>9. ASSUME NEW id, Derivation!StoreChanges(id) PROVE DerivationInv'
  <2>1. op' = op /\ loop' = loop /\ out' = out /\ given' = given
    BY <1>9 DEF Derivation!StoreChanges
  <2>. QED
    BY <2>1 DEF DerivationInv, Remembers, Looping, Chained, Halfway, DerivesAsGiven,
                Derivation!DerivesAsGiven, Derivation!Quiet, Derivation!Prk
<1>10. ASSUME Derivation!ExpandEnds PROVE DerivationInv'
  <2>1. /\ ~Derivation!Quiet /\ ~(loop.written < loop.len)
        /\ loop' = Derivation!Idle /\ op' = op /\ out' = out /\ given' = given
    BY <1>10 DEF Derivation!ExpandEnds, DerivationInv, Looping
  <2>2. Looping
    BY <2>1 DEF DerivationInv
  <2>3. Derivation!Quiet' /\ Derivation!Prk' = Derivation!Prk
    BY <2>1 DEF Derivation!Quiet, Derivation!Prk, Derivation!Idle
  <2>4. Derivation!Expanded(out, Derivation!Prk, given.info, given.len)
    BY <2>1, <2>2 DEF Looping
  <2>5. Remembers'
    BY <1>1, <2>1, <2>3 DEF Remembers
  <2>. QED
    BY <2>1, <2>3, <2>4, <2>5 DEF DerivationInv, DerivesAsGiven, Derivation!DerivesAsGiven
<1>. QED
  BY <1>2, <1>4, <1>5, <1>6, <1>7, <1>8, <1>9, <1>10, OutputKeeps, ExpandBlockKeeps
     DEF Derivation!Next

\* What comes out of a derivation is HKDF, block by block, of the inputs accepted since
\* the setup, for every block length and every range of the counter.
THEOREM DerivedAsGiven == Derivation!Spec => []DerivesAsGiven
<1>1. DerivationInv => DerivesAsGiven
  BY DEF DerivationInv
<1>. QED
  BY <1>1, DerivationInit, DerivationStep, PTL DEF Derivation!Spec
=============================================================================
