--------------------------- MODULE KeyStoreProofs ---------------------------
(***************************************************************************)
(* Proofs about KeyStore for every set of threads, every set of keys and   *)
(* every capacity.  IInv is the inductive invariant: with its named parts  *)
(* it says that only the holder of the mutex finds a slot half written.    *)
(* OpenSSL's store of objects has the same interface; its proofs are in    *)
(* OsslAsymStore, and at the end it gets the constants of this module and  *)
(* is checked beside the slot stores.                                      *)
(***************************************************************************)
EXTENDS KeyStore, TLAPS

\* The facts about calls and indices that the step proofs use.
LEMMA CallFacts ==
  ASSUME NEW c \in Calls
  PROVE  /\ c.op \in {"import", "get", "destroy"}
         /\ c.op = "import" /\ Acceptable(c) => c.key \in Key
         /\ c.op # "import" /\ Acceptable(c) => c.id \in Id /\ IndexOf(c.id) \in Index
BY StoreAssumption
   DEF Calls, ImportCall, GetCall, DestroyCall, Acceptable, Id, AnyId, IndexOf, Index

LEMMA IndexFacts ==
  /\ \A i \in Index : IdOf(i) \in Id /\ IndexOf(IdOf(i)) = i
  /\ \A id \in Id : IndexOf(id) \in Index /\ IdOf(IndexOf(id)) = id
BY StoreAssumption DEF Id, IndexOf, IdOf, Index

LEMMA NoCallFacts == NoCall.op = "none" /\ NoCall \notin Calls
BY CallFacts DEF NoCall

LEMMA AnswerFacts ==
  /\ \A c \in {"none", "ok", "zero_id", "InvalidArgument", "InternalError"} : Code(c) \in Answers
  /\ \A c \in {"none", "ok", "zero_id", "InvalidArgument", "InternalError"},
        id \in {0} \cup Id, d, l \in Key \cup {NoKey} : Answer(c, id, d, l) \in Answers
  /\ \A c \in Calls : Rejection(c) \in Answers
BY DEF Code, Answer, Answers, Rejection

\* The invariant holds initially.
LEMMA InitIInv == Init => IInv
<1> SUFFICES ASSUME Init PROVE IInv
  OBVIOUS
<1>1. TypeOK
  BY StoreAssumption, AnswerFacts
  DEF Init, TypeOK, FreeSlot, Slots, PCs, Index
<1>2. ASSUME NEW t \in Thread PROVE ThreadInv(t)
  BY NoCallFacts, StoreAssumption
  DEF Init, ThreadInv, OpOf, Critical, PCs, HolderFinds
<1>3. ASSUME NEW i \in Index PROVE Whole(i)
  BY StoreAssumption DEF Init, Whole, FreeSlot
<1>4. CopyNotTorn
  BY DEF Init, CopyNotTorn
<1>. QED
  BY <1>1, <1>2, <1>3, <1>4 DEF IInv

\* A thread inside a get, a destroy or the write of an import addresses a slot,
\* and its call is a real one of the matching kind.
LEMMA HolderIndex ==
  ASSUME TypeOK, NEW t \in Thread, ThreadInv(t),
         pc[t] \in {"get", "copy_out", "destroy", "clear_len", "clear_use", "set_len", "set_use"}
  PROVE  at[t] \in Index /\ call[t] \in Calls
<1>1. CASE pc[t] \in {"set_len", "set_use"}
  BY <1>1, NoCallFacts DEF ThreadInv, TypeOK, OpOf
<1>2. CASE pc[t] \in {"get", "copy_out", "destroy", "clear_len", "clear_use"}
  <2>1. call[t] \in Calls /\ call[t].op # "import" /\ Acceptable(call[t])
    BY <1>2, NoCallFacts DEF ThreadInv, OpOf, Critical, PCs, TypeOK
  <2>2. at[t] = IndexOf(call[t].id)
    BY <1>2, <2>1 DEF ThreadInv, Critical, PCs
  <2>. QED
    BY <2>1, <2>2, CallFacts
<1>. QED
  BY <1>1, <1>2

\* Every step preserves the types.
LEMMA TypeStep ==
  ASSUME IInv, NEW t \in Thread, Step(t) \/ (\E c \in Calls : Call(t, c))
  PROVE  TypeOK'
<1> USE StoreAssumption DEF IInv, TypeOK, Goto, Reply
<1>0. call[t] # NoCall => call[t] \in Calls
  OBVIOUS
<1>1. ASSUME NEW c \in Calls, Call(t, c) PROVE TypeOK'
  BY <1>1, AnswerFacts DEF Call, PCs
<1>2. CASE Refuse(t)
  BY <1>2, AnswerFacts, NoCallFacts DEF Refuse, PCs, ThreadInv, OpOf
<1>3. CASE Lock(t)
  <2>1. call[t] \in Calls
    BY <1>3, NoCallFacts DEF Lock, ThreadInv, OpOf
  <2>2. call[t].op \in PCs
    BY <2>1, CallFacts DEF PCs
  <2>3. (IF call[t].op = "import" THEN 1 ELSE IndexOf(call[t].id)) \in 1 .. Capacity + 1
    BY <2>1, CallFacts, <1>3 DEF Lock, Index
  <2>. QED
    BY <1>3, <2>2, <2>3 DEF Lock
<1>4. CASE Unlock(t)
  BY <1>4 DEF Unlock, PCs
<1>5. CASE Import(t)
  <2>1. call[t] \in Calls /\ (pc[t] \in {"set_len", "set_use", "import"} => call[t].key \in Key)
    BY <1>5, CallFacts, NoCallFacts
    DEF Import, ScanUsed, WriteData, WriteLen, MarkUsed, StoreFull, ThreadInv, OpOf, Critical, PCs
  <2>2. CASE ScanUsed(t)
    BY <2>2 DEF ScanUsed, Index
  <2>3. CASE WriteData(t)
    BY <2>3, <2>1 DEF WriteData, SetSlot, Slots, PCs
  <2>4. CASE WriteLen(t)
    BY <2>4, <2>1 DEF WriteLen, SetSlot, Slots, PCs
  <2>5. CASE MarkUsed(t)
    <3>1. at[t] \in Index
      BY <2>5 DEF MarkUsed, ThreadInv
    <3>. QED
      BY <2>5, <3>1, IndexFacts, AnswerFacts DEF MarkUsed, SetSlot, Slots, PCs
  <2>6. CASE StoreFull(t)
    BY <2>6, AnswerFacts DEF StoreFull, PCs
  <2>. QED
    BY <1>5, <2>2, <2>3, <2>4, <2>5, <2>6 DEF Import
<1>6. CASE Get(t)
  <2>1. pc[t] \in {"get", "copy_out"} => at[t] \in Index
    BY HolderIndex
  <2>2. CASE GetUnused(t)
    BY <2>2, AnswerFacts DEF GetUnused, PCs
  <2>3. CASE Allocate(t)
    <3>1. slot[at[t]].len \in Key \cup {NoKey}
      BY <2>1, <2>3 DEF Allocate, Slots
    <3>2. Answer("none", 0, NoKey, slot[at[t]].len) \in Answers
      BY <3>1, AnswerFacts
    <3>. QED
      BY <2>3, <3>2 DEF Allocate, PCs
  <2>4. CASE AllocationFails(t)
    BY <2>4, AnswerFacts DEF AllocationFails, PCs
  <2>5. CASE CopyOut(t)
    <3>1. slot[at[t]].data \in Key \cup {NoKey} /\ res[t].len \in Key \cup {NoKey}
      BY <2>1, <2>5 DEF CopyOut, Slots, Answers
    <3>2. Answer("ok", 0, slot[at[t]].data, res[t].len) \in Answers
      BY <3>1, AnswerFacts
    <3>. QED
      BY <2>5, <3>2 DEF CopyOut, PCs
  <2>. QED
    BY <1>6, <2>2, <2>3, <2>4, <2>5 DEF Get
<1>7. CASE Destroy(t)
  <2>1. at[t] \in Index
    BY <1>7, HolderIndex DEF Destroy, Scrub, ClearLen, ClearUse
  <2>2. CASE Scrub(t)
    BY <2>1, <2>2 DEF Scrub, SetSlot, Slots, PCs
  <2>3. CASE ClearLen(t)
    BY <2>1, <2>3 DEF ClearLen, SetSlot, Slots, PCs
  <2>4. CASE ClearUse(t)
    BY <2>1, <2>4, AnswerFacts DEF ClearUse, SetSlot, Slots, PCs
  <2>. QED
    BY <1>7, <2>2, <2>3, <2>4 DEF Destroy
<1>. QED
  BY <1>1, <1>2, <1>3, <1>4, <1>5, <1>6, <1>7 DEF Step

\* What a step of t leaves alone: the other threads, the mutex unless t takes or
\* gives it, and every slot but the one t addresses with the mutex held.
LEMMA StepFrame ==
  ASSUME IInv, NEW t \in Thread, Step(t) \/ (\E c \in Calls : Call(t, c))
  PROVE  /\ \A u \in Thread \ {t} : /\ pc'[u] = pc[u]
                                   /\ call'[u] = call[u]
                                   /\ at'[u] = at[u]
                                   /\ res'[u] = res[u]
         /\ \/ mutex' = mutex
            \/ mutex = Nobody /\ mutex' = t
            \/ mutex = t /\ mutex' = Nobody
         /\ \/ slot' = slot
            \/ /\ mutex = t /\ mutex' = t /\ at[t] \in Index
               /\ \A i \in Index \ {at[t]} : slot'[i] = slot[i]
<1> USE DEF IInv, TypeOK, Goto, Reply
<1>1. ASSUME NEW c \in Calls, Call(t, c)
      PROVE  slot' = slot /\ mutex' = mutex /\ at' = at
  BY <1>1 DEF Call
<1>2. mutex = t <=> pc[t] \in Critical
  BY DEF ThreadInv
<1>3. \/ mutex' = mutex
      \/ mutex = Nobody /\ mutex' = t
      \/ mutex = t /\ mutex' = Nobody
  BY <1>1, <1>2
  DEF Step, Refuse, Lock, Unlock, Import, ScanUsed, WriteData, WriteLen, MarkUsed, StoreFull,
      Get, GetUnused, Allocate, AllocationFails, CopyOut, Destroy, Scrub, ClearLen, ClearUse,
      Critical, PCs
<1>4. ASSUME NEW u \in Thread \ {t}
      PROVE  pc'[u] = pc[u] /\ call'[u] = call[u] /\ at'[u] = at[u] /\ res'[u] = res[u]
  <2>1. pc'[u] = pc[u]
    BY DEF Call, Step, Refuse, Lock, Unlock, Import, ScanUsed, WriteData, WriteLen, MarkUsed,
           StoreFull, Get, GetUnused, Allocate, AllocationFails, CopyOut, Destroy, Scrub,
           ClearLen, ClearUse
  <2>2. call'[u] = call[u]
    BY DEF Call, Step, Refuse, Lock, Unlock, Import, ScanUsed, WriteData, WriteLen, MarkUsed,
           StoreFull, Get, GetUnused, Allocate, AllocationFails, CopyOut, Destroy, Scrub,
           ClearLen, ClearUse
  <2>3. at'[u] = at[u]
    BY DEF Call, Step, Refuse, Lock, Unlock, Import, ScanUsed, WriteData, WriteLen, MarkUsed,
           StoreFull, Get, GetUnused, Allocate, AllocationFails, CopyOut, Destroy, Scrub,
           ClearLen, ClearUse
  <2>4. res'[u] = res[u]
    BY DEF Call, Step, Refuse, Lock, Unlock, Import, ScanUsed, WriteData, WriteLen, MarkUsed,
           StoreFull, Get, GetUnused, Allocate, AllocationFails, CopyOut, Destroy, Scrub,
           ClearLen, ClearUse
  <2>. QED
    BY <2>1, <2>2, <2>3, <2>4
<1>5. \/ slot' = slot
      \/ /\ mutex = t /\ mutex' = t /\ at[t] \in Index
         /\ \A i \in Index \ {at[t]} : slot'[i] = slot[i]
  <2>1. CASE WriteData(t)
    BY <1>2, <2>1 DEF WriteData, SetSlot, Critical, PCs
  <2>2. CASE WriteLen(t) \/ MarkUsed(t) \/ Destroy(t)
    <3>1. at[t] \in Index
      BY <2>2, HolderIndex
      DEF WriteLen, MarkUsed, Destroy, Scrub, ClearLen, ClearUse
    <3>2. mutex = t /\ mutex' = mutex
      BY <2>2, <1>2
      DEF WriteLen, MarkUsed, Destroy, Scrub, ClearLen, ClearUse, Critical, PCs
    <3>. QED
      BY <2>2, <3>1, <3>2
      DEF WriteLen, MarkUsed, Destroy, Scrub, ClearLen, ClearUse, SetSlot
  <2>3. CASE \/ Refuse(t) \/ Lock(t) \/ Unlock(t) \/ ScanUsed(t) \/ StoreFull(t) \/ Get(t)
    BY <2>3
    DEF Refuse, Lock, Unlock, ScanUsed, StoreFull, Get, GetUnused, Allocate, AllocationFails,
        CopyOut
  <2>. QED
    BY <1>1, <2>1, <2>2, <2>3 DEF Step, Import
<1>. QED
  BY <1>3, <1>4, <1>5

\* A step of t keeps what another thread relies on.
LEMMA OthersStep ==
  ASSUME IInv, NEW t \in Thread, Step(t) \/ (\E c \in Calls : Call(t, c)),
         NEW u \in Thread, u # t
  PROVE  ThreadInv(u)'
<1>1. /\ pc'[u] = pc[u] /\ call'[u] = call[u] /\ at'[u] = at[u] /\ res'[u] = res[u]
      /\ mutex' = u <=> mutex = u
      /\ mutex = u => slot' = slot
  BY StepFrame, StoreAssumption
<1>2. ThreadInv(u)
  BY DEF IInv
<1>3. HolderFinds(u)'
  <2>1. CASE mutex = u
    BY <1>1, <1>2, <2>1 DEF ThreadInv, HolderFinds, Holds
  <2>2. CASE mutex # u
    BY <1>1, <1>2, <2>2 DEF ThreadInv, HolderFinds, Holds, Critical, PCs
  <2>. QED
    BY <2>1, <2>2
<1>4. (pc[u] = "import" => \A i \in Index : i < at[u] => slot[i].in_use)'
  BY <1>1, <1>2 DEF ThreadInv, Critical, PCs
<1>. QED
  BY <1>1, <1>2, <1>3, <1>4 DEF ThreadInv

\* A step of t leaves t where the next statement expects it.
LEMMA SelfStep ==
  ASSUME IInv, TypeOK', NEW t \in Thread, Step(t) \/ (\E c \in Calls : Call(t, c))
  PROVE  ThreadInv(t)'
<1> USE StoreAssumption DEF IInv, TypeOK, Goto, Reply
<1>0. ThreadInv(t)
  OBVIOUS
<1> USE <1>0 DEF ThreadInv, HolderFinds, Holds, OpOf, Critical, PCs
<1>1. ASSUME NEW c \in Calls, Call(t, c) PROVE ThreadInv(t)'
  BY <1>1, CallFacts DEF Call
<1>2. CASE Refuse(t)
  BY <1>2, NoCallFacts DEF Refuse
<1>3. CASE Lock(t)
  <2>1. call[t] \in Calls
    BY <1>3, NoCallFacts DEF Lock
  <2>2. call[t].op = "import" => \A i \in Index : ~(i < at'[t])
    BY <1>3 DEF Lock, Index
  <2>. QED
    BY <1>3, <2>1, <2>2, CallFacts DEF Lock
<1>4. CASE Unlock(t)
  BY <1>4, NoCallFacts DEF Unlock
<1>5. CASE Import(t)
  <2>1. CASE ScanUsed(t)
    <3>1. \A i \in Index : i < at'[t] => i < at[t] \/ i = at[t]
      BY <2>1 DEF ScanUsed, Index
    <3>2. \A i \in Index : i < at'[t] => slot'[i].in_use
      BY <2>1, <3>1 DEF ScanUsed
    <3>. QED
      BY <2>1, <3>2 DEF ScanUsed
  <2>2. CASE WriteData(t)
    <3>1. Whole(at[t])
      BY <2>2 DEF WriteData, Dirty
    <3>2. slot[at[t]].len = NoKey /\ slot[at[t]].in_use = FALSE
      BY <2>2, <3>1 DEF WriteData, Whole, Slots
    <3>3. slot'[at[t]] = [slot[at[t]] EXCEPT !.data = call[t].key]
      BY <2>2 DEF WriteData, SetSlot
    <3>4. Holds(t, call[t].key, NoKey, FALSE)'
      BY <2>2, <3>2, <3>3 DEF WriteData, Slots
    <3>. QED
      BY <2>2, <3>4 DEF WriteData
  <2>3. CASE WriteLen(t)
    <3>1. slot'[at[t]] = [slot[at[t]] EXCEPT !.len = call[t].key]
      BY <2>3 DEF WriteLen, SetSlot
    <3>2. Holds(t, call[t].key, call[t].key, FALSE)'
      BY <2>3, <3>1 DEF WriteLen, Slots
    <3>. QED
      BY <2>3, <3>2 DEF WriteLen
  <2>4. CASE MarkUsed(t)
    BY <2>4 DEF MarkUsed
  <2>5. CASE StoreFull(t)
    BY <2>5 DEF StoreFull
  <2>. QED
    BY <1>5, <2>1, <2>2, <2>3, <2>4, <2>5 DEF Import
<1>6. CASE Get(t)
  <2>1. CASE Allocate(t)
    <3>1. res'[t] = Answer("none", 0, NoKey, slot[at[t]].len) /\ slot[at[t]].in_use
      BY <2>1 DEF Allocate
    <3>2. pc'[t] = "copy_out" /\ slot'[at'[t]] = slot[at[t]]
      BY <2>1 DEF Allocate
    <3>3. HolderFinds(t)'
      BY <3>1, <3>2
    <3>. QED
      BY <2>1, <3>3 DEF Allocate
  <2>2. CASE CopyOut(t)
    BY <2>2 DEF CopyOut, Answer
  <2>3. CASE GetUnused(t) \/ AllocationFails(t)
    BY <2>3 DEF GetUnused, AllocationFails, Code, Answer
  <2>. QED
    BY <1>6, <2>1, <2>2, <2>3 DEF Get
<1>7. CASE Destroy(t)
  <2>1. at[t] \in Index
    BY <1>7, HolderIndex DEF Destroy, Scrub, ClearLen, ClearUse
  <2>2. CASE Scrub(t)
    BY <2>1, <2>2 DEF Scrub, SetSlot, Slots
  <2>3. CASE ClearLen(t)
    <3>1. slot[at[t]].data = NoKey
      BY <2>3 DEF ClearLen
    <3>2. slot'[at[t]].data = NoKey /\ slot'[at[t]].len = NoKey
      <4>1. slot'[at[t]] = [slot[at[t]] EXCEPT !.len = NoKey]
        BY <2>1, <2>3 DEF ClearLen, SetSlot
      <4>2. slot[at[t]] \in Slots
        BY <2>1
      <4>. QED
        BY <3>1, <4>1, <4>2 DEF Slots
    <3>. QED
      BY <2>3, <3>2 DEF ClearLen
  <2>4. CASE ClearUse(t)
    BY <2>4 DEF ClearUse
  <2>. QED
    BY <1>7, <2>2, <2>3, <2>4 DEF Destroy
<1>. QED
  BY <1>1, <1>2, <1>3, <1>4, <1>5, <1>6, <1>7 DEF Step

\* A slot that is not whole is the one its holder is working on, after every step.
LEMMA SlotsStep ==
  ASSUME IInv, TypeOK', NEW t \in Thread, Step(t) \/ (\E c \in Calls : Call(t, c)),
         NEW i \in Index
  PROVE  Dirty(i)' \/ Whole(i)'
<1> USE StoreAssumption DEF IInv, TypeOK, Goto, Reply
<1>1. CASE slot'[i] # slot[i]
  <2>1. mutex = t /\ mutex' = t /\ at[t] = i
    BY <1>1, StepFrame
  <2>2. WriteData(t) \/ WriteLen(t) \/ MarkUsed(t) \/ Scrub(t) \/ ClearLen(t) \/ ClearUse(t)
    BY <1>1
    DEF Step, Call, Refuse, Lock, Unlock, Import, ScanUsed, StoreFull, Get, GetUnused, Allocate,
        AllocationFails, CopyOut, Destroy
  <2>3. CASE WriteData(t) \/ WriteLen(t) \/ Scrub(t) \/ ClearLen(t)
    BY <2>1, <2>3 DEF WriteData, WriteLen, Scrub, ClearLen, Dirty
  <2>4. CASE MarkUsed(t)
    <3>1. call[t].key \in Key
      BY <2>4, CallFacts, NoCallFacts DEF MarkUsed, ThreadInv, OpOf, Critical, PCs, Acceptable
    <3>2. slot[i].data = call[t].key /\ slot[i].len = call[t].key /\ slot[i].in_use = FALSE
      BY <2>1, <2>4 DEF MarkUsed, ThreadInv, HolderFinds, Holds
    <3>3. slot'[i] = [slot[i] EXCEPT !.in_use = TRUE]
      BY <2>1, <2>4 DEF MarkUsed, SetSlot
    <3>. QED
      BY <3>1, <3>2, <3>3 DEF Whole, FreeSlot
  <2>5. CASE ClearUse(t)
    <3>1. slot[i].data = NoKey /\ slot[i].len = NoKey
      BY <2>1, <2>5 DEF ClearUse, ThreadInv, HolderFinds, Holds
    <3>2. slot'[i] = [slot[i] EXCEPT !.in_use = FALSE]
      BY <2>1, <2>5 DEF ClearUse, SetSlot
    <3>3. slot[i] \in Slots
      OBVIOUS
    <3>. QED
      BY <3>1, <3>2, <3>3 DEF Whole, FreeSlot, Slots
  <2>. QED
    BY <2>2, <2>3, <2>4, <2>5
<1>2. CASE slot'[i] = slot[i]
  <2>1. CASE Whole(i)
    BY <1>2, <2>1 DEF Whole
  <2>2. CASE ~Whole(i)
    <3>1. PICK u \in Thread :
             mutex = u /\ at[u] = i /\ pc[u] \in {"set_len", "set_use", "clear_len", "clear_use"}
      BY <2>2 DEF Dirty
    <3>2. CASE u # t
      BY <3>1, <3>2, StepFrame DEF Dirty
    <3>3. CASE u = t
      <4>1. WriteLen(t) \/ MarkUsed(t) \/ ClearLen(t) \/ ClearUse(t)
        BY <3>1, <3>3
        DEF Step, Call, Refuse, Lock, Unlock, Import, ScanUsed, WriteData, StoreFull, Get,
            GetUnused, Allocate, AllocationFails, CopyOut, Destroy, Scrub
      <4>2. CASE WriteLen(t) \/ ClearLen(t)
        BY <3>1, <3>3, <4>2 DEF WriteLen, ClearLen, Dirty
      <4>3. CASE MarkUsed(t)
        <5>1. slot[i].data = call[t].key /\ slot[i].len = call[t].key /\ slot[i].in_use = FALSE
          BY <3>1, <3>3, <4>3 DEF MarkUsed, ThreadInv, HolderFinds, Holds
        <5>2. slot'[i] = [slot[i] EXCEPT !.in_use = TRUE]
          BY <3>1, <3>3, <4>3 DEF MarkUsed, SetSlot
        <5>. QED
          BY <1>2, <5>1, <5>2 DEF FreeSlot
      <4>4. CASE ClearUse(t)
        <5>1. slot[i].data = NoKey /\ slot[i].len = NoKey
          BY <3>1, <3>3, <4>4 DEF ClearUse, ThreadInv, HolderFinds, Holds
        <5>. QED
          BY <1>2, <3>1, <3>3, <4>4, <5>1 DEF ClearUse, SetSlot, Whole, FreeSlot, Slots
      <4>. QED
        BY <4>1, <4>2, <4>3, <4>4
    <3>. QED
      BY <3>2, <3>3
  <2>. QED
    BY <2>1, <2>2
<1>. QED
  BY <1>1, <1>2

\* A copy handed out by a get is whole.
LEMMA CopyStep ==
  ASSUME IInv, NEW t \in Thread, Step(t) \/ (\E c \in Calls : Call(t, c))
  PROVE  CopyNotTorn'
<1> USE DEF IInv, TypeOK, Goto, Reply
<1> SUFFICES ASSUME NEW u \in Thread,
                    pc'[u] = "unlock", call'[u].op = "get", res'[u].code = "ok"
             PROVE  res'[u].data \in Key /\ res'[u].len = res'[u].data
  BY DEF CopyNotTorn
<1>1. CASE u # t
  BY <1>1, StepFrame DEF CopyNotTorn
<1>2. CASE u = t
  <2>1. ThreadInv(t)
    OBVIOUS
  <2>2. CASE CopyOut(t)
    <3>1. at[t] \in Index
      BY <2>2, HolderIndex DEF CopyOut
    <3>2. Whole(at[t])
      <4>1. mutex = t /\ pc[t] = "copy_out"
        BY <2>1, <2>2 DEF CopyOut, ThreadInv, Critical, PCs
      <4>2. ~Dirty(at[t])
        BY <4>1 DEF Dirty
      <4>. QED
        BY <3>1, <4>2
    <3>3. slot[at[t]].in_use /\ res[t].len = slot[at[t]].len
      BY <2>1, <2>2 DEF CopyOut, ThreadInv, HolderFinds, Holds, Answer
    <3>4. res'[t] = Answer("ok", 0, slot[at[t]].data, res[t].len)
      BY <2>2 DEF CopyOut, Answer
    <3>5. slot[at[t]].data \in Key /\ slot[at[t]].len = slot[at[t]].data
      BY <3>2, <3>3, Zenon DEF Whole
    <3>. QED
      BY <1>2, <3>3, <3>4, <3>5 DEF Answer
  <2>3. CASE GetUnused(t) \/ AllocationFails(t)
    BY <1>2, <2>3 DEF GetUnused, AllocationFails, Code, Answer
  <2>4. CASE MarkUsed(t) \/ StoreFull(t) \/ ClearUse(t)
    BY <1>2, <2>1, <2>4 DEF MarkUsed, StoreFull, ClearUse, ThreadInv, OpOf
  <2>5. CASE ~(\/ CopyOut(t) \/ GetUnused(t) \/ AllocationFails(t)
              \/ MarkUsed(t) \/ StoreFull(t) \/ ClearUse(t))
    BY <1>2, <2>1, <2>5
    DEF Step, Call, Refuse, Lock, Unlock, Import, ScanUsed, WriteData, WriteLen, Get, Allocate,
        Destroy, Scrub, ClearLen, OpOf, ThreadInv
  <2>. QED
    BY <2>2, <2>3, <2>4, <2>5
<1>. QED
  BY <1>1, <1>2

\* The inductive invariant holds of every reachable state of every store: see
\* IInv in KeyStore.
THEOREM Invariance == Spec => []IInv
<1>1. IInv /\ [Next]_vars => IInv'
  <2> SUFFICES ASSUME IInv, [Next]_vars PROVE IInv'
    OBVIOUS
  <2>1. CASE UNCHANGED vars
    BY <2>1
    DEF vars, IInv, TypeOK, ThreadInv, HolderFinds, Holds, Dirty, CopyNotTorn, Whole
  <2>2. ASSUME NEW t \in Thread, Step(t) \/ (\E c \in Calls : Call(t, c))
        PROVE  IInv'
    <3>1. TypeOK'
      BY <2>2, TypeStep
    <3>2. ASSUME NEW u \in Thread PROVE ThreadInv(u)'
      BY <2>2, <3>1, OthersStep, SelfStep
    <3>3. ASSUME NEW i \in Index PROVE (Dirty(i) \/ Whole(i))'
      BY <2>2, <3>1, SlotsStep DEF Whole
    <3>4. CopyNotTorn'
      BY <2>2, CopyStep
    <3>. QED
      BY <3>1, <3>2, <3>3, <3>4 DEF IInv
  <2>. QED
    BY <2>1, <2>2 DEF Next
<1>. QED
  BY InitIInv, <1>1, PTL DEF Spec

\* With the mutex free every slot is whole or scrubbed.
THEOREM WholeWhenFree == Spec => []SlotsWhole
<1>1. IInv => SlotsWhole
  BY StoreAssumption DEF IInv, SlotsWhole, Dirty
<1>. QED
  BY <1>1, Invariance, PTL

\* A successful get returns one key, bytes and length.
THEOREM WholeCopies == Spec => []CopyNotTorn
<1>1. IInv => CopyNotTorn
  BY DEF IInv
<1>. QED
  BY <1>1, Invariance, PTL
-----------------------------------------------------------------------------
(* The store implements KeyTable. *)

\* The abstract variables are functions on threads and on ids.
LEMMA AbsFunctions ==
  /\ DOMAIN AbsTable = Id /\ AbsTable = [id \in Id |-> AbsTable[id]]
  /\ DOMAIN AbsPhase = Thread /\ AbsPhase = [u \in Thread |-> AbsPhase[u]]
  /\ DOMAIN AbsRes = Thread /\ AbsRes = [u \in Thread |-> AbsRes[u]]
BY Zenon DEF AbsTable, AbsPhase, AbsRes

\* The abstract view before and after a step: the parts of it that belong to
\* other threads and to other ids do not change.
LEMMA AbsFrame ==
  ASSUME IInv, IInv', NEW t \in Thread, Step(t) \/ (\E c \in Calls : Call(t, c))
  PROVE  /\ \A u \in Thread \ {t} : AbsPhase'[u] = AbsPhase[u] /\ AbsRes'[u] = AbsRes[u]
         /\ \A id \in Id : IndexOf(id) # at[t] => AbsTable'[id] = AbsTable[id]
         /\ slot' = slot => AbsTable' = AbsTable
<1>1. \A u \in Thread \ {t} : pc'[u] = pc[u] /\ res'[u] = res[u]
  BY StepFrame
<1>2. \A u \in Thread \ {t} : AbsPhase'[u] = AbsPhase[u] /\ AbsRes'[u] = AbsRes[u]
  BY <1>1 DEF AbsPhase, AbsRes
<1>3. ASSUME NEW id \in Id, IndexOf(id) # at[t]
      PROVE  AbsTable'[id] = AbsTable[id]
  <2>1. IndexOf(id) \in Index
    BY IndexFacts
  <2>2. slot'[IndexOf(id)] = slot[IndexOf(id)]
    BY <1>3, <2>1, StepFrame
  <2>. QED
    BY <2>2 DEF AbsTable
<1>4. slot' = slot => AbsTable' = AbsTable
  BY DEF AbsTable
<1>. QED
  BY <1>2, <1>3, <1>4

\* Two steps of the abstract view: what a thread's own entries become.
LEMMA AbsUpdate ==
  ASSUME IInv, IInv', NEW t \in Thread, Step(t) \/ (\E c \in Calls : Call(t, c))
  PROVE  /\ AbsPhase' = [AbsPhase EXCEPT ![t] = AbsPhase'[t]]
         /\ AbsRes' = [AbsRes EXCEPT ![t] = AbsRes'[t]]
         /\ \A id \in Id : IndexOf(id) = at[t]
              => AbsTable' = [AbsTable EXCEPT ![id] = AbsTable'[id]]
<1>1. AbsPhase' = [AbsPhase EXCEPT ![t] = AbsPhase'[t]]
  BY AbsFrame, ZenonT(60) DEF AbsPhase
<1>2. AbsRes' = [AbsRes EXCEPT ![t] = AbsRes'[t]]
  <2>1. AbsRes = [u \in Thread |-> AbsRes[u]] /\ AbsRes' = [u \in Thread |-> AbsRes'[u]]
    BY Zenon DEF AbsRes
  <2>2. \A u \in Thread \ {t} : AbsRes'[u] = AbsRes[u]
    BY AbsFrame
  <2>. QED
    BY <2>1, <2>2
<1>3. ASSUME NEW id \in Id, IndexOf(id) = at[t]
      PROVE  AbsTable' = [AbsTable EXCEPT ![id] = AbsTable'[id]]
  <2>1. \A j \in Id \ {id} : IndexOf(j) # at[t]
    BY <1>3, IndexFacts
  <2>2. \A j \in Id \ {id} : AbsTable'[j] = AbsTable[j]
    BY <2>1, AbsFrame
  <2>. QED
    BY <2>2 DEF AbsTable
<1>. QED
  BY <1>1, <1>2, <1>3

\* KeyTable reads the same constants, so its vocabulary is that of the store.
LEMMA SameVocabulary ==
  /\ Promise!Calls = Calls /\ Promise!NoCall = NoCall /\ Promise!Id = Id
  /\ \A c : Promise!Code(c) = Code(c)
  /\ \A c : Promise!Acceptable(c) <=> Acceptable(c)
  /\ \A c : Promise!Rejection(c) = Rejection(c)
  /\ \A c, id, d, l : Promise!Answer(c, id, d, l) = Answer(c, id, d, l)
BY DEF Promise!Calls, Promise!NoCall, Promise!Id, Promise!Code, Promise!Acceptable,
       Promise!Rejection, Promise!Answer, Promise!ImportCall, Promise!GetCall,
       Promise!DestroyCall, Promise!AnyId, Calls, NoCall, Id, Code, Acceptable, Rejection,
       Answer, ImportCall, GetCall, DestroyCall, AnyId

\* Every step of the store is a step of KeyTable or leaves its variables alone.
LEMMA StepSimulates ==
  ASSUME IInv, IInv', NEW t \in Thread, Step(t) \/ (\E c \in Calls : Call(t, c))
  PROVE  Promise!TNext \/ UNCHANGED <<AbsTable, AbsPhase, call, AbsRes>>
<1>a. TypeOK /\ TypeOK' /\ ThreadInv(t)
  BY DEF IInv
<1>b. /\ AbsPhase' = [AbsPhase EXCEPT ![t] = AbsPhase'[t]]
      /\ AbsRes' = [AbsRes EXCEPT ![t] = AbsRes'[t]]
  BY AbsUpdate
<1>c. slot' = slot => AbsTable' = AbsTable
  BY AbsFrame
<1> USE <1>a DEF TypeOK, Goto, Reply
<1>1. ASSUME NEW c \in Calls, Call(t, c) PROVE Promise!Invoke(t)
  <2>1. AbsPhase[t] = "idle" /\ AbsPhase'[t] = "called" /\ AbsRes'[t] = Code("none")
    BY <1>1 DEF Call, AbsPhase, AbsRes
  <2>2. AbsTable' = AbsTable /\ call' = [call EXCEPT ![t] = c]
    BY <1>1, <1>c DEF Call
  <2>. QED
    BY <1>1, <1>b, <2>1, <2>2, SameVocabulary DEF Promise!Invoke
<1>2. CASE Refuse(t)
  <2>1. AbsPhase[t] = "called" /\ AbsPhase'[t] = "idle" /\ AbsRes'[t] = Rejection(call[t])
    BY <1>2 DEF Refuse, AbsPhase, AbsRes
  <2>2. AbsTable' = AbsTable /\ call' = [call EXCEPT ![t] = NoCall] /\ ~Acceptable(call[t])
    BY <1>2, <1>c DEF Refuse
  <2>3. Promise!Reject(t)
    BY <1>b, <2>1, <2>2, SameVocabulary DEF Promise!Reject
  <2>. QED
    BY <2>3 DEF Promise!TNext
<1>3. CASE Lock(t) \/ ScanUsed(t)
  <2>1. pc'[t] \in {"import", "get", "destroy"} /\ pc[t] \in {"enter", "import"}
    BY <1>3, CallFacts, NoCallFacts DEF Lock, ScanUsed, ThreadInv, OpOf
  <2>2. res' = res /\ call' = call /\ slot' = slot
    BY <1>3 DEF Lock, ScanUsed
  <2>3. AbsPhase'[t] = AbsPhase[t] /\ AbsRes'[t] = AbsRes[t]
    BY <2>1, <2>2 DEF AbsPhase, AbsRes
  <2>. QED
    BY <1>b, <1>c, <2>2, <2>3, AbsFunctions
<1>4. CASE Unlock(t)
  <2>1. AbsPhase[t] = "done" /\ AbsPhase'[t] = "idle" /\ AbsRes'[t] = AbsRes[t]
    BY <1>4 DEF Unlock, AbsPhase, AbsRes
  <2>2. AbsTable' = AbsTable /\ call' = [call EXCEPT ![t] = NoCall]
    BY <1>4, <1>c DEF Unlock
  <2>3. AbsRes' = AbsRes
    BY <1>b, <2>1, AbsFunctions
  <2>4. Promise!Return(t)
    BY <1>b, <2>1, <2>2, <2>3, SameVocabulary DEF Promise!Return
  <2>. QED
    BY <2>4 DEF Promise!TNext
<1>d. pc[t] \in Critical => call[t] \in Calls /\ Promise!Acceptable(call[t])
  BY CallFacts, NoCallFacts, SameVocabulary DEF ThreadInv, OpOf, Critical, PCs
<1>e. pc[t] \in {"import", "set_len", "set_use", "get", "copy_out", "destroy"}
        => AbsPhase[t] = "called"
  BY DEF AbsPhase
<1>f. at[t] \in Index => /\ IdOf(at[t]) \in Id
                        /\ IndexOf(IdOf(at[t])) = at[t]
                        /\ AbsTable' = [AbsTable EXCEPT ![IdOf(at[t])] = AbsTable'[IdOf(at[t])]]
  BY IndexFacts, AbsUpdate
<1>g. pc[t] \in Critical /\ call[t].op # "import" => call[t].id \in Id /\ IdOf(at[t]) = call[t].id
  BY <1>d, CallFacts, IndexFacts, SameVocabulary DEF ThreadInv
<1>5. CASE WriteData(t) \/ WriteLen(t)
  <2>1. at[t] \in Index
    BY <1>5, HolderIndex DEF WriteData, WriteLen
  <2>2. slot[at[t]].in_use = FALSE /\ slot'[at[t]].in_use = FALSE
    <3>1. slot[at[t]].in_use = FALSE
      BY <1>5, <2>1 DEF WriteData, WriteLen, ThreadInv, HolderFinds, Holds, Slots
    <3>. QED
      BY <1>5, <2>1, <3>1 DEF WriteData, WriteLen, SetSlot, Slots
  <2>3. AbsTable'[IdOf(at[t])] = NoKey /\ AbsTable[IdOf(at[t])] = NoKey
    BY <2>1, <2>2, <1>f DEF AbsTable
  <2>4. AbsTable' = AbsTable
    BY <2>1, <2>3, <1>f, AbsFunctions
  <2>5. AbsPhase'[t] = AbsPhase[t] /\ AbsRes'[t] = AbsRes[t] /\ call' = call
    BY <1>5 DEF WriteData, WriteLen, AbsPhase, AbsRes
  <2>. QED
    BY <1>b, <2>4, <2>5, AbsFunctions
<1>6. CASE MarkUsed(t)
  <2> DEFINE id == IdOf(at[t])
  <2>1. at[t] \in Index
    BY <1>6, HolderIndex DEF MarkUsed
  <2>2. slot[at[t]].in_use = FALSE /\ slot[at[t]].data = call[t].key
    BY <1>6 DEF MarkUsed, ThreadInv, HolderFinds, Holds
  <2>3. slot'[at[t]].in_use /\ slot'[at[t]].data = call[t].key
    BY <1>6, <2>1, <2>2 DEF MarkUsed, SetSlot, Slots
  <2>4. AbsTable[id] = NoKey /\ AbsTable'[id] = call[t].key
    BY <2>1, <2>2, <2>3, <1>f DEF AbsTable
  <2>5. call[t].op = "import" /\ call' = call
    BY <1>6 DEF MarkUsed, ThreadInv, OpOf
  <2>6. AbsPhase'[t] = "done" /\ AbsRes'[t] = Answer("ok", id, NoKey, NoKey)
    BY <1>6 DEF MarkUsed, AbsPhase, AbsRes
  <2>7. AbsPhase[t] = "called" /\ Promise!Acceptable(call[t])
    BY <1>6, <1>d, <1>e DEF MarkUsed, Critical, PCs
  <2>8. id \in Id /\ AbsTable' = [AbsTable EXCEPT ![id] = call[t].key]
    BY <2>1, <2>4, <1>f
  <2>9. Promise!DoImport(t)
    BY <1>b, <2>4, <2>5, <2>6, <2>7, <2>8, SameVocabulary
    DEF Promise!DoImport, Promise!Serving, Promise!Serve
  <2>. QED
    BY <2>9 DEF Promise!TNext
<1>7. CASE StoreFull(t)
  <2>1. ASSUME NEW id \in Id PROVE AbsTable[id] # NoKey
    <3>1. IndexOf(id) \in Index /\ IndexOf(id) < at[t]
      BY <1>7, IndexFacts, StoreAssumption DEF StoreFull, Index
    <3>2. slot[IndexOf(id)].in_use
      BY <1>7, <3>1 DEF StoreFull, ThreadInv
    <3>3. ~Dirty(IndexOf(id))
      BY <1>7, StoreAssumption DEF StoreFull, Dirty, IInv, ThreadInv, Critical, PCs
    <3>4. slot[IndexOf(id)].data \in Key
      BY <3>1, <3>2, <3>3 DEF IInv, Whole
    <3>. QED
      BY <3>2, <3>4, StoreAssumption DEF AbsTable
  <2>2. call[t].op = "import" /\ call' = call /\ AbsTable' = AbsTable
    BY <1>7, <1>c DEF StoreFull, ThreadInv, OpOf
  <2>3. AbsPhase'[t] = "done" /\ AbsRes'[t] = Code("zero_id")
    BY <1>7 DEF StoreFull, AbsPhase, AbsRes
  <2>4. AbsPhase[t] = "called" /\ Promise!Acceptable(call[t])
    BY <1>7, <1>d, <1>e DEF StoreFull, Critical, PCs
  <2>5. Promise!DoImport(t)
    BY <1>b, <2>1, <2>2, <2>3, <2>4, SameVocabulary
    DEF Promise!DoImport, Promise!Serving, Promise!Serve
  <2>. QED
    BY <2>5 DEF Promise!TNext
<1>8. CASE Allocate(t)
  <2>1. AbsPhase'[t] = AbsPhase[t] /\ AbsRes'[t] = AbsRes[t] /\ call' = call /\ slot' = slot
    BY <1>8 DEF Allocate, AbsPhase, AbsRes, ThreadInv
  <2>. QED
    BY <1>b, <1>c, <2>1, AbsFunctions
<1>9. CASE GetUnused(t) \/ AllocationFails(t) \/ CopyOut(t)
  <2> DEFINE k == AbsTable[call[t].id]
  <2>1. at[t] \in Index /\ call[t].id \in Id /\ IndexOf(call[t].id) = at[t]
    <3>1. at[t] \in Index
      BY <1>9, HolderIndex DEF GetUnused, AllocationFails, CopyOut
    <3>2. pc[t] \in Critical /\ call[t].op # "import"
      BY <1>9 DEF GetUnused, AllocationFails, CopyOut, ThreadInv, OpOf, Critical, PCs
    <3>. QED
      BY <3>1, <3>2, <1>g, <1>f
  <2>2. Whole(at[t])
    <3>1. mutex = t /\ pc[t] \in {"get", "copy_out"}
      BY <1>9 DEF GetUnused, AllocationFails, CopyOut, ThreadInv, Critical, PCs
    <3>2. ~Dirty(at[t])
      BY <3>1 DEF Dirty
    <3>. QED
      BY <2>1, <3>2 DEF IInv
  <2>3. k = IF slot[at[t]].in_use THEN slot[at[t]].data ELSE NoKey
    BY <2>1 DEF AbsTable
  <2>4. /\ call[t].op = "get" /\ call' = call /\ AbsTable' = AbsTable
        /\ AbsPhase'[t] = "done" /\ AbsPhase[t] = "called" /\ Promise!Acceptable(call[t])
    BY <1>9, <1>c, <1>d, <1>e
    DEF GetUnused, AllocationFails, CopyOut, ThreadInv, OpOf, AbsPhase, Critical, PCs
  <2>5. \/ k = NoKey /\ AbsRes'[t] = Code("InvalidArgument")
        \/ k # NoKey /\ AbsRes'[t] = Code("InternalError")
        \/ k # NoKey /\ AbsRes'[t] = Answer("ok", 0, k, k)
    <3>1. CASE GetUnused(t)
      BY <2>3, <3>1 DEF GetUnused, AbsRes
    <3>2. CASE AllocationFails(t)
      <4>1. k # NoKey
        BY <2>2, <2>3, <3>2, StoreAssumption DEF AllocationFails, Whole
      <4>. QED
        BY <3>2, <4>1 DEF AllocationFails, AbsRes
    <3>3. CASE CopyOut(t)
      <4>1. slot[at[t]].in_use /\ res[t].len = slot[at[t]].len
        BY <3>3 DEF CopyOut, ThreadInv, HolderFinds, Answer
      <4>2. k # NoKey /\ slot[at[t]].data = k /\ res[t].len = k
        BY <2>2, <2>3, <4>1, StoreAssumption DEF Whole
      <4>3. AbsRes'[t] = Answer("ok", 0, slot[at[t]].data, res[t].len)
        BY <3>3 DEF CopyOut, AbsRes
      <4>. QED
        BY <4>2, <4>3
    <3>. QED
      BY <1>9, <3>1, <3>2, <3>3
  <2>6. Promise!DoGet(t)
    BY <1>b, <2>4, <2>5, SameVocabulary DEF Promise!DoGet, Promise!Serving, Promise!Serve
  <2>. QED
    BY <2>6 DEF Promise!TNext
<1>10. CASE Scrub(t)
  <2>1. at[t] \in Index /\ IdOf(at[t]) = call[t].id /\ call[t].op = "destroy"
    <3>1. at[t] \in Index
      BY <1>10, HolderIndex DEF Scrub
    <3>2. pc[t] \in Critical /\ call[t].op = "destroy"
      BY <1>10 DEF Scrub, ThreadInv, OpOf, Critical, PCs
    <3>. QED
      BY <3>1, <3>2, <1>g
  <2>2. slot'[at[t]].data = NoKey
    BY <1>10, <2>1 DEF Scrub, SetSlot, Slots
  <2>3. AbsTable'[IdOf(at[t])] = NoKey
    BY <2>1, <2>2, <1>f DEF AbsTable
  <2>4. /\ call' = call /\ AbsPhase'[t] = "done" /\ AbsRes'[t] = Code("ok")
        /\ AbsPhase[t] = "called" /\ Promise!Acceptable(call[t])
    BY <1>10, <1>d, <1>e DEF Scrub, AbsPhase, AbsRes, Critical, PCs
  <2>5. AbsTable' = [AbsTable EXCEPT ![call[t].id] = NoKey]
    BY <2>1, <2>3, <1>f
  <2>6. Promise!DoDestroy(t)
    BY <1>b, <2>1, <2>4, <2>5, SameVocabulary DEF Promise!DoDestroy, Promise!Serving, Promise!Serve
  <2>. QED
    BY <2>6 DEF Promise!TNext
<1>11. CASE ClearLen(t) \/ ClearUse(t)
  <2>1. at[t] \in Index /\ slot[at[t]].data = NoKey
    BY <1>11, HolderIndex DEF ClearLen, ClearUse, ThreadInv, HolderFinds
  <2>2. slot'[at[t]].data = NoKey
    BY <1>11, <2>1 DEF ClearLen, ClearUse, SetSlot, Slots
  <2>3. AbsTable'[IdOf(at[t])] = NoKey /\ AbsTable[IdOf(at[t])] = NoKey
    BY <2>1, <2>2, <1>f DEF AbsTable
  <2>4. AbsTable' = AbsTable
    BY <2>1, <2>3, <1>f, AbsFunctions
  <2>5. AbsPhase'[t] = AbsPhase[t] /\ AbsRes'[t] = AbsRes[t] /\ call' = call
    BY <1>11 DEF ClearLen, ClearUse, AbsPhase, AbsRes
  <2>. QED
    BY <1>b, <2>4, <2>5, AbsFunctions
<1>. QED
  BY <1>1, <1>2, <1>3, <1>4, <1>5, <1>6, <1>7, <1>8, <1>9, <1>10, <1>11
  DEF Step, Import, Get, Destroy, Promise!TNext

\* KeepsPromise: the slot store, with its mutex and its half written slots,
\* implements the atomic table of KeyTable.
THEOREM Refinement == Spec => KeepsPromise
<1>1. Init => Promise!TInit
  <2> SUFFICES ASSUME Init PROVE Promise!TInit
    OBVIOUS
  <2>1. AbsTable = [id \in Id |-> NoKey]
    BY IndexFacts DEF Init, AbsTable, FreeSlot
  <2>2. AbsPhase = [u \in Thread |-> "idle"] /\ AbsRes = [u \in Thread |-> Code("none")]
    BY DEF Init, AbsPhase, AbsRes
  <2>. QED
    BY <2>1, <2>2, SameVocabulary DEF Init, Promise!TInit
<1>2. IInv /\ IInv' /\ [Next]_vars => [Promise!TNext]_<<AbsTable, AbsPhase, call, AbsRes>>
  <2>1. CASE UNCHANGED vars
    BY <2>1 DEF vars, AbsTable, AbsPhase, AbsRes
  <2>2. CASE Next
    BY <2>2, StepSimulates DEF Next
  <2>. QED
    BY <2>1, <2>2
<1>. QED
  BY <1>1, <1>2, Invariance, PTL DEF Spec, KeepsPromise, Promise!TSpec, Promise!tvars

\* OnlyDestroyTouches: nothing but a destroy of its id changes a slot in use.
THEOREM UsedSlotsStable == Spec => OnlyDestroyTouches
<1>1. ASSUME IInv, [Next]_vars,
             NEW i \in Index, slot[i].in_use, slot[i].data \in Key, slot'[i] # slot[i]
      PROVE  \E t \in Thread : mutex = t /\ call[t] = DestroyCall(IdOf(i))
  <2>1. PICK t \in Thread : Step(t) \/ (\E c \in Calls : Call(t, c))
    BY <1>1 DEF Next, vars
  <2>2. mutex = t /\ at[t] = i
    BY <1>1, <2>1, StepFrame
  <2>3. ThreadInv(t) /\ TypeOK
    BY <1>1 DEF IInv
  <2>4. Scrub(t) \/ ClearLen(t) \/ ClearUse(t)
    BY <1>1, <2>1, <2>2, <2>3
    DEF Step, Call, Refuse, Lock, Unlock, Import, ScanUsed, WriteData, WriteLen, MarkUsed,
        StoreFull, Get, GetUnused, Allocate, AllocationFails, CopyOut, Destroy, Goto,
        ThreadInv, HolderFinds, Holds
  <2>5. call[t].op = "destroy" /\ at[t] = IndexOf(call[t].id) /\ call[t] \in Calls
        /\ Acceptable(call[t])
    BY <2>3, <2>4, NoCallFacts
    DEF Scrub, ClearLen, ClearUse, Goto, ThreadInv, OpOf, Critical, PCs, TypeOK
  <2>6. call[t] = DestroyCall(call[t].id) /\ call[t].id = IdOf(i)
    BY <2>2, <2>5, CallFacts, IndexFacts
    DEF Calls, ImportCall, GetCall, DestroyCall, Acceptable
  <2>. QED
    BY <2>2, <2>6
<1>2. IInv /\ [Next]_vars =>
        [\A i \in Index : slot[i].in_use /\ slot[i].data \in Key =>
           \/ slot'[i] = slot[i]
           \/ \E t \in Thread : mutex = t /\ call[t] = DestroyCall(IdOf(i))]_vars
  BY <1>1
<1>. QED
  BY <1>2, Invariance, PTL DEF Spec, OnlyDestroyTouches

-----------------------------------------------------------------------------
(* OpenSSL's store, whose objects include those of every size.               *)

VARIABLES refs, oslot, opc, ocall, mine, ores

ovars == <<refs, oslot, opc, ocall, mine, ores>>

O == INSTANCE OsslAsymStore WITH
  Key <- Key \cup Oversized, Oversized <- {}, slot <- oslot, pc <- opc, call <- ocall, res <- ores

\* Every reference to an object is in one slot or with one thread (OsslAsymStore).
RefsExact == O!TypeOK /\ O!RefsExact

\* OpenSSL's store keeps the promise of KeyTable as well.
ObjectsKeepPromise == O!ObjectsKeepPromise

\* No object is freed under a thread that works with it, freed twice or left over,
\* for every set of threads and of objects and every capacity.
THEOREM ReferencesExact == O!Spec => []RefsExact
<1>1. O!Spec => [](O!TypeOK /\ O!RefsExact)
  BY StoreAssumption, O!ReferencesExact DEF O!OneSize
<1>. QED
  BY <1>1, PTL DEF RefsExact

\* To its callers OpenSSL's store is the table that the slot stores are.
THEOREM ObjectsRefine == O!Spec => ObjectsKeepPromise
BY StoreAssumption, O!Refinement DEF O!OneSize, ObjectsKeepPromise

-----------------------------------------------------------------------------
(* Both stores at once, for checking: a behaviour is of a slot store or of     *)
(* OpenSSL's, and the other one stays as it was built.  OpenSSL's knows no key *)
(* that is too long.                                                           *)

VARIABLE store

Stores == {"slots", "objects"}

MCInit == store \in Stores /\ Init /\ O!Init

SlotSteps(A) == store = "slots" /\ A /\ UNCHANGED <<store, ovars>>
ObjectSteps(A) == store = "objects" /\ A /\ UNCHANGED <<store, vars>>

MCNext == SlotSteps(Next) \/ ObjectSteps(O!Next)

\* Threads are fair as FairSpec of either store says.
MCSpec ==
  /\ MCInit /\ [][MCNext]_<<store, vars, ovars>>
  /\ \A t \in Thread : WF_<<store, vars, ovars>>(SlotSteps(Step(t)) \/ ObjectSteps(O!Step(t)))

\* An object that has left its slot, or never got one, is freed in the end.
FreedInTheEnd == O!FreedInTheEnd
=============================================================================
