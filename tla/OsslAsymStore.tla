---------------------------- MODULE OsslAsymStore ----------------------------
(***************************************************************************)
(* The asymmetric key store of the OpenSSL provider.  Its slots hold       *)
(* references to EVP_PKEY objects; Key is the set of these objects, and a  *)
(* freed one may be allocated again.  A get takes a reference of its own   *)
(* under the lock, works with the object outside it and frees it; destroy  *)
(* takes the reference out of the slot under the lock and frees it outside.*)
(* All slots are read and written under the one mutex, so a critical       *)
(* section is one step; what is done outside it is a step of its own.      *)
(***************************************************************************)
EXTENDS StoreInterface, FiniteSets, FiniteSetTheorems, TLAPS

\* What the store assumes besides: objects have no size that might not fit.
OneSize == Oversized = {}

VARIABLES
  refs,   \* per object: its references, 0 when it is freed
  slot,   \* per index: the object and in_use; alg is written with the object
  pc,     \* per thread: "idle", "enter", "free" (works, then frees) or "return"
  call,   \* per thread: the call it is in
  mine,   \* per thread: the object whose reference it holds, or NoKey
  res     \* per thread: what its last call answers

vars == <<refs, slot, pc, call, mine, res>>

Index == 1 .. Capacity
IdOf(i) == IdBase + i - 1
IndexOf(id) == id - IdBase + 1

FreeSlot == [pkey |-> NoKey, in_use |-> FALSE]

Init ==
  /\ refs = [k \in Key |-> 0]
  /\ slot = [i \in Index |-> FreeSlot]
  /\ pc = [t \in Thread |-> "idle"]
  /\ call = [t \in Thread |-> NoCall]
  /\ mine = [t \in Thread |-> NoKey]
  /\ res = [t \in Thread |-> Code("none")]

-----------------------------------------------------------------------------
(* Step idioms. *)

Goto(t, from, to) == pc[t] = from /\ pc' = [pc EXCEPT ![t] = to]
Reply(t, a) == res' = [res EXCEPT ![t] = a]
Take(t, k) == mine' = [mine EXCEPT ![t] = k]

\* Thread t holds the lock in a call of op.
Within(t, op) == pc[t] = "enter" /\ Acceptable(call[t]) /\ call[t].op = op
SlotOf(t) == slot[IndexOf(call[t].id)]

-----------------------------------------------------------------------------
(* The provider's operations. *)

\* An import comes with an object its caller has just made, with one reference.
Call(t, c) ==
  /\ Goto(t, "idle", "enter")
  /\ call' = [call EXCEPT ![t] = c]
  /\ Reply(t, Code("none"))
  /\ IF c.op = "import"
     THEN /\ refs[c.key] = 0
          /\ refs' = [refs EXCEPT ![c.key] = 1]
          /\ Take(t, c.key)
     ELSE UNCHANGED <<refs, mine>>
  /\ UNCHANGED slot

Refuse(t) ==
  /\ ~Acceptable(call[t])
  /\ Goto(t, "enter", "idle")
  /\ Reply(t, Rejection(call[t]))
  /\ call' = [call EXCEPT ![t] = NoCall]
  /\ UNCHANGED <<refs, slot, mine>>

\* The slot takes over the caller's reference.
Import(t) ==
  /\ Within(t, "import")
  /\ \E i \in Index :
       /\ ~slot[i].in_use
       /\ \A j \in 1 .. i - 1 : slot[j].in_use
       /\ slot' = [slot EXCEPT ![i] = [pkey |-> mine[t], in_use |-> TRUE]]
       /\ Reply(t, Answer("ok", IdOf(i), NoKey, NoKey))
  /\ Goto(t, "enter", "return")
  /\ Take(t, NoKey)
  /\ UNCHANGED <<refs, call>>

\* Deviation: the object that found no slot is not freed.
ImportFullLeaks(t) ==
  /\ Within(t, "import")
  /\ \A i \in Index : slot[i].in_use
  /\ Reply(t, Code("zero_id"))
  /\ Goto(t, "enter", "return")
  /\ Take(t, NoKey)
  /\ UNCHANGED <<refs, slot, call>>

ImportFull(t) ==
  /\ Within(t, "import")
  /\ \A i \in Index : slot[i].in_use
  /\ Reply(t, Code("zero_id"))
  /\ Goto(t, "enter", "free")
  /\ UNCHANGED <<refs, slot, call, mine>>

GetUnused(t) ==
  /\ Within(t, "get")
  /\ ~SlotOf(t).in_use
  /\ Reply(t, Code("InvalidArgument"))
  /\ Goto(t, "enter", "return")
  /\ UNCHANGED <<refs, slot, call, mine>>

\* Deviation: the object is handed out without a reference of its own.
GetBorrows(t) ==
  /\ Within(t, "get")
  /\ SlotOf(t).in_use
  /\ Take(t, SlotOf(t).pkey)
  /\ Reply(t, Answer("ok", 0, SlotOf(t).pkey, SlotOf(t).pkey))
  /\ Goto(t, "enter", "free")
  /\ UNCHANGED <<refs, slot, call>>

\* ossl_asym_store_get, ossl_asym_store_get_with_alg.
Get(t) ==
  /\ Within(t, "get")
  /\ SlotOf(t).in_use
  /\ refs' = [refs EXCEPT ![SlotOf(t).pkey] = @ + 1]
  /\ Take(t, SlotOf(t).pkey)
  /\ Reply(t, Answer("ok", 0, SlotOf(t).pkey, SlotOf(t).pkey))
  /\ Goto(t, "enter", "free")
  /\ UNCHANGED <<slot, call>>

UpRefFails(t) ==
  /\ Within(t, "get")
  /\ SlotOf(t).in_use
  /\ Reply(t, Code("InternalError"))
  /\ Goto(t, "enter", "return")
  /\ UNCHANGED <<refs, slot, call, mine>>

\* Deviation: the slot stays in use, with a null object.
DestroyKeepsSlot(t) ==
  /\ Within(t, "destroy")
  /\ Take(t, SlotOf(t).pkey)
  /\ slot' = [slot EXCEPT ![IndexOf(call[t].id)].pkey = NoKey]
  /\ Reply(t, Code("ok"))
  /\ Goto(t, "enter", "free")
  /\ UNCHANGED <<refs, call>>

\* Takes the reference out of the slot; the object of a free slot is null.
Destroy(t) ==
  /\ Within(t, "destroy")
  /\ Take(t, SlotOf(t).pkey)
  /\ slot' = [slot EXCEPT ![IndexOf(call[t].id)] = FreeSlot]
  /\ Reply(t, Code("ok"))
  /\ Goto(t, "enter", "free")
  /\ UNCHANGED <<refs, call>>

\* EVP_PKEY_free, of a null pointer too.
Free(t) ==
  /\ Goto(t, "free", "return")
  /\ refs' = IF mine[t] = NoKey THEN refs ELSE [refs EXCEPT ![mine[t]] = @ - 1]
  /\ Take(t, NoKey)
  /\ UNCHANGED <<slot, call, res>>

Return(t) ==
  /\ Goto(t, "return", "idle")
  /\ call' = [call EXCEPT ![t] = NoCall]
  /\ UNCHANGED <<refs, slot, mine, res>>

-----------------------------------------------------------------------------

Step(t) ==
  \/ Refuse(t) \/ Import(t) \/ ImportFull(t)
  \/ GetUnused(t) \/ Get(t) \/ UpRefFails(t)
  \/ Destroy(t) \/ Free(t) \/ Return(t)

Next == \E t \in Thread : (\E c \in Calls : Call(t, c)) \/ Step(t)

Spec == Init /\ [][Next]_vars

\* Threads keep running inside a call.
FairSpec == Spec /\ \A t \in Thread : WF_vars(Step(t))

-----------------------------------------------------------------------------
(* Properties *)

\* Every variable has its type.
TypeOK ==
  /\ refs \in [Key -> Nat]
  /\ slot \in [Index -> [pkey : Key \cup {NoKey}, in_use : BOOLEAN]]
  /\ pc \in [Thread -> {"idle", "enter", "free", "return"}]
  /\ call \in [Thread -> Calls \cup {NoCall}]
  /\ mine \in [Thread -> Key \cup {NoKey}]
  /\ res \in [Thread -> [code : {"none", "ok", "zero_id", "InvalidArgument", "InternalError"},
                         id : {0} \cup Id, data : Key \cup {NoKey}, len : Key \cup {NoKey}]]

Stored(k) == {i \in Index : slot[i].in_use /\ slot[i].pkey = k}
Holding(k) == {t \in Thread : mine[t] = k}

\* Every reference to an object is in one slot or with one thread: no thread works
\* with an object that was freed, whoever destroys its key meanwhile, and none is
\* freed twice or left over.
RefsExact ==
  /\ \A k \in Key : refs[k] = Cardinality(Stored(k)) + Cardinality(Holding(k))
  /\ \A k \in Key : Cardinality(Stored(k)) <= 1

\* The abstract view: the object under each id, and how far each call is.
AbsTable == [id \in Id |-> slot[IndexOf(id)].pkey]
AbsPhase == [t \in Thread |-> CASE pc[t] = "idle" -> "idle"
                                [] pc[t] = "enter" -> "called"
                                [] OTHER -> "done"]

Promise == INSTANCE KeyTable WITH table <- AbsTable, phase <- AbsPhase

\* The store keeps the promise of KeyTable, as the slot stores do.
ObjectsKeepPromise == Promise!TSpec

\* An object that has left its slot, or never got one, is freed in the end, however
\* many threads are still working with it.
FreedInTheEnd ==
  \A k \in Key :
    refs[k] > 0 /\ Stored(k) = {} /\ (\A t \in Thread : call[t] # ImportCall(k))
      ~> refs[k] = 0

-----------------------------------------------------------------------------
(* Proofs, for every set of threads and of objects and every capacity.  The  *)
(* counts of RefsExact alone are not inductive: an import stores the object  *)
(* that its caller made without looking whether it is stored already, so the *)
(* invariant has to know that nobody else has got at it meanwhile.           *)

InSlot(k) == \E i \in Index : slot[i].in_use /\ slot[i].pkey = k

\* Where a thread is in its call, and the reference it has there.
ThreadInv(t) ==
  /\ pc[t] = "idle" <=> call[t] = NoCall
  /\ pc[t] \in {"idle", "return"} => mine[t] = NoKey
  /\ pc[t] = "enter" /\ call[t].op # "import" => mine[t] = NoKey
  /\ pc[t] = "enter" /\ call[t].op = "import" =>
       mine[t] = call[t].key /\ ~InSlot(mine[t]) /\ Holding(mine[t]) = {t}

\* A free slot has no object, one in use has one of its own.
SlotInv(i) ==
  /\ slot[i].in_use <=> slot[i].pkey # NoKey
  /\ \A j \in Index : slot[j] = slot[i] /\ slot[i].in_use => j = i

\* The references are those of the slot, if there is one, and of the threads.
Counted(k) ==
  /\ IsFiniteSet(Holding(k))
  /\ refs[k] = (IF InSlot(k) THEN 1 ELSE 0) + Cardinality(Holding(k))

IInv ==
  /\ TypeOK
  /\ \A t \in Thread : ThreadInv(t)
  /\ \A i \in Index : SlotInv(i)
  /\ \A k \in Key : Counted(k)

LEMMA IndexFacts ==
  /\ \A i \in Index : IdOf(i) \in Id /\ IndexOf(IdOf(i)) = i
  /\ \A id \in Id : IndexOf(id) \in Index /\ IdOf(IndexOf(id)) = id
BY StoreAssumption DEF Id, IndexOf, IdOf, Index

\* What the checks before the lock leave of a call.
LEMMA CallFacts ==
  ASSUME OneSize, NEW c \in Calls
  PROVE  /\ c.op \in {"import", "get", "destroy"} /\ c # NoCall
         /\ c.op = "import" => c.key \in Key /\ Acceptable(c)
         /\ c.op # "import" /\ Acceptable(c) => c.id \in Id /\ IndexOf(c.id) \in Index
BY IndexFacts
   DEF OneSize, Calls, ImportCall, GetCall, DestroyCall, NoCall, Acceptable

Codes == {"none", "ok", "zero_id", "InvalidArgument", "InternalError"}
Answers == [code : Codes, id : {0} \cup Id, data : Key \cup {NoKey}, len : Key \cup {NoKey}]

LEMMA AnswerFacts ==
  /\ \A c \in Codes : Code(c) \in Answers
  /\ \A id \in Id : Answer("ok", id, NoKey, NoKey) \in Answers
  /\ \A k \in Key \cup {NoKey} : Answer("ok", 0, k, k) \in Answers
  /\ \A c : Rejection(c) \in Answers
BY DEF Codes, Answers, Code, Answer, Rejection

LEMMA InCall ==
  ASSUME OneSize, IInv, NEW t \in Thread, pc[t] = "enter"
  PROVE  /\ call[t] \in Calls
         /\ call[t].op = "import" => call[t].key \in Key /\ Acceptable(call[t])
         /\ call[t].op # "import" /\ Acceptable(call[t]) => IndexOf(call[t].id) \in Index
BY CallFacts DEF IInv, TypeOK, ThreadInv

LEMMA InitIInv == ASSUME OneSize, Init PROVE IInv
<1>1. TypeOK
  BY DEF Init, TypeOK, FreeSlot, Code, Answer
<1>2. \A t \in Thread : ThreadInv(t)
  BY DEF Init, ThreadInv
<1>3. \A i \in Index : SlotInv(i)
  BY DEF Init, SlotInv, FreeSlot
<1>4. ASSUME NEW k \in Key PROVE Counted(k)
  <2>1. Holding(k) = {} /\ ~InSlot(k)
    BY <1>4, StoreAssumption DEF Init, Holding, InSlot, FreeSlot
  <2>. QED
    BY <2>1, FS_EmptySet DEF Init, Counted
<1>. QED
  BY <1>1, <1>2, <1>3, <1>4 DEF IInv

\* A step of a thread leaves the places of the others alone.
LEMMA Frame ==
  ASSUME IInv, NEW t \in Thread, Step(t) \/ (\E c \in Calls : Call(t, c)),
         NEW u \in Thread \ {t}
  PROVE  pc'[u] = pc[u] /\ call'[u] = call[u] /\ mine'[u] = mine[u]
BY DEF IInv, TypeOK, Step, Call, Refuse, Import, ImportFull, GetUnused, Get, UpRefFails,
       Destroy, Free, Return, Goto, Take

\* The steps that touch no object.
Quiet(t) ==
  Refuse(t) \/ ImportFull(t) \/ GetUnused(t) \/ UpRefFails(t) \/ Return(t)

LEMMA QuietStep ==
  ASSUME OneSize, IInv, NEW t \in Thread, Quiet(t) PROVE IInv'
<1>a. refs' = refs /\ slot' = slot /\ mine' = mine
  BY DEF Quiet, Refuse, ImportFull, GetUnused, UpRefFails, Return
<1>b. TypeOK /\ ThreadInv(t)
  BY DEF IInv
<1> USE DEF Goto, Reply, Within
<1>1. TypeOK'
  <2>1. pc' \in [Thread -> {"idle", "enter", "free", "return"}]
        /\ call' \in [Thread -> Calls \cup {NoCall}]
    BY <1>b DEF Quiet, Refuse, ImportFull, GetUnused, UpRefFails, Return, TypeOK
  <2>2. res' \in [Thread -> Answers]
    BY <1>b, AnswerFacts
    DEF Quiet, Refuse, ImportFull, GetUnused, UpRefFails, Return, TypeOK, Answers, Codes
  <2>. QED
    BY <1>a, <1>b, <2>1, <2>2 DEF TypeOK, Answers, Codes
<1>2. ThreadInv(t)'
  <2>1. CASE Refuse(t)
    BY <2>1, <1>a, <1>b, InCall DEF Refuse, ThreadInv, TypeOK
  <2>2. CASE ImportFull(t) \/ GetUnused(t) \/ UpRefFails(t) \/ Return(t)
    BY <2>2, <1>a, <1>b DEF ImportFull, GetUnused, UpRefFails, Return, ThreadInv, TypeOK
  <2>. QED
    BY <2>1, <2>2 DEF Quiet
<1>3. ASSUME NEW u \in Thread \ {t} PROVE ThreadInv(u)'
  <2>1. pc'[u] = pc[u] /\ call'[u] = call[u]
    BY <1>3, Frame DEF Quiet, Step
  <2>. QED
    BY <1>a, <2>1 DEF IInv, ThreadInv, InSlot, Holding
<1>4. (\A i \in Index : SlotInv(i)') /\ (\A k \in Key : Counted(k)')
  BY <1>a DEF IInv, SlotInv, Counted, InSlot, Holding
<1>. QED
  BY <1>1, <1>2, <1>3, <1>4 DEF IInv

\* A reference is where Counted says, so an object without one is nowhere, and one
\* that is somewhere has a reference.
LEMMA CountFacts ==
  ASSUME IInv, NEW k \in Key
  PROVE  /\ refs[k] = 0 <=> ~InSlot(k) /\ Holding(k) = {}
         /\ \A t \in Thread : mine[t] = k => refs[k] > 0
<1>1. IsFiniteSet(Holding(k)) /\ refs[k] = (IF InSlot(k) THEN 1 ELSE 0) + Cardinality(Holding(k))
  BY DEF IInv, Counted
<1>2. Cardinality(Holding(k)) \in Nat /\ (Cardinality(Holding(k)) = 0 <=> Holding(k) = {})
  BY <1>1, FS_CardinalityType, FS_EmptySet
<1>3. refs[k] = 0 <=> ~InSlot(k) /\ Holding(k) = {}
  BY <1>1, <1>2
<1>4. refs[k] \in Nat
  BY DEF IInv, TypeOK
<1>. QED
  BY <1>3, <1>4 DEF Holding

\* A step that gives thread t the reference "new" for its own, and leaves references
\* and slots in step with that, keeps the counts; it keeps the imports of others alone
\* with their objects if it stores and takes only what is in a slot, its own or new.
LEMMA ExchangeKeeps ==
  ASSUME OneSize, IInv, NEW t \in Thread, Step(t) \/ (\E c \in Calls : Call(t, c)),
         refs' \in [Key -> Nat], NEW new \in Key \cup {NoKey},
         mine' = [mine EXCEPT ![t] = new],
         \A k \in Key : refs'[k] + (IF InSlot(k) THEN 1 ELSE 0) + (IF k = mine[t] THEN 1 ELSE 0)
           = refs[k] + (IF InSlot(k)' THEN 1 ELSE 0) + (IF k = new THEN 1 ELSE 0),
         \A k \in Key : InSlot(k)' => InSlot(k) \/ k = mine[t],
         new \in Key => InSlot(new) \/ refs[new] = 0
  PROVE  /\ \A k \in Key : Counted(k)'
         /\ \A u \in Thread \ {t} : ThreadInv(u)'
<1>a. TypeOK
  BY DEF IInv
<1>1. ASSUME NEW k \in Key PROVE Counted(k)'
  <2>1. IsFiniteSet(Holding(k)) /\ refs[k] = (IF InSlot(k) THEN 1 ELSE 0) + Cardinality(Holding(k))
    BY DEF IInv, Counted
  <2>2. Cardinality(Holding(k)) \in Nat
    BY <2>1, FS_CardinalityType
  <2>3. /\ IsFiniteSet(Holding(k)')
        /\ Cardinality(Holding(k)')
             = Cardinality(Holding(k)) + (IF k = new THEN 1 ELSE 0)
                                       - (IF k = mine[t] THEN 1 ELSE 0)
    <3>1. t \in Holding(k) <=> k = mine[t]
      BY DEF Holding
    <3>2. CASE k = new
      <4>1. Holding(k)' = Holding(k) \cup {t}
        BY <1>a, <3>2 DEF TypeOK, Holding
      <4>2. /\ IsFiniteSet(Holding(k) \cup {t})
            /\ Cardinality(Holding(k) \cup {t})
                 = IF t \in Holding(k) THEN Cardinality(Holding(k)) ELSE Cardinality(Holding(k)) + 1
        BY <2>1, FS_AddElement
      <4>. QED
        BY <2>2, <3>1, <3>2, <4>1, <4>2
    <3>3. CASE k # new
      <4>1. Holding(k)' = Holding(k) \ {t}
        BY <1>a, <3>3 DEF TypeOK, Holding
      <4>2. /\ IsFiniteSet(Holding(k) \ {t})
            /\ Cardinality(Holding(k) \ {t})
                 = IF t \in Holding(k) THEN Cardinality(Holding(k)) - 1 ELSE Cardinality(Holding(k))
        BY <2>1, FS_RemoveElement
      <4>. QED
        BY <2>2, <3>1, <3>3, <4>1, <4>2
    <3>. QED
      BY <3>2, <3>3
  <2>4. refs'[k] + (IF InSlot(k) THEN 1 ELSE 0) + (IF k = mine[t] THEN 1 ELSE 0)
          = refs[k] + (IF InSlot(k)' THEN 1 ELSE 0) + (IF k = new THEN 1 ELSE 0)
    OBVIOUS
  <2>5. refs'[k] \in Nat /\ refs[k] \in Nat
    BY <1>a DEF TypeOK
  <2>6. refs'[k] = (IF InSlot(k)' THEN 1 ELSE 0) + Cardinality(Holding(k)')
    BY <2>1, <2>2, <2>3, <2>4, <2>5
  <2>. QED
    BY <2>3, <2>6 DEF Counted
<1>2. ASSUME NEW u \in Thread \ {t} PROVE ThreadInv(u)'
  <2>1. pc'[u] = pc[u] /\ call'[u] = call[u] /\ mine'[u] = mine[u] /\ ThreadInv(u)
    BY <1>2, Frame DEF IInv
  <2>2. ASSUME pc[u] = "enter", call[u].op = "import"
        PROVE  ~InSlot(mine[u])' /\ Holding(mine[u])' = {u}
    <3> DEFINE k == mine[u]
    <3>1. ~InSlot(k) /\ Holding(k) = {u}
      BY <2>1, <2>2 DEF ThreadInv
    <3>2. k \in Key
      BY <2>1, <2>2, InCall DEF ThreadInv
    <3>3. k # mine[t] /\ refs[k] # 0 /\ k # new
      BY <1>2, <3>1, <3>2, CountFacts DEF Holding
    <3>4. Holding(k)' = Holding(k) \ {t}
      BY <1>a, <3>3 DEF TypeOK, Holding
    <3>. QED
      BY <1>2, <3>1, <3>2, <3>3, <3>4
  <2>. QED
    BY <2>1, <2>2 DEF ThreadInv
<1>. QED
  BY <1>1, <1>2

\* The steps that touch an object: a call with a new one ...
LEMMA CallStep ==
  ASSUME OneSize, IInv, NEW t \in Thread, NEW c \in Calls, Call(t, c) PROVE IInv'
<1>a. TypeOK /\ ThreadInv(t) /\ mine[t] = NoKey /\ slot' = slot
  BY DEF IInv, ThreadInv, Call, Goto
<1>b. c.op = "import" => c.key \in Key
  BY CallFacts
<1>1. TypeOK'
  BY <1>a, <1>b, SMTT(30) DEF Call, Goto, Reply, Take, TypeOK, Code, Answer
<1> DEFINE new == IF c.op = "import" THEN c.key ELSE NoKey
<1>2. /\ mine' = [mine EXCEPT ![t] = new] /\ new \in Key \cup {NoKey}
      /\ \A k \in Key : refs'[k] = refs[k] + (IF k = new THEN 1 ELSE 0)
      /\ new \in Key => refs[new] = 0
  BY <1>a, <1>b, StoreAssumption DEF Call, Take, TypeOK
<1>3. \A k : InSlot(k)' = InSlot(k)
  BY <1>a DEF InSlot
<1> HIDE DEF new
<1>4. (\A k \in Key : Counted(k)') /\ (\A u \in Thread \ {t} : ThreadInv(u)')
  <2>1. refs \in [Key -> Nat] /\ refs' \in [Key -> Nat] /\ \A k \in Key : k # mine[t]
    BY <1>a, <1>1, StoreAssumption DEF TypeOK
  <2>2. \A k \in Key : refs'[k] + (IF InSlot(k) THEN 1 ELSE 0) + (IF k = mine[t] THEN 1 ELSE 0)
           = refs[k] + (IF InSlot(k)' THEN 1 ELSE 0) + (IF k = new THEN 1 ELSE 0)
    BY <2>1, <1>2, <1>3
  <2>. QED
    BY <1>2, <1>3, <2>1, <2>2, ExchangeKeeps
<1>5. ThreadInv(t)'
  <2>1. pc'[t] = "enter" /\ call'[t] = c /\ mine'[t] = new
    BY <1>a, <1>2 DEF Call, Goto, TypeOK
  <2>2. CASE c.op = "import"
    <3>1. new = c.key /\ new \in Key /\ refs[new] = 0
      BY <1>b, <1>2, <2>2 DEF new
    <3>2. ~InSlot(new) /\ Holding(new) = {}
      BY <3>1, CountFacts
    <3>3. Holding(new)' = {t}
      BY <1>a, <1>2, <3>2 DEF Holding, TypeOK
    <3>. QED
      BY <1>3, <2>1, <2>2, <3>1, <3>2, <3>3, CallFacts DEF ThreadInv
  <2>3. CASE c.op # "import"
    BY <2>1, <2>3, CallFacts DEF ThreadInv, new
  <2>. QED
    BY <2>2, <2>3
<1>6. \A i \in Index : SlotInv(i)'
  BY <1>a DEF IInv, SlotInv
<1>. QED
  BY <1>1, <1>4, <1>5, <1>6 DEF IInv

\* ... its import: the slot has the reference that the thread had ...
LEMMA ImportStep ==
  ASSUME OneSize, IInv, NEW t \in Thread, Import(t) PROVE IInv'
<1>a. /\ TypeOK /\ ThreadInv(t) /\ refs' = refs /\ call[t].op = "import"
      /\ mine[t] \in Key /\ ~InSlot(mine[t]) /\ pc'[t] = "return" /\ call' = call
      /\ mine' = [mine EXCEPT ![t] = NoKey]
  BY InCall DEF IInv, ThreadInv, TypeOK, Import, Within, Goto, Take
<1>1. PICK i \in Index : /\ ~slot[i].in_use
                         /\ slot' = [slot EXCEPT ![i] = [pkey |-> mine[t], in_use |-> TRUE]]
                         /\ res' = [res EXCEPT ![t] = Answer("ok", IdOf(i), NoKey, NoKey)]
  BY DEF Import, Reply
<1>2. TypeOK'
  <2>1. Answer("ok", IdOf(i), NoKey, NoKey) \in Answers
    BY AnswerFacts, IndexFacts
  <2>2. res' \in [Thread -> Answers]
    BY <1>a, <1>1, <2>1 DEF TypeOK, Answers, Codes
  <2>. QED
    BY <1>a, <1>1, <2>2 DEF Import, Goto, TypeOK, Answers, Codes
<1>3. slot'[i].in_use /\ slot'[i].pkey = mine[t] /\ \A j \in Index \ {i} : slot'[j] = slot[j]
  BY <1>a, <1>1 DEF TypeOK
<1>4. \A k \in Key : InSlot(k)' <=> InSlot(k) \/ k = mine[t]
  BY <1>1, <1>3 DEF InSlot
<1>5. (\A k \in Key : Counted(k)') /\ (\A u \in Thread \ {t} : ThreadInv(u)')
  <2>1. \A k \in Key : k # NoKey /\ refs[k] \in Nat
    BY <1>a, StoreAssumption DEF TypeOK
  <2>2. \A k \in Key : refs'[k] + (IF InSlot(k) THEN 1 ELSE 0) + (IF k = mine[t] THEN 1 ELSE 0)
           = refs[k] + (IF InSlot(k)' THEN 1 ELSE 0) + (IF k = NoKey THEN 1 ELSE 0)
    BY <1>a, <1>4, <2>1
  <2>3. refs' \in [Key -> Nat] /\ NoKey \notin Key
    BY <1>2, StoreAssumption DEF TypeOK
  <2>. QED
    BY <1>a, <1>4, <2>2, <2>3, ExchangeKeeps DEF Step
<1>6. ThreadInv(t)'
  BY <1>a DEF ThreadInv, Import, Within, TypeOK
<1>7. \A j \in Index : SlotInv(j)'
  BY <1>a, <1>3, StoreAssumption DEF IInv, SlotInv, InSlot
<1>. QED
  BY <1>2, <1>5, <1>6, <1>7 DEF IInv

\* ... a get, which adds a reference to the one of the slot ...
LEMMA GetStep ==
  ASSUME OneSize, IInv, NEW t \in Thread, Get(t) PROVE IInv'
<1> DEFINE k0 == SlotOf(t).pkey
<1>a. /\ TypeOK /\ ThreadInv(t) /\ slot' = slot /\ call' = call /\ mine[t] = NoKey
      /\ refs' = [refs EXCEPT ![k0] = @ + 1] /\ mine' = [mine EXCEPT ![t] = k0]
      /\ pc[t] = "enter" /\ pc' = [pc EXCEPT ![t] = "free"]
      /\ res' = [res EXCEPT ![t] = Answer("ok", 0, k0, k0)]
  BY DEF IInv, ThreadInv, TypeOK, Get, Within, Goto, Take, Reply
<1>b. k0 \in Key /\ InSlot(k0)
  <2>1. IndexOf(call[t].id) \in Index
    BY InCall DEF Get, Within
  <2>2. SlotOf(t).in_use
    BY DEF Get
  <2>3. k0 \in Key
    BY <1>a, <2>1, <2>2 DEF SlotOf, IInv, SlotInv, TypeOK
  <2>. QED
    BY <2>1, <2>2, <2>3 DEF SlotOf, InSlot
<1> HIDE DEF k0
<1>1. TypeOK'
  <2>1. res' \in [Thread -> Answers]
    BY <1>a, <1>b, AnswerFacts DEF TypeOK, Answers, Codes
  <2>. QED
    BY <1>a, <1>b, <2>1 DEF TypeOK, Answers, Codes
<1>2. \A k : InSlot(k)' = InSlot(k)
  BY <1>a DEF InSlot
<1>3. (\A k \in Key : Counted(k)') /\ (\A u \in Thread \ {t} : ThreadInv(u)')
  <2>1. \A k \in Key : k # mine[t] /\ refs[k] \in Nat
                       /\ refs'[k] = refs[k] + (IF k = k0 THEN 1 ELSE 0)
    BY <1>a, StoreAssumption DEF TypeOK
  <2>2. \A k \in Key : refs'[k] + (IF InSlot(k) THEN 1 ELSE 0) + (IF k = mine[t] THEN 1 ELSE 0)
           = refs[k] + (IF InSlot(k)' THEN 1 ELSE 0) + (IF k = k0 THEN 1 ELSE 0)
    BY <1>2, <2>1
  <2>3. refs' \in [Key -> Nat]
    BY <1>1 DEF TypeOK
  <2>. QED
    BY <1>a, <1>b, <1>2, <2>2, <2>3, ExchangeKeeps DEF Step
<1>4. ThreadInv(t)' /\ \A i \in Index : SlotInv(i)'
  BY <1>a DEF IInv, ThreadInv, SlotInv, TypeOK
<1>. QED
  BY <1>1, <1>3, <1>4 DEF IInv

\* ... a destroy, which leaves the slot's reference with the thread ...
LEMMA DestroyStep ==
  ASSUME OneSize, IInv, NEW t \in Thread, Destroy(t) PROVE IInv'
<1> DEFINE i == IndexOf(call[t].id)
           k0 == slot[i].pkey
<1>a. /\ TypeOK /\ ThreadInv(t) /\ refs' = refs /\ call' = call /\ mine[t] = NoKey
      /\ slot' = [slot EXCEPT ![i] = FreeSlot] /\ mine' = [mine EXCEPT ![t] = k0]
      /\ pc[t] = "enter" /\ pc' = [pc EXCEPT ![t] = "free"]
      /\ res' = [res EXCEPT ![t] = Code("ok")]
  BY DEF IInv, ThreadInv, TypeOK, Destroy, Within, Goto, Take, Reply, SlotOf
<1>b. i \in Index
  BY InCall DEF Destroy, Within
<1>c. k0 \in Key \cup {NoKey} /\ (k0 \in Key <=> slot[i].in_use) /\ (k0 \in Key => InSlot(k0))
  BY <1>a, <1>b, StoreAssumption DEF IInv, TypeOK, SlotInv, InSlot
<1> HIDE DEF i
<1>1. TypeOK'
  <2>1. res' \in [Thread -> Answers]
    BY <1>a, AnswerFacts DEF TypeOK, Answers, Codes
  <2>. QED
    BY <1>a, <1>b, <1>c, <2>1 DEF TypeOK, FreeSlot, Answers, Codes
<1>d. slot'[i] = FreeSlot /\ \A j \in Index \ {i} : slot'[j] = slot[j]
  BY <1>a, <1>b DEF TypeOK
<1>2. \A k \in Key : InSlot(k)' <=> InSlot(k) /\ k # k0
  <2>1. ASSUME NEW k \in Key, InSlot(k)' PROVE InSlot(k) /\ k # k0
    <3>1. PICK j \in Index : slot'[j].in_use /\ slot'[j].pkey = k
      BY <2>1 DEF InSlot
    <3>2. j # i /\ slot[j].in_use /\ slot[j].pkey = k
      BY <1>d, <3>1 DEF FreeSlot
    <3>3. slot[j].pkey = k0 => slot[j] = slot[i]
      BY <1>a, <1>b, <1>c, <3>1, <3>2 DEF TypeOK
    <3>. QED
      BY <1>b, <3>2, <3>3 DEF IInv, SlotInv, InSlot
  <2>2. ASSUME NEW k \in Key, InSlot(k), k # k0 PROVE InSlot(k)'
    BY <1>d, <2>2 DEF InSlot
  <2>. QED
    BY <2>1, <2>2
<1> HIDE DEF k0
<1>3. (\A k \in Key : Counted(k)') /\ (\A u \in Thread \ {t} : ThreadInv(u)')
  <2>1. \A k \in Key : k # mine[t] /\ refs[k] \in Nat
    BY <1>a, StoreAssumption DEF TypeOK
  <2>2. \A k \in Key : refs'[k] + (IF InSlot(k) THEN 1 ELSE 0) + (IF k = mine[t] THEN 1 ELSE 0)
           = refs[k] + (IF InSlot(k)' THEN 1 ELSE 0) + (IF k = k0 THEN 1 ELSE 0)
    BY <1>a, <1>c, <1>2, <2>1
  <2>3. refs' \in [Key -> Nat]
    BY <1>1 DEF TypeOK
  <2>. QED
    BY <1>a, <1>c, <1>2, <2>2, <2>3, ExchangeKeeps DEF Step
<1>4. ThreadInv(t)'
  BY <1>a DEF ThreadInv, TypeOK
<1>5. \A j \in Index : SlotInv(j)'
  BY <1>a, <1>b, <1>d DEF IInv, SlotInv, FreeSlot
<1>. QED
  BY <1>1, <1>3, <1>4, <1>5 DEF IInv

\* ... and its release.
LEMMA FreeStep ==
  ASSUME OneSize, IInv, NEW t \in Thread, Free(t) PROVE IInv'
<1>a. /\ TypeOK /\ ThreadInv(t) /\ slot' = slot /\ call' = call /\ res' = res
      /\ mine' = [mine EXCEPT ![t] = NoKey]
      /\ pc[t] = "free" /\ pc' = [pc EXCEPT ![t] = "return"]
      /\ refs' = IF mine[t] = NoKey THEN refs ELSE [refs EXCEPT ![mine[t]] = @ - 1]
  BY DEF IInv, Free, Goto, Take
<1>b. mine[t] \in Key => refs[mine[t]] > 0
  BY <1>a, CountFacts DEF TypeOK
<1>1. refs' \in [Key -> Nat] /\ \A k \in Key : refs'[k] = refs[k] - (IF k = mine[t] THEN 1 ELSE 0)
  BY <1>a, <1>b, StoreAssumption DEF TypeOK
<1>2. TypeOK'
  BY <1>a, <1>1 DEF TypeOK
<1>3. \A k : InSlot(k)' = InSlot(k)
  BY <1>a DEF InSlot
<1>4. (\A k \in Key : Counted(k)') /\ (\A u \in Thread \ {t} : ThreadInv(u)')
  <2>1. \A k \in Key : k # NoKey /\ refs[k] \in Nat
    BY <1>a, StoreAssumption DEF TypeOK
  <2>2. \A k \in Key : refs'[k] + (IF InSlot(k) THEN 1 ELSE 0) + (IF k = mine[t] THEN 1 ELSE 0)
           = refs[k] + (IF InSlot(k)' THEN 1 ELSE 0) + (IF k = NoKey THEN 1 ELSE 0)
    BY <1>1, <1>3, <2>1
  <2>. QED
    BY <1>a, <1>1, <1>3, <2>1, <2>2, ExchangeKeeps DEF Step
<1>5. ThreadInv(t)' /\ \A i \in Index : SlotInv(i)'
  BY <1>a DEF IInv, ThreadInv, SlotInv, TypeOK
<1>. QED
  BY <1>2, <1>4, <1>5 DEF IInv

\* The invariant is inductive.
LEMMA StepIInv == ASSUME OneSize, IInv, [Next]_vars PROVE IInv'
<1>1. CASE UNCHANGED vars
  <2> USE <1>1 DEF vars, IInv
  <2>1. TypeOK' /\ \A i \in Index : SlotInv(i)'
    BY DEF TypeOK, SlotInv
  <2>2. \A t \in Thread : ThreadInv(t)'
    BY DEF ThreadInv, InSlot, Holding
  <2>3. \A k \in Key : Counted(k)'
    BY DEF Counted, InSlot, Holding
  <2>. QED
    BY <2>1, <2>2, <2>3
<1>2. ASSUME NEW t \in Thread, Step(t) PROVE IInv'
  BY <1>2, QuietStep, ImportStep, GetStep, DestroyStep, FreeStep DEF Step, Quiet
<1>. QED
  BY <1>1, <1>2, CallStep DEF Next

LEMMA Invariance == ASSUME OneSize PROVE Spec => []IInv
<1>1. Init => IInv
  BY InitIInv
<1>2. IInv /\ [Next]_vars => IInv'
  BY StepIInv
<1>. QED
  BY <1>1, <1>2, PTL DEF Spec

\* RefsExact: whoever gets, destroys and frees at once, an object has exactly the
\* references of its slot and of the threads that work with it.
THEOREM ReferencesExact == ASSUME OneSize PROVE Spec => [](TypeOK /\ RefsExact)
<1>1. ASSUME IInv, NEW k \in Key
      PROVE  /\ refs[k] = Cardinality(Stored(k)) + Cardinality(Holding(k))
             /\ Cardinality(Stored(k)) <= 1
  <2>1. refs[k] = (IF InSlot(k) THEN 1 ELSE 0) + Cardinality(Holding(k))
    BY <1>1 DEF IInv, Counted
  <2>2. CASE ~InSlot(k)
    <3>1. Stored(k) = {}
      BY <2>2 DEF InSlot, Stored
    <3>2. Cardinality({}) = 0
      BY FS_EmptySet
    <3>. QED
      BY <2>1, <2>2, <3>1, <3>2
  <2>3. CASE InSlot(k)
    <3>1. PICK i \in Index : slot[i].in_use /\ slot[i].pkey = k
      BY <2>3 DEF InSlot
    <3>2. \A j \in Index : slot[j].in_use /\ slot[j].pkey = k => slot[j] = slot[i]
      BY <1>1, <3>1 DEF IInv, TypeOK
    <3>3. Stored(k) = {i}
      BY <1>1, <3>1, <3>2 DEF IInv, SlotInv, Stored
    <3>4. Cardinality({i}) = 1
      BY FS_Singleton
    <3>. QED
      BY <2>1, <2>3, <3>3, <3>4
  <2>. QED
    BY <2>2, <2>3
<1>2. IInv => TypeOK /\ RefsExact
  BY <1>1 DEF IInv, RefsExact
<1>. QED
  BY <1>2, Invariance, PTL

-----------------------------------------------------------------------------
(* The refinement of KeyTable. *)

\* KeyTable reads the same constants, so its vocabulary is that of the store.
LEMMA SameVocabulary ==
  /\ Promise!Calls = Calls /\ Promise!NoCall = NoCall /\ Promise!Id = Id
  /\ \A c : Promise!Code(c) = Code(c)
  /\ \A c : Promise!Acceptable(c) <=> Acceptable(c)
  /\ \A c : Promise!Rejection(c) = Rejection(c)
  /\ \A c, id, d, l : Promise!Answer(c, id, d, l) = Answer(c, id, d, l)
BY DEF Promise!Calls, Promise!NoCall, Promise!Id, Promise!Code, Promise!Acceptable,
       Promise!Rejection, Promise!Answer, Promise!ImportCall, Promise!GetCall,
       Promise!DestroyCall, Promise!AnyId, Calls, NoCall, Id, Code, Acceptable, Rejection,
       Answer, ImportCall, GetCall, DestroyCall, AnyId

\* A step moves the phase of its thread as it moves its place.
LEMMA AbsMove ==
  ASSUME TypeOK, NEW t \in Thread, NEW to \in {"idle", "enter", "free", "return"},
         pc' = [pc EXCEPT ![t] = to]
  PROVE  AbsPhase' = [AbsPhase EXCEPT ![t] = IF to = "idle" THEN "idle"
                                             ELSE IF to = "enter" THEN "called" ELSE "done"]
BY DEF TypeOK, AbsPhase

\* A slot that changes changes the table at its id.
LEMMA AbsChange ==
  ASSUME TypeOK, NEW id \in Id, NEW s, slot' = [slot EXCEPT ![IndexOf(id)] = s]
  PROVE  AbsTable' = [AbsTable EXCEPT ![id] = s.pkey]
<1>1. IndexOf(id) \in Index /\ \A j \in Id \ {id} : IndexOf(j) \in Index \ {IndexOf(id)}
  BY IndexFacts
<1>2. slot'[IndexOf(id)] = s /\ \A j \in Id \ {id} : slot'[IndexOf(j)] = slot[IndexOf(j)]
  BY <1>1 DEF TypeOK
<1>3. AbsTable' = [j \in Id |-> slot'[IndexOf(j)].pkey]
  BY DEF AbsTable
<1>4. \A j \in Id : slot'[IndexOf(j)].pkey = IF j = id THEN s.pkey ELSE AbsTable[j]
  BY <1>2 DEF AbsTable
<1>5. [AbsTable EXCEPT ![id] = s.pkey] = [j \in Id |-> IF j = id THEN s.pkey ELSE AbsTable[j]]
  BY DEF AbsTable
<1>. QED
  BY <1>3, <1>4, <1>5

\* Every step of the store is a step of KeyTable or leaves its variables alone.
LEMMA StepSimulates ==
  ASSUME OneSize, IInv, NEW t \in Thread, Step(t) \/ (\E c \in Calls : Call(t, c))
  PROVE  Promise!TNext \/ UNCHANGED <<AbsTable, AbsPhase, call, res>>
<1>a. TypeOK /\ ThreadInv(t)
  BY DEF IInv
<1>b. slot' = slot => AbsTable' = AbsTable
  BY DEF AbsTable
<1>c. /\ pc[t] = "idle" => AbsPhase[t] = "idle"
      /\ pc[t] = "enter" => AbsPhase[t] = "called"
      /\ pc[t] \in {"free", "return"} => AbsPhase[t] = "done"
  BY DEF AbsPhase
<1>d. ASSUME NEW op, Within(t, op), op # "import"
      PROVE  call[t].id \in Id /\ AbsTable[call[t].id] = SlotOf(t).pkey
             /\ SlotOf(t).in_use = (SlotOf(t).pkey # NoKey)
  <2>1. call[t] \in Calls /\ call[t].id \in Id /\ IndexOf(call[t].id) \in Index
    BY <1>d, InCall, CallFacts DEF Within
  <2>. QED
    BY <1>a, <2>1 DEF AbsTable, SlotOf, IInv, SlotInv, TypeOK
<1> USE DEF Goto, Reply
<1>1. ASSUME NEW c \in Calls, Call(t, c) PROVE Promise!Invoke(t)
  <2>1. AbsPhase' = [AbsPhase EXCEPT ![t] = "called"]
    BY <1>1, <1>a, AbsMove DEF Call
  <2>. QED
    BY <1>1, <1>b, <1>c, <2>1, SameVocabulary DEF Call, Promise!Invoke
<1>2. CASE Refuse(t)
  <2>1. AbsPhase' = [AbsPhase EXCEPT ![t] = "idle"]
    BY <1>2, <1>a, AbsMove DEF Refuse
  <2>. QED
    BY <1>2, <1>b, <1>c, <2>1, SameVocabulary DEF Refuse, Promise!Reject, Promise!TNext
<1>3. CASE Import(t)
  <2>1. PICK i \in Index : /\ ~slot[i].in_use
                           /\ slot' = [slot EXCEPT ![i] = [pkey |-> mine[t], in_use |-> TRUE]]
                           /\ res' = [res EXCEPT ![t] = Answer("ok", IdOf(i), NoKey, NoKey)]
    BY <1>3 DEF Import
  <2> DEFINE id == IdOf(i)
  <2>2. id \in Id /\ IndexOf(id) = i /\ mine[t] = call[t].key
    BY <1>3, <1>a, IndexFacts DEF Import, Within, ThreadInv
  <2>3. AbsTable[id] = NoKey
    BY <1>a, <2>1, <2>2 DEF AbsTable, IInv, SlotInv
  <2>4. AbsTable' = [AbsTable EXCEPT ![id] = [pkey |-> mine[t], in_use |-> TRUE].pkey]
    BY <1>a, <2>1, <2>2, AbsChange
  <2>5. AbsPhase' = [AbsPhase EXCEPT ![t] = "done"]
    BY <1>3, <1>a, AbsMove DEF Import
  <2>6. Promise!Serving(t, "import") /\ call' = call
    BY <1>3, <1>c, SameVocabulary DEF Import, Within, Promise!Serving
  <2> HIDE DEF id
  <2>7. Promise!DoImport(t)
    BY <2>1, <2>2, <2>3, <2>4, <2>5, <2>6, SameVocabulary
    DEF Promise!DoImport, Promise!Serve, id
  <2>. QED
    BY <2>7 DEF Promise!TNext
<1>4. CASE ImportFull(t)
  <2>1. \A id \in Id : AbsTable[id] # NoKey
    BY <1>4, <1>a, IndexFacts DEF ImportFull, AbsTable, IInv, SlotInv
  <2>2. AbsPhase' = [AbsPhase EXCEPT ![t] = "done"]
    BY <1>4, <1>a, AbsMove DEF ImportFull
  <2>3. Promise!Serving(t, "import")
    BY <1>4, <1>c, SameVocabulary DEF ImportFull, Within, Promise!Serving
  <2>4. Promise!DoImport(t)
    BY <1>4, <1>b, <2>1, <2>2, <2>3, SameVocabulary
    DEF ImportFull, Promise!DoImport, Promise!Serve
  <2>. QED
    BY <2>4 DEF Promise!TNext
<1>5. CASE GetUnused(t) \/ Get(t) \/ UpRefFails(t)
  <2> DEFINE k == AbsTable[call[t].id]
  <2>1. Within(t, "get") /\ slot' = slot /\ call' = call
    BY <1>5 DEF GetUnused, Get, UpRefFails
  <2>2. AbsPhase' = [AbsPhase EXCEPT ![t] = "done"]
    BY <1>5, <1>a, AbsMove DEF GetUnused, Get, UpRefFails
  <2>3. Promise!Serving(t, "get")
    BY <2>1, <1>c, SameVocabulary DEF Within, Promise!Serving
  <2>4. \/ k = NoKey /\ res' = [res EXCEPT ![t] = Code("InvalidArgument")]
        \/ k # NoKey /\ res' = [res EXCEPT ![t] = Answer("ok", 0, k, k)]
        \/ k # NoKey /\ res' = [res EXCEPT ![t] = Code("InternalError")]
    BY <1>5, <1>d, <2>1 DEF GetUnused, Get, UpRefFails
  <2> HIDE DEF k
  <2>5. Promise!DoGet(t)
    BY <1>b, <2>1, <2>2, <2>3, <2>4, SameVocabulary DEF Promise!DoGet, Promise!Serve, k
  <2>. QED
    BY <2>5 DEF Promise!TNext
<1>6. CASE Destroy(t)
  <2>1. call[t].id \in Id
    BY <1>6, <1>d DEF Destroy
  <2>2. AbsTable' = [AbsTable EXCEPT ![call[t].id] = NoKey]
    <3>1. AbsTable' = [AbsTable EXCEPT ![call[t].id] = FreeSlot.pkey]
      BY <1>6, <1>a, <2>1, AbsChange DEF Destroy
    <3>. QED
      BY <3>1 DEF FreeSlot
  <2>3. AbsPhase' = [AbsPhase EXCEPT ![t] = "done"]
    BY <1>6, <1>a, AbsMove DEF Destroy
  <2>4. Promise!Serving(t, "destroy")
    BY <1>6, <1>c, SameVocabulary DEF Destroy, Within, Promise!Serving
  <2>5. Promise!DoDestroy(t)
    BY <1>6, <2>2, <2>3, <2>4, SameVocabulary DEF Destroy, Promise!DoDestroy, Promise!Serve
  <2>. QED
    BY <2>5 DEF Promise!TNext
<1>7. CASE Free(t)
  <2>1. AbsPhase' = [AbsPhase EXCEPT ![t] = "done"] /\ AbsPhase[t] = "done"
    BY <1>7, <1>a, <1>c, AbsMove DEF Free
  <2>2. AbsPhase' = AbsPhase
    BY <2>1 DEF AbsPhase
  <2>. QED
    BY <1>7, <1>b, <2>2 DEF Free
<1>8. CASE Return(t)
  <2>1. AbsPhase' = [AbsPhase EXCEPT ![t] = "idle"]
    BY <1>8, <1>a, AbsMove DEF Return
  <2>. QED
    BY <1>8, <1>b, <1>c, <2>1, SameVocabulary DEF Return, Promise!Return, Promise!TNext
<1>. QED
  BY <1>1, <1>2, <1>3, <1>4, <1>5, <1>6, <1>7, <1>8 DEF Step, Promise!TNext

\* ObjectsKeepPromise: the store of references, in which an object lives on outside the
\* lock while a thread works with it, implements the atomic table of KeyTable.
THEOREM Refinement == ASSUME OneSize PROVE Spec => ObjectsKeepPromise
<1>1. Init => Promise!TInit
  <2> SUFFICES ASSUME Init PROVE Promise!TInit
    OBVIOUS
  <2>1. AbsTable = [id \in Id |-> NoKey] /\ AbsPhase = [u \in Thread |-> "idle"]
    BY IndexFacts DEF Init, AbsTable, AbsPhase, FreeSlot
  <2>. QED
    BY <2>1, SameVocabulary DEF Init, Promise!TInit
<1>2. IInv /\ [Next]_vars => [Promise!TNext]_<<AbsTable, AbsPhase, call, res>>
  <2>1. CASE UNCHANGED vars
    BY <2>1 DEF vars, AbsTable, AbsPhase
  <2>2. CASE Next
    BY <2>2, StepSimulates DEF Next
  <2>. QED
    BY <2>1, <2>2
<1>. QED
  BY <1>1, <1>2, Invariance, PTL DEF Spec, ObjectsKeepPromise, Promise!TSpec, Promise!tvars
=============================================================================
