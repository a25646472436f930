------------------------------ MODULE KeyStore ------------------------------
(***************************************************************************)
(* The slot store behind the integer key ids of a provider: a fixed array  *)
(* of slots, one mutex, and threads that import, copy out and destroy      *)
(* keys.  Every statement of a critical section that reads or writes a     *)
(* slot is a step of its own, so that it is the mutex, and not the model,  *)
(* that keeps a half written slot from being seen.  The length stands for  *)
(* every field written after the bytes (RSA: bits, kind; EC: curve, kind). *)
(***************************************************************************)
EXTENDS StoreInterface

VARIABLES
  mutex,  \* the thread that holds the store mutex, or Nobody
  slot,   \* per index: the bytes, the length (by the key it belongs to), in_use
  pc,     \* per thread: the next statement
  call,   \* per thread: the call it is in
  at,     \* per thread: the slot index its statements address
  res     \* per thread: what its last call answers

vars == <<mutex, slot, pc, call, at, res>>

Index == 1 .. Capacity
IdOf(i) == IdBase + i - 1
IndexOf(id) == id - IdBase + 1

FreeSlot == [data |-> NoKey, len |-> NoKey, in_use |-> FALSE]

Init ==
  /\ mutex = Nobody
  /\ slot = [i \in Index |-> FreeSlot]
  /\ pc = [t \in Thread |-> "idle"]
  /\ call = [t \in Thread |-> NoCall]
  /\ at = [t \in Thread |-> 1]
  /\ res = [t \in Thread |-> Code("none")]

-----------------------------------------------------------------------------
(* Step idioms. *)

Goto(t, from, to) == pc[t] = from /\ pc' = [pc EXCEPT ![t] = to]

Reply(t, a) == res' = [res EXCEPT ![t] = a]

SetSlot(t, s) == slot' = [slot EXCEPT ![at[t]] = s]

-----------------------------------------------------------------------------
(* The call and its checks before the lock is taken. *)

Call(t, c) ==
  /\ Goto(t, "idle", "enter")
  /\ call' = [call EXCEPT ![t] = c]
  /\ Reply(t, Code("none"))
  /\ UNCHANGED <<mutex, slot, at>>

Refuse(t) ==
  /\ ~Acceptable(call[t])
  /\ Goto(t, "enter", "idle")
  /\ Reply(t, Rejection(call[t]))
  /\ call' = [call EXCEPT ![t] = NoCall]
  /\ UNCHANGED <<mutex, slot, at>>

\* Deviation: the lock is not waited for.
LockUnguarded(t) ==
  /\ Acceptable(call[t])
  /\ mutex' = t
  /\ Goto(t, "enter", call[t].op)
  /\ at' = [at EXCEPT ![t] = IF call[t].op = "import" THEN 1 ELSE IndexOf(call[t].id)]
  /\ UNCHANGED <<slot, call, res>>

Lock(t) ==
  /\ Acceptable(call[t])
  /\ mutex = Nobody
  /\ mutex' = t
  /\ Goto(t, "enter", call[t].op)
  /\ at' = [at EXCEPT ![t] = IF call[t].op = "import" THEN 1 ELSE IndexOf(call[t].id)]
  /\ UNCHANGED <<slot, call, res>>

Unlock(t) ==
  /\ Goto(t, "unlock", "idle")
  /\ mutex' = Nobody
  /\ call' = [call EXCEPT ![t] = NoCall]
  /\ UNCHANGED <<slot, at, res>>

-----------------------------------------------------------------------------
(* Import: take the first free slot. *)

\* Deviation: the scan does not move on from a used slot.
ScanUsedStuck(t) ==
  /\ pc[t] = "import"
  /\ at[t] \in Index
  /\ slot[at[t]].in_use
  /\ UNCHANGED vars

ScanUsed(t) ==
  /\ pc[t] = "import"
  /\ at[t] \in Index
  /\ slot[at[t]].in_use
  /\ at' = [at EXCEPT ![t] = @ + 1]
  /\ UNCHANGED <<mutex, slot, pc, call, res>>

\* Deviation: the scan takes a slot that is in use.
WriteDataAnywhere(t) ==
  /\ at[t] \in Index
  /\ Goto(t, "import", "set_len")
  /\ SetSlot(t, [slot[at[t]] EXCEPT !.data = call[t].key])
  /\ UNCHANGED <<mutex, call, at, res>>

WriteData(t) ==
  /\ at[t] \in Index
  /\ ~slot[at[t]].in_use
  /\ Goto(t, "import", "set_len")
  /\ SetSlot(t, [slot[at[t]] EXCEPT !.data = call[t].key])
  /\ UNCHANGED <<mutex, call, at, res>>

WriteLen(t) ==
  /\ Goto(t, "set_len", "set_use")
  /\ SetSlot(t, [slot[at[t]] EXCEPT !.len = call[t].key])
  /\ UNCHANGED <<mutex, call, at, res>>

MarkUsed(t) ==
  /\ Goto(t, "set_use", "unlock")
  /\ SetSlot(t, [slot[at[t]] EXCEPT !.in_use = TRUE])
  /\ Reply(t, Answer("ok", IdOf(at[t]), NoKey, NoKey))
  /\ UNCHANGED <<mutex, call, at>>

\* Deviation: the last slot is never tried.
StoreFullEarly(t) ==
  /\ at[t] >= Capacity
  /\ Goto(t, "import", "unlock")
  /\ Reply(t, Code("zero_id"))
  /\ UNCHANGED <<mutex, slot, call, at>>

StoreFull(t) ==
  /\ at[t] > Capacity
  /\ Goto(t, "import", "unlock")
  /\ Reply(t, Code("zero_id"))
  /\ UNCHANGED <<mutex, slot, call, at>>

-----------------------------------------------------------------------------
(* Get: copy the slot out while the lock is held. *)

GetUnused(t) ==
  /\ Goto(t, "get", "unlock")
  /\ ~slot[at[t]].in_use
  /\ Reply(t, Code("InvalidArgument"))
  /\ UNCHANGED <<mutex, slot, call, at>>

\* Deviation: the lock is given back between the length and the bytes.
AllocateUnlocked(t) ==
  /\ Goto(t, "get", "copy_out")
  /\ slot[at[t]].in_use
  /\ Reply(t, Answer("none", 0, NoKey, slot[at[t]].len))
  /\ mutex' = Nobody
  /\ UNCHANGED <<slot, call, at>>

\* SecureBuffer copy{s.len}: the length is read here, the bytes after it.
Allocate(t) ==
  /\ Goto(t, "get", "copy_out")
  /\ slot[at[t]].in_use
  /\ Reply(t, Answer("none", 0, NoKey, slot[at[t]].len))
  /\ UNCHANGED <<mutex, slot, call, at>>

AllocationFails(t) ==
  /\ Goto(t, "get", "unlock")
  /\ slot[at[t]].in_use
  /\ Reply(t, Code("InternalError"))
  /\ UNCHANGED <<mutex, slot, call, at>>

CopyOut(t) ==
  /\ Goto(t, "copy_out", "unlock")
  /\ Reply(t, Answer("ok", 0, slot[at[t]].data, res[t].len))
  /\ UNCHANGED <<mutex, slot, call, at>>

-----------------------------------------------------------------------------
(* Destroy: scrub and free the slot, whether or not it is in use. *)

Scrub(t) ==
  /\ Goto(t, "destroy", "clear_len")
  /\ SetSlot(t, [slot[at[t]] EXCEPT !.data = NoKey])
  /\ UNCHANGED <<mutex, call, at, res>>

\* Deviation: destroy forgets the length.
ClearLenSkipped(t) ==
  /\ Goto(t, "clear_len", "clear_use")
  /\ UNCHANGED <<mutex, slot, call, at, res>>

ClearLen(t) ==
  /\ Goto(t, "clear_len", "clear_use")
  /\ SetSlot(t, [slot[at[t]] EXCEPT !.len = NoKey])
  /\ UNCHANGED <<mutex, call, at, res>>

ClearUse(t) ==
  /\ Goto(t, "clear_use", "unlock")
  /\ SetSlot(t, [slot[at[t]] EXCEPT !.in_use = FALSE])
  /\ Reply(t, Code("ok"))
  /\ UNCHANGED <<mutex, call, at>>

-----------------------------------------------------------------------------

Import(t) == ScanUsed(t) \/ WriteData(t) \/ WriteLen(t) \/ MarkUsed(t) \/ StoreFull(t)
Get(t) == GetUnused(t) \/ Allocate(t) \/ AllocationFails(t) \/ CopyOut(t)
Destroy(t) == Scrub(t) \/ ClearLen(t) \/ ClearUse(t)

\* What a thread does once it is inside a call.
Step(t) == Refuse(t) \/ Lock(t) \/ Import(t) \/ Get(t) \/ Destroy(t) \/ Unlock(t)

Next == \E t \in Thread : (\E c \in Calls : Call(t, c)) \/ Step(t)

Spec == Init /\ [][Next]_vars

(* Threads keep running inside a call.  The mutex itself is only weakly fair:
   std::mutex lets a thread that keeps coming back overtake a waiting one.  *)
FairSpec == Spec /\ \A t \in Thread : WF_vars(Step(t))

-----------------------------------------------------------------------------
(* Properties *)

PCs == {"idle", "enter", "import", "set_len", "set_use", "get", "copy_out",
        "destroy", "clear_len", "clear_use", "unlock"}
Critical == PCs \ {"idle", "enter"}

Slots == [data : Key \cup {NoKey}, len : Key \cup {NoKey}, in_use : BOOLEAN]
Answers == [code : {"none", "ok", "zero_id", "InvalidArgument", "InternalError"},
            id : {0} \cup Id, data : Key \cup {NoKey}, len : Key \cup {NoKey}]

\* Every variable has its type.
TypeOK ==
  /\ mutex \in Thread \cup {Nobody}
  /\ slot \in [Index -> Slots]
  /\ pc \in [Thread -> PCs]
  /\ call \in [Thread -> Calls \cup {NoCall}]
  /\ at \in [Thread -> 1 .. Capacity + 1]
  /\ res \in [Thread -> Answers]

Whole(i) ==
  /\ slot[i].len = slot[i].data
  /\ slot[i].in_use <=> slot[i].data \in Key

\* With the mutex free, a slot is either whole (the bytes and the length of one
\* key) or completely scrubbed: no step of another call is ever half visible.
SlotsWhole == mutex = Nobody => \A i \in Index : Whole(i)

\* A get that succeeds hands out the bytes and the length of one and the same
\* key, never the bytes of one import with the length of another.
CopyNotTorn ==
  \A t \in Thread :
    pc[t] = "unlock" /\ call[t].op = "get" /\ res[t].code = "ok"
      => res[t].data \in Key /\ res[t].len = res[t].data

\* Who holds the mutex, and what each statement of a critical section finds.
\* The inductive invariant behind SlotsWhole, CopyNotTorn and KeepsPromise: a
\* slot that is not whole is the one the holder of the mutex is working on.
Holds(t, d, l, u) ==
  slot[at[t]].data = d /\ slot[at[t]].len = l /\ slot[at[t]].in_use = u

HolderFinds(t) ==
  /\ pc[t] = "set_len" => Holds(t, call[t].key, NoKey, FALSE)
  /\ pc[t] = "set_use" => Holds(t, call[t].key, call[t].key, FALSE)
  /\ pc[t] = "copy_out" => /\ slot[at[t]].in_use
                           /\ res[t] = Answer("none", 0, NoKey, slot[at[t]].len)
  /\ pc[t] \in {"clear_len", "clear_use"} => slot[at[t]].data = NoKey
  /\ pc[t] = "clear_use" => slot[at[t]].len = NoKey

OpOf(p) ==
  CASE p \in {"import", "set_len", "set_use"} -> {"import"}
    [] p \in {"get", "copy_out"} -> {"get"}
    [] p \in {"destroy", "clear_len", "clear_use"} -> {"destroy"}
    [] p = "idle" -> {"none"}
    [] OTHER -> {"import", "get", "destroy"}

ThreadInv(t) ==
  /\ pc[t] \in Critical <=> mutex = t
  /\ call[t].op \in OpOf(pc[t])
  /\ pc[t] = "idle" => call[t] = NoCall
  /\ pc[t] \notin {"idle", "copy_out", "unlock"} => res[t] = Code("none")
  /\ pc[t] \in Critical => Acceptable(call[t])
  /\ pc[t] \in Critical /\ call[t].op # "import" => at[t] = IndexOf(call[t].id)
  /\ pc[t] \in {"set_len", "set_use"} => at[t] \in Index
  /\ pc[t] = "import" => \A i \in Index : i < at[t] => slot[i].in_use
  /\ HolderFinds(t)

Dirty(i) == \E t \in Thread :
  mutex = t /\ at[t] = i /\ pc[t] \in {"set_len", "set_use", "clear_len", "clear_use"}

IInv ==
  /\ TypeOK
  /\ \A t \in Thread : ThreadInv(t)
  /\ \A i \in Index : Dirty(i) \/ Whole(i)
  /\ CopyNotTorn

\* A slot in use is left alone until a thread destroys its id: no import, and no
\* destroy of another id, ever touches it.
OnlyDestroyTouches ==
  [][\A i \in Index : slot[i].in_use /\ slot[i].data \in Key =>
       \/ slot'[i] = slot[i]
       \/ \E t \in Thread : mutex = t /\ call[t] = DestroyCall(IdOf(i))]_vars

\* The abstract view of the store: a key is in the table from the step that marks
\* its slot used until the step that scrubs its bytes.
AbsTable == [id \in Id |-> IF slot[IndexOf(id)].in_use THEN slot[IndexOf(id)].data ELSE NoKey]
AbsPhase == [t \in Thread |->
               CASE pc[t] = "idle" -> "idle"
                 [] pc[t] \in {"clear_len", "clear_use", "unlock"} -> "done"
                 [] OTHER -> "called"]
AbsRes == [t \in Thread |->
             CASE pc[t] = "copy_out" -> Code("none")
               [] pc[t] \in {"clear_len", "clear_use"} -> Code("ok")
               [] OTHER -> res[t]]

Promise == INSTANCE KeyTable WITH table <- AbsTable, phase <- AbsPhase, res <- AbsRes

\* The store keeps the promise of KeyTable: every call takes effect at one
\* instant between its start and its return.
KeepsPromise == Promise!TSpec

\* The mutex never stays with a thread for good: a call that got the lock
\* finishes and gives it back.
LockReleased == \A t \in Thread : (mutex = t) ~> (mutex # t)
=============================================================================
