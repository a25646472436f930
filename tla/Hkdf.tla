-------------------------------- MODULE Hkdf --------------------------------
(***************************************************************************)
(* The derivation operation of the assembly providers: a small state       *)
(* machine that takes the algorithm, a salt, the id of a key and an info   *)
(* string in this order, and a loop that makes the output block by block   *)
(* with a counter of one byte.  The key behind the id is looked up when    *)
(* the output is asked for.  The backends call the loop alone.             *)
(***************************************************************************)
EXTENDS Integers, Sequences

CONSTANTS
  KeyId,         \* ids of the symmetric store
  Key,           \* keys
  NoKey,         \* no key under an id
  Text,          \* salts and info strings that fit their buffers
  Empty,         \* none, or one of length 0
  TooLong,       \* one that does not fit
  HashLen,       \* bytes of a block (hkdf_hash_len, 48)
  CounterRange,  \* values of the block counter (2^8)
  NoBlock        \* what comes before the first block

\* Deviation: as many blocks as the counter has values.
MaxOutputOver == CounterRange * HashLen

\* hkdf_max_output: the counter starts from 1.
MaxOutput == (CounterRange - 1) * HashLen

\* The counter has a value, and a block a byte.
HkdfAssumption == HashLen \in Nat \ {0} /\ CounterRange \in Nat \ {0}

Algs == {"Hkdf", "HkdfExpand"}
Inputs == Text \cup {Empty, TooLong}

VARIABLES
  store,  \* per id: the key
  op,     \* HkdfState
  loop,   \* the loop of hkdf_expand: its length, prk and info, written, counter and t
  out,    \* the blocks written, and how many bytes of each
  given   \* what the caller has passed since the setup, and got accepted

vars == <<store, op, loop, out, given>>

Zeroized == [alg |-> "None", phase |-> "Init", key_id |-> 0, salt |-> Empty, info |-> Empty]
Idle == [len |-> 0, prk |-> NoKey, info |-> Empty, written |-> 0, counter |-> 0, t |-> NoBlock]
Nothing == [alg |-> "None", key |-> NoKey, salt |-> Empty, info |-> Empty, len |-> 0]

Init ==
  /\ store = [id \in KeyId |-> NoKey]
  /\ op = Zeroized
  /\ loop = Idle
  /\ out = <<>>
  /\ given = Nothing

\* HMAC-SHA-384, whose results differ when a key or a part of the message does.
Hmac(key, prev, info, counter) == [key |-> key, prev |-> prev, info |-> info, counter |-> counter]
Extract(salt, key) == [salt |-> salt, ikm |-> key]

-----------------------------------------------------------------------------
(* The calls.  None comes while the loop runs; a refused one changes nothing. *)

Quiet == loop = Idle

\* Deviation: an operation that is set up again keeps its inputs.
SetupKeeps(alg) ==
  /\ Quiet
  /\ op' = [op EXCEPT !.alg = alg, !.phase = "Setup"]
  /\ given' = [Nothing EXCEPT !.alg = alg]
  /\ out' = <<>>
  /\ UNCHANGED <<store, loop>>

Setup(alg) ==
  /\ Quiet
  /\ op' = [Zeroized EXCEPT !.alg = alg, !.phase = "Setup"]
  /\ given' = [Nothing EXCEPT !.alg = alg]
  /\ out' = <<>>
  /\ UNCHANGED <<store, loop>>

\* The owner of the operation zeroizes it.
Abort ==
  /\ Quiet
  /\ op' = Zeroized
  /\ given' = Nothing
  /\ out' = <<>>
  /\ UNCHANGED <<store, loop>>

InputKey(id) ==
  /\ Quiet
  /\ op.phase = "Setup"
  /\ op' = [op EXCEPT !.key_id = id, !.phase = "KeySet"]
  /\ UNCHANGED <<store, loop, out, given>>

\* The salt may come again until the key does; the last one counts.
InputSalt(x) ==
  /\ Quiet
  /\ op.phase = "Setup"
  /\ x # TooLong
  /\ op' = [op EXCEPT !.salt = x]
  /\ given' = [given EXCEPT !.salt = x]
  /\ UNCHANGED <<store, loop, out>>

InputInfo(x) ==
  /\ Quiet
  /\ op.phase = "KeySet"
  /\ x # TooLong
  /\ op' = [op EXCEPT !.info = x, !.phase = "InfoSet"]
  /\ given' = [given EXCEPT !.info = x]
  /\ UNCHANGED <<store, loop, out>>

\* hkdf_output_bytes down to the loop.  An empty salt is HashLen zeros; the phase
\* stays, so that output may be asked for again.
Output(len) ==
  /\ Quiet
  /\ op.phase = "InfoSet"
  /\ len \in 1 .. MaxOutput
  /\ store[op.key_id] # NoKey
  /\ loop' = [Idle EXCEPT !.len = len, !.info = op.info, !.counter = 1,
                !.prk = IF op.alg = "HkdfExpand" THEN store[op.key_id]
                        ELSE Extract(op.salt, store[op.key_id])]
  /\ out' = <<>>
  /\ given' = [given EXCEPT !.len = len, !.key = store[op.key_id]]
  /\ UNCHANGED <<store, op>>

\* One turn of the loop of hkdf_expand.
ExpandBlock ==
  /\ ~Quiet
  /\ loop.written < loop.len
  /\ LET t == Hmac(loop.prk, IF loop.counter > 1 THEN loop.t ELSE NoBlock, loop.info, loop.counter)
         take == IF loop.len - loop.written < HashLen THEN loop.len - loop.written ELSE HashLen
     IN  /\ out' = Append(out, [block |-> t, bytes |-> take])
         /\ loop' = [loop EXCEPT !.t = t, !.written = @ + take, !.counter = (@ + 1) % CounterRange]
  /\ UNCHANGED <<store, op, given>>

ExpandEnds ==
  /\ ~Quiet
  /\ loop.written >= loop.len
  /\ loop' = Idle
  /\ UNCHANGED <<store, op, out, given>>

\* Another owner of the store puts a key under a free id or destroys one.
StoreChanges(id) ==
  /\ Quiet
  /\ \E k \in (IF store[id] = NoKey THEN Key ELSE {NoKey}) : store' = [store EXCEPT ![id] = k]
  /\ UNCHANGED <<op, loop, out, given>>

-----------------------------------------------------------------------------

Next ==
  \/ \E alg \in Algs : Setup(alg)
  \/ \E id \in KeyId : InputKey(id) \/ StoreChanges(id)
  \/ \E x \in Inputs : InputSalt(x) \/ InputInfo(x)
  \/ \E len \in 0 .. MaxOutput + 1 : Output(len)
  \/ Abort \/ ExpandBlock \/ ExpandEnds

Spec == Init /\ [][Next]_vars

-----------------------------------------------------------------------------
(* Property *)

\* RFC 5869: T(i) is the HMAC of T(i - 1), the info and i; the output is the first
\* len bytes of T(1), T(2), and so on.
Expanded(blocks, prk, info, len) ==
  LET n == Len(blocks) IN
  /\ \A i \in 1 .. n : blocks[i].block =
       Hmac(prk, IF i = 1 THEN NoBlock ELSE blocks[i - 1].block, info, i)
  /\ \A i \in 1 .. n - 1 : blocks[i].bytes = HashLen
  /\ blocks[n].bytes = len - (n - 1) * HashLen /\ blocks[n].bytes \in 1 .. HashLen

\* What the caller's inputs make the key of the expansion.
Prk == IF given.alg = "Hkdf" THEN Extract(given.salt, given.key) ELSE given.key

\* What is derived is HKDF, or its second half, of exactly the inputs accepted since
\* the operation was set up, at every length up to the longest: no salt or info of an
\* earlier derivation enters, and the counter does not come round.
DerivesAsGiven == Quiet /\ out # <<>> => Expanded(out, Prk, given.info, given.len)
=============================================================================
