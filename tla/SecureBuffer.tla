---------------------------- MODULE SecureBuffer ----------------------------
(***************************************************************************)
(* SecureBuffer, a vector whose bytes are zeroed before their memory is    *)
(* given back, and FixedSecureBuffer, an array inside its object.  A block *)
(* of the heap is a row of bytes, each zero or a byte of some secret; an   *)
(* array is small enough to be all zero or all one secret.  Growing is not *)
(* an action: resize has the precondition that it does not.                *)
(***************************************************************************)
EXTENDS Integers, FiniteSets

CONSTANTS
  Buffer,   \* the SecureBuffer objects
  Fixed,    \* the FixedSecureBuffer objects
  Block,    \* blocks of the heap
  Secret,   \* what is written into buffers
  Zero,     \* a zero byte
  NoBlock,  \* the storage of an empty vector
  MaxSize   \* bound on the size of a buffer

\* What the constants have to be.
BufferAssumption ==
  /\ MaxSize \in Nat
  /\ NoBlock \notin Block
  /\ Zero \notin Secret

VARIABLES
  memory,  \* per block: whether it is allocated, and its bytes
  vec,     \* per SecureBuffer: whether it exists, its vector's storage and size
  array    \* per FixedSecureBuffer: whether it exists, and what its bytes are

vars == <<memory, vec, array>>

Gone == [exists |-> FALSE, block |-> NoBlock, size |-> 0]
EmptyVector == [exists |-> TRUE, block |-> NoBlock, size |-> 0]

Init ==
  /\ memory = [m \in Block |-> [live |-> FALSE, bytes |-> [p \in 1 .. MaxSize |-> Zero]]]
  /\ vec = [b \in Buffer |-> Gone]
  /\ array = [f \in Fixed |-> [exists |-> FALSE, bytes |-> Zero]]

-----------------------------------------------------------------------------

\* detail::secure_zero of the bytes from .. size of a vector.
SecureZero(mem, m, from, size) ==
  IF m = NoBlock THEN mem
  ELSE [mem EXCEPT ![m].bytes = [p \in 1 .. MaxSize |-> IF p \in from .. size THEN Zero ELSE @[p]]]

\* What std::vector does with its storage when it dies or takes another's.
GiveBack(mem, m) == IF m = NoBlock THEN mem ELSE [mem EXCEPT ![m].live = FALSE]

\* A vector of n zeros.
Construct(b, n) ==
  /\ ~vec[b].exists
  /\ \/ n = 0 /\ vec' = [vec EXCEPT ![b] = EmptyVector] /\ UNCHANGED memory
     \/ \E m \in Block :
          /\ n > 0
          /\ ~memory[m].live
          /\ vec' = [vec EXCEPT ![b] = [exists |-> TRUE, block |-> m, size |-> n]]
          /\ memory' = SecureZero([memory EXCEPT ![m].live = TRUE], m, 1, n)
  /\ UNCHANGED array

MoveConstruct(b, other) ==
  /\ ~vec[b].exists
  /\ vec[other].exists
  /\ vec' = [vec EXCEPT ![b] = vec[other], ![other] = EmptyVector]
  /\ UNCHANGED <<memory, array>>

\* operator=; onto itself it does nothing.
MoveAssign(b, other) ==
  /\ b # other
  /\ vec[b].exists /\ vec[other].exists
  /\ memory' = GiveBack(SecureZero(memory, vec[b].block, 1, vec[b].size), vec[b].block)
  /\ vec' = [vec EXCEPT ![b] = vec[other], ![other] = EmptyVector]
  /\ UNCHANGED array

\* Deviation: the bytes cut off are only forgotten.
ResizeForgets(b, n) ==
  /\ vec[b].exists
  /\ n <= vec[b].size
  /\ vec' = [vec EXCEPT ![b].size = n]
  /\ UNCHANGED <<memory, array>>

\* The vector keeps its storage when it shrinks.
Resize(b, n) ==
  /\ vec[b].exists
  /\ n <= vec[b].size
  /\ memory' = SecureZero(memory, vec[b].block, n + 1, vec[b].size)
  /\ vec' = [vec EXCEPT ![b].size = n]
  /\ UNCHANGED array

Destruct(b) ==
  /\ vec[b].exists
  /\ memory' = GiveBack(SecureZero(memory, vec[b].block, 1, vec[b].size), vec[b].block)
  /\ vec' = [vec EXCEPT ![b] = Gone]
  /\ UNCHANGED array

-----------------------------------------------------------------------------

FixedConstruct(f) ==
  /\ ~array[f].exists
  /\ array' = [array EXCEPT ![f] = [exists |-> TRUE, bytes |-> Zero]]
  /\ UNCHANGED <<memory, vec>>

\* An array is copied and its source zeroed.
FixedMove(f, other) ==
  [array EXCEPT ![f] = [exists |-> TRUE, bytes |-> array[other].bytes], ![other].bytes = Zero]

FixedMoveConstruct(f, other) ==
  /\ ~array[f].exists
  /\ array[other].exists
  /\ array' = FixedMove(f, other)
  /\ UNCHANGED <<memory, vec>>

FixedMoveAssign(f, other) ==
  /\ f # other
  /\ array[f].exists /\ array[other].exists
  /\ array' = FixedMove(f, other)
  /\ UNCHANGED <<memory, vec>>

FixedDestruct(f) ==
  /\ array[f].exists
  /\ array' = [array EXCEPT ![f] = [exists |-> FALSE, bytes |-> Zero]]
  /\ UNCHANGED <<memory, vec>>

-----------------------------------------------------------------------------
(* The owner of a buffer writes a secret that is in no other memory. *)

BytesOf(s) ==
  {place \in Block \X (1 .. MaxSize) : memory[place[1]].bytes[place[2]] = s}
ArraysOf(s) == {f \in Fixed : array[f].bytes = s}
New(s) == BytesOf(s) = {} /\ ArraysOf(s) = {}

Fill(b, s) ==
  /\ vec[b].exists /\ vec[b].block # NoBlock
  /\ New(s)
  /\ memory' = [memory EXCEPT ![vec[b].block].bytes =
                  [p \in 1 .. MaxSize |-> IF p <= vec[b].size THEN s ELSE @[p]]]
  /\ UNCHANGED <<vec, array>>

FixedFill(f, s) ==
  /\ array[f].exists
  /\ New(s)
  /\ array' = [array EXCEPT ![f].bytes = s]
  /\ UNCHANGED <<memory, vec>>

Next ==
  \/ \E b \in Buffer :
       \/ \E n \in 0 .. MaxSize : Construct(b, n) \/ Resize(b, n)
       \/ \E other \in Buffer : MoveConstruct(b, other) \/ MoveAssign(b, other)
       \/ Destruct(b)
       \/ \E s \in Secret : Fill(b, s)
  \/ \E f \in Fixed :
       \/ FixedConstruct(f) \/ FixedDestruct(f)
       \/ \E other \in Fixed : FixedMoveConstruct(f, other) \/ FixedMoveAssign(f, other)
       \/ \E s \in Secret : FixedFill(f, s)

Spec == Init /\ [][Next]_vars

-----------------------------------------------------------------------------
(* Properties *)

Place == 1 .. MaxSize
Byte == Secret \cup {Zero}

\* Every variable has its type.
TypeOK ==
  /\ memory \in [Block -> [live : BOOLEAN, bytes : [Place -> Byte]]]
  /\ vec \in [Buffer -> [exists : BOOLEAN, block : Block \cup {NoBlock}, size : 0 .. MaxSize]]
  /\ array \in [Fixed -> [exists : BOOLEAN, bytes : Byte]]

\* A secret is in the bytes of one buffer, which exists, and nowhere else: not beyond
\* the end of one that shrank, not in storage that was given back, not in an object
\* that was moved from or has died, by whatever moves, sizes and assignments it went.
SecretsHeld ==
  \A s \in Secret :
    /\ \A place \in BytesOf(s) : \E b \in Buffer :
         vec[b].exists /\ vec[b].block = place[1] /\ place[2] <= vec[b].size
    /\ \A f \in ArraysOf(s) : array[f].exists
    /\ Cardinality({place[1] : place \in BytesOf(s)}) + Cardinality(ArraysOf(s)) <= 1
=============================================================================
