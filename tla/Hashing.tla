------------------------------ MODULE Hashing ------------------------------
(***************************************************************************)
(* The streaming hash contexts of the assembly providers, the one-shot     *)
(* functions beside them, HMAC over them, and the Keccak contexts that     *)
(* liboqs is given instead of its own.  A byte is the set of the symbols   *)
(* that were XORed into it.  Compressing a block is remembering it: what   *)
(* comes out of a state is a byte of the list of blocks that went in.      *)
(* How the words of one block get to their rounds is at the end.           *)
(***************************************************************************)
EXTENDS Integers, Sequences, FiniteSets

CONSTANTS
  Local,       \* the context on the stack of a caller
  Oqs,         \* the contexts on the heap that liboqs holds
  Null,        \* no context
  Block,       \* words of a block of the SHA-2 functions; a word is a byte here
  Rate,        \* bytes of a block of the SHA-3 functions
  MaxFed,      \* bound on the bytes of a message
  MaxSqueezed, \* bound on the bytes of an output without end
  MaxSession   \* bound on the messages of a behaviour

VARIABLES
  function, \* what this behaviour computes, "liboqs" for all that liboqs does
  ctx,      \* the contexts
  fed,      \* per context: the message since it was set up
  got,      \* per context: what came out for it
  session   \* how many messages there have been

vars == <<function, ctx, fed, got, session>>

\* Per function: words of the length field, and words of the digest.
Sha2 == [sha256 |-> [length |-> 1, digest |-> 2], sha384 |-> [length |-> 2, digest |-> 1],
         sha512 |-> [length |-> 2, digest |-> 2]]
Sha3Digest == 2

\* A block has a byte besides the marker and the longest length field, a block of SHA-3 is no
\* shorter than a digest, and liboqs does not hold the context of a caller.
ASSUME HashShape ==
  /\ Block \in Nat /\ Block >= 3 /\ Rate \in Nat /\ Rate >= Sha3Digest
  /\ MaxFed \in Nat /\ MaxSqueezed \in Nat
  /\ Local \notin Oqs

Xor(a, b) == (a \ b) \cup (b \ a)
Zeros(n) == [i \in 1 .. n |-> {}]
Marker == {<<"marker">>}
LengthOf(n) == {<<"length", n>>}
DomainOf(alg) == {<<"domain", alg>>}
Last == {<<"last">>}

\* Byte i of the state of a function after its blocks.
OutputByte(alg, blocks, i) == {<<"out", alg, blocks, i>>}
Digest(alg, blocks, n) == [i \in 1 .. n |-> OutputByte(alg, blocks, i)]

\* memcpy of data to the place after the first "at" bytes.
Copy(buf, at, data) ==
  [i \in 1 .. Len(buf) |-> IF i \in at + 1 .. at + Len(data) THEN data[i - at] ELSE buf[i]]

\* The n bytes behind the first "from" bytes, where a pointer into the data is.
Slice(data, from, n) == [i \in 1 .. n |-> data[from + i]]

Blocks(bytes, n) == [b \in 1 .. Len(bytes) \div n |-> Slice(bytes, (b - 1) * n, n)]

\* A state is the blocks that went into it, in their order.
Compressed(past, block) == Append(past, block)

\* A loop with n turns; what it does when it has ended is nothing.
Loop(Turn(_), start, n) ==
  LET after[k \in Nat] == IF k = 0 THEN start ELSE Turn(after[k - 1]) IN after[n]

\* How much of the data goes into the space there is.
Taken(data, done, space) == IF Len(data) - done < space THEN Len(data) - done ELSE space

-----------------------------------------------------------------------------
(* Sha256Ctx and Sha512Ctx. *)

Sha2New == [alg |-> "sha256", past |-> <<>>, buf |-> Zeros(Block), used |-> 0, total |-> 0]

\* init leaves the bytes of the buffer as they are.
Sha2Init(c, alg) == [c EXCEPT !.alg = alg, !.past = <<>>, !.used = 0, !.total = 0]

Sha2Take(c, data, done) ==
  LET take == Taken(data, done, Block - c.used)
      buf == Copy(c.buf, c.used, Slice(data, done, take))
  IN  IF take = Block - c.used
      THEN [ctx |-> [c EXCEPT !.buf = buf, !.past = Compressed(@, buf), !.used = 0], done |-> done + take]
      ELSE [ctx |-> [c EXCEPT !.buf = buf, !.used = @ + take], done |-> done + take]

Sha2Update(c, data) ==
  LET Turn(t) == IF t.done = Len(data) THEN t ELSE Sha2Take(t.ctx, data, t.done)
  IN  Loop(Turn, [ctx |-> [c EXCEPT !.total = @ + Len(data)], done |-> 0], Len(data)).ctx

\* One block when the length fits behind the marker, two otherwise.
Sha2Finish(c) ==
  LET pad == Copy(Copy(Zeros(2 * Block), 0, Slice(c.buf, 0, c.used)), c.used, <<Marker>>)
      end == IF c.used < Block - Sha2[c.alg].length THEN Block ELSE 2 * Block
      whole == Copy(pad, end - 1, <<LengthOf(c.total)>>)
  IN  [c EXCEPT !.past = @ \o Blocks(Slice(whole, 0, end), Block)]

Sha2Digest(c) == Digest(c.alg, c.past, Sha2[c.alg].digest)

\* sha256, sha384 and sha512 of a message that is there as a whole.
OneShot(alg, msg) ==
  LET blocks == Len(msg) \div Block
      tail == Len(msg) % Block
      pad == Copy(Copy(Zeros(2 * Block), 0, Slice(msg, blocks * Block, tail)), tail, <<Marker>>)
      end == IF tail < Block - Sha2[alg].length THEN Block ELSE 2 * Block
      whole == Copy(pad, end - 1, <<LengthOf(Len(msg))>>)
  IN  Digest(alg, Blocks(msg, Block) \o Blocks(Slice(whole, 0, end), Block), Sha2[alg].digest)

-----------------------------------------------------------------------------
(* Sha3Ctx. *)

Sha3New == [past |-> <<>>, buf |-> Zeros(Rate), used |-> 0]

Sha3Init(c) == Sha3New

AbsorbBlock(c) == [c EXCEPT !.past = Compressed(@, c.buf), !.buf = Zeros(Rate)]

Sha3Take(c, data, done) ==
  LET take == Taken(data, done, Rate - c.used)
      filled == [c EXCEPT !.buf = Copy(@, c.used, Slice(data, done, take)), !.used = @ + take]
  IN  [ctx |-> IF filled.used = Rate THEN [AbsorbBlock(filled) EXCEPT !.used = 0] ELSE filled,
       done |-> done + take]

Sha3Update(c, data) ==
  LET Turn(t) == IF t.done = Len(data) THEN t ELSE Sha3Take(t.ctx, data, t.done)
  IN  Loop(Turn, [ctx |-> c, done |-> 0], Len(data)).ctx

\* The bytes behind the message are cleared, and the two marks may meet in one byte.
Sha3Finish(c) ==
  LET cleared == Copy(c.buf, c.used, Zeros(Rate - c.used))
      marked == [cleared EXCEPT ![c.used + 1] = DomainOf("sha3")]
  IN  AbsorbBlock([c EXCEPT !.buf = [marked EXCEPT ![Rate] = Xor(@, Last)]])

-----------------------------------------------------------------------------
(* HMAC, which uses one context twice. *)

\* The key as it is if it fits the block, its hash otherwise, and zeros.
HmacSha256(c, key, msg) ==
  LET kprime == Copy(Zeros(Block), 0, IF Len(key) > Block THEN OneShot("sha256", key) ELSE key)
      ikey == [i \in 1 .. Block |-> Xor(kprime[i], {<<"ipad">>})]
      okey == [i \in 1 .. Block |-> Xor(kprime[i], {<<"opad">>})]
      inner == Sha2Finish(Sha2Update(Sha2Update(Sha2Init(c, "sha256"), ikey), msg))
  IN  Sha2Digest(Sha2Finish(Sha2Update(Sha2Update(Sha2Init(inner, "sha256"), okey), Sha2Digest(inner))))

\* hmac_sha512_impl, for SHA-384 with its own start and a shorter digest.
HmacSha512(alg, c, key, msg) ==
  LET hashed == Sha2Digest(Sha2Finish(Sha2Update(Sha2Init(Sha2New, alg), key)))
      kprime == Copy(Zeros(Block), 0, IF Len(key) > Block THEN hashed ELSE key)
      ikey == [i \in 1 .. Block |-> Xor(kprime[i], {<<"ipad">>})]
      okey == [i \in 1 .. Block |-> Xor(kprime[i], {<<"opad">>})]
      inner == Sha2Finish(Sha2Update(Sha2Update(Sha2Init(c, alg), ikey), msg))
  IN  Sha2Digest(Sha2Finish(Sha2Update(Sha2Update(Sha2Init(inner, alg), okey), Sha2Digest(inner))))

HmacSha3(c, key, msg) ==
  LET Result(d) == Digest("sha3", d.past, Sha3Digest)
      hashed == Result(Sha3Finish(Sha3Update(Sha3New, key)))
      kprime == Copy(Zeros(Rate), 0, IF Len(key) > Rate THEN hashed ELSE key)
      ikey == [i \in 1 .. Rate |-> Xor(kprime[i], {<<"ipad">>})]
      okey == [i \in 1 .. Rate |-> Xor(kprime[i], {<<"opad">>})]
      inner == Sha3Finish(Sha3Update(Sha3Update(Sha3Init(c), ikey), msg))
  IN  Result(Sha3Finish(Sha3Update(Sha3Update(Sha3Init(inner), okey), Result(inner))))

-----------------------------------------------------------------------------
(* ArmSha3Ctx: input is XORed into the state in place, output comes out of a   *)
(* copy of its first bytes.                                                    *)

OqsNew(alg) == [alg |-> alg, past |-> <<>>, state |-> Zeros(Rate), pos |-> 0,
                sq_buf |-> Zeros(Rate), sq_pos |-> 0, squeezing |-> FALSE]

Keccak(c) == [c EXCEPT !.past = Compressed(@, c.state), !.state = Zeros(Rate)]

\* Deviation: the position stays where the last message ended.
ResetBytes(c) == [c EXCEPT !.past = <<>>, !.state = Zeros(Rate), !.sq_pos = 0, !.squeezing = FALSE]

Reset(c) == [ResetBytes(c) EXCEPT !.pos = 0]

XorIn(c, data, done) ==
  LET take == Taken(data, done, Rate - c.pos)
      sum == [i \in 1 .. take |-> Xor(c.state[c.pos + i], data[done + i])]
      xored == [c EXCEPT !.state = Copy(@, c.pos, sum), !.pos = @ + take]
  IN  [ctx |-> IF xored.pos = Rate THEN [Keccak(xored) EXCEPT !.pos = 0] ELSE xored,
       done |-> done + take]

Absorb(c, data) ==
  LET Turn(t) == IF t.done = Len(data) THEN t ELSE XorIn(t.ctx, data, t.done)
  IN  Loop(Turn, [ctx |-> c, done |-> 0], Len(data)).ctx

Permuted(c) == Digest("keccak", c.past, Rate)

Finalize(c) ==
  LET marked == [c.state EXCEPT ![c.pos + 1] = Xor(@, DomainOf(c.alg))]
      permuted == Keccak([c EXCEPT !.state = [marked EXCEPT ![Rate] = Xor(@, Last)]])
  IN  [permuted EXCEPT !.pos = 0, !.sq_pos = 0, !.squeezing = TRUE, !.sq_buf = Permuted(permuted)]

\* Deviation: the copy is used up, and used again.
Refilled(c) == [c EXCEPT !.sq_pos = 0]

Refill(c) == LET permuted == Keccak(c) IN [permuted EXCEPT !.sq_buf = Permuted(permuted), !.sq_pos = 0]

CopyOut(c, len, out) ==
  LET from == IF c.sq_pos = Rate THEN Refill(c) ELSE c
      avail == Rate - from.sq_pos
      take == IF len - Len(out) < avail THEN len - Len(out) ELSE avail
  IN  [ctx |-> [from EXCEPT !.sq_pos = @ + take], out |-> out \o Slice(from.sq_buf, from.sq_pos, take)]

\* The context after len more bytes, and the bytes.
Squeeze(c, len) ==
  LET Turn(t) == IF Len(t.out) = len THEN t ELSE CopyOut(t.ctx, len, t.out)
  IN  Loop(Turn, [ctx |-> c, out |-> <<>>], len)

-----------------------------------------------------------------------------
(* A caller's context: set up, fed in parts, finished, and set up again. *)

Init ==
  /\ function \in DOMAIN Sha2 \cup {"sha3", "liboqs"}
  /\ ctx = [x \in {Local} \cup Oqs |->
              IF x \in Oqs THEN Null ELSE IF function = "sha3" THEN Sha3New ELSE Sha2New]
  /\ fed = [x \in {Local} \cup Oqs |-> <<>>]
  /\ got = [x \in {Local} \cup Oqs |-> <<>>]
  /\ session = 0

NewMessage(x) ==
  /\ session < MaxSession
  /\ session' = session + 1
  /\ fed' = [fed EXCEPT ![x] = <<>>]
  /\ got' = [got EXCEPT ![x] = <<>>]

\* The next n bytes of a message; those of another one differ.
NextBytes(x, n) == [i \in 1 .. n |-> {<<"byte", session, Len(fed[x]) + i>>}]

Fed(x, n) ==
  /\ n <= MaxFed - Len(fed[x])
  /\ fed' = [fed EXCEPT ![x] = @ \o NextBytes(x, n)]
  /\ UNCHANGED <<got, session>>

Start ==
  /\ function # "liboqs"
  /\ NewMessage(Local)
  /\ ctx' = [ctx EXCEPT ![Local] = IF function = "sha3" THEN Sha3Init(@) ELSE Sha2Init(@, function)]

Update(n) ==
  /\ function # "liboqs"
  /\ session > 0 /\ got[Local] = <<>>
  /\ Fed(Local, n)
  /\ ctx' = [ctx EXCEPT ![Local] = IF function = "sha3" THEN Sha3Update(@, NextBytes(Local, n))
                                    ELSE Sha2Update(@, NextBytes(Local, n))]

Finish ==
  /\ function # "liboqs"
  /\ session > 0 /\ got[Local] = <<>>
  /\ ctx' = [ctx EXCEPT ![Local] = IF function = "sha3" THEN Sha3Finish(@) ELSE Sha2Finish(@)]
  /\ got' = [got EXCEPT ![Local] = IF function = "sha3" THEN Digest("sha3", ctx'[Local].past, Sha3Digest)
                                    ELSE Sha2Digest(ctx'[Local])]
  /\ UNCHANGED <<fed, session>>

-----------------------------------------------------------------------------
(* The callbacks.  One context is set up for one function; an allocation that  *)
(* fails leaves no context, which no call that follows can do anything with.   *)

inc_init(x, alg) ==
  /\ ctx[x] = Null
  /\ NewMessage(x)
  /\ ctx' = [ctx EXCEPT ![x] = OqsNew(alg)]

inc_absorb(x, n) ==
  /\ ctx[x] # Null /\ ~ctx[x].squeezing
  /\ Fed(x, n)
  /\ ctx' = [ctx EXCEPT ![x] = Absorb(@, NextBytes(x, n))]

\* Of the SHA-3 functions: the digest, at once.
inc_finish(x) ==
  /\ ctx[x] # Null /\ ~ctx[x].squeezing /\ ctx[x].alg = "sha3"
  /\ ctx' = [ctx EXCEPT ![x] = Finalize(@)]
  /\ got' = [got EXCEPT ![x] = Slice(ctx'[x].sq_buf, 0, Sha3Digest)]
  /\ UNCHANGED <<fed, session>>

\* Of the SHAKE functions: the end of the input.
inc_finalize(x) ==
  /\ ctx[x] # Null /\ ~ctx[x].squeezing /\ ctx[x].alg = "shake"
  /\ ctx' = [ctx EXCEPT ![x] = Finalize(@)]
  /\ UNCHANGED <<fed, got, session>>

inc_squeeze(x, n) ==
  /\ ctx[x] # Null /\ ctx[x].squeezing /\ ctx[x].alg = "shake"
  /\ n <= MaxSqueezed - Len(got[x])
  /\ LET squeezed == Squeeze(ctx[x], n)
     IN  /\ ctx' = [ctx EXCEPT ![x] = squeezed.ctx]
         /\ got' = [got EXCEPT ![x] = @ \o squeezed.out]
  /\ UNCHANGED <<fed, session>>

inc_ctx_reset(x) ==
  /\ ctx[x] # Null
  /\ NewMessage(x)
  /\ ctx' = [ctx EXCEPT ![x] = Reset(@)]

\* Both exist, and are of one function.
inc_ctx_clone(dst, src) ==
  /\ ctx[src] # Null /\ ctx[dst] # Null
  /\ ctx[src].alg = ctx[dst].alg
  /\ ctx' = [ctx EXCEPT ![dst] = ctx[src]]
  /\ fed' = [fed EXCEPT ![dst] = fed[src]]
  /\ got' = [got EXCEPT ![dst] = got[src]]
  /\ UNCHANGED session

inc_ctx_release(x) ==
  /\ ctx[x] # Null
  /\ ctx' = [ctx EXCEPT ![x] = Null]
  /\ fed' = [fed EXCEPT ![x] = <<>>]
  /\ got' = [got EXCEPT ![x] = <<>>]
  /\ UNCHANGED session

Callback(x) ==
  \/ \E alg \in {"sha3", "shake"} : inc_init(x, alg)
  \/ \E n \in 0 .. MaxFed : inc_absorb(x, n)
  \/ inc_finish(x)
  \/ inc_finalize(x)
  \/ \E n \in 0 .. MaxSqueezed : inc_squeeze(x, n)
  \/ inc_ctx_reset(x)
  \/ \E src \in Oqs : inc_ctx_clone(x, src)
  \/ inc_ctx_release(x)

Next ==
  /\ UNCHANGED function
  /\ \/ Start
     \/ \E n \in 0 .. MaxFed : Update(n)
     \/ Finish
     \/ function = "liboqs" /\ \E x \in Oqs : Callback(x)

Spec == Init /\ [][Next]_vars

-----------------------------------------------------------------------------
(* How the words of a block get to their rounds.  A word of the schedule is    *)
(* its number t, one without its last two terms is -t.                         *)

Wrong == 1000
Half(w, s0) == IF w >= 0 /\ s0 = w + 1 THEN -(w + 16) ELSE Wrong
Whole(half, w7, s1) == IF half < 0 /\ w7 = -half - 7 /\ s1 = -half - 2 THEN -half ELSE Wrong

\* The two steps of the schedule, in the instructions of both processors.
su0(x, y) == <<Half(x[1], x[2]), Half(x[2], x[3]), Half(x[3], x[4]), Half(x[4], y[1])>>
su1(x, y, z) ==
  LET first == Whole(x[1], y[2], z[3])
      second == Whole(x[2], y[3], z[4])
  IN  <<first, second, Whole(x[3], y[4], first), Whole(x[4], z[1], second)>>

Loaded == << <<0, 1, 2, 3>>, <<4, 5, 6, 7>>, <<8, 9, 10, 11>>, <<12, 13, 14, 15>> >>
Register(g) == (g % 4) + 1

\* Deviation: the last register is left without its second step.
ArmGroupShort(w, g) ==
  LET a == [w EXCEPT ![Register(g)] = IF g < 12 THEN su0(@, w[Register(g + 1)]) ELSE @]
  IN  [a EXCEPT ![Register(g + 3)] =
         IF g \in 1 .. 11 THEN su1(@, a[Register(g + 1)], a[Register(g + 2)]) ELSE @]

\* Group g of sha256_compress: the first step of the schedule for its own register, the
\* second one for the register of the group before, in the groups that have them.
ArmGroup(w, g) ==
  LET a == [w EXCEPT ![Register(g)] = IF g < 12 THEN su0(@, w[Register(g + 1)]) ELSE @]
  IN  [a EXCEPT ![Register(g + 3)] =
         IF g \in 1 .. 12 THEN su1(@, a[Register(g + 1)], a[Register(g + 2)]) ELSE @]

\* The registers before each group, and what its rounds get.
ArmRounds ==
  LET w[g \in 0 .. 15] == IF g = 0 THEN Loaded ELSE ArmGroup(w[g - 1], g - 1)
  IN  [t \in 0 .. 63 |-> w[t \div 4][Register(t \div 4)][(t % 4) + 1]]

\* The same with the instructions for Intel, where the first step of a register comes
\* right behind its rounds.
Msg2(w, g) ==
  [w EXCEPT ![Register(g)] = IF g >= 4 THEN su1(@, w[Register(g + 2)], w[Register(g + 3)]) ELSE @]
Msg1(w, g) == [w EXCEPT ![Register(g)] = IF g < 12 THEN su0(@, w[Register(g + 1)]) ELSE @]
ShaNiRounds ==
  LET w[g \in 0 .. 15] == IF g = 0 THEN Loaded ELSE Msg2(Msg1(w[g - 1], g - 1), g)
  IN  [t \in 0 .. 63 |-> w[t \div 4][Register(t \div 4)][(t % 4) + 1]]

\* sha512_compress: two rounds at a time, with the words of eight registers.
Loaded512 == << <<0, 1>>, <<2, 3>>, <<4, 5>>, <<6, 7>>, <<8, 9>>, <<10, 11>>, <<12, 13>>, <<14, 15>> >>
Pair(p) == (p % 8) + 1

Schedule512(s, p) ==
  LET x == s[Pair(p)]
      y == s[Pair(p + 1)]
      w2 == s[Pair(p + 7)]
  IN  [s EXCEPT ![Pair(p)] = <<Whole(Half(x[1], x[2]), s[Pair(p + 4)][2], w2[1]),
                               Whole(Half(x[2], y[1]), s[Pair(p + 5)][1], w2[2])>>]

Words512 ==
  LET s[p \in 0 .. 39] == IF p < 8 THEN Loaded512 ELSE Schedule512(s[p - 1], p)
  IN  [t \in 0 .. 79 |-> s[t \div 2][Pair(t \div 2)][(t % 2) + 1]]

\* A working variable is <<"a", k>> or <<"e", k>>, made by round k, or the sum <<"t1", k>>
\* of round k; the four registers hold a b, c d, e f and g h.
Sum512(e, f, g, h, d) ==
  LET k == e[2] + 1
  IN  IF <<f, g, h, d>> = << <<"e", k - 2>>, <<"e", k - 3>>, <<"e", k - 4>>, <<"a", k - 4>> >>
      THEN <<"t1", k>> ELSE <<"wrong", Wrong>>
Plus512(d, t1) ==
  IF t1[1] = "t1" /\ d = <<"a", t1[2] - 4>> THEN <<"e", t1[2]>> ELSE <<"wrong", Wrong>>
Top512(t1, a, b, c) ==
  IF t1[1] = "t1" /\ <<a, b, c>> = << <<"a", t1[2] - 1>>, <<"a", t1[2] - 2>>, <<"a", t1[2] - 3>> >>
  THEN <<"a", t1[2]>> ELSE <<"wrong", Wrong>>

\* Which register is a b, which c d and so on in the first of four steps; each step
\* turns the four.
Roles == <<"ab", "cd", "ef", "gh">>
Role(step, i) == Roles[((i + 4 - (step % 4) - 1) % 4) + 1]

Step512(r, step) ==
  LET ab == r[Role(step, 1)]
      cd == r[Role(step, 2)]
      ef == r[Role(step, 3)]
      gh == r[Role(step, 4)]
      t1 == Sum512(ef[1], ef[2], gh[1], gh[2], cd[2])
      e1 == Plus512(cd[2], t1)
      t2 == Sum512(e1, ef[1], ef[2], gh[1], cd[1])
      a1 == Top512(t1, ab[1], ab[2], cd[1])
  IN  [r EXCEPT ![Role(step, 4)] = <<Top512(t2, a1, ab[1], ab[2]), a1>>,
                ![Role(step, 2)] = <<Plus512(cd[1], t2), e1>>]

Registers512 ==
  LET Of(k) == [ab |-> << <<"a", k>>, <<"a", k - 1>> >>, cd |-> << <<"a", k - 2>>, <<"a", k - 3>> >>,
                ef |-> << <<"e", k>>, <<"e", k - 1>> >>, gh |-> << <<"e", k - 2>>, <<"e", k - 3>> >>]
      r[p \in 0 .. 40] == IF p = 0 THEN Of(0) ELSE Step512(r[p - 1], p - 1)
  IN  r[40] = Of(80)

-----------------------------------------------------------------------------
(* keccak_f1600, a round of named lanes; lane x + 5y is column x of row y. *)

\* The two column sums that correct column x, the second one turned by one.
Theta == << <<4, 1>>, <<0, 2>>, <<1, 3>>, <<2, 4>>, <<3, 0>> >>

\* Where each lane goes, and by how much it is turned.
RhoPi == << <<0, 0>>, <<10, 1>>, <<20, 62>>, <<5, 28>>, <<15, 27>>,
            <<16, 36>>, <<1, 44>>, <<11, 6>>, <<21, 55>>, <<6, 20>>,
            <<7, 3>>, <<17, 10>>, <<2, 43>>, <<12, 25>>, <<22, 39>>,
            <<23, 41>>, <<8, 45>>, <<18, 15>>, <<3, 21>>, <<13, 8>>,
            <<14, 18>>, <<24, 2>>, <<9, 61>>, <<19, 56>>, <<4, 14>> >>

\* The bits of the round constants.
keccak_rc ==
  << {0}, {1, 7, 15}, {1, 3, 7, 15, 63}, {15, 31, 63}, {0, 1, 3, 7, 15}, {0, 31},
     {0, 7, 15, 31, 63}, {0, 3, 15, 63}, {1, 3, 7}, {3, 7}, {0, 3, 15, 31}, {1, 3, 31},
     {0, 1, 3, 7, 15, 31}, {0, 1, 3, 7, 63}, {0, 3, 7, 15, 63}, {0, 1, 15, 63},
     {1, 15, 63}, {7, 63}, {1, 3, 15}, {1, 3, 31, 63},
     {0, 7, 15, 31, 63}, {7, 15, 63}, {0, 31}, {3, 15, 31, 63} >>

-----------------------------------------------------------------------------
(* Properties *)

\* FIPS 180-4: the marker, the fewest zeros, and the length at the end of a block.
Padded2(alg, msg) ==
  LET length == Sha2[alg].length
      zeros == (-(Len(msg) + 1 + length)) % Block
  IN  msg \o <<Marker>> \o Zeros(zeros + length - 1) \o <<LengthOf(Len(msg))>>

\* FIPS 202: the domain, zeros, and the last bit at the end of a block.
Padded3(alg, msg) ==
  LET fill == Rate - (Len(msg) % Rate)
  IN  msg \o (IF fill = 1 THEN <<DomainOf(alg) \cup Last>>
              ELSE <<DomainOf(alg)>> \o Zeros(fill - 2) \o <<Last>>)

HashOf(alg, msg) ==
  IF alg = "sha3" THEN Digest(alg, Blocks(Padded3(alg, msg), Rate), Sha3Digest)
  ELSE Digest(alg, Blocks(Padded2(alg, msg), Block), Sha2[alg].digest)

\* Byte i of the sponge's output: one permutation for each Rate bytes before it.
SpongeByte(alg, msg, i) ==
  OutputByte("keccak", Blocks(Padded3(alg, msg), Rate) \o [b \in 1 .. i \div Rate |-> Zeros(Rate)],
         (i % Rate) + 1)

\* FIPS 198-1.
Hmac(alg, key, msg) ==
  LET n == IF alg = "sha3" THEN Rate ELSE Block
      short == IF Len(key) > n THEN HashOf(alg, key) ELSE key
      k0 == short \o Zeros(n - Len(short))
      With(pad) == [i \in 1 .. n |-> Xor(k0[i], {<<pad>>})]
  IN  HashOf(alg, With("opad") \o HashOf(alg, With("ipad") \o msg))

\* However a message is cut into parts, and whatever the context was used for before or
\* copied from, what comes out is the hash of exactly this message; the one-shot
\* functions agree, and HMAC by the same context with keys about the length of a block.
DigestsExact ==
  /\ got[Local] # <<>> =>
       /\ got[Local] = HashOf(function, fed[Local])
       /\ function \in DOMAIN Sha2 => OneShot(function, fed[Local]) = got[Local]
       /\ \A n \in 0 .. Block + 1 :
            LET key == [i \in 1 .. n |-> {<<"key", i>>}]
                mac == CASE function = "sha256" -> HmacSha256(ctx[Local], key, fed[Local])
                         [] function = "sha3" -> HmacSha3(ctx[Local], key, fed[Local])
                         [] OTHER -> HmacSha512(function, ctx[Local], key, fed[Local])
            IN  mac = Hmac(function, key, fed[Local])
  /\ \A x \in Oqs : ctx[x] # Null =>
       got[x] = [i \in DOMAIN got[x] |-> SpongeByte(ctx[x].alg, fed[x], i - 1)]

Lane(x, y) == x + 5 * y

\* FIPS 202, 3.2.2: the walk over the lanes that fixes by how much each is turned.
Offsets ==
  LET at[t \in 0 .. 23] == IF t = 0 THEN <<1, 0>>
                           ELSE LET lane == at[t - 1] IN <<lane[2], (2 * lane[1] + 3 * lane[2]) % 5>>
  IN  [n \in 0 .. 24 |->
         IF n = 0 THEN 0
         ELSE LET t == CHOOSE t \in 0 .. 23 : Lane(at[t][1], at[t][2]) = n
              IN  (((t + 1) * (t + 2)) \div 2) % 64]

\* FIPS 202, 3.2.5: the bits of the round constants are those of x^t modulo
\* x^8 + x^6 + x^5 + x^4 + 1, here as a set of exponents.
RoundBits ==
  LET x[t \in 0 .. 167] ==
        IF t = 0 THEN {0}
        ELSE IF t < 16 \/ t % 2 = 1
             THEN LET shifted == {i + 1 : i \in x[t - 1]}
                  IN  Xor(shifted \ {8}, IF 8 \in shifted THEN {0, 4, 5, 6} ELSE {})
             ELSE LET half == x[t \div 2]
                  IN  {i \in 0 .. 7 : Cardinality({j \in half : i \in x[2 * j]}) % 2 = 1}
  IN  [round \in 0 .. 23 |-> {2 ^ j - 1 : j \in {j \in 0 .. 6 : 0 \in x[j + 7 * round]}}]

\* Every round is given its own word of the schedule, and every working variable reaches
\* the instruction that takes it, through registers that change places; the tables of
\* Keccak are those its definition computes.
RoundsExact ==
  function = "sha256" =>
    /\ \A t \in 0 .. 63 : ArmRounds[t] = t
    /\ \A t \in 0 .. 79 : Words512[t] = t
    /\ Registers512
    /\ \A x \in 0 .. 4 : Theta[x + 1] = <<(x + 4) % 5, (x + 1) % 5>>
    /\ \A x, y \in 0 .. 4 :
         RhoPi[Lane(x, y) + 1] = <<Lane(y, (2 * x + 3 * y) % 5), Offsets[Lane(x, y)]>>
    /\ \A round \in 0 .. 23 : keccak_rc[round + 1] = RoundBits[round]

\* IaAsmSha256KatTest: "NIST FIPS 180-4 known-answer test for SHA-256. Exercises the
\* Intel SHA-NI compress path".
ShaNiExact == function = "sha256" => \A t \in 0 .. 63 : ShaNiRounds[t] = t
=============================================================================
