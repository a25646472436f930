------------------------------- MODULE Aead -------------------------------
(***************************************************************************)
(* AES-256-GCM and ChaCha20-Poly1305 of the assembly providers.  First the *)
(* two modes, from sealing a message to opening what arrives of it, where  *)
(* a byte is the set of the symbols that were XORed into it.  Then what    *)
(* is under them: multiplication in GHASH, bit by bit for the registers of *)
(* both processors; Poly1305 with limbs of 8, 8 and 6 bits for the 44, 44  *)
(* and 42 of the code; the words of AES's key schedule; and which words    *)
(* ChaCha20 mixes, and where its four parallel blocks go.                  *)
(***************************************************************************)
EXTENDS Integers, Sequences, FiniteSets
LOCAL INSTANCE SequencesExt

CONSTANTS
  Block,         \* bytes of a block of AES, of GHASH and of Poly1305, and of a tag
  StreamBlock,   \* bytes of a block of ChaCha20's keystream
  CounterRange,  \* one more than the largest block counter
  TextLength,    \* lengths of a message
  AadLength      \* lengths of the data beside it

\* A message has a counter for each of its blocks besides the two GCM uses otherwise:
\* the limit the standard sets and the code does not check.
AeadShape ==
  /\ Block \in Nat \ {0} /\ Block % 2 = 0
  /\ StreamBlock \in Nat /\ Block <= StreamBlock
  /\ CounterRange \in Nat /\ CounterRange > 2
  /\ TextLength \subseteq 0 .. (CounterRange - 2) * Block
  /\ AadLength \subseteq Nat

VARIABLES
  aeadStage, \* "job", "sealed", "arrived" or "opened"
  job,       \* what is sealed: the scheme, and the lengths of the message and of the data
  wire,      \* the ciphertext and its tag
  arrived,   \* what is opened: nonce, data, and bytes of the wire
  out,       \* what opening it left in the caller's buffer
  genuine    \* whether the tag was found good

aeadVars == <<aeadStage, job, wire, arrived, out, genuine>>

Added(a, b) == (a \ b) \cup (b \ a)
XorBytes(x, y) == [i \in 1 .. Len(x) |-> Added(x[i], y[i])]
Zeros(n) == [i \in 1 .. n |-> {}]
Symbol(kind, nonce, m, n, content) == {<<kind, nonce, m, n, content>>}

Least(a, b) == IF a < b THEN a ELSE b

\* The n bytes behind the first "from" bytes, where a pointer into the data is.
Slice(data, from, n) == [i \in 1 .. n |-> data[from + i]]

\* A block that begins with the data and is filled up.
Padded(data, zero) == [i \in 1 .. Block |-> IF i <= Len(data) THEN data[i] ELSE zero]

\* A loop with n turns; what it does when it has ended is nothing.
Loop(Turn(_), start, n) ==
  LET after[k \in Nat] == IF k = 0 THEN start ELSE Turn(after[k - 1]) IN after[n]

-----------------------------------------------------------------------------
(* AES-256-GCM *)

\* aes256_encrypt_block of nonce and counter.
aes(nonce, counter) == [i \in 1 .. Block |-> Symbol("aes", nonce, counter, i, <<>>)]
J0 == 1

gcm_inc_counter(counter) == (counter + 1) % CounterRange

\* Whole blocks, then part of one.
gcm_ctr_crypt(in, nonce, counter) ==
  LET Turn(t) ==
        LET n == Least(Len(in) - Len(t.out), Block)
            next == gcm_inc_counter(t.counter)
        IN  IF n = 0 THEN t
            ELSE [counter |-> next,
                  out |-> t.out \o XorBytes(Slice(in, Len(t.out), n), aes(nonce, next))]
  IN  Loop(Turn, [counter |-> counter, out |-> <<>>], Len(in)).out

\* A zero length is zeros.
gcm_length_block(aad_len, ct_len) ==
  [i \in 1 .. Block |->
     LET len == IF i <= Block \div 2 THEN aad_len ELSE ct_len
     IN  IF len = 0 THEN {} ELSE Symbol("length", "", len, i, <<>>)]

\* The blocks of one field, the last one filled up with zeros.
PaddedBlocks(data) ==
  [k \in 1 .. (Len(data) + Block - 1) \div Block |->
     LET from == (k - 1) * Block
     IN  Padded(Slice(data, from, Least(Block, Len(data) - from)), {})]

\* GHASH of blocks is a polynomial in the key: the last block's power is the lowest, and a
\* block of zeros is no term.
Polynomial(blocks) ==
  {<<Len(blocks) - k, blocks[k]>> : k \in {n \in 1 .. Len(blocks) : blocks[n] # Zeros(Block)}}

Ghash(blocks) ==
  [i \in 1 .. Block |->
     IF Polynomial(blocks) = {} THEN {} ELSE Symbol("ghash", "", 0, i, Polynomial(blocks))]

gcm_compute_tag(nonce, aad, ct) ==
  XorBytes(Ghash(PaddedBlocks(aad) \o PaddedBlocks(ct) \o <<gcm_length_block(Len(aad), Len(ct))>>),
           aes(nonce, J0))

aes256_gcm_encrypt(nonce, aad, pt) ==
  LET ct == gcm_ctr_crypt(pt, nonce, J0)
  IN  ct \o gcm_compute_tag(nonce, aad, ct)

-----------------------------------------------------------------------------
(* ChaCha20-Poly1305 *)

chacha20_block(nonce, counter) ==
  [i \in 1 .. StreamBlock |-> Symbol("chacha", nonce, counter, i, <<>>)]

\* Blocks one behind the other, their counters of 32 bits (Xor4Words).
Keystream(nonce, counter, blocks) ==
  [i \in 1 .. blocks * StreamBlock |->
     chacha20_block(nonce, (counter + (i - 1) \div StreamBlock) % CounterRange)[((i - 1) % StreamBlock) + 1]]

\* Four blocks at a time, then one, then part of one.
chacha20_crypt(in, nonce, counter) ==
  LET Turn(t) ==
        LET left == Len(in) - Len(t.out)
            blocks == IF left >= 4 * StreamBlock THEN 4 ELSE 1
            piece == Slice(in, Len(t.out), Least(left, blocks * StreamBlock))
        IN  IF left = 0 THEN t
            ELSE [counter |-> (t.counter + blocks) % CounterRange,
                  out |-> t.out \o XorBytes(piece, Keystream(nonce, t.counter, blocks))]
  IN  Loop(Turn, [counter |-> counter, out |-> <<>>], Len(in)).out

\* What feed_field takes at once from a place in the field: four blocks, two, one, or part
\* of one, filled up.
FieldGroup(data, off, zero) ==
  LET full == (Len(data) - off) \div Block
      n == CASE full >= 4 -> 4 [] full \in 2 .. 3 -> 2 [] OTHER -> full
  IN  IF full = 0 THEN <<Padded(Slice(data, off, Len(data) - off), zero)>>
      ELSE [k \in 1 .. n |-> Slice(data, off + (k - 1) * Block, Block)]

\* A field behind what there was before it; Take is what happens to each group.
feed_field(before, data, zero, Take(_, _)) ==
  LET Turn(t) ==
        LET group == FieldGroup(data, t.off, zero)
        IN  IF t.off >= Len(data) THEN t
            ELSE [off |-> t.off + Len(group) * Block, fed |-> Take(t.fed, group)]
  IN  Loop(Turn, [off |-> 0, fed |-> before], Len(data)).fed

\* The fields of the data and of the ciphertext, block by block, and their lengths.
FieldBlocks(before, data) ==
  LET Behind(blocks, group) == blocks \o group IN feed_field(before, data, {}, Behind)

PolyBlocks(aad, ct) ==
  FieldBlocks(FieldBlocks(<<>>, aad), ct) \o <<gcm_length_block(Len(aad), Len(ct))>>

\* The key of one use is the block with counter 0; every block of the input counts,
\* for one more bit is set above it.
poly1305_feed(nonce, aad, ct) ==
  [i \in 1 .. Block |-> Symbol("poly1305", nonce, 0, i, PolyBlocks(aad, ct))]

chacha20_poly1305_encrypt(nonce, aad, pt) ==
  LET ct == chacha20_crypt(pt, nonce, 1)
  IN  ct \o poly1305_feed(nonce, aad, ct)

-----------------------------------------------------------------------------
(* Sealing a message and opening what arrives. *)

Text == [i \in 1 .. job.text |-> Symbol("text", "", i, 0, <<>>)]
Aad == [i \in 1 .. job.aad |-> Symbol("aad", "", i, 0, <<>>)]
Noise == Symbol("noise", "", 0, 0, <<>>)
Nothing == [nonce |-> "", aad |-> <<>>, wire |-> <<>>]
Sent == [nonce |-> "own", aad |-> Aad, wire |-> wire]

Init ==
  /\ aeadStage = "job"
  /\ job \in [scheme : {"gcm", "chacha"}, text : TextLength, aad : AadLength]
  /\ wire = <<>> /\ arrived = Nothing /\ out = <<>> /\ genuine = FALSE

Seal ==
  /\ aeadStage = "job"
  /\ aeadStage' = "sealed"
  /\ wire' = IF job.scheme = "gcm" THEN aes256_gcm_encrypt("own", Aad, Text)
             ELSE chacha20_poly1305_encrypt("own", Aad, Text)
  /\ UNCHANGED <<job, arrived, out, genuine>>

\* What can become of a sequence of bytes on the way: nothing, one altered, lost, or a zero
\* more, a block of zeros in front, or a byte exchanged with that of the next block.
Altered(s, i) == [s EXCEPT ![i] = Added(s[i], Noise)]
Without(s, i) == [k \in 1 .. Len(s) - 1 |-> IF k < i THEN s[k] ELSE s[k + 1]]
WithZero(s, i) == [k \in 1 .. Len(s) + 1 |-> IF k < i THEN s[k] ELSE IF k = i THEN {} ELSE s[k - 1]]
Exchanged(s, i) == [s EXCEPT ![i] = s[i + Block], ![i + Block] = s[i]]

Harmed(s) ==
  {s, Zeros(Block) \o s}
  \cup {Altered(s, i) : i \in 1 .. Len(s)} \cup {Without(s, i) : i \in 1 .. Len(s)}
  \cup {WithZero(s, i) : i \in 1 .. Len(s) + 1}
  \cup {Exchanged(s, i) : i \in 1 .. Len(s) - Block}

\* Or of the border between data and message.
Moved ==
  (IF job.aad = 0 THEN {}
   ELSE {[aad |-> Slice(Aad, 0, job.aad - 1), wire |-> <<Aad[job.aad]>> \o wire]})
  \cup {[aad |-> Append(Aad, wire[1]), wire |-> Slice(wire, 1, Len(wire) - 1)]}

Arrive ==
  /\ aeadStage = "sealed"
  /\ aeadStage' = "arrived"
  /\ \/ \E w \in Harmed(wire) : arrived' = [Sent EXCEPT !.wire = w]
     \/ \E a \in Harmed(Aad) : arrived' = [Sent EXCEPT !.aad = a]
     \/ \E x \in Moved : arrived' = [nonce |-> "own", aad |-> x.aad, wire |-> x.wire]
     \/ \E n \in 0 .. Least(Len(wire), 2 * Block) : arrived' = [Sent EXCEPT !.wire = Slice(wire, 0, n)]
     \/ arrived' = [Sent EXCEPT !.nonce = "other"]
  \* The buffer for the message, as the caller makes it.
  /\ out' = Zeros(IF Len(arrived'.wire) < Block THEN 0 ELSE Len(arrived'.wire) - Block)
  /\ UNCHANGED <<job, wire, genuine>>

\* Deviation: the message is decrypted before its tag is looked at, and left there.
aes256_gcm_decrypt_first(nonce, aad, ct) ==
  LET pt_len == Len(ct) - Block
      text == Slice(ct, 0, pt_len)
  IN  IF Len(ct) < Block THEN [good |-> FALSE, out |-> out]
      ELSE [good |-> gcm_compute_tag(nonce, aad, text) = Slice(ct, pt_len, Block),
            out |-> gcm_ctr_crypt(text, nonce, J0)]

aes256_gcm_decrypt(nonce, aad, ct) ==
  LET pt_len == Len(ct) - Block
      text == Slice(ct, 0, pt_len)
  IN  IF Len(ct) < Block THEN [good |-> FALSE, out |-> out]
      ELSE IF gcm_compute_tag(nonce, aad, text) # Slice(ct, pt_len, Block)
        THEN [good |-> FALSE, out |-> Zeros(pt_len)]
      ELSE [good |-> TRUE, out |-> gcm_ctr_crypt(text, nonce, J0)]

chacha20_poly1305_decrypt(nonce, aad, ct) ==
  LET pt_len == Len(ct) - Block
      text == Slice(ct, 0, pt_len)
  IN  IF Len(ct) < Block THEN [good |-> FALSE, out |-> out]
      ELSE IF poly1305_feed(nonce, aad, text) # Slice(ct, pt_len, Block)
        THEN [good |-> FALSE, out |-> Zeros(pt_len)]
      ELSE [good |-> TRUE, out |-> chacha20_crypt(text, nonce, 1)]

Open ==
  /\ aeadStage = "arrived"
  /\ aeadStage' = "opened"
  /\ LET result == IF job.scheme = "gcm"
                   THEN aes256_gcm_decrypt(arrived.nonce, arrived.aad, arrived.wire)
                   ELSE chacha20_poly1305_decrypt(arrived.nonce, arrived.aad, arrived.wire)
     IN  /\ genuine' = result.good
         /\ out' = result.out
  /\ UNCHANGED <<job, wire, arrived>>

Next == Seal \/ Arrive \/ Open

Spec == Init /\ [][Next]_aeadVars

-----------------------------------------------------------------------------
(* GHASH.  A register is the set of its bits that are set, so is a block in memory,  *)
(* where bit t of byte k is 8k + t; a polynomial is the set of its powers, and power *)
(* n is in bit 7 - n % 8 of byte n \div 8.                                           *)

OfMemory(v) == {8 * (n \div 8) + 7 - (n % 8) : n \in v}
Low(v) == {n \in v : n < 64}
High(v) == {n - 64 : n \in {m \in v : m >= 64}}
Raised(v) == {n + 64 : n \in Low(v)}

\* Product of two halves without carries.
clmul(a, b) == {n \in 0 .. 126 : Cardinality({i \in a : n - i \in b}) % 2 = 1}

\* Shifts of both halves by themselves.
LanesLeft(v, k) == {n + k : n \in {m \in v : (m % 64) + k < 64}}
LanesRight(v, k) == {n - k : n \in {m \in v : m % 64 >= k}}

\* On ARM all bytes are turned around, on loading and on storing.
ghash_reflect(v) == OfMemory(v)

ghash_poly_mult_128(a, b) ==
  [h |-> clmul(High(a), High(b)),
   m |-> Added(clmul(High(a), Low(b)), clmul(Low(a), High(b))),
   l |-> clmul(Low(a), Low(b))]

\* x^128 is x^7 + x^2 + x + 1, for the high half and again for what of it came out above.
ghash_poly_reduce(p) ==
  LET modulo == {0, 1, 2, 7}
      e == Added(clmul(High(p.h), modulo), p.m)
  IN  Added(Added(clmul(Low(p.h), modulo), p.l), Added(clmul(High(e), modulo), Raised(e)))

\* Reflected accumulator and key; the block as it is in memory.
ArmUpdate(acc, H, block) == ghash_poly_reduce(ghash_poly_mult_128(Added(acc, ghash_reflect(block)), H))

\* On Intel the order of the bytes is turned around, and with it all of the bits.
ghash_load(v) == {8 * (15 - (n \div 8)) + (n % 8) : n \in v}

ghash_clmul256(a, b) ==
  LET mid == Added(clmul(Low(a), High(b)), clmul(High(a), Low(b)))
  IN  [lo |-> Added(clmul(Low(a), Low(b)), Raised(mid)), hi |-> Added(clmul(High(a), High(b)), High(mid))]

ghash_shift(p) ==
  LET lo_top == LanesRight(p.lo, 63)
      hi_top == LanesRight(p.hi, 63)
  IN  [lo |-> LanesLeft(p.lo, 1) \cup Raised(lo_top),
       hi |-> LanesLeft(p.hi, 1) \cup Raised(hi_top) \cup High(lo_top)]

ghash_reduce(xx) ==
  Added(Raised(Added(Added(LanesLeft(xx, 63), LanesLeft(xx, 62)), LanesLeft(xx, 57))), xx)

ghash_mix(dx) ==
  LET over == High(Added(Added(LanesLeft(dx, 63), LanesLeft(dx, 62)), LanesLeft(dx, 57)))
  IN  Added(Added(Added(Added(LanesRight(dx, 1), LanesRight(dx, 2)), LanesRight(dx, 7)), over), dx)

IaUpdate(acc, H, block) ==
  LET p == ghash_shift(ghash_clmul256(Added(acc, ghash_load(block)), H))
  IN  Added(ghash_mix(ghash_reduce(p.lo)), p.hi)

-----------------------------------------------------------------------------
(* Poly1305 modulo 2^22 - 5 on blocks of two halves of 10 bits, lo and hi, for 2^130 - 5  *)
(* and 64: with limbs of 8, 8 and 6 bits all proportions of the code stay, so does 20,    *)
(* what the third power of a limb's base is worth.                                        *)

Limb == 256
LastLimb == 64
Half == 1024

block_to_limbs(lo, hi, top) ==
  [h0 |-> lo % Limb, h1 |-> ((lo \div 256) + hi * 4) % Limb, h2 |-> (hi \div 64) + top * 16]

\* Four words of five bits: the top bit of each is cleared, and the lowest of all but the first.
Clamped(word) == (word % 16) - (word % 2)
clamp_r(lo, hi) ==
  block_to_limbs((lo % 16) + 32 * Clamped(lo \div 32), Clamped(hi) + 32 * Clamped(hi \div 32), 0)

poly1305_multiply_precomp(h, r) ==
  LET d0 == h.h0 * r.h0 + h.h1 * (r.h2 * 20) + h.h2 * (r.h1 * 20)
      e1 == h.h0 * r.h1 + h.h1 * r.h0 + h.h2 * (r.h2 * 20) + d0 \div Limb
      e2 == h.h0 * r.h2 + h.h1 * r.h1 + h.h2 * r.h0 + e1 \div Limb
      h0 == (d0 % Limb) + (e2 \div LastLimb) * 5
  IN  [h0 |-> h0 % Limb, h1 |-> (e1 % Limb) + h0 \div Limb, h2 |-> e2 % LastLimb]

poly1305_add_block(h, m) == [h0 |-> h.h0 + m.h0, h1 |-> h.h1 + m.h1, h2 |-> h.h2 + m.h2]

\* One pass of carries.
Carried(h) ==
  LET h1 == h.h1 + h.h0 \div Limb
      h2 == h.h2 + h1 \div Limb
      h0 == (h.h0 % Limb) + (h2 \div LastLimb) * 5
  IN  [h0 |-> h0 % Limb, h1 |-> (h1 % Limb) + h0 \div Limb, h2 |-> h2 % LastLimb]

\* Poly1305Powers::build: the first four powers of r.
Powers(r) ==
  LET r2 == poly1305_multiply_precomp(r, r)
      r3 == poly1305_multiply_precomp(r2, r)
  IN  <<r, r2, r3, poly1305_multiply_precomp(r3, r)>>

\* poly1305_process_pair and _quad, or one block: each block times the power of its place,
\* the first one together with what there was.
Process(h, group, powers) ==
  LET n == Len(group)
      Limbs(k) == block_to_limbs(group[k][1], group[k][2], 1)
      first == poly1305_multiply_precomp(poly1305_add_block(h, Limbs(1)), powers[n])
      others == [k \in 1 .. n - 1 |-> poly1305_multiply_precomp(Limbs(k + 1), powers[n - k])]
  IN  IF n = 1 THEN first ELSE Carried(FoldLeft(poly1305_add_block, first, others))

\* Bits of a number below 128 and of a multiple of 64: only one can be in both.
BitOr(a, b) == IF a >= 64 /\ (b \div 64) % 2 = 1 THEN a + b - 64 ELSE a + b

\* Taken modulo the prime by adding 5 if that reaches its top, packed, and s added, modulo
\* two halves.
poly1305_finish(h_in, slo, shi) ==
  LET h == Carried(h_in)
      g0 == h.h0 + 5
      g1 == h.h1 + g0 \div Limb
      g2 == h.h2 + g1 \div Limb
      t == IF g2 \div LastLimb # 0 THEN [h0 |-> g0 % Limb, h1 |-> g1 % Limb, h2 |-> g2 % LastLimb] ELSE h
      hlo == t.h0 + ((t.h1 * 256) % Half)
      hhi == BitOr(t.h1 \div 4, (t.h2 * 64) % Half)
      tlo == (hlo + slo) % Half
  IN  <<tlo, (hhi + shi + (IF tlo < hlo THEN 1 ELSE 0)) % Half>>

\* The tag of a field of whole and half blocks, of two halves each.
Poly1305(r, slo, shi, data) ==
  LET powers == Powers(r)
      Step(h, group) == Process(h, group, powers)
  IN  poly1305_finish(feed_field(block_to_limbs(0, 0, 0), data, 0, Step), slo, shi)

-----------------------------------------------------------------------------
(* AES-256's key schedule: eight words from the eight before them.  A word is its four  *)
(* bytes, the lowest first.                                                             *)

Sub(byte) == Symbol("sub", "", 0, 0, <<byte>>)
WithRcon(word, rcon) == [word EXCEPT ![1] = Added(@, Symbol("rcon", "", rcon, 0, <<>>))]
RotWord(word) == <<word[2], word[3], word[4], word[1]>>

\* SubBytes and ShiftRows of four times the word; the first of the four is taken.
aes_sub_word(word) ==
  LET state == word \o word \o word \o word
  IN  [r \in 1 .. 4 |-> Sub(state[r + 4 * (r - 1)])]

Rcon == <<1, 2, 4, 8, 16, 32, 64>>

ArmExpand(w, step) ==
  LET next[i \in 1 .. 8] ==
        LET tmp == IF i = 1 THEN w[8] ELSE next[i - 1]
        IN  XorBytes(w[i], CASE i = 1 -> WithRcon(aes_sub_word(RotWord(tmp)), Rcon[step])
                             [] i = 5 -> aes_sub_word(tmp)
                             [] OTHER -> tmp)
  IN  next

\* What _mm_aeskeygenassist_si128 makes of four words.
aeskeygenassist(k, rcon) ==
  LET SubWord(word) == [r \in 1 .. 4 |-> Sub(word[r])]
      Rotated(word) == IF rcon = 0 THEN RotWord(SubWord(word)) ELSE WithRcon(RotWord(SubWord(word)), rcon)
  IN  <<SubWord(k[2]), Rotated(k[2]), SubWord(k[4]), Rotated(k[4])>>

\* _mm_slli_si128 by n words.
WordsUp(k, n) == [i \in 1 .. 4 |-> IF i <= n THEN Zeros(4) ELSE k[i - n]]
XorWords(j, k) == [i \in 1 .. 4 |-> XorBytes(j[i], k[i])]

\* Both helpers; they differ in the lane they take.
keygen_helper(key, generated, lane) ==
  LET k1 == XorWords(key, WordsUp(key, 1))
      k2 == XorWords(k1, WordsUp(k1, 2))
  IN  [i \in 1 .. 4 |-> XorBytes(k2[i], generated[lane])]

IaExpand(w, step) ==
  LET k1 == SubSeq(w, 5, 8)
      next0 == keygen_helper(SubSeq(w, 1, 4), aeskeygenassist(k1, Rcon[step]), 4)
      next1 == keygen_helper(k1, aeskeygenassist(next0, 0), 3)
  IN  next0 \o next1

\* The rounds of a block: the instruction for ARM adds the key first, that for Intel last.
ArmRounds ==
  FlattenSeq([k \in 1 .. 13 |-> << <<"key", k - 1>>, <<"sub", 0>>, <<"mix", 0>> >>])
  \o << <<"key", 13>>, <<"sub", 0>>, <<"key", 14>> >>
IaRounds ==
  << <<"key", 0>> >>
  \o FlattenSeq([k \in 1 .. 13 |-> << <<"sub", 0>>, <<"mix", 0>>, <<"key", k>> >>])
  \o << <<"sub", 0>>, <<"key", 14>> >>

-----------------------------------------------------------------------------
(* ChaCha20's block function: a word of the state is its number, a quarter round is     *)
(* the four it mixes.                                                                   *)

\* The four lanes of four registers.
chacha20_qr(r) == {<<r[1][i], r[2][i], r[3][i], r[4][i]>> : i \in 1 .. 4}

vextq(r, n) == [i \in 1 .. 4 |-> r[((i - 1 + n) % 4) + 1]]
shuffle(r, imm) == [i \in 1 .. 4 |-> r[((imm \div 4 ^ (i - 1)) % 4) + 1]]

State == << <<0, 1, 2, 3>>, <<4, 5, 6, 7>>, <<8, 9, 10, 11>>, <<12, 13, 14, 15>> >>

\* A double round over rows: both halves, and the rows behind it.
ArmDoubleRound ==
  LET turned == <<State[1], vextq(State[2], 1), vextq(State[3], 2), vextq(State[4], 3)>>
  IN  <<chacha20_qr(State), chacha20_qr(turned),
        <<turned[1], vextq(turned[2], 3), vextq(turned[3], 2), vextq(turned[4], 1)>> >>
IaDoubleRound ==
  LET turned == <<State[1], shuffle(State[2], 57), shuffle(State[3], 78), shuffle(State[4], 147)>>
  IN  <<chacha20_qr(State), chacha20_qr(turned),
        <<turned[1], shuffle(turned[2], 147), shuffle(turned[3], 78), shuffle(turned[4], 57)>> >>

\* The double round of chacha20_xor4, register by register.
WordDoubleRound ==
  << {<<0, 4, 8, 12>>, <<1, 5, 9, 13>>, <<2, 6, 10, 14>>, <<3, 7, 11, 15>>},
     {<<0, 5, 10, 15>>, <<1, 6, 11, 12>>, <<2, 7, 8, 13>>, <<3, 4, 9, 14>>} >>

\* Register i of four blocks, to which the counter was added in its lanes.
WordMajor(i) == [lane \in 1 .. 4 |-> <<lane - 1, i>>]

\* The same instructions under two names: pairs of the low or high lanes of two registers,
\* and the low or high pairs of two.
ZipLow(a, b) == <<a[1], b[1], a[2], b[2]>>
ZipHigh(a, b) == <<a[3], b[3], a[4], b[4]>>
PairsLow(a, b) == <<a[1], a[2], b[1], b[2]>>
PairsHigh(a, b) == <<a[3], a[4], b[3], b[4]>>

chacha20_transpose4(a0, a1, a2, a3) ==
  << PairsLow(ZipLow(a0, a1), ZipLow(a2, a3)), PairsHigh(ZipLow(a0, a1), ZipLow(a2, a3)),
     PairsLow(ZipHigh(a0, a1), ZipHigh(a2, a3)), PairsHigh(ZipHigh(a0, a1), ZipHigh(a2, a3)) >>

\* Where chacha20_xor4 stores: 16 bytes from the place 64b + 16x are words of block b.
Xor4Words ==
  LET Group(x) == chacha20_transpose4(WordMajor(4 * x), WordMajor(4 * x + 1),
                                      WordMajor(4 * x + 2), WordMajor(4 * x + 3))
  IN  [place \in 1 .. 16 |-> Group((place - 1) % 4)[((place - 1) \div 4) + 1]]

-----------------------------------------------------------------------------
(* Properties *)

\* What arrives as it was sent gives the message back; nothing else is taken, and then
\* the buffer holds nothing of what it would have been.  No block of the keystream is
\* used twice, for the tag or its key included.
Opened ==
  /\ aeadStage = "opened" =>
       IF arrived = Sent
       THEN genuine /\ out = Text
       ELSE ~genuine /\ out = Zeros(Len(out))
  /\ aeadStage = "sealed" =>
       LET Mask(i) == Added(wire[i], Text[i])
           reserved == IF job.scheme = "gcm" THEN aes("own", J0) ELSE chacha20_block("own", 0)
       IN  \A i \in DOMAIN Text :
             /\ \E symbol \in Mask(i) : Mask(i) = {symbol}
             /\ \A j \in 1 .. i - 1 : Mask(j) # Mask(i)
             /\ \A j \in DOMAIN reserved : Mask(i) # reserved[j]

\* A power of at most 254 modulo x^128 + x^7 + x^2 + x + 1, which takes two steps at most.
Reduced(n) == IF n < 128 THEN {n} ELSE {n - 128, n - 127, n - 126, n - 121}
Modulo(n) == FoldLeft(LAMBDA sum, m : Added(sum, Reduced(m)), {}, SetToSeq(Reduced(n)))

\* For both processors the update is the product in the field GHASH is defined over: of
\* power "probe" with every other, and of all of them together.
GhashExact(probe) ==
  LET All == 0 .. 127
      Arm(block, H) == ghash_reflect(ArmUpdate({}, ghash_reflect(OfMemory(H)), OfMemory(block)))
      Ia(block, H) == ghash_load(IaUpdate({}, ghash_load(OfMemory(H)), OfMemory(block)))
  IN  /\ \A n \in All :
           /\ Arm({probe}, {n}) = OfMemory(Modulo(probe + n))
           /\ Ia({probe}, {n}) = OfMemory(Modulo(probe + n))
      /\ Arm(All, {probe, 127}) = Ia(All, {probe, 127})

Prime == 4194304 - 5
Value(h) == h.h0 + 256 * h.h1 + 65536 * h.h2
Times(x, y) ==
  LET Part(i) == ((x % Prime) * ((y \div 256 ^ i) % 256)) % Prime
  IN  ((((((Part(2) * 256) % Prime) + Part(1)) * 256) % Prime) + Part(0)) % Prime

\* The polynomial block by block, a part of one filled up, and the tag of it.
Reference(r, s, data) ==
  LET Behind(all, group) == all \o group
      Horner(h, b) == Times((h + b[1] + Half * b[2] + Half * Half) % Prime, r)
  IN  (FoldLeft(Horner, 0, feed_field(<<>>, data, 0, Behind)) + s) % (Half * Half)

\* Products of limbs as large as they get keep within the bounds the next step takes for
\* granted; the end is right for every accumulator within them; and the tag is that of the
\* polynomial, however the blocks were grouped.
PolyExact(probe) ==
  LET edge == <<0, 1, 512, 1023>>
      lo == edge[(probe % 4) + 1] + (probe \div 16) * 41
      hi == edge[((probe \div 4) % 4) + 1] + (probe \div 16) * 83
      r == clamp_r(lo % Half, hi % Half)
      last == {0, 1, 31, 62, 63}
  IN  /\ \A h0 \in {0, 255, 511}, h1 \in {probe, 640 - probe}, h2 \in {0, 63, 127} :
           \A r2 \in last :
             LET h == [h0 |-> h0, h1 |-> h1, h2 |-> h2]
                 x == [h0 |-> 255 - probe, h1 |-> 255, h2 |-> r2]
                 p == poly1305_multiply_precomp(h, x)
             IN  /\ Value(p) % Prime = Times(Value(h), Value(x))
                 /\ p.h0 < 256 /\ p.h1 < 384 /\ p.h2 < 64
      /\ \A h0 \in {0, 1} \cup (250 .. 255), h1 \in {3 * probe, 3 * probe + 1, 3 * probe + 2}, h2 \in last :
           \A s \in {0, 1, Half * Half - 1} :
             LET h == [h0 |-> h0, h1 |-> h1, h2 |-> h2]
                 tag == poly1305_finish(h, s % Half, s \div Half)
             IN  tag[1] + Half * tag[2] = ((Value(h) % Prime) + s) % (Half * Half)
      /\ \A count \in 0 .. 21 :
           LET data == [k \in 1 .. count |-> edge[((probe + k * k + k \div 3) % 4) + 1]]
               tag == Poly1305(r, lo % Half, hi % Half, data)
           IN  tag[1] + Half * tag[2]
                 = Reference(Value(r), (lo % Half) + Half * (hi % Half), data)

\* Both processors derive the same round keys and use them in the same order; the three
\* forms of ChaCha20's rounds mix columns, then diagonals, and put the words back; four
\* blocks come out one behind the other.
WordsExact ==
  LET words == [i \in 1 .. 8 |-> [b \in 1 .. 4 |-> Symbol("key", "", i, b, <<>>)]]
      columns == {<<i, i + 4, i + 8, i + 12>> : i \in 0 .. 3}
      diagonals == {<<i, 4 + ((i + 1) % 4), 8 + ((i + 2) % 4), 12 + ((i + 3) % 4)>> : i \in 0 .. 3}
  IN  /\ \A step \in 1 .. 7 :
           /\ \A i \in 1 .. 8 : ArmExpand(words, step)[i] = IaExpand(words, step)[i]
           /\ Rcon[step] = 2 ^ (step - 1)
      /\ ArmRounds = IaRounds
      /\ ArmDoubleRound = <<columns, diagonals, State>>
      /\ IaDoubleRound = <<columns, diagonals, State>>
      /\ WordDoubleRound = <<columns, diagonals>>
      /\ \A n \in 1 .. 16 :
           \A w \in 1 .. 4 : Xor4Words[n][w] = <<(n - 1) \div 4, (4 * (n - 1) + w - 1) % 16>>
=============================================================================
