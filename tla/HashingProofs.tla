---------------------------- MODULE HashingProofs ----------------------------
(***************************************************************************)
(* That what comes out of a context is the hash of what was fed to it, for *)
(* messages of every length cut into parts of every length, contexts used  *)
(* again and again, and every size of block.                               *)
(*                                                                         *)
(* The argument is the same for the three kinds of contexts.  "Holding":   *)
(* the blocks of the past and the buffer are the bytes taken so far.  A    *)
(* turn of an update keeps it and takes at least one byte, so the loop     *)
(* ends with all of them.  The end builds the blocks that the padding of   *)
(* the standard has there.  A sponge gives byte i of the permutation it    *)
(* belongs to.  HashInv says this of every context, in each of its states. *)
(***************************************************************************)
EXTENDS Hashing, SequenceTheorems, WellFoundedInduction, TLAPS

-----------------------------------------------------------------------------
(* What is used of sequences, of division and of loops.  A loop is a function*)
(* of the number of its turns, and induction is that every set of numbers has*)
(* a least one.                                                              *)

\* Induction over the natural numbers, for a set.
LEMMA SetInduction ==
  ASSUME NEW T, T \subseteq Nat, 0 \in T, \A k \in T : k + 1 \in T PROVE T = Nat
<1> SUFFICES ASSUME T # Nat PROVE FALSE
  OBVIOUS
<1> DEFINE R == {ss \in Nat \X Nat : ss[1] < ss[2]}
           U == Nat \ T
<1>1. IsWellFoundedOn(R, Nat)
  BY NatLessThanWellFounded DEF OpToRel
<1>2. PICK x \in U : \A y \in U : ~(<<y, x>> \in R)
  <2> HIDE DEF R
  <2>. QED
    BY <1>1, WFMin
<1>3. x # 0 /\ x - 1 \in Nat /\ x - 1 \notin T
  OBVIOUS
<1>4. <<x - 1, x>> \in R
  BY <1>3
<1>. QED
  BY <1>2, <1>3, <1>4

\* A loop that stays in S and has something less to do after each turn.
IsLoop(S, start, turn, n, done) ==
  /\ start \in S /\ turn \in [S -> S] /\ n \in Nat /\ done \in [S -> 0 .. n]
  /\ \A t \in S : done[turn[t]] = n \/ done[turn[t]] > done[t]

\* What there is after each turn.
IsRun(S, start, turn, f) ==
  f[0] = start /\ \A k \in Nat : f[k] \in S => f[k + 1] = turn[f[k]]

\* The function that says what there is after each turn exists.
LEMMA LoopRuns ==
  ASSUME NEW S, NEW start, NEW turn, NEW n, NEW done, IsLoop(S, start, turn, n, done)
  PROVE  \E f : f \in [Nat -> S] /\ IsRun(S, start, turn, f)
<1>0. start \in S /\ turn \in [S -> S]
  BY DEF IsLoop
<1> DEFINE Run(m, g) ==
             g \in [0 .. m -> S] /\ g[0] = start /\ \A k \in 1 .. m : g[k] = turn[g[k - 1]]
           T == {m \in Nat : \E g : Run(m, g)}
<1>1. 0 \in T
  <2>1. Run(0, [k \in 0 .. 0 |-> start])
    BY <1>0
  <2>. QED
    BY <2>1
<1>2. ASSUME NEW m \in T PROVE m + 1 \in T
  <2>1. PICK g : Run(m, g)
    OBVIOUS
  <2>2. Run(m + 1, [k \in 0 .. m + 1 |-> IF k = m + 1 THEN turn[g[m]] ELSE g[k]])
    BY <1>0, <2>1
  <2>3. m + 1 \in Nat /\ \E h : Run(m + 1, h)
    <3> HIDE DEF Run
    <3>. QED
      BY <2>2
  <2>. QED
    BY <2>3
<1>3. T = Nat
  <2> HIDE DEF T
  <2>1. T \subseteq Nat
    BY DEF T
  <2>. QED
    BY <1>1, <1>2, <2>1, SetInduction
<1> DEFINE G(m) == CHOOSE g : Run(m, g)
<1>4. \A m \in Nat : Run(m, G(m))
  BY <1>3
<1>5. ASSUME NEW m \in Nat PROVE \A k \in 0 .. m : G(m)[k] = G(m + 1)[k]
  <2> DEFINE V == {k \in Nat : k <= m => G(m)[k] = G(m + 1)[k]}
  <2> HIDE DEF G
  <2>1. 0 \in V
    BY <1>4
  <2>2. ASSUME NEW k \in V PROVE k + 1 \in V
    <3>1. k \in Nat /\ m + 1 \in Nat /\ (k + 1) - 1 = k
      OBVIOUS
    <3>2. Run(m, G(m)) /\ Run(m + 1, G(m + 1))
      BY <1>4, <3>1
    <3>3. SUFFICES ASSUME k + 1 <= m PROVE G(m)[k + 1] = G(m + 1)[k + 1]
      BY <3>1
    <3>4. k + 1 \in 1 .. m /\ k + 1 \in 1 .. m + 1 /\ k <= m
      BY <3>1, <3>3
    <3>5. G(m)[k + 1] = turn[G(m)[k]] /\ G(m + 1)[k + 1] = turn[G(m + 1)[k]]
      BY <3>1, <3>2, <3>4
    <3>6. G(m)[k] = G(m + 1)[k]
      BY <3>4
    <3>. QED
      BY <3>5, <3>6
  <2>3. V = Nat
    <3> HIDE DEF V
    <3>1. V \subseteq Nat
      BY DEF V
    <3>. QED
      BY <2>1, <2>2, <3>1, SetInduction
  <2>. QED
    BY <2>3
<1> DEFINE f == [k \in Nat |-> G(k)[k]]
<1> HIDE DEF G
<1>6. f \in [Nat -> S]
  <2>1. \A k \in Nat : G(k) \in [0 .. k -> S] /\ k \in 0 .. k
    BY <1>4
  <2>2. \A k \in Nat : G(k)[k] \in S
    BY <2>1
  <2>. QED
    BY <2>2
<1>7. f[0] = start
  BY <1>4
<1>8. ASSUME NEW k \in Nat PROVE f[k + 1] = turn[f[k]]
  <2>1. G(k + 1)[k + 1] = turn[G(k + 1)[k]]
    BY <1>4
  <2>2. G(k + 1)[k] = G(k)[k]
    BY <1>5
  <2>. QED
    BY <2>1, <2>2
<1> HIDE DEF f
<1>. QED
  BY <1>6, <1>7, <1>8 DEF IsRun

\* After n turns it has done all there is to do.
LEMMA LoopEnds ==
  ASSUME NEW S, NEW start, NEW turn, NEW n, NEW done, NEW g,
         IsLoop(S, start, turn, n, done), IsRun(S, start, turn, g)
  PROVE  g[n] \in S /\ done[g[n]] = n
<1>0. /\ start \in S /\ turn \in [S -> S] /\ n \in Nat /\ done \in [S -> 0 .. n]
      /\ \A t \in S : done[turn[t]] = n \/ done[turn[t]] > done[t]
      /\ g[0] = start /\ \A k \in Nat : g[k] \in S => g[k + 1] = turn[g[k]]
  BY DEF IsLoop, IsRun
<1> DEFINE T == {k \in Nat : g[k] \in S /\ (done[g[k]] = n \/ done[g[k]] >= k)}
<1>1. 0 \in T
  BY <1>0
<1>2. ASSUME NEW k \in T PROVE k + 1 \in T
  <2>1. k \in Nat /\ g[k] \in S /\ g[k + 1] = turn[g[k]] /\ turn[g[k]] \in S
    BY <1>0
  <2>2. done[g[k]] \in 0 .. n /\ done[g[k + 1]] \in 0 .. n
    BY <1>0, <2>1
  <2>3. done[g[k + 1]] = n \/ done[g[k + 1]] > done[g[k]]
    BY <1>0, <2>1
  <2>4. done[g[k]] = n \/ done[g[k]] >= k
    OBVIOUS
  <2>. QED
    BY <2>1, <2>2, <2>3, <2>4
<1>3. T = Nat
  <2> HIDE DEF T
  <2>1. T \subseteq Nat
    BY DEF T
  <2>. QED
    BY <1>1, <1>2, <2>1, SetInduction
<1>4. g[n] \in S /\ done[g[n]] \in 0 .. n /\ (done[g[n]] = n \/ done[g[n]] >= n)
  BY <1>0, <1>3
<1>. QED
  BY <1>0, <1>4

\* A list with n items is a sequence of that length.
LEMMA ListIsSeq ==
  ASSUME NEW S, NEW n, NEW f, n \in Nat, f \in [1 .. n -> S]
  PROVE  f \in Seq(S) /\ Len(f) = n
<1>1. f \in Seq(S)
  BY SeqDef
<1>2. DOMAIN f = 1 .. Len(f) /\ Len(f) \in Nat
  BY <1>1, LenProperties
<1>. QED
  BY <1>1, <1>2

\* And the other way round.
LEMMA SeqIsList ==
  ASSUME NEW S, NEW s, s \in Seq(S)
  PROVE  Len(s) \in Nat /\ s \in [1 .. Len(s) -> S]
BY LenProperties

\* The items of two sequences, one behind the other.
LEMMA Joined ==
  ASSUME NEW S, NEW s, NEW t, s \in Seq(S), t \in Seq(S)
  PROVE  /\ s \o t \in Seq(S)
         /\ Len(s) \in Nat /\ Len(t) \in Nat /\ Len(s \o t) = Len(s) + Len(t)
         /\ \A i \in 1 .. Len(s) : (s \o t)[i] = s[i]
         /\ \A i \in 1 .. Len(t) : (s \o t)[Len(s) + i] = t[i]
<1>1. /\ s \o t \in Seq(S) /\ Len(s \o t) = Len(s) + Len(t)
      /\ \A i \in 1 .. Len(s) + Len(t) : (s \o t)[i] = IF i <= Len(s) THEN s[i] ELSE t[i - Len(s)]
  BY ConcatProperties
<1>2. Len(s) \in Nat /\ Len(t) \in Nat
  BY LenProperties
<1>. QED
  BY <1>1, <1>2

\* A product that is known between two of its multiples.
LEMMA DivMod ==
  ASSUME NEW n, NEW q, NEW r, n \in Nat \ {0}, q \in Int, r \in 0 .. n - 1
  PROVE  (q * n + r) \div n = q /\ (q * n + r) % n = r
<1> DEFINE x == q * n + r
<1>1. q * n \in Int /\ x \in Int
  OBVIOUS
<1> DEFINE d == x \div n
           m == x % n
<1>2. d \in Int /\ m \in 0 .. n - 1 /\ x = n * d + m
  BY <1>1
<1>3. (q - d) * n = m - r
  BY <1>1, <1>2
<1>4. q - d = 0
  <2>1. CASE q - d >= 1
    <3>1. (q - d) * n >= n
      BY <1>2, <2>1
    <3>. QED
      BY <1>2, <1>3, <3>1
  <2>2. CASE q - d <= -1
    <3>1. (q - d) * n <= -n
      BY <1>2, <2>2
    <3>. QED
      BY <1>2, <1>3, <3>1
  <2>. QED
    BY <1>2, <2>1, <2>2
<1>5. d = q /\ m = r
  BY <1>2, <1>3, <1>4
<1>. QED
  BY <1>5

-----------------------------------------------------------------------------
(* A context of either kind: a past and a buffer, and the turn of an update. *)

\* A buffer of bytes of B.
IsBuffer(B, size, buf) == buf \in [1 .. size -> B]

\* A context, whatever its fields are called: the blocks that went in and a buffer with the
\* beginning of the next one, which together are the first n bytes of msg.
Holding(B, size, past, buf, used, msg, n) ==
  /\ past \in Seq([1 .. size -> B]) /\ IsBuffer(B, size, buf)
  /\ used \in Nat /\ used < size
  /\ n = Len(past) * size + used
  /\ \A b \in 1 .. Len(past) : past[b] = Slice(msg, (b - 1) * size, size)
  /\ \A i \in 1 .. used : buf[i] = msg[Len(past) * size + i]

\* From base on the bytes of msg are those of data.
Behind(msg, base, data) == \A i \in base + 1 .. base + Len(data) : msg[i] = data[i - base]

\* Two messages with the same first n bytes.
SameTo(n, msg, other) == \A i \in 1 .. n : other[i] = msg[i]

\* A buffer that is another one but for n bytes of the data.
Replaces(size, next, buf, at, data, from, n) ==
  \A i \in 1 .. size : next[i] = IF i <= at \/ i > at + n THEN buf[i] ELSE data[from + (i - at)]

\* A buffer that starts like another one and goes on like msg behind "from".
Adds(next, buf, used, take, msg, from) ==
  /\ \A i \in 1 .. used : next[i] = buf[i]
  /\ \A i \in used + 1 .. used + take : next[i] = msg[from + (i - used)]

\* A piece of the data that is there has the bytes of the data.
LEMMA SliceItems ==
  ASSUME NEW B, NEW data, NEW from, NEW n,
         data \in Seq(B), from \in Nat, n \in Nat, from + n <= Len(data)
  PROVE  /\ Slice(data, from, n) \in [1 .. n -> B]
         /\ Slice(data, from, n) \in Seq(B) /\ Len(Slice(data, from, n)) = n
         /\ \A i \in 1 .. n : Slice(data, from, n)[i] = data[from + i]
<1>1. Len(data) \in Nat /\ data \in [1 .. Len(data) -> B]
  BY SeqIsList
<1>2. \A i \in 1 .. n : from + i \in 1 .. Len(data)
  BY <1>1
<1>3. Slice(data, from, n) \in [1 .. n -> B] /\ \A i \in 1 .. n : Slice(data, from, n)[i] = data[from + i]
  BY <1>1, <1>2 DEF Slice
<1>. QED
  BY <1>3, ListIsSeq

\* Any sequence in the place of a part of the buffer.
LEMMA Copied ==
  ASSUME NEW B, NEW size, NEW buf, NEW at, NEW data,
         size \in Nat, at \in Nat, IsBuffer(B, size, buf), data \in Seq(B), at + Len(data) <= size
  PROVE  /\ IsBuffer(B, size, Copy(buf, at, data))
         /\ Replaces(size, Copy(buf, at, data), buf, at, data, 0, Len(data))
<1> DEFINE next == Copy(buf, at, data)
<1>1. Len(data) \in Nat /\ data \in [1 .. Len(data) -> B]
  BY SeqIsList
<1>2. Len(buf) = size /\ buf \in [1 .. size -> B]
  BY ListIsSeq DEF IsBuffer
<1>3. next = [i \in 1 .. size |-> IF i \in at + 1 .. at + Len(data) THEN data[i - at] ELSE buf[i]]
  BY <1>2 DEF Copy
<1> HIDE DEF next
<1>4. \A i \in at + 1 .. at + Len(data) : i - at \in 1 .. Len(data) /\ i \in 1 .. size
  BY <1>1
<1>5. next \in [1 .. size -> B]
  BY <1>1, <1>2, <1>3, <1>4
<1>6. ASSUME NEW i \in 1 .. size
      PROVE  next[i] = IF i <= at \/ i > at + Len(data) THEN buf[i] ELSE data[0 + (i - at)]
  BY <1>1, <1>3, <1>4
<1>. QED
  BY <1>5, <1>6 DEF next, IsBuffer, Replaces

\* A piece of the data in the buffer, between bytes that stay.
LEMMA Poured ==
  ASSUME NEW B, NEW size, NEW buf, NEW at, NEW data, NEW from, NEW n,
         size \in Nat, at \in Nat, from \in Nat, n \in Nat,
         IsBuffer(B, size, buf), data \in Seq(B), from + n <= Len(data), at + n <= size
  PROVE  /\ IsBuffer(B, size, Copy(buf, at, Slice(data, from, n)))
         /\ Replaces(size, Copy(buf, at, Slice(data, from, n)), buf, at, data, from, n)
<1> DEFINE piece == Slice(data, from, n)
           next == Copy(buf, at, piece)
<1>1. piece \in Seq(B) /\ Len(piece) = n /\ \A i \in 1 .. n : piece[i] = data[from + i]
  BY SliceItems, SMTT(30)
<1> HIDE DEF piece
<1>2. IsBuffer(B, size, next) /\ Replaces(size, next, buf, at, piece, 0, n)
  <2>1. piece \in Seq(B) /\ at + Len(piece) <= size /\ Len(piece) = n
    BY <1>1
  <2>2. IsBuffer(B, size, Copy(buf, at, piece)) /\ Replaces(size, Copy(buf, at, piece), buf, at, piece, 0, Len(piece))
    BY <2>1, Copied
  <2>. QED
    BY <2>1, <2>2
<1> HIDE DEF next
<1>3. ASSUME NEW i \in 1 .. size
      PROVE  next[i] = IF i <= at \/ i > at + n THEN buf[i] ELSE data[from + (i - at)]
  <2>1. next[i] = IF i <= at \/ i > at + n THEN buf[i] ELSE piece[0 + (i - at)]
    BY <1>2 DEF Replaces
  <2>2. ~(i <= at \/ i > at + n) => 0 + (i - at) \in 1 .. n /\ 0 + (i - at) = i - at
    OBVIOUS
  <2>. QED
    BY <1>1, <2>1, <2>2
<1>. QED
  BY <1>2, <1>3 DEF next, piece, Replaces

\* It is what the whole message has behind the bytes taken before.
LEMMA Pours ==
  ASSUME NEW size, NEW next, NEW buf, NEW used, NEW take, NEW data, NEW done, NEW whole, NEW base,
         NEW n,
         size \in Nat, used \in Nat, take \in Nat, done \in Nat, base \in Nat, Len(data) \in Nat,
         used + take <= size, done + take <= Len(data), n = base + done,
         Replaces(size, next, buf, used, data, done, take), Behind(whole, base, data)
  PROVE  Adds(next, buf, used, take, whole, n)
<1>1. ASSUME NEW i \in used + 1 .. used + take PROVE next[i] = whole[n + (i - used)]
  <2> DEFINE j == n + (i - used)
  <2>1. /\ i \in 1 .. size /\ ~(i <= used \/ i > used + take)
        /\ j \in base + 1 .. base + Len(data) /\ done + (i - used) = j - base
    OBVIOUS
  <2>2. next[i] = data[done + (i - used)]
    BY <2>1 DEF Replaces
  <2> HIDE DEF j
  <2>3. whole[j] = data[j - base]
    BY <2>1 DEF Behind
  <2>. QED
    BY <2>1, <2>2, <2>3 DEF j
<1>2. ASSUME NEW i \in 1 .. used PROVE next[i] = buf[i]
  <2>1. i \in 1 .. size /\ i <= used
    OBVIOUS
  <2>. QED
    BY <2>1 DEF Replaces
<1>. QED
  BY <1>1, <1>2 DEF Adds

\* The past after one block more.
LEMMA OneMore ==
  ASSUME NEW S, NEW past, NEW b, past \in Seq(S), b \in S
  PROVE  /\ Compressed(past, b) \in Seq(S)
         /\ Len(past) \in Nat /\ Len(Compressed(past, b)) = Len(past) + 1
         /\ \A i \in 1 .. Len(past) : Compressed(past, b)[i] = past[i]
         /\ Compressed(past, b)[Len(past) + 1] = b
BY AppendProperties, LenProperties DEF Compressed

\* What the buffer then holds.
LEMMA Added ==
  ASSUME NEW B, NEW size, NEW past, NEW buf, NEW used, NEW msg, NEW n, NEW next, NEW take,
         size \in Nat, take \in Nat, n \in Nat,
         Holding(B, size, past, buf, used, msg, n), Adds(next, buf, used, take, msg, n)
  PROVE  /\ Len(past) \in Nat /\ Len(past) * size \in Nat
         /\ \A i \in 1 .. used + take : next[i] = msg[Len(past) * size + i]
<1> DEFINE L == Len(past)
<1>1. used \in Nat /\ n = L * size + used /\ L \in Nat
  <2>1. past \in Seq([1 .. size -> B]) /\ used \in Nat /\ n = L * size + used
    BY DEF Holding
  <2>. QED
    BY <2>1, SeqIsList
<1>2. L * size \in Nat
  BY <1>1
<1>3. ASSUME NEW i \in 1 .. used + take PROVE next[i] = msg[L * size + i]
  <2>1. CASE i <= used
    <3>1. i \in 1 .. used
      BY <1>1, <2>1
    <3>. QED
      BY <3>1 DEF Holding, Adds
  <2>2. CASE i > used
    <3>1. i \in used + 1 .. used + take
      BY <1>1, <2>2
    <3>2. n + (i - used) = L * size + i
      BY <1>1, <1>2
    <3>. QED
      BY <3>1, <3>2 DEF Adds
  <2>. QED
    BY <1>1, <2>1, <2>2
<1>. QED
  BY <1>1, <1>2, <1>3

\* Bytes that go into the buffer behind those that are there.
LEMMA FillsPartly ==
  ASSUME NEW B, NEW size, NEW past, NEW buf, NEW used, NEW msg, NEW n, NEW next, NEW take, NEW u2,
         NEW n2,
         size \in Nat, take \in Nat, n \in Nat,
         Holding(B, size, past, buf, used, msg, n), Adds(next, buf, used, take, msg, n),
         IsBuffer(B, size, next), u2 = used + take, n2 = n + take, u2 < size
  PROVE  Holding(B, size, past, next, u2, msg, n2)
<1>1. /\ Len(past) \in Nat /\ Len(past) * size \in Nat
      /\ \A i \in 1 .. used + take : next[i] = msg[Len(past) * size + i]
  BY Added
<1>2. used \in Nat /\ n = Len(past) * size + used
  BY DEF Holding
<1>3. u2 \in Nat /\ n2 = Len(past) * size + u2
  BY <1>1, <1>2
<1>. QED
  BY <1>1, <1>3 DEF Holding

\* The same, when they fill it: it is a block, and there is a buffer with nothing in it.
LEMMA FillsUp ==
  ASSUME NEW B, NEW size, NEW past, NEW buf, NEW used, NEW msg, NEW n, NEW next, NEW take, NEW n2,
         NEW longer, NEW any,
         size \in Nat, take \in Nat, n \in Nat,
         Holding(B, size, past, buf, used, msg, n), Adds(next, buf, used, take, msg, n),
         IsBuffer(B, size, next), used + take = size, n2 = n + take,
         longer = Compressed(past, next), IsBuffer(B, size, any)
  PROVE  Holding(B, size, longer, any, 0, msg, n2)
<1> DEFINE L == Len(past)
<1>1. /\ L \in Nat /\ L * size \in Nat
      /\ \A i \in 1 .. used + take : next[i] = msg[L * size + i]
  BY Added
<1>2. used \in Nat /\ used < size /\ n = L * size + used /\ past \in Seq([1 .. size -> B])
  BY DEF Holding
<1>3. next \in [1 .. size -> B]
  BY DEF IsBuffer
<1>4. /\ longer \in Seq([1 .. size -> B]) /\ Len(longer) = L + 1
      /\ \A b \in 1 .. L : longer[b] = past[b]
      /\ longer[L + 1] = next
  BY <1>2, <1>3, OneMore
<1>5. (L + 1) * size = L * size + size /\ L + 1 - 1 = L
  BY <1>1
<1>6. next = Slice(msg, (L + 1 - 1) * size, size)
  BY <1>1, <1>3, <1>5 DEF Slice
<1> DEFINE Right(b) == longer[b] = Slice(msg, (b - 1) * size, size)
<1>7. \A b \in 1 .. L + 1 : Right(b)
  <2>1. \A b \in 1 .. L : past[b] = Slice(msg, (b - 1) * size, size)
    BY DEF Holding
  <2>2. \A b \in 1 .. L : Right(b)
    BY <1>4, <2>1
  <2>3. Right(L + 1)
    BY <1>4, <1>6
  <2> HIDE DEF Right
  <2>. QED
    BY <1>1, <2>2, <2>3
<1>8. n2 = Len(longer) * size + 0
  <2>1. Len(longer) * size = L * size + size
    BY <1>4, <1>5
  <2> DEFINE p == L * size
             q == Len(longer) * size
  <2>2. p \in Nat /\ q = p + size /\ n = p + used /\ used \in Nat
    BY <1>1, <1>2, <2>1
  <2> HIDE DEF p, q
  <2>3. n2 = q + 0
    BY <2>2
  <2>. QED
    BY <2>3 DEF q
<1>. QED
  BY <1>2, <1>4, <1>7, <1>8 DEF Holding

\* What is held of a message is held of every other one that starts with it.
LEMMA StillHolds ==
  ASSUME NEW B, NEW size, NEW past, NEW buf, NEW used, NEW msg, NEW n, NEW other,
         size \in Nat, Holding(B, size, past, buf, used, msg, n), SameTo(n, msg, other)
  PROVE  Holding(B, size, past, buf, used, other, n)
<1> DEFINE L == Len(past)
<1>1. used \in Nat /\ used < size /\ L \in Nat /\ n = L * size + used
  <2>1. past \in Seq([1 .. size -> B]) /\ used \in Nat /\ used < size /\ n = L * size + used
    BY DEF Holding
  <2>. QED
    BY <2>1, SeqIsList
<1>2. L * size \in Nat
  BY <1>1
<1>3. ASSUME NEW b \in 1 .. L PROVE past[b] = Slice(other, (b - 1) * size, size)
  <2>1. (b - 1) * size \in Nat /\ (b - 1) * size + size = b * size /\ b * size \in Nat
    <3>1. b - 1 \in Nat /\ b \in Nat
      BY <1>1
    <3>. QED
      BY <3>1
  <2>2. b * size <= L * size
    <3>1. L - b \in Nat /\ L = b + (L - b)
      BY <1>1
    <3>2. L * size = b * size + (L - b) * size /\ (L - b) * size \in Nat
      BY <3>1
    <3>. QED
      BY <2>1, <3>2
  <2> DEFINE from == (b - 1) * size
  <2>3. from \in Nat /\ from + size <= n
    BY <1>1, <1>2, <2>1, <2>2
  <2> HIDE DEF from
  <2>4. \A i \in 1 .. size : from + i \in 1 .. n
    <3>1. n \in Nat /\ size \in Nat
      BY <1>1, <1>2
    <3>. QED
      BY <2>3, <3>1
  <2>5. \A i \in 1 .. size : other[from + i] = msg[from + i]
    BY <2>4 DEF SameTo
  <2>6. past[b] = Slice(msg, from, size)
    BY DEF Holding, from
  <2>7. Slice(msg, from, size) = Slice(other, from, size)
    BY <2>5 DEF Slice
  <2>. QED
    BY <2>6, <2>7 DEF from
<1>4. ASSUME NEW i \in 1 .. used PROVE buf[i] = other[L * size + i]
  <2>1. L * size + i \in 1 .. n
    BY <1>1, <1>2
  <2>2. buf[i] = msg[L * size + i]
    BY DEF Holding
  <2>. QED
    BY <2>1, <2>2 DEF SameTo
<1>. QED
  BY <1>3, <1>4 DEF Holding

\* What a turn takes is something, fits the space and is there.
LEMMA TakenSome ==
  ASSUME NEW length, NEW data, NEW done, NEW space,
         length = Len(data), length \in Nat, done \in Nat, done < length, space \in Nat, space > 0
  PROVE  /\ Taken(data, done, space) \in Nat /\ Taken(data, done, space) > 0
         /\ Taken(data, done, space) <= space /\ done + Taken(data, done, space) <= length
BY DEF Taken

\* What is in a buffer with nothing in it does not matter.
LEMMA Emptied ==
  ASSUME NEW B, NEW size, NEW past, NEW buf, NEW msg, NEW n, NEW other,
         Holding(B, size, past, buf, 0, msg, n), IsBuffer(B, size, other)
  PROVE  Holding(B, size, past, other, 0, msg, n)
BY DEF Holding

\* A turn of either update: what it finds, and what it computes.
Filling(B, size, data, done, whole, base, n, past, buf, used, take, next, longer, u2, d2, n2) ==
  /\ size \in Nat /\ done \in Nat /\ base \in Nat /\ data \in Seq(B) /\ done < Len(data)
  /\ Behind(whole, base, data) /\ Holding(B, size, past, buf, used, whole, n) /\ n = base + done
  /\ take = Taken(data, done, size - used) /\ next = Copy(buf, used, Slice(data, done, take))
  /\ longer = Compressed(past, next)
  /\ u2 = used + take /\ d2 = done + take /\ n2 = base + d2

\* The buffer is filled up, and made a block, or the data is at its end.
LEMMA Fill ==
  ASSUME NEW B, NEW size, NEW data, NEW done, NEW whole, NEW base, NEW n, NEW past, NEW buf,
         NEW used,
         NEW take, NEW next, NEW longer, NEW u2, NEW d2, NEW n2,
         Filling(B, size, data, done, whole, base, n, past, buf, used, take, next, longer, u2, d2, n2)
  PROVE  /\ used \in Nat /\ take \in Nat /\ u2 <= size
         /\ d2 \in Nat /\ d2 > done /\ d2 <= Len(data)
         /\ IsBuffer(B, size, next)
         /\ u2 < size => Holding(B, size, past, next, u2, whole, n2)
         /\ u2 = size => Holding(B, size, longer, next, 0, whole, n2)
<1>0. /\ size \in Nat /\ done \in Nat /\ base \in Nat /\ data \in Seq(B) /\ done < Len(data)
      /\ Behind(whole, base, data) /\ Holding(B, size, past, buf, used, whole, n)
  BY DEF Filling
<1>1. /\ n = base + done
      /\ take = Taken(data, done, size - used) /\ next = Copy(buf, used, Slice(data, done, take))
      /\ longer = Compressed(past, next)
      /\ u2 = used + take /\ d2 = done + take /\ n2 = base + d2
  BY DEF Filling
<1>2. Behind(whole, base, data) /\ Holding(B, size, past, buf, used, whole, n)
  BY <1>0
<1>3. used \in Nat /\ used < size /\ IsBuffer(B, size, buf)
  BY <1>2 DEF Holding
<1>4. Len(data) \in Nat
  BY <1>0, SeqIsList
<1>5. take \in Nat /\ take > 0 /\ take <= size - used /\ done + take <= Len(data)
  <2>1. size - used \in Nat /\ size - used > 0
    BY <1>0, <1>3
  <2>2. Taken(data, done, size - used) = take
    BY <1>1
  <2>. QED
    BY <1>0, <1>4, <2>1, <2>2, TakenSome
<1>6. d2 \in Nat /\ d2 > done /\ d2 <= Len(data)
  <2>1. d2 = done + take
    BY <1>1
  <2>. QED
    BY <1>0, <1>4, <1>5, <2>1
<1>7. u2 \in Nat /\ u2 = used + take /\ u2 <= size /\ used + take <= size
  <2>1. u2 = used + take
    BY <1>1
  <2>. QED
    BY <1>0, <1>3, <1>5, <2>1
<1>8. n \in Nat /\ n2 = n + take
  <2>1. n = base + done /\ d2 = done + take /\ n2 = base + d2
    BY <1>1
  <2>. QED
    BY <1>0, <1>5, <2>1
<1>9. IsBuffer(B, size, next) /\ Replaces(size, next, buf, used, data, done, take)
  <2>1. Copy(buf, used, Slice(data, done, take)) = next
    BY <1>1
  <2>. QED
    BY <1>0, <1>3, <1>5, <1>7, <2>1, Poured
<1>10. Adds(next, buf, used, take, whole, n)
  <2>1. n = base + done
    BY <1>1
  <2>. QED
    BY <1>0, <1>2, <1>3, <1>4, <1>5, <1>7, <1>9, <2>1, Pours
<1>11. ASSUME u2 < size PROVE Holding(B, size, past, next, u2, whole, n2)
  BY <1>0, <1>2, <1>3, <1>5, <1>7, <1>8, <1>9, <1>10, <1>11, FillsPartly
<1>12. ASSUME u2 = size PROVE Holding(B, size, longer, next, 0, whole, n2)
  <2>1. used + take = size
    BY <1>0, <1>7, <1>12
  <2>2. longer = Compressed(past, next)
    BY <1>1
  <2>. QED
    BY <1>0, <1>2, <1>3, <1>5, <1>8, <1>9, <1>10, <2>1, <2>2, FillsUp
<1>. QED
  BY <1>0, <1>3, <1>5, <1>6, <1>7, <1>9, <1>11, <1>12

-----------------------------------------------------------------------------
(* Sha256Ctx and Sha512Ctx.                                                  *)

\* A SHA-2 context that was set up for a function and has taken the first n bytes of msg.
Sha2Has(B, c, alg, total, msg, n) ==
  /\ c = [alg |-> alg, past |-> c.past, buf |-> c.buf, used |-> c.used, total |-> total]
  /\ Holding(B, Block, c.past, c.buf, c.used, msg, n)

\* A turn of its update.
Sha2Turning(B, data, done, whole, base, n, c, alg, total, t, n2) ==
  /\ done \in Nat /\ base \in Nat /\ data \in Seq(B) /\ done < Len(data)
  /\ Behind(whole, base, data)
  /\ Sha2Has(B, c, alg, total, whole, n)
  /\ n = base + done /\ t = Sha2Take(c, data, done) /\ n2 = base + t.done

\* It takes at least one byte, and the context has then taken it.
LEMMA Sha2Turn ==
  ASSUME NEW B, NEW data, NEW done, NEW whole, NEW base, NEW n, NEW c, NEW alg, NEW total, NEW t,
         NEW n2,
         Sha2Turning(B, data, done, whole, base, n, c, alg, total, t, n2)
  PROVE  /\ t = [ctx |-> t.ctx, done |-> t.done]
         /\ t.done \in Nat /\ t.done > done /\ t.done <= Len(data)
         /\ Sha2Has(B, t.ctx, alg, total, whole, n2)
<1>1. /\ done \in Nat /\ base \in Nat /\ data \in Seq(B) /\ done < Len(data)
      /\ Behind(whole, base, data)
      /\ Sha2Has(B, c, alg, total, whole, n)
      /\ n = base + done /\ t = Sha2Take(c, data, done) /\ n2 = base + t.done
  BY DEF Sha2Turning
<1> DEFINE past == c.past
           buf == c.buf
           used == c.used
           take == Taken(data, done, Block - used)
           next == Copy(buf, used, Slice(data, done, take))
           longer == Compressed(past, next)
           u2 == used + take
           d2 == done + take
           m2 == base + d2
<1>2. /\ c = [alg |-> alg, past |-> past, buf |-> buf, used |-> used, total |-> total]
      /\ Holding(B, Block, past, buf, used, whole, n)
  BY <1>1 DEF Sha2Has
<1>3. /\ used \in Nat /\ take \in Nat /\ u2 <= Block
      /\ d2 \in Nat /\ d2 > done /\ d2 <= Len(data)
      /\ IsBuffer(B, Block, next)
      /\ u2 < Block => Holding(B, Block, past, next, u2, whole, m2)
      /\ u2 = Block => Holding(B, Block, longer, next, 0, whole, m2)
  <2>1. Behind(whole, base, data) /\ n = base + done /\ Holding(B, Block, past, buf, used, whole, n)
    BY <1>1, <1>2
  <2>2. Block \in Nat
    BY HashShape
  <2>3. Filling(B, Block, data, done, whole, base, n, past, buf, used, take, next, longer, u2, d2, m2)
    BY <1>1, <2>1, <2>2, Zenon DEF Filling
  <2> HIDE DEF past, buf, used, take, next, longer, u2, d2, m2
  <2>. QED
    BY <2>3, Fill
<1>4. /\ take = Block - used =>
           t = [ctx |-> [alg |-> alg, past |-> longer, buf |-> next, used |-> 0, total |-> total],
                done |-> d2]
      /\ take # Block - used =>
           t = [ctx |-> [alg |-> alg, past |-> past, buf |-> next, used |-> u2, total |-> total],
                done |-> d2]
  <2>1. t = Sha2Take(c, data, done)
    BY <1>1
  <2>2. /\ take = Taken(data, done, Block - used)
        /\ next = Copy(buf, used, Slice(data, done, take))
        /\ longer = Compressed(past, next) /\ u2 = used + take /\ d2 = done + take
    OBVIOUS
  <2>3. c = [alg |-> alg, past |-> past, buf |-> buf, used |-> used, total |-> total]
    BY <1>2
  <2> HIDE DEF past, buf, used, take, next, longer, u2, d2
  <2>4. c.past = past /\ c.buf = buf /\ c.used = used
    BY <2>3
  <2> DEFINE filled == [c EXCEPT !.buf = next, !.past = longer, !.used = 0]
             begun == [c EXCEPT !.buf = next, !.used = u2]
  <2>5. t = IF take = Block - used THEN [ctx |-> filled, done |-> d2] ELSE [ctx |-> begun, done |-> d2]
    BY <2>1, <2>2, <2>4, Zenon DEF Sha2Take
  <2>6. filled \in [alg : {alg}, past : {longer}, buf : {next}, used : {0}, total : {total}]
    BY <2>3
  <2>7. begun \in [alg : {alg}, past : {past}, buf : {next}, used : {u2}, total : {total}]
    BY <2>3
  <2> HIDE DEF filled, begun
  <2>8. filled = [alg |-> alg, past |-> longer, buf |-> next, used |-> 0, total |-> total]
    BY <2>6
  <2>9. begun = [alg |-> alg, past |-> past, buf |-> next, used |-> u2, total |-> total]
    BY <2>7
  <2>. QED
    BY <2>5, <2>8, <2>9, Zenon
<1>5. n2 = base + t.done
  BY <1>1
<1>6. Block \in Nat
  BY HashShape
<1> HIDE DEF past, buf, take, used, next, longer
<1>7. CASE take = Block - used
  <2>1. u2 = Block
    BY <1>3, <1>6, <1>7
  <2>2. /\ t.ctx = [alg |-> alg, past |-> longer, buf |-> next, used |-> 0, total |-> total]
        /\ t.done = d2
    BY <1>4, <1>7
  <2>3. Holding(B, Block, longer, next, 0, whole, m2) /\ n2 = m2
    BY <1>3, <1>5, <2>1, <2>2
  <2>4. Sha2Has(B, t.ctx, alg, total, whole, n2)
    <3> HIDE DEF m2
    <3>. QED
      BY <2>2, <2>3 DEF Sha2Has
  <2>. QED
    BY <1>3, <1>4, <1>7, <2>2, <2>4
<1>8. CASE take # Block - used
  <2>1. u2 < Block
    BY <1>3, <1>6, <1>8
  <2>2. /\ t.ctx = [alg |-> alg, past |-> past, buf |-> next, used |-> u2, total |-> total]
        /\ t.done = d2
    BY <1>4, <1>8
  <2>3. Holding(B, Block, past, next, u2, whole, m2) /\ n2 = m2
    BY <1>3, <1>5, <2>1, <2>2
  <2>4. Sha2Has(B, t.ctx, alg, total, whole, n2)
    <3> HIDE DEF m2, u2
    <3>. QED
      BY <2>2, <2>3 DEF Sha2Has
  <2>. QED
    BY <1>3, <1>4, <1>8, <2>2, <2>4
<1>. QED
  BY <1>7, <1>8

\* Where the loop stays: contexts of one function with one total.
Sha2Contexts(B, alg, total) ==
  [alg : {alg}, past : Seq([1 .. Block -> B]), buf : [1 .. Block -> B], used : Nat, total : {total}]

\* A context that has taken something is one of them.
LEMMA Sha2Typed ==
  ASSUME NEW B, NEW c, NEW alg, NEW total, NEW msg, NEW n, Sha2Has(B, c, alg, total, msg, n)
  PROVE  c \in Sha2Contexts(B, alg, total)
<1>1. c = [alg |-> alg, past |-> c.past, buf |-> c.buf, used |-> c.used, total |-> total]
  BY DEF Sha2Has
<1>2. c.past \in Seq([1 .. Block -> B]) /\ c.buf \in [1 .. Block -> B] /\ c.used \in Nat
  BY DEF Sha2Has, Holding, IsBuffer
<1>. QED
  BY <1>1, <1>2 DEF Sha2Contexts

\* Two messages one behind the other.
Follows(B, msg, data, whole, base) ==
  msg \in Seq(B) /\ data \in Seq(B) /\ whole = msg \o data /\ base = Len(msg)

\* The bytes of the second are behind those of the first.
LEMMA BehindMsg ==
  ASSUME NEW B, NEW msg, NEW data, NEW whole, NEW base, Follows(B, msg, data, whole, base)
  PROVE  /\ msg \in Seq(B) /\ data \in Seq(B) /\ whole = msg \o data /\ base = Len(msg)
         /\ base \in Nat /\ Len(data) \in Nat /\ whole \in Seq(B) /\ Len(whole) = base + Len(data)
         /\ Behind(whole, base, data) /\ SameTo(base, msg, whole)
<1>0. msg \in Seq(B) /\ data \in Seq(B) /\ whole = msg \o data /\ base = Len(msg)
  BY DEF Follows
<1>1. /\ whole \in Seq(B) /\ base \in Nat /\ Len(data) \in Nat /\ Len(whole) = base + Len(data)
      /\ \A i \in 1 .. base : whole[i] = msg[i]
      /\ \A i \in 1 .. Len(data) : whole[base + i] = data[i]
  BY <1>0, Joined
<1>2. ASSUME NEW i \in base + 1 .. base + Len(data) PROVE whole[i] = data[i - base]
  <2> DEFINE j == i - base
  <2>1. j \in 1 .. Len(data) /\ base + j = i
    BY <1>1
  <2> HIDE DEF j
  <2>2. whole[base + j] = data[j]
    BY <1>1, <2>1
  <2>. QED
    BY <2>1, <2>2 DEF j
<1>. QED
  BY <1>0, <1>1, <1>2 DEF Behind, SameTo

\* Update of a context: it has then taken the data too, and no other byte.
LEMMA Sha2Fed ==
  ASSUME NEW B, NEW c, NEW alg, NEW msg, NEW data, NEW whole, NEW base, NEW total,
         Sha2Has(B, c, alg, base, msg, base), Follows(B, msg, data, whole, base),
         total = base + Len(data)
  PROVE  Sha2Has(B, Sha2Update(c, data), alg, total, whole, total)
<1> DEFINE n == Len(data)
           start == [ctx |-> [c EXCEPT !.total = @ + n], done |-> 0]
           S == {t \in [ctx : Sha2Contexts(B, alg, total), done : 0 .. n] :
                   Sha2Has(B, t.ctx, alg, total, whole, base + t.done)}
           Turn(t) == IF t.done = n THEN t ELSE Sha2Take(t.ctx, data, t.done)
           turn == [t \in S |-> Turn(t)]
           done == [t \in S |-> t.done]
<1>1. /\ data \in Seq(B) /\ base \in Nat /\ n \in Nat /\ total = base + n
      /\ Behind(whole, base, data) /\ SameTo(base, msg, whole)
  BY BehindMsg
<1>2. start \in S
  <2> DEFINE d == [c EXCEPT !.total = @ + n]
  <2>1. /\ c = [alg |-> alg, past |-> c.past, buf |-> c.buf, used |-> c.used, total |-> base]
        /\ Holding(B, Block, c.past, c.buf, c.used, msg, base)
    BY DEF Sha2Has
  <2>0. d = [c EXCEPT !.total = total]
    BY <1>1, <2>1
  <2>2. d = [alg |-> alg, past |-> c.past, buf |-> c.buf, used |-> c.used, total |-> total]
    <3> DEFINE e == [c EXCEPT !.total = total]
    <3>1. e \in [alg : {alg}, past : {c.past}, buf : {c.buf}, used : {c.used}, total : {total}]
      BY <2>1
    <3> HIDE DEF d, e, n
    <3>2. e = [alg |-> alg, past |-> c.past, buf |-> c.buf, used |-> c.used, total |-> total]
      BY <3>1
    <3>. QED
      BY <2>0, <3>2 DEF e
  <2>3. Holding(B, Block, c.past, c.buf, c.used, whole, base)
    BY <1>1, <2>1, HashShape, StillHolds
  <2> HIDE DEF d
  <2>4. Sha2Has(B, d, alg, total, whole, base)
    BY <2>2, <2>3 DEF Sha2Has
  <2>5. d \in Sha2Contexts(B, alg, total)
    BY <2>4, Sha2Typed
  <2>6. start = [ctx |-> d, done |-> 0] /\ 0 \in 0 .. n /\ base + 0 = base
    BY <1>1 DEF d
  <2> HIDE DEF start, n
  <2>. QED
    BY <2>4, <2>5, <2>6
<1>3. ASSUME NEW t \in S PROVE Turn(t) \in S /\ (Turn(t).done = n \/ Turn(t).done > t.done)
  <2>1. CASE t.done = n
    BY <2>1
  <2>2. CASE t.done # n
    <3> DEFINE r == Sha2Take(t.ctx, data, t.done)
               m == base + t.done
               n2 == base + r.done
    <3>1. t.done \in Nat /\ t.done < Len(data) /\ t.done \in 0 .. n /\ Sha2Has(B, t.ctx, alg, total, whole, m)
      BY <1>1, <2>2
    <3>2. m = base + t.done /\ r = Sha2Take(t.ctx, data, t.done) /\ n2 = base + r.done
      OBVIOUS
    <3>3. Turn(t) = r
      BY <2>2
    <3> HIDE DEF r, m, n2, S, Turn
    <3>4. /\ r = [ctx |-> r.ctx, done |-> r.done]
          /\ r.done \in Nat /\ r.done > t.done /\ r.done <= Len(data)
          /\ Sha2Has(B, r.ctx, alg, total, whole, n2)
      <4>1. Sha2Turning(B, data, t.done, whole, base, m, t.ctx, alg, total, r, n2)
        BY <1>1, <3>1, <3>2 DEF Sha2Turning
      <4>. QED
        BY <4>1, Sha2Turn
    <3>5. r.ctx \in Sha2Contexts(B, alg, total)
      BY <3>4, Sha2Typed
    <3>6. r.done \in 0 .. n
      BY <1>1, <3>4
    <3> HIDE DEF n
    <3>7. r \in S
      BY <3>2, <3>4, <3>5, <3>6 DEF S
    <3>. QED
      BY <3>3, <3>4, <3>7
  <2>. QED
    BY <2>1, <2>2
<1>4. IsLoop(S, start, turn, n, done)
  <2>1. \A t \in S : t.done \in 0 .. n
    OBVIOUS
  <2> HIDE DEF S, Turn
  <2>2. /\ turn \in [S -> S]
        /\ done \in [S -> 0 .. n]
        /\ \A t \in S : done[turn[t]] = n \/ done[turn[t]] > done[t]
    BY <1>3, <2>1
  <2> HIDE DEF turn, done, start, n
  <2>. QED
    BY <1>1, <1>2, <2>2 DEF IsLoop
<1> DEFINE after == CHOOSE after : after = [k \in Nat |-> IF k = 0 THEN start ELSE Turn(after[k - 1])]
<1>5. Sha2Update(c, data) = after[n].ctx
  BY DEF Sha2Update, Loop
<1>6. after = [k \in Nat |-> IF k = 0 THEN start ELSE Turn(after[k - 1])]
  <2> HIDE DEF S, start
  <2>1. PICK f : f \in [Nat -> S] /\ IsRun(S, start, turn, f)
    <3> HIDE DEF turn, done, n
    <3>. QED
      BY <1>4, LoopRuns
  <2> HIDE DEF Turn
  <2>2. \A k \in Nat : f[k + 1] = Turn(f[k])
    BY <2>1 DEF IsRun
  <2>3. f = [k \in Nat |-> IF k = 0 THEN start ELSE Turn(f[k - 1])]
    <3>1. \A k \in Nat : k # 0 => k - 1 \in Nat /\ k - 1 + 1 = k
      OBVIOUS
    <3>. QED
      BY <2>1, <2>2, <3>1 DEF IsRun
  <2>. QED
    BY <2>3
<1> HIDE DEF S, Turn, start, after
<1>7. after[n] \in S /\ done[after[n]] = n
  <2>1. IsRun(S, start, turn, after)
    BY <1>6 DEF IsRun
  <2> HIDE DEF turn, done, n
  <2>. QED
    BY <1>4, <2>1, LoopEnds
<1>8. after[n].done = n /\ Sha2Has(B, after[n].ctx, alg, total, whole, base + after[n].done)
  BY <1>7 DEF S
<1>. QED
  BY <1>1, <1>5, <1>8

-----------------------------------------------------------------------------
(* The padding of FIPS 180-4: one block when the length fits, two otherwise. *)

\* Block k of e blocks that are behind L others.
LEMMA Places ==
  ASSUME NEW L, NEW e, NEW k, NEW size, L \in Nat, e \in Nat, k \in 1 .. e, size \in Nat
  PROVE  /\ (k - 1) * size \in Nat /\ L * size \in Nat /\ e * size \in Nat
         /\ (k - 1) * size + size <= e * size
         /\ (L + k - 1) * size = L * size + (k - 1) * size
<1>1. k - 1 \in Nat /\ e - k \in Nat /\ k \in Nat
  OBVIOUS
<1>2. (k - 1) * size \in Nat /\ L * size \in Nat /\ e * size \in Nat /\ (e - k) * size \in Nat
  BY <1>1
<1>3. e * size = (k - 1) * size + size + (e - k) * size
  <2>1. e = (k - 1) + 1 + (e - k)
    BY <1>1
  <2>. QED
    BY <1>1, <2>1
<1>4. (L + k - 1) * size = L * size + (k - 1) * size
  BY <1>1
<1>. QED
  BY <1>2, <1>3, <1>4

\* The e blocks at the end of a message that are not in the past yet.
EndsLike(B, size, past, last, e, padded) ==
  /\ e \in Nat /\ last \in [1 .. e * size -> B]
  /\ \A i \in 1 .. e * size : last[i] = padded[Len(past) * size + i]
  /\ padded \in Seq(B) /\ Len(padded) = (Len(past) + e) * size

\* Past and end are the blocks of the padded message.
LEMMA BlocksJoin ==
  ASSUME NEW B, NEW size, NEW past, NEW buf, NEW used, NEW msg, NEW n, NEW last, NEW e, NEW padded,
         size \in Nat \ {0}, Holding(B, size, past, buf, used, msg, n), SameTo(n, msg, padded),
         EndsLike(B, size, past, last, e, padded)
  PROVE  past \o Blocks(last, size) = Blocks(padded, size)
<1> DEFINE L == Len(past)
           end == Blocks(last, size)
           all == past \o end
           Q == [1 .. size -> B]
           Piece(b) == Slice(padded, (b - 1) * size, size)
<1>1. L \in Nat /\ past \in Seq(Q) /\ size \in Nat
  <2>1. past \in Seq(Q)
    BY DEF Holding
  <2>. QED
    BY <2>1, SeqIsList
<1>2. /\ e \in Nat /\ last \in [1 .. e * size -> B]
      /\ \A i \in 1 .. e * size : last[i] = padded[L * size + i]
      /\ padded \in Seq(B) /\ Len(padded) = (L + e) * size
  BY DEF EndsLike
<1>3. \A b \in 1 .. L : past[b] = Piece(b)
  <2>1. Holding(B, size, past, buf, used, padded, n)
    BY <1>1, StillHolds
  <2>. QED
    BY <2>1 DEF Holding
<1>4. /\ Len(last) = e * size /\ Len(last) \div size = e
      /\ Len(padded) \div size = L + e
  <2>1. e * size \in Nat /\ (L + e) * size \in Nat /\ L + e \in Nat
    BY <1>1, <1>2
  <2>2. Len(last) = e * size
    BY <1>2, <2>1, ListIsSeq
  <2>3. \A q \in Nat : (q * size + 0) \div size = q
    <3>1. 0 \in 0 .. size - 1
      OBVIOUS
    <3>. QED
      BY <3>1, DivMod
  <2>4. (e * size + 0) \div size = e /\ ((L + e) * size + 0) \div size = L + e
    BY <1>2, <2>1, <2>3
  <2> DEFINE p == e * size
             q == (L + e) * size
  <2>5. p + 0 = p /\ q + 0 = q
    BY <2>1
  <2>. QED
    BY <1>2, <2>2, <2>4, <2>5
<1>5. ASSUME NEW k \in 1 .. e
      PROVE  Slice(last, (k - 1) * size, size) = Piece(L + k) /\ Piece(L + k) \in Q
  <2> DEFINE here == (k - 1) * size
             there == (L + k - 1) * size
             base == L * size
  <2>1. /\ here \in Nat /\ base \in Nat /\ e * size \in Nat /\ here + size <= e * size
        /\ there = base + here
    BY <1>1, <1>2, Places
  <2>2. Len(padded) = base + e * size
    <3>1. (L + e) * size = L * size + e * size
      BY <1>1, <1>2
    <3>. QED
      BY <1>2, <3>1
  <2> DEFINE wide == e * size
  <2>3. \A i \in 1 .. wide : last[i] = padded[base + i]
    BY <1>2
  <2> HIDE DEF here, there, base, wide
  <2>4. ASSUME NEW i \in 1 .. size PROVE last[here + i] = padded[there + i]
    <3>1. here + i \in 1 .. wide /\ base + (here + i) = there + i
      BY <1>1, <2>1 DEF wide
    <3>. QED
      BY <2>3, <3>1
  <2>5. Slice(last, here, size) = Slice(padded, there, size)
    BY <2>4 DEF Slice
  <2>6. Slice(padded, there, size) \in Q
    <3>1. there \in Nat /\ there + size <= Len(padded)
      BY <1>1, <2>1, <2>2 DEF wide
    <3>. QED
      BY <1>1, <1>2, <3>1, SliceItems
  <2>7. Piece(L + k) = Slice(padded, there, size)
    BY DEF there
  <2>. QED
    BY <2>5, <2>6, <2>7 DEF here
<1> HIDE DEF Piece, Q
<1>6. end = [k \in 1 .. e |-> Piece(L + k)]
  BY <1>4, <1>5 DEF Blocks
<1> HIDE DEF end
<1>7. end \in Seq(Q) /\ Len(end) = e
  <2>1. end \in [1 .. e -> Q]
    BY <1>5, <1>6
  <2>. QED
    BY <1>2, <2>1, ListIsSeq
<1>8. /\ all \in Seq(Q) /\ Len(all) = L + e
      /\ \A i \in 1 .. L : all[i] = past[i]
      /\ \A i \in 1 .. e : all[L + i] = end[i]
  BY <1>1, <1>7, Joined
<1> HIDE DEF all
<1>9. ASSUME NEW b \in 1 .. L + e PROVE all[b] = Piece(b)
  <2>1. CASE b <= L
    <3>1. b \in 1 .. L
      BY <1>1, <1>2, <2>1
    <3>. QED
      BY <1>3, <1>8, <3>1
  <2>2. CASE b > L
    <3> DEFINE k == b - L
    <3>1. k \in 1 .. e /\ L + k = b
      BY <1>1, <1>2, <2>2
    <3> HIDE DEF k
    <3>. QED
      BY <1>6, <1>8, <3>1
  <2>. QED
    BY <1>1, <1>2, <2>1, <2>2
<1>10. all = [b \in 1 .. L + e |-> Piece(b)]
  <2>1. all \in [1 .. L + e -> Q]
    BY <1>8, SeqIsList
  <2>. QED
    BY <1>9, <2>1
<1>11. Blocks(padded, size) = [b \in 1 .. L + e |-> Piece(b)]
  BY <1>4 DEF Blocks, Piece
<1>. QED
  BY <1>10, <1>11 DEF all, end

\* The padding of FIPS 180-4 behind n bytes, of which "used" are not in a block yet: e blocks
\* that hold these, the marker, zeros, and the length.

IsTail2(last, buf, used, n, wide) ==
  /\ \A i \in 1 .. used : last[i] = buf[i]
  /\ last[used + 1] = Marker
  /\ \A i \in used + 2 .. wide - 1 : last[i] = {}
  /\ last[wide] = LengthOf(n)

\* The same behind a whole message, up to the length "total".
IsPadded2(padded, msg, n, total) ==
  /\ \A i \in 1 .. n : padded[i] = msg[i]
  /\ padded[n + 1] = Marker
  /\ \A i \in n + 2 .. total - 1 : padded[i] = {}
  /\ padded[total] = LengthOf(n)

\* A context, the end that is built from its buffer, and the message with its padding.
Fitting(B, size, past, buf, used, msg, n, last, wide, padded, base, total) ==
  /\ Holding(B, size, past, buf, used, msg, n) /\ n \in Nat /\ base \in Nat /\ wide \in Nat /\ used \in Nat
  /\ base = Len(past) * size /\ n = base + used /\ total = base + wide /\ used + 1 < wide
  /\ IsTail2(last, buf, used, n, wide) /\ IsPadded2(padded, msg, n, total)

\* Byte by byte the end is that of the padded message.
LEMMA TailFits ==
  ASSUME NEW B, NEW size, NEW past, NEW buf, NEW used, NEW msg, NEW n, NEW last, NEW wide,
         NEW padded,
         NEW base, NEW total,
         Fitting(B, size, past, buf, used, msg, n, last, wide, padded, base, total)
  PROVE  \A i \in 1 .. wide : last[i] = padded[base + i]
<1>0. /\ Holding(B, size, past, buf, used, msg, n)
      /\ n \in Nat /\ base \in Nat /\ wide \in Nat /\ used \in Nat
      /\ base = Len(past) * size /\ n = base + used /\ total = base + wide /\ used + 1 < wide
  BY DEF Fitting
<1>9. IsTail2(last, buf, used, n, wide) /\ IsPadded2(padded, msg, n, total)
  BY DEF Fitting
<1>1. ASSUME NEW i \in 1 .. wide PROVE last[i] = padded[base + i]
  <2>1. CASE i <= used
    <3>1. i \in 1 .. used /\ base + i \in 1 .. n
      BY <1>0, <2>1
    <3>2. buf[i] = msg[base + i]
      BY <1>0, <3>1 DEF Holding
    <3>. QED
      BY <1>9, <3>1, <3>2 DEF IsTail2, IsPadded2
  <2>2. CASE i = used + 1
    <3>1. base + i = n + 1
      BY <1>0, <2>2
    <3>. QED
      BY <1>9, <2>2, <3>1 DEF IsTail2, IsPadded2
  <2>3. CASE i > used + 1 /\ i < wide
    <3>1. i \in used + 2 .. wide - 1 /\ base + i \in n + 2 .. total - 1
      BY <1>0, <2>3
    <3>. QED
      BY <1>9, <3>1 DEF IsTail2, IsPadded2
  <2>4. CASE i = wide
    BY <1>0, <1>9, <2>4 DEF IsTail2, IsPadded2
  <2>. QED
    BY <1>0, <2>1, <2>2, <2>3, <2>4
<1>. QED
  BY <1>1

\* How many zeros FIPS 180-4 asks for behind L blocks and "used" bytes.
PadsTo(L, size, used, n, length, zeros, e, total) ==
  /\ L \in Nat /\ size \in Nat /\ size >= 3 /\ used \in 0 .. size - 1 /\ length \in 1 .. 2
  /\ n = L * size + used /\ zeros = (-(n + 1 + length)) % size
  /\ e = IF used < size - length THEN 1 ELSE 2
  /\ total = (L + e) * size

\* With them the message ends with the block where the code puts the length.
LEMMA PaddedLength ==
  ASSUME NEW L, NEW size, NEW used, NEW n, NEW length, NEW zeros, NEW e, NEW total,
         PadsTo(L, size, used, n, length, zeros, e, total)
  PROVE  /\ zeros \in Nat /\ n \in Nat
         /\ n + 1 + zeros + length = total
         /\ used + 1 < e * size
<1>1. SUFFICES
        ASSUME L \in Nat, size \in Nat, size >= 3, used \in 0 .. size - 1, length \in 1 .. 2,
               n = L * size + used, zeros = (-(n + 1 + length)) % size,
               e = IF used < size - length THEN 1 ELSE 2, total = (L + e) * size
        PROVE  /\ zeros \in Nat /\ n \in Nat
               /\ n + 1 + zeros + length = total
               /\ used + 1 < e * size
  BY Zenon DEF PadsTo
<1> USE <1>1
<1> DEFINE p == L * size
           r == e * size - used - 1 - length
           q == -(L + e)
<1>a. p \in Nat /\ n = p + used /\ n \in Nat
  OBVIOUS
<1>2. e \in 1 .. 2 /\ (e = 1 => e * size = size) /\ (e = 2 => e * size = size + size)
  OBVIOUS
<1>3. r \in 0 .. size - 1 /\ used + 1 < e * size
  BY <1>2
<1>4. q \in Int /\ q * size = -(p + e * size) /\ e * size \in Nat
  BY <1>2
<1>5. -(n + 1 + length) = q * size + r
  <2> DEFINE w == e * size
             x == q * size
  <2>1. n = p + used /\ x = -(p + w) /\ p \in Nat /\ w \in Nat /\ r = w - used - 1 - length
    BY <1>a, <1>4
  <2> HIDE DEF p, q, w, x, r
  <2>2. -(n + 1 + length) = x + r
    BY <2>1
  <2>. QED
    BY <2>2 DEF x
<1>6. (q * size + r) % size = r
  <2> HIDE DEF q, r
  <2>1. size \in Nat \ {0}
    OBVIOUS
  <2>. QED
    BY <1>3, <1>4, <2>1, DivMod
<1>7. zeros = r
  BY <1>5, <1>6
<1>8. (L + e) * size = p + e * size
  BY <1>2
<1>. QED
  <2> DEFINE w == e * size
  <2>1. n = p + used /\ p \in Nat /\ w \in Nat /\ r = w - used - 1 - length
    BY <1>a, <1>4
  <2> HIDE DEF p, r, w
  <2>2. n + 1 + r + length = p + w
    BY <2>1
  <2>. QED
    BY <1>a, <1>3, <1>7, <1>8, <2>2 DEF w

\* What messages and paddings are made of.
IsBytes(B) == {} \in B /\ Marker \in B /\ \A n \in Nat : LengthOf(n) \in B

\* A sequence of one byte.
LEMMA OneByte ==
  ASSUME NEW B, NEW b, b \in B
  PROVE  <<b>> \in Seq(B) /\ Len(<<b>>) = 1 /\ <<b>>[1] = b
OBVIOUS

\* A sequence of zeros.
LEMMA ZeroBytes ==
  ASSUME NEW B, NEW n, n \in Nat, {} \in B
  PROVE  /\ Zeros(n) \in Seq(B) /\ Len(Zeros(n)) = n /\ Zeros(n) \in [1 .. n -> B]
         /\ \A i \in 1 .. n : Zeros(n)[i] = {}
<1>1. Zeros(n) \in [1 .. n -> B] /\ \A i \in 1 .. n : Zeros(n)[i] = {}
  BY DEF Zeros
<1>. QED
  BY <1>1, ListIsSeq

\* Two parts of a message, one behind the other.
LEMMA TwoParts ==
  ASSUME NEW B, NEW s, NEW t, NEW whole, NEW n, Follows(B, s, t, whole, n)
  PROVE  /\ whole \in Seq(B) /\ n \in Nat /\ Len(t) \in Nat /\ Len(whole) = n + Len(t)
         /\ \A i \in 1 .. n : whole[i] = s[i]
         /\ \A i \in 1 .. Len(t) : whole[n + i] = t[i]
<1>1. s \in Seq(B) /\ t \in Seq(B) /\ whole = s \o t /\ n = Len(s)
  BY DEF Follows
<1>2. /\ s \o t \in Seq(B)
      /\ Len(s) \in Nat /\ Len(t) \in Nat /\ Len(s \o t) = Len(s) + Len(t)
      /\ \A i \in 1 .. Len(s) : (s \o t)[i] = s[i]
      /\ \A i \in 1 .. Len(t) : (s \o t)[Len(s) + i] = t[i]
  BY <1>1, Joined
<1>. QED
  BY <1>1, <1>2, Zenon

\* Four parts: a message, a mark, zeros, and a last byte.
FourOf(B, msg, mark, z, last, n, total, whole) ==
  /\ msg \in Seq(B) /\ IsBytes(B) /\ mark \in B /\ last \in B /\ n = Len(msg) /\ z \in Nat
  /\ total = n + z + 2 /\ whole = msg \o <<mark>> \o Zeros(z) \o <<last>>

\* Where each of them is.
LEMMA FourParts ==
  ASSUME NEW B, NEW msg, NEW mark, NEW z, NEW last, NEW n, NEW total, NEW whole,
         FourOf(B, msg, mark, z, last, n, total, whole)
  PROVE  /\ whole \in Seq(B) /\ Len(whole) = total /\ n \in Nat
         /\ \A i \in 1 .. n : whole[i] = msg[i]
         /\ whole[n + 1] = mark /\ whole[total] = last
         /\ \A i \in n + 2 .. total - 1 : whole[i] = {}
<1> DEFINE gap == Zeros(z)
           a == msg \o <<mark>>
           b == a \o gap
           m == n + 1
           k == n + 1 + z
<1>0. msg \in Seq(B) /\ mark \in B /\ last \in B /\ n = Len(msg) /\ z \in Nat /\ total = n + z + 2
  BY DEF FourOf
<1>1. {} \in B
  BY DEF IsBytes, FourOf
<1>2. /\ <<mark>> \in Seq(B) /\ Len(<<mark>>) = 1 /\ <<mark>>[1] = mark
      /\ <<last>> \in Seq(B) /\ Len(<<last>>) = 1 /\ <<last>>[1] = last
  BY <1>0, OneByte
<1>3. gap \in Seq(B) /\ Len(gap) = z /\ \A i \in 1 .. z : gap[i] = {}
  BY <1>0, <1>1, ZeroBytes
<1> HIDE DEF gap
<1>4. /\ a \in Seq(B) /\ Len(a) = m /\ n \in Nat
      /\ \A i \in 1 .. n : a[i] = msg[i]
      /\ a[m] = mark
  <2> DEFINE one == <<mark>>
  <2>1. one \in Seq(B) /\ Len(one) = 1 /\ one[1] = mark
    BY <1>2
  <2> HIDE DEF one
  <2>2. Follows(B, msg, one, a, n)
    BY <1>0, <2>1 DEF Follows, one
  <2> HIDE DEF a
  <2>3. /\ a \in Seq(B) /\ n \in Nat /\ Len(a) = n + Len(one)
        /\ \A i \in 1 .. n : a[i] = msg[i]
        /\ \A i \in 1 .. Len(one) : a[n + i] = one[i]
    BY <2>2, TwoParts
  <2>. QED
    BY <2>1, <2>3
<1>5. /\ b \in Seq(B) /\ Len(b) = k
      /\ \A i \in 1 .. m : b[i] = a[i]
      /\ \A i \in 1 .. z : b[m + i] = {}
  <2>1. Follows(B, a, gap, b, m)
    BY <1>3, <1>4 DEF Follows
  <2> HIDE DEF a, b
  <2>2. /\ b \in Seq(B) /\ m \in Nat /\ Len(b) = m + Len(gap)
        /\ \A i \in 1 .. m : b[i] = a[i]
        /\ \A i \in 1 .. Len(gap) : b[m + i] = gap[i]
    BY <2>1, TwoParts
  <2>. QED
    BY <1>3, <2>2
<1>6. /\ whole \in Seq(B) /\ Len(whole) = k + 1
      /\ \A i \in 1 .. k : whole[i] = b[i]
      /\ whole[k + 1] = last
  <2> DEFINE one == <<last>>
  <2>1. one \in Seq(B) /\ Len(one) = 1 /\ one[1] = last
    BY <1>2
  <2> HIDE DEF one
  <2>2. whole = b \o one
    BY DEF one, gap, FourOf
  <2> HIDE DEF a, b
  <2>3. Follows(B, b, one, whole, k)
    BY <1>5, <2>1, <2>2 DEF Follows
  <2> HIDE DEF k
  <2>4. /\ whole \in Seq(B) /\ k \in Nat /\ Len(whole) = k + Len(one)
        /\ \A i \in 1 .. k : whole[i] = b[i]
        /\ \A i \in 1 .. Len(one) : whole[k + i] = one[i]
    BY <2>3, TwoParts
  <2>. QED
    BY <2>1, <2>4
<1> HIDE DEF a, b
<1>7. total = k + 1 /\ n \in Nat /\ k = m + z /\ m = n + 1
  BY <1>0, <1>4
<1> HIDE DEF k, m
<1>8. ASSUME NEW i \in 1 .. n PROVE whole[i] = msg[i]
  BY <1>0, <1>4, <1>5, <1>6, <1>7
<1>9. whole[n + 1] = mark /\ whole[total] = last
  BY <1>0, <1>4, <1>5, <1>6, <1>7
<1>10. ASSUME NEW i \in n + 2 .. total - 1 PROVE whole[i] = {}
  <2> DEFINE g == i - m
  <2>1. g \in 1 .. z /\ m + g = i /\ i \in 1 .. k
    BY <1>0, <1>7
  <2> HIDE DEF g
  <2>2. b[m + g] = {}
    BY <1>5, <2>1
  <2>. QED
    BY <1>6, <2>1, <2>2
<1>. QED
  BY <1>6, <1>7, <1>8, <1>9, <1>10

\* The last blocks, as both ways to compute them build them.
Tailing(B, size, data, from, used, n, wide, last, buf) ==
  /\ IsBytes(B) /\ size \in Nat /\ data \in Seq(B) /\ from \in Nat /\ used \in Nat /\ n \in Nat /\ wide \in Nat
  /\ from + used <= Len(data) /\ used + 1 < wide /\ wide <= 2 * size
  /\ \A i \in 1 .. used : buf[i] = data[from + i]
  /\ last = Slice(Copy(Copy(Copy(Zeros(2 * size), 0, Slice(data, from, used)), used, <<Marker>>),
                       wide - 1, <<LengthOf(n)>>), 0, wide)

\* Whichever way they are built, they are the padding behind the rest of the message.
LEMMA Tail2 ==
  ASSUME NEW B, NEW size, NEW data, NEW from, NEW used, NEW n, NEW wide, NEW last, NEW buf,
         Tailing(B, size, data, from, used, n, wide, last, buf)
  PROVE  last \in [1 .. wide -> B] /\ IsTail2(last, buf, used, n, wide)
<1>0. /\ IsBytes(B) /\ size \in Nat /\ data \in Seq(B) /\ from \in Nat /\ used \in Nat /\ n \in Nat
      /\ wide \in Nat
      /\ from + used <= Len(data) /\ used + 1 < wide /\ wide <= 2 * size
  BY DEF Tailing
<1> DEFINE room == 2 * size
           zero == Zeros(room)
           a == Copy(zero, 0, Slice(data, from, used))
           b == Copy(a, used, <<Marker>>)
           c == Copy(b, wide - 1, <<LengthOf(n)>>)
<1>1. room \in Nat /\ wide <= room /\ wide - 1 \in Nat /\ 0 + used <= room
  BY <1>0
<1>2. /\ <<Marker>> \in Seq(B) /\ Len(<<Marker>>) = 1 /\ <<Marker>>[1] = Marker
      /\ <<LengthOf(n)>> \in Seq(B) /\ Len(<<LengthOf(n)>>) = 1 /\ <<LengthOf(n)>>[1] = LengthOf(n)
      /\ {} \in B
  <2>1. Marker \in B /\ LengthOf(n) \in B /\ {} \in B
    BY <1>0 DEF IsBytes
  <2> HIDE DEF c
  <2>. QED
    BY <2>1, OneByte
<1>3. IsBuffer(B, room, zero) /\ \A i \in 1 .. room : zero[i] = {}
  BY <1>1, <1>2, ZeroBytes DEF IsBuffer
<1>4. last = Slice(c, 0, wide)
  BY DEF Tailing
<1> HIDE DEF room, zero
<1>5. IsBuffer(B, room, a) /\ Replaces(room, a, zero, 0, data, from, used)
  BY <1>0, <1>1, <1>3, Poured
<1> HIDE DEF a
<1>6. IsBuffer(B, room, b) /\ Replaces(room, b, a, used, <<Marker>>, 0, 1)
  <2> DEFINE one == <<Marker>>
  <2>1. one \in Seq(B) /\ Len(one) = 1 /\ used + Len(one) <= room
    BY <1>0, <1>1, <1>2
  <2> HIDE DEF one
  <2>2. IsBuffer(B, room, Copy(a, used, one)) /\ Replaces(room, Copy(a, used, one), a, used, one, 0, Len(one))
    BY <1>0, <1>1, <1>5, <2>1, Copied
  <2>. QED
    BY <2>1, <2>2 DEF one
<1> HIDE DEF b
<1>7. IsBuffer(B, room, c) /\ Replaces(room, c, b, wide - 1, <<LengthOf(n)>>, 0, 1)
  <2> DEFINE one == <<LengthOf(n)>>
             at == wide - 1
  <2>1. one \in Seq(B) /\ Len(one) = 1 /\ at \in Nat /\ at + Len(one) <= room
    BY <1>0, <1>1, <1>2
  <2> HIDE DEF one, at
  <2>2. IsBuffer(B, room, Copy(b, at, one)) /\ Replaces(room, Copy(b, at, one), b, at, one, 0, Len(one))
    BY <1>1, <1>6, <2>1, Copied
  <2>. QED
    BY <2>1, <2>2 DEF one, at
<1> HIDE DEF c
<1>8. last \in [1 .. wide -> B] /\ \A i \in 1 .. wide : last[i] = c[i]
  <2>1. c \in Seq(B) /\ Len(c) = room
    BY <1>1, <1>7, ListIsSeq DEF IsBuffer
  <2>2. /\ Slice(c, 0, wide) \in [1 .. wide -> B]
        /\ \A i \in 1 .. wide : Slice(c, 0, wide)[i] = c[0 + i]
    <3>1. 0 \in Nat /\ 0 + wide <= Len(c) /\ wide \in Nat
      BY <1>0, <1>1, <2>1
    <3>. QED
      BY <2>1, <3>1, SliceItems
  <2>3. \A i \in 1 .. wide : 0 + i = i
    OBVIOUS
  <2>. QED
    BY <1>4, <2>2, <2>3
<1>9. ASSUME NEW i \in 1 .. wide
      PROVE  last[i] = IF i = wide THEN LengthOf(n) ELSE IF i = used + 1 THEN Marker
                       ELSE IF i <= used THEN data[from + i] ELSE {}
  <2>1. i \in 1 .. room /\ i \in Nat /\ used \in Nat /\ wide \in Nat /\ used + 1 < wide
    BY <1>0, <1>1
  <2>2. c[i] = IF i <= wide - 1 \/ i > wide - 1 + 1 THEN b[i] ELSE <<LengthOf(n)>>[0 + (i - (wide - 1))]
    BY <1>7, <2>1 DEF Replaces
  <2>3. b[i] = IF i <= used \/ i > used + 1 THEN a[i] ELSE <<Marker>>[0 + (i - used)]
    BY <1>6, <2>1 DEF Replaces
  <2>4. a[i] = IF i <= 0 \/ i > 0 + used THEN zero[i] ELSE data[from + (i - 0)]
    BY <1>5, <2>1 DEF Replaces
  <2>5. i = wide => c[i] = LengthOf(n)
    <3>1. i = wide => 0 + (i - (wide - 1)) = 1 /\ ~(i <= wide - 1 \/ i > wide - 1 + 1)
      BY <2>1
    <3>. QED
      BY <1>2, <2>2, <3>1
  <2>6. i # wide => c[i] = b[i]
    BY <2>1, <2>2
  <2>7. i = used + 1 => b[i] = Marker
    <3>1. i = used + 1 => 0 + (i - used) = 1 /\ ~(i <= used \/ i > used + 1)
      BY <2>1
    <3>. QED
      BY <1>2, <2>3, <3>1
  <2>8. i # used + 1 => b[i] = a[i]
    BY <2>1, <2>3
  <2>9. a[i] = IF i <= used THEN data[from + i] ELSE {}
    <3>1. i - 0 = i /\ ~(i <= 0) /\ 0 + used = used
      BY <2>1
    <3>2. zero[i] = {}
      BY <1>3, <2>1
    <3>. QED
      BY <2>1, <2>4, <3>1, <3>2
  <2>. QED
    BY <1>8, <2>1, <2>5, <2>6, <2>7, <2>8, <2>9
<1>10. ASSUME NEW i \in 1 .. used PROVE last[i] = buf[i]
  <2>1. i \in 1 .. wide /\ i # wide /\ i # used + 1 /\ i <= used
    BY <1>0
  <2>2. last[i] = data[from + i]
    BY <1>9, <2>1
  <2>3. buf[i] = data[from + i]
    BY DEF Tailing
  <2>. QED
    BY <2>2, <2>3
<1>11. last[used + 1] = Marker /\ last[wide] = LengthOf(n)
  <2>1. used + 1 \in 1 .. wide /\ used + 1 # wide /\ wide \in 1 .. wide
    BY <1>0
  <2>. QED
    BY <1>9, <2>1
<1>12. ASSUME NEW i \in used + 2 .. wide - 1 PROVE last[i] = {}
  <2>1. i \in 1 .. wide /\ i # wide /\ i # used + 1 /\ ~(i <= used)
    BY <1>0
  <2>. QED
    BY <1>9, <2>1
<1>. QED
  BY <1>8, <1>10, <1>11, <1>12 DEF IsTail2

\* A length field is one or two words.
LEMMA Sha2Length ==
  ASSUME NEW alg, alg \in DOMAIN Sha2 PROVE Sha2[alg].length \in 1 .. 2
BY DEF Sha2

\* A message whose first L blocks are in the past, and the rest of it.
Cut(alg, msg, n, L, used, e) ==
  /\ alg \in DOMAIN Sha2 /\ n = Len(msg) /\ L \in Nat /\ used \in 0 .. Block - 1 /\ n = L * Block + used
  /\ e = IF used < Block - Sha2[alg].length THEN 1 ELSE 2

\* The padding of FIPS 180-4 ends where the last of these e blocks ends.
Padding2(B, alg, msg, n, L, used, e, padded, total) ==
  /\ msg \in Seq(B) /\ IsBytes(B) /\ Cut(alg, msg, n, L, used, e)
  /\ padded = Padded2(alg, msg) /\ total = (L + e) * Block

\* The padded message is as long as that, and what IsPadded2 says.
LEMMA PaddedParts ==
  ASSUME NEW B, NEW alg, NEW msg, NEW n, NEW L, NEW used, NEW e, NEW padded, NEW total,
         Padding2(B, alg, msg, n, L, used, e, padded, total)
  PROVE  /\ padded \in Seq(B) /\ Len(padded) = total /\ n \in Nat /\ e \in 1 .. 2
         /\ IsPadded2(padded, msg, n, total) /\ SameTo(n, msg, padded) /\ used + 1 < e * Block
<1> DEFINE length == Sha2[alg].length
           zeros == (-(Len(msg) + 1 + length)) % Block
           z == zeros + length - 1
<1>0. /\ msg \in Seq(B) /\ IsBytes(B) /\ Cut(alg, msg, n, L, used, e)
      /\ padded = Padded2(alg, msg) /\ total = (L + e) * Block
  BY DEF Padding2
<1>1. /\ alg \in DOMAIN Sha2 /\ n = Len(msg) /\ L \in Nat /\ used \in 0 .. Block - 1 /\ n = L * Block + used
      /\ e = IF used < Block - length THEN 1 ELSE 2
  BY <1>0 DEF Cut
<1>2. length \in 1 .. 2 /\ Block \in Nat /\ Block >= 3
  BY <1>1, Sha2Length, HashShape
<1>3. zeros = (-(n + 1 + length)) % Block
  BY <1>1
<1>4. padded = msg \o <<Marker>> \o Zeros(z) \o <<LengthOf(n)>>
  BY <1>0, <1>1, Zenon DEF Padded2
<1> HIDE DEF length
<1>5. zeros \in Nat /\ n \in Nat /\ n + 1 + zeros + length = total /\ used + 1 < e * Block
  <2>1. total = (L + e) * Block
    BY <1>0
  <2> HIDE DEF zeros
  <2>2. PadsTo(L, Block, used, n, length, zeros, e, total)
    BY <1>1, <1>2, <1>3, <2>1, Zenon DEF PadsTo
  <2>. QED
    BY <2>2, PaddedLength
<1> HIDE DEF zeros
<1>6. z \in Nat /\ total = n + z + 2
  BY <1>2, <1>5
<1> HIDE DEF z
<1>7. LengthOf(n) \in B /\ Marker \in B
  BY <1>0, <1>1, <1>5 DEF IsBytes
<1>8. FourOf(B, msg, Marker, z, LengthOf(n), n, total, padded)
  BY <1>0, <1>1, <1>4, <1>6, <1>7, Zenon DEF FourOf
<1>10. /\ padded \in Seq(B) /\ Len(padded) = total /\ n \in Nat
       /\ \A i \in 1 .. n : padded[i] = msg[i]
       /\ padded[n + 1] = Marker /\ padded[total] = LengthOf(n)
       /\ \A i \in n + 2 .. total - 1 : padded[i] = {}
  BY <1>8, FourParts
<1>11. IsPadded2(padded, msg, n, total) /\ SameTo(n, msg, padded)
  BY <1>10 DEF IsPadded2, SameTo
<1>12. e \in 1 .. 2
  BY <1>1
<1>. QED
  BY <1>5, <1>10, <1>11, <1>12, Zenon

\* What is compressed in the end, when the rest of the message is in "data".
Ending2(B, alg, past, buf, used, msg, n, data, from, end, last) ==
  /\ Holding(B, Block, past, buf, used, msg, n) /\ IsBytes(B) /\ msg \in Seq(B) /\ n = Len(msg)
  /\ alg \in DOMAIN Sha2 /\ data \in Seq(B) /\ from \in Nat /\ from + used <= Len(data)
  /\ \A i \in 1 .. used : buf[i] = data[from + i]
  /\ end = IF used < Block - Sha2[alg].length THEN Block ELSE 2 * Block
  /\ last = Slice(Copy(Copy(Copy(Zeros(2 * Block), 0, Slice(data, from, used)), used, <<Marker>>),
                       end - 1, <<LengthOf(n)>>), 0, end)

\* Past and last blocks are the blocks of the padded message.
LEMMA Ended2 ==
  ASSUME NEW B, NEW alg, NEW past, NEW buf, NEW used, NEW msg, NEW n, NEW data, NEW from, NEW end,
         NEW last,
         Ending2(B, alg, past, buf, used, msg, n, data, from, end, last)
  PROVE  past \o Blocks(last, Block) = Blocks(Padded2(alg, msg), Block)
<1> DEFINE L == Len(past)
           e == IF used < Block - Sha2[alg].length THEN 1 ELSE 2
           padded == Padded2(alg, msg)
           total == (L + e) * Block
           base == L * Block
<1>1. /\ Holding(B, Block, past, buf, used, msg, n) /\ IsBytes(B) /\ msg \in Seq(B) /\ n = Len(msg)
      /\ alg \in DOMAIN Sha2 /\ data \in Seq(B) /\ from \in Nat /\ from + used <= Len(data)
      /\ \A i \in 1 .. used : buf[i] = data[from + i]
      /\ end = IF used < Block - Sha2[alg].length THEN Block ELSE 2 * Block
  BY DEF Ending2
<1>2. last = Slice(Copy(Copy(Copy(Zeros(2 * Block), 0, Slice(data, from, used)), used, <<Marker>>),
                        end - 1, <<LengthOf(n)>>), 0, end)
  BY DEF Ending2
<1>3. Block \in Nat /\ Block >= 3
  BY HashShape
<1>4. /\ used \in Nat /\ used \in 0 .. Block - 1 /\ L \in Nat /\ base \in Nat /\ n = base + used
      /\ past \in Seq([1 .. Block -> B])
  <2>1. /\ used \in Nat /\ used < Block /\ n = L * Block + used /\ past \in Seq([1 .. Block -> B])
    BY <1>1 DEF Holding
  <2>2. L \in Nat
    BY <2>1, SeqIsList
  <2>3. L * Block \in Nat
    BY <1>3, <2>2
  <2>. QED
    BY <1>3, <2>1, <2>2, <2>3
<1>5. /\ end = e * Block /\ end \in Nat /\ end <= 2 * Block /\ total = base + end
  <2>1. e \in 1 .. 2 /\ (e = 1 <=> used < Block - Sha2[alg].length)
    OBVIOUS
  <2> HIDE DEF e
  <2>2. e = 1 => e * Block = Block
    BY <1>3
  <2>3. e = 2 => e * Block = 2 * Block
    BY <1>3
  <2>4. end = e * Block
    BY <1>1, <2>1, <2>2, <2>3
  <2>5. (L + e) * Block = L * Block + e * Block
    BY <1>3, <1>4, <2>1
  <2>. QED
    BY <1>3, <2>1, <2>2, <2>3, <2>4, <2>5
<1>6. Cut(alg, msg, n, L, used, e)
  BY <1>1, <1>4 DEF Cut
<1> HIDE DEF e, padded, total, base
<1>7. /\ padded \in Seq(B) /\ Len(padded) = total /\ n \in Nat /\ e \in 1 .. 2
      /\ IsPadded2(padded, msg, n, total) /\ SameTo(n, msg, padded) /\ used + 1 < e * Block
  <2>1. padded = Padded2(alg, msg) /\ total = (L + e) * Block
    BY DEF padded, total
  <2> HIDE DEF L
  <2>. QED
    <3>1. Padding2(B, alg, msg, n, L, used, e, padded, total)
      BY <1>1, <1>6, <2>1, Zenon DEF Padding2
    <3>. QED
      BY <3>1, PaddedParts
<1>8. last \in [1 .. end -> B] /\ IsTail2(last, buf, used, n, end)
  <2>1. used + 1 < end
    BY <1>5, <1>7
  <2> HIDE DEF L
  <2>. QED
    <3>1. Tailing(B, Block, data, from, used, n, end, last, buf)
      BY <1>1, <1>2, <1>3, <1>4, <1>5, <1>7, <2>1, Zenon DEF Tailing
    <3>. QED
      BY <3>1, Tail2
<1>9. \A i \in 1 .. end : last[i] = padded[base + i]
  <2>1. base = Len(past) * Block /\ n = base + used /\ total = base + end /\ used + 1 < end
    BY <1>4, <1>5, <1>7 DEF base
  <2> HIDE DEF L
  <2>. QED
    <3>1. Fitting(B, Block, past, buf, used, msg, n, last, end, padded, base, total)
      BY <1>1, <1>4, <1>5, <1>7, <1>8, <2>1, Zenon DEF Fitting
    <3>. QED
      BY <3>1, TailFits
<1>10. EndsLike(B, Block, past, last, e, padded)
  BY <1>5, <1>7, <1>8, <1>9 DEF EndsLike, base, total
<1>. QED
  <2>1. Block \in Nat \ {0}
    BY <1>3
  <2>. QED
    BY <1>1, <1>7, <1>10, <2>1, BlocksJoin DEF padded

\* A function of this kind is none of the other.
LEMMA OfSha2 ==
  ASSUME NEW alg, alg \in DOMAIN Sha2 PROVE alg # "sha3"
BY DEF Sha2

\* A context that has taken a whole message.
Finishing2(B, c, alg, msg, n) ==
  /\ Sha2Has(B, c, alg, n, msg, n) /\ msg \in Seq(B) /\ n = Len(msg) /\ IsBytes(B) /\ alg \in DOMAIN Sha2

\* Finish: what was compressed is the padded message.
LEMMA Sha2Finished ==
  ASSUME NEW B, NEW c, NEW alg, NEW msg, NEW n, Finishing2(B, c, alg, msg, n)
  PROVE  /\ Sha2Finish(c) = [alg |-> alg, past |-> Blocks(Padded2(alg, msg), Block), buf |-> c.buf,
                             used |-> c.used, total |-> n]
         /\ Sha2Digest(Sha2Finish(c)) = HashOf(alg, msg)
<1> DEFINE past == c.past
           buf == c.buf
           used == c.used
           end == IF used < Block - Sha2[alg].length THEN Block ELSE 2 * Block
           last == Slice(Copy(Copy(Copy(Zeros(2 * Block), 0, Slice(buf, 0, used)), used, <<Marker>>),
                              end - 1, <<LengthOf(n)>>), 0, end)
           all == Blocks(Padded2(alg, msg), Block)
<1>1. Sha2Has(B, c, alg, n, msg, n) /\ msg \in Seq(B) /\ n = Len(msg) /\ IsBytes(B) /\ alg \in DOMAIN Sha2
  BY DEF Finishing2
<1>2. /\ c = [alg |-> alg, past |-> past, buf |-> buf, used |-> used, total |-> n]
      /\ Holding(B, Block, past, buf, used, msg, n)
  BY <1>1 DEF Sha2Has
<1> HIDE DEF past, buf, used
<1>3. used \in Nat /\ used < Block /\ IsBuffer(B, Block, buf)
  BY <1>2 DEF Holding
<1>4. buf \in Seq(B) /\ Len(buf) = Block
  BY <1>3, HashShape, ListIsSeq DEF IsBuffer
<1>5. \A i \in 1 .. used : buf[i] = buf[0 + i]
  BY <1>3
<1>6. 0 \in Nat /\ 0 + used <= Len(buf)
  BY <1>3, <1>4, HashShape
<1>7. Ending2(B, alg, past, buf, used, msg, n, buf, 0, end, last)
  BY <1>1, <1>2, <1>4, <1>5, <1>6, Zenon DEF Ending2
<1>8. past \o Blocks(last, Block) = all
  <2> HIDE DEF end, last
  <2>. QED
    BY <1>7, Ended2
<1> DEFINE finished == [c EXCEPT !.past = all]
<1>9. Sha2Finish(c) = finished
  <2>1. c.past = past /\ c.buf = buf /\ c.used = used /\ c.total = n /\ c.alg = alg
    BY <1>2
  <2>2. Sha2Finish(c) = [c EXCEPT !.past = c.past \o Blocks(last, Block)]
    BY <2>1, Zenon DEF Sha2Finish
  <2>. QED
    BY <1>8, <2>1, <2>2, Zenon
<1> HIDE DEF all, last, end
<1>10. finished \in [alg : {alg}, past : {all}, buf : {buf}, used : {used}, total : {n}]
  BY <1>2
<1> HIDE DEF finished
<1>11. finished = [alg |-> alg, past |-> all, buf |-> buf, used |-> used, total |-> n]
  BY <1>10
<1>12. Sha2Digest(finished) = Digest(alg, all, Sha2[alg].digest)
  <2>1. finished.alg = alg /\ finished.past = all
    BY <1>11
  <2>. QED
    BY <2>1, Zenon DEF Sha2Digest
<1>13. HashOf(alg, msg) = Digest(alg, all, Sha2[alg].digest)
  BY <1>1, OfSha2, Zenon DEF HashOf, all
<1>. QED
  BY <1>9, <1>11, <1>12, <1>13, Zenon DEF all, buf, used

\* The functions for a message that is there as a whole compress the same blocks.
LEMMA OneShotHashes ==
  ASSUME NEW B, NEW alg, NEW msg, msg \in Seq(B), IsBytes(B), alg \in DOMAIN Sha2
  PROVE  OneShot(alg, msg) = HashOf(alg, msg)
<1> DEFINE n == Len(msg)
           L == Len(msg) \div Block
           used == Len(msg) % Block
           from == L * Block
           past == Blocks(msg, Block)
           buf == Copy(Zeros(Block), 0, Slice(msg, from, used))
           end == IF used < Block - Sha2[alg].length THEN Block ELSE 2 * Block
           last == Slice(Copy(Copy(Copy(Zeros(2 * Block), 0, Slice(msg, from, used)), used, <<Marker>>),
                              end - 1, <<LengthOf(n)>>), 0, end)
<1>1. Block \in Nat /\ Block >= 3 /\ n \in Nat
  BY HashShape, SeqIsList
<1>2. L \in Nat /\ used \in 0 .. Block - 1 /\ from \in Nat /\ n = from + used
  BY <1>1
<1> HIDE DEF n, used, from
<1>3. past = [b \in 1 .. L |-> Slice(msg, (b - 1) * Block, Block)]
  BY DEF Blocks
<1> HIDE DEF past
<1>4. past \in Seq([1 .. Block -> B]) /\ Len(past) = L
  <2>1. ASSUME NEW b \in 1 .. L PROVE Slice(msg, (b - 1) * Block, Block) \in [1 .. Block -> B]
    <3>1. (b - 1) * Block \in Nat /\ (b - 1) * Block + Block <= L * Block
      <4> HIDE DEF L
      <4>. QED
        BY <1>1, <1>2, Places
    <3> DEFINE at == (b - 1) * Block
    <3>2. at \in Nat /\ at + Block <= n
      <4>1. at + Block <= from
        BY <3>1 DEF from
      <4> HIDE DEF L, at
      <4>. QED
        BY <1>1, <1>2, <3>1, <4>1 DEF at
    <3> HIDE DEF at
    <3>3. Slice(msg, at, Block) \in [1 .. Block -> B]
      BY <1>1, <3>2, SliceItems DEF n
    <3>. QED
      BY <3>3 DEF at
  <2>2. past \in [1 .. L -> [1 .. Block -> B]]
    <3> HIDE DEF L
    <3>. QED
      BY <1>3, <2>1
  <2>3. L \in Nat
    BY <1>2
  <2> HIDE DEF L
  <2>. QED
    BY <2>2, <2>3, ListIsSeq
<1> DEFINE rest == Slice(msg, from, used)
<1>5. rest \in Seq(B) /\ Len(rest) = used /\ \A i \in 1 .. used : rest[i] = msg[from + i]
  <2>1. used \in Nat /\ from + used <= Len(msg)
    BY <1>1, <1>2 DEF n
  <2> HIDE DEF L
  <2>. QED
    BY <1>2, <2>1, SliceItems
<1> HIDE DEF L
<1>6. IsBuffer(B, Block, buf) /\ \A i \in 1 .. used : buf[i] = msg[from + i]
  <2>1. {} \in B
    BY DEF IsBytes
  <2> DEFINE zero == Zeros(Block)
  <2>2. IsBuffer(B, Block, zero)
    BY <1>1, <2>1, ZeroBytes DEF IsBuffer
  <2>3. used \in Nat /\ from + used <= Len(msg) /\ 0 + used <= Block
    BY <1>1, <1>2 DEF n
  <2> HIDE DEF zero
  <2>4. IsBuffer(B, Block, Copy(zero, 0, Slice(msg, from, used)))
        /\ Replaces(Block, Copy(zero, 0, Slice(msg, from, used)), zero, 0, msg, from, used)
    BY <1>1, <1>2, <2>2, <2>3, Poured
  <2>5. buf = Copy(zero, 0, Slice(msg, from, used))
    BY DEF zero
  <2> HIDE DEF buf
  <2>6. IsBuffer(B, Block, buf) /\ Replaces(Block, buf, zero, 0, msg, from, used)
    BY <2>4, <2>5
  <2>7. ASSUME NEW i \in 1 .. used PROVE buf[i] = msg[from + i]
    <3>1. i \in 1 .. Block /\ ~(i <= 0 \/ i > 0 + used) /\ i - 0 = i
      BY <1>1, <1>2
    <3>2. buf[i] = msg[from + (i - 0)]
      BY <2>6, <3>1 DEF Replaces
    <3>. QED
      BY <3>1, <3>2
  <2>. QED
    BY <2>6, <2>7
<1> HIDE DEF buf
<1>7. Holding(B, Block, past, buf, used, msg, n)
  <2>1. used \in Nat /\ used < Block /\ n = Len(past) * Block + used
    BY <1>1, <1>2, <1>4 DEF from
  <2>2. \A b \in 1 .. Len(past) : past[b] = Slice(msg, (b - 1) * Block, Block)
    BY <1>3, <1>4
  <2>3. \A i \in 1 .. used : buf[i] = msg[Len(past) * Block + i]
    BY <1>4, <1>6 DEF from
  <2>. QED
    BY <1>4, <1>6, <2>1, <2>2, <2>3, Zenon DEF Holding
<1>8. Ending2(B, alg, past, buf, used, msg, n, msg, from, end, last)
  <2>1. from + used <= Len(msg)
    BY <1>1, <1>2 DEF n
  <2>. QED
    BY <1>2, <1>6, <1>7, <2>1, Zenon DEF Ending2, n
<1>9. past \o Blocks(last, Block) = Blocks(Padded2(alg, msg), Block)
  <2> HIDE DEF end, last
  <2>. QED
    BY <1>8, Ended2
<1>10. OneShot(alg, msg) = Digest(alg, past \o Blocks(last, Block), Sha2[alg].digest)
  BY Zenon DEF OneShot, past, n, L, used, from
<1>11. HashOf(alg, msg) = Digest(alg, Blocks(Padded2(alg, msg), Block), Sha2[alg].digest)
  BY OfSha2, Zenon DEF HashOf
<1>. QED
  BY <1>9, <1>10, <1>11, Zenon

-----------------------------------------------------------------------------
(* Messages of several parts, and HMAC.                                      *)

\* Any context of these functions, whatever it was used for.
IsSha2(B, c) ==
  /\ c = [alg |-> c.alg, past |-> c.past, buf |-> c.buf, used |-> c.used, total |-> c.total]
  /\ IsBuffer(B, Block, c.buf)

\* A sequence of nothing.
LEMMA Empty ==
  ASSUME NEW B PROVE <<>> \in Seq(B) /\ Len(<<>>) = 0
OBVIOUS

\* Nothing in front of a sequence.
LEMMA EmptyFirst ==
  ASSUME NEW B, NEW s, s \in Seq(B) PROVE <<>> \o s = s
<1> DEFINE t == <<>> \o s
<1>1. /\ t \in Seq(B) /\ Len(s) \in Nat /\ Len(t) = 0 + Len(s)
      /\ \A i \in 1 .. Len(s) : t[0 + i] = s[i]
  <2>1. <<>> \in Seq(B) /\ Len(<<>>) = 0
    BY Empty
  <2> DEFINE e == <<>>
  <2> HIDE DEF e
  <2>2. e \in Seq(B) /\ Len(e) = 0
    BY <2>1 DEF e
  <2>3. Follows(B, e, s, e \o s, 0)
    BY <2>2 DEF Follows
  <2> DEFINE w == e \o s
  <2> HIDE DEF w
  <2>4. /\ w \in Seq(B) /\ Len(s) \in Nat /\ Len(w) = 0 + Len(s)
        /\ \A i \in 1 .. Len(s) : w[0 + i] = s[i]
    <3>1. Follows(B, e, s, w, 0)
      BY <2>3 DEF w
    <3>. QED
      BY <3>1, TwoParts
  <2>5. t = w
    BY DEF w, e
  <2> HIDE DEF t
  <2>. QED
    BY <2>4, <2>5
<1> HIDE DEF t
<1>2. Len(t) = Len(s) /\ \A i \in 1 .. Len(s) : t[i] = s[i]
  <2>1. \A i \in 1 .. Len(s) : 0 + i = i
    BY <1>1
  <2>. QED
    BY <1>1, <2>1
<1>3. s \in [1 .. Len(s) -> B] /\ t \in [1 .. Len(s) -> B]
  BY <1>1, <1>2, SeqIsList
<1>4. s = t
  BY <1>2, <1>3
<1>. QED
  BY <1>4 DEF t

\* A sequence of some bytes is one of more bytes.
LEMMA MoreBytes ==
  ASSUME NEW B, NEW C, NEW s, s \in Seq(B), B \subseteq C PROVE s \in Seq(C)
<1>1. Len(s) \in Nat /\ s \in [1 .. Len(s) -> B]
  BY SeqIsList
<1>2. s \in [1 .. Len(s) -> C]
  BY <1>1
<1>. QED
  BY <1>1, <1>2, ListIsSeq

\* Start: whatever the context was, it has taken nothing of the new message.
LEMMA Sha2Started ==
  ASSUME NEW B, NEW c, NEW alg, IsSha2(B, c)
  PROVE  Sha2Has(B, Sha2Init(c, alg), alg, 0, <<>>, 0)
<1> DEFINE d == Sha2Init(c, alg)
           empty == <<>>
<1>1. /\ c = [alg |-> c.alg, past |-> c.past, buf |-> c.buf, used |-> c.used, total |-> c.total]
      /\ IsBuffer(B, Block, c.buf)
  BY DEF IsSha2
<1>2. d \in [alg : {alg}, past : {empty}, buf : {c.buf}, used : {0}, total : {0}]
  <2> HIDE DEF empty
  <2>1. d = [c EXCEPT !.alg = alg, !.past = empty, !.used = 0, !.total = 0]
    BY DEF Sha2Init, empty
  <2> HIDE DEF d
  <2>. QED
    BY <1>1, <2>1
<1>3. empty \in Seq([1 .. Block -> B]) /\ Len(empty) = 0
  BY Empty
<1> HIDE DEF d, empty
<1>4. d = [alg |-> alg, past |-> empty, buf |-> c.buf, used |-> 0, total |-> 0]
  BY <1>2
<1>5. Holding(B, Block, empty, c.buf, 0, empty, 0)
  <2>1. 0 = Len(empty) * Block + 0 /\ 0 \in Nat /\ 0 < Block
    BY <1>3, HashShape
  <2>. QED
    BY <1>1, <1>3, <2>1 DEF Holding
<1>6. Sha2Has(B, d, alg, 0, empty, 0)
  BY <1>4, <1>5 DEF Sha2Has
<1>. QED
  BY <1>6 DEF d, empty

\* After Finish it is a context again.
LEMMA Sha2Remains ==
  ASSUME NEW B, NEW c, NEW alg, NEW total, NEW msg, NEW n, Sha2Has(B, c, alg, total, msg, n)
  PROVE  IsSha2(B, c)
<1>1. /\ c = [alg |-> alg, past |-> c.past, buf |-> c.buf, used |-> c.used, total |-> total]
      /\ IsBuffer(B, Block, c.buf)
  BY DEF Sha2Has, Holding
<1>. QED
  BY <1>1 DEF IsSha2

\* A part of a message after another one.
LEMMA Sha2More ==
  ASSUME NEW B, NEW c, NEW alg, NEW msg, NEW data, Sha2Has(B, c, alg, Len(msg), msg, Len(msg)),
         msg \in Seq(B), data \in Seq(B)
  PROVE  /\ Sha2Has(B, Sha2Update(c, data), alg, Len(msg \o data), msg \o data, Len(msg \o data))
         /\ msg \o data \in Seq(B)
<1> DEFINE whole == msg \o data
           base == Len(msg)
           total == base + Len(data)
<1>1. Follows(B, msg, data, whole, base)
  BY DEF Follows
<1>2. Sha2Has(B, c, alg, base, msg, base) /\ total = base + Len(data)
  OBVIOUS
<1>3. whole \in Seq(B) /\ Len(whole) = base + Len(data)
  <2> HIDE DEF whole, base
  <2>. QED
    BY <1>1, TwoParts
<1>4. Sha2Has(B, Sha2Update(c, data), alg, total, whole, total)
  <2> HIDE DEF whole, base, total
  <2>. QED
    BY <1>1, <1>2, Sha2Fed
<1>5. total = Len(whole)
  BY <1>3
<1>. QED
  <2> HIDE DEF whole, base, total
  <2>1. whole \in Seq(B) /\ Sha2Has(B, Sha2Update(c, data), alg, Len(whole), whole, Len(whole))
    BY <1>3, <1>4, <1>5
  <2>. QED
    BY <2>1, Zenon DEF whole

\* The hash of a message in one part.
LEMMA Sha2OfOne ==
  ASSUME NEW B, NEW c, NEW alg, NEW a, IsSha2(B, c), IsBytes(B), a \in Seq(B), alg \in DOMAIN Sha2
  PROVE  Sha2Digest(Sha2Finish(Sha2Update(Sha2Init(c, alg), a))) = HashOf(alg, a)
<1> DEFINE one == Sha2Update(Sha2Init(c, alg), a)
           empty == <<>>
<1>1. empty \in Seq(B) /\ Len(empty) = 0 /\ empty \o a = a
  BY Empty, EmptyFirst
<1>2. Sha2Has(B, Sha2Init(c, alg), alg, 0, empty, 0)
  BY Sha2Started
<1> HIDE DEF empty
<1>3. Sha2Has(B, Sha2Init(c, alg), alg, Len(empty), empty, Len(empty))
  BY <1>1, <1>2
<1>4. Sha2Has(B, one, alg, Len(empty \o a), empty \o a, Len(empty \o a))
  BY <1>1, <1>3, Sha2More
<1> HIDE DEF one
<1> DEFINE n == Len(a)
<1>5. Sha2Has(B, one, alg, n, a, n)
  BY <1>1, <1>4
<1>6. Finishing2(B, one, alg, a, n)
  BY <1>5 DEF Finishing2
<1> HIDE DEF n
<1>7. Sha2Digest(Sha2Finish(one)) = HashOf(alg, a)
  BY <1>6, Sha2Finished
<1>. QED
  BY <1>7 DEF one

\* The hash of a message in two parts, and that the context is one for another message.
LEMMA Sha2OfTwo ==
  ASSUME NEW B, NEW c, NEW alg, NEW a, NEW b,
         IsSha2(B, c), IsBytes(B), a \in Seq(B), b \in Seq(B), alg \in DOMAIN Sha2
  PROVE  /\ Sha2Digest(Sha2Finish(Sha2Update(Sha2Update(Sha2Init(c, alg), a), b))) = HashOf(alg, a \o b)
         /\ IsSha2(B, Sha2Finish(Sha2Update(Sha2Update(Sha2Init(c, alg), a), b)))
<1> DEFINE one == Sha2Update(Sha2Init(c, alg), a)
           two == Sha2Update(one, b)
           empty == <<>>
           ab == a \o b
<1>1. empty \in Seq(B) /\ Len(empty) = 0 /\ empty \o a = a
  BY Empty, EmptyFirst
<1>2. Sha2Has(B, Sha2Init(c, alg), alg, 0, empty, 0)
  BY Sha2Started
<1> HIDE DEF empty
<1>3. Sha2Has(B, Sha2Init(c, alg), alg, Len(empty), empty, Len(empty))
  BY <1>1, <1>2
<1>4. Sha2Has(B, one, alg, Len(empty \o a), empty \o a, Len(empty \o a))
  BY <1>1, <1>3, Sha2More
<1> HIDE DEF one
<1>5. Sha2Has(B, one, alg, Len(a), a, Len(a))
  BY <1>1, <1>4
<1> DEFINE n == Len(ab)
<1>6. Sha2Has(B, two, alg, n, ab, n) /\ ab \in Seq(B)
  BY <1>5, Sha2More
<1> HIDE DEF two, ab
<1>7. Finishing2(B, two, alg, ab, n)
  BY <1>6 DEF Finishing2
<1> HIDE DEF n
<1>8. /\ Sha2Finish(two) = [alg |-> alg, past |-> Blocks(Padded2(alg, ab), Block), buf |-> two.buf,
                            used |-> two.used, total |-> n]
      /\ Sha2Digest(Sha2Finish(two)) = HashOf(alg, ab)
  BY <1>7, Sha2Finished
<1>9. IsBuffer(B, Block, two.buf)
  BY <1>6, Sha2Remains DEF IsSha2
<1> DEFINE done == Sha2Finish(two)
           all == Blocks(Padded2(alg, ab), Block)
<1> HIDE DEF done, all
<1>10. done = [alg |-> alg, past |-> all, buf |-> two.buf, used |-> two.used, total |-> n]
  BY <1>8 DEF done, all
<1>11. IsSha2(B, done)
  BY <1>9, <1>10 DEF IsSha2
<1>. QED
  BY <1>8, <1>11, Zenon DEF ab, done, two, one

\* A new context is a context.
LEMMA NewIsSha2 ==
  ASSUME NEW B, {} \in B PROVE IsSha2(B, Sha2New)
<1>1. IsBuffer(B, Block, Zeros(Block))
  BY HashShape, ZeroBytes DEF IsBuffer
<1>. QED
  BY <1>1 DEF IsSha2, Sha2New

\* A digest is a list of its bytes.
LEMMA DigestItems ==
  ASSUME NEW alg, NEW blocks, NEW n, n \in Nat
  PROVE  /\ Digest(alg, blocks, n) \in Seq({OutputByte(alg, blocks, i) : i \in 1 .. n})
         /\ Len(Digest(alg, blocks, n)) = n
<1> DEFINE D == {OutputByte(alg, blocks, i) : i \in 1 .. n}
           d == Digest(alg, blocks, n)
<1>1. d \in [1 .. n -> D]
  BY DEF Digest
<1> HIDE DEF d, D
<1>2. d \in Seq(D) /\ Len(d) = n
  BY <1>1, ListIsSeq
<1>. QED
  BY <1>2 DEF d, D

\* A hash is a list of as many items as its function has.
LEMMA HashItems ==
  ASSUME NEW alg, NEW msg, alg \in DOMAIN Sha2
  PROVE  /\ Sha2[alg].digest \in 1 .. 2 /\ Len(HashOf(alg, msg)) = Sha2[alg].digest
         /\ \E D : HashOf(alg, msg) \in Seq(D)
<1>1. Sha2[alg].digest \in 1 .. 2
  BY DEF Sha2
<1> DEFINE m == Sha2[alg].digest
           blocks == Blocks(Padded2(alg, msg), Block)
<1>2. HashOf(alg, msg) = Digest(alg, blocks, m)
  BY OfSha2, Zenon DEF HashOf
<1>3. m \in Nat
  BY <1>1
<1> HIDE DEF blocks, m
<1>4. /\ Digest(alg, blocks, m) \in Seq({OutputByte(alg, blocks, i) : i \in 1 .. m})
      /\ Len(Digest(alg, blocks, m)) = m
  BY <1>3, DigestItems
<1>. QED
  BY <1>1, <1>2, <1>4, Zenon DEF m

\* The key, or its hash, and zeros.
LEMMA KeyPadded ==
  ASSUME NEW K, NEW key, NEW size, size \in Nat, key \in Seq(K), Len(key) <= size
  PROVE  /\ Copy(Zeros(size), 0, key) = key \o Zeros(size - Len(key))
         /\ \E C : Copy(Zeros(size), 0, key) \in [1 .. size -> C]
<1> DEFINE C == K \cup {{}}
           zero == Zeros(size)
           k == Copy(zero, 0, key)
           gap == Zeros(size - Len(key))
           j == key \o gap
           n == Len(key)
<1>1. n \in Nat /\ key \in Seq(C) /\ {} \in C
  BY SeqIsList, MoreBytes
<1>2. size - n \in Nat
  BY <1>1
<1> HIDE DEF C
<1>3. zero \in [1 .. size -> C] /\ \A i \in 1 .. size : zero[i] = {}
  BY <1>1, ZeroBytes
<1>4. gap \in Seq(C) /\ Len(gap) = size - n /\ \A i \in 1 .. size - n : gap[i] = {}
  BY <1>1, <1>2, ZeroBytes
<1> HIDE DEF zero, gap
<1>5. IsBuffer(C, size, k) /\ Replaces(size, k, zero, 0, key, 0, n)
  <2>1. IsBuffer(C, size, zero) /\ 0 + Len(key) <= size /\ 0 \in Nat
    BY <1>1, <1>3 DEF IsBuffer
  <2>. QED
    BY <1>1, <2>1, Copied
<1>6. Follows(C, key, gap, j, n)
  BY <1>1, <1>4 DEF Follows
<1> HIDE DEF k, j, n
<1>7. /\ j \in Seq(C) /\ Len(j) = size
      /\ \A i \in 1 .. n : j[i] = key[i]
      /\ \A i \in 1 .. size - n : j[n + i] = {}
  <2>1. /\ j \in Seq(C) /\ Len(j) = n + Len(gap)
        /\ \A i \in 1 .. n : j[i] = key[i]
        /\ \A i \in 1 .. Len(gap) : j[n + i] = gap[i]
    BY <1>6, TwoParts
  <2>2. n + (size - n) = size
    BY <1>1
  <2>. QED
    BY <1>4, <2>1, <2>2
<1>8. k \in [1 .. size -> C] /\ j \in [1 .. size -> C]
  BY <1>5, <1>7, SeqIsList DEF IsBuffer
<1>9. ASSUME NEW i \in 1 .. size PROVE k[i] = j[i]
  <2>1. k[i] = IF i <= 0 \/ i > 0 + n THEN zero[i] ELSE key[0 + (i - 0)]
    BY <1>5 DEF Replaces
  <2>2. CASE i <= n
    <3>1. ~(i <= 0 \/ i > 0 + n) /\ 0 + (i - 0) = i /\ i \in 1 .. n
      BY <1>1, <2>2
    <3>. QED
      BY <1>7, <2>1, <3>1
  <2>3. CASE i > n
    <3> DEFINE g == i - n
    <3>1. i > 0 + n /\ g \in 1 .. size - n /\ n + g = i
      BY <1>1, <2>3
    <3> HIDE DEF g
    <3>2. j[n + g] = {}
      BY <1>7, <3>1
    <3>. QED
      BY <1>3, <2>1, <3>1, <3>2
  <2>. QED
    BY <1>1, <2>2, <2>3
<1>10. k = j
  BY <1>8, <1>9
<1>. QED
  BY <1>8, <1>10, Zenon DEF k, j, n, zero, gap

\* The bytes of messages and paddings may be among more.
LEMMA MoreIsBytes ==
  ASSUME NEW B, NEW C, B \subseteq C
  PROVE  (IsBytes(B) => IsBytes(C)) /\ (\A c : IsSha2(B, c) => IsSha2(C, c))
<1>1. IsBytes(B) => IsBytes(C)
  BY DEF IsBytes
<1>2. ASSUME NEW c, IsSha2(B, c) PROVE IsSha2(C, c)
  <2>1. c.buf \in [1 .. Block -> B]
    BY <1>2 DEF IsSha2, IsBuffer
  <2>2. c.buf \in [1 .. Block -> C]
    BY <2>1
  <2>. QED
    BY <1>2, <2>2, Zenon DEF IsSha2, IsBuffer
<1>. QED
  BY <1>1, <1>2

\* The key with a byte added to each of its bytes.
Padded(k, pad, size) == [i \in 1 .. size |-> Xor(k[i], {<<pad>>})]

\* It is a sequence of some bytes.
LEMMA PaddedItems ==
  ASSUME NEW k, NEW pad, NEW size, size \in Nat
  PROVE  \E A : Padded(k, pad, size) \in Seq(A) /\ Len(Padded(k, pad, size)) = size
<1> DEFINE A == {Xor(k[i], {<<pad>>}) : i \in 1 .. size}
           p == Padded(k, pad, size)
<1>1. p \in [1 .. size -> A]
  BY DEF Padded
<1> HIDE DEF p, A
<1>2. p \in Seq(A) /\ Len(p) = size
  BY <1>1, ListIsSeq
<1>. QED
  BY <1>2 DEF p

\* The inner hash of HMAC, of a message behind a block made of the key.
Macking(B, c, alg, msg, ikey, okey, inner) ==
  /\ IsSha2(B, c) /\ IsBytes(B) /\ msg \in Seq(B) /\ alg \in DOMAIN Sha2
  /\ \E A : ikey \in Seq(A)
  /\ \E A : okey \in Seq(A)
  /\ inner = Sha2Finish(Sha2Update(Sha2Update(Sha2Init(c, alg), ikey), msg))

\* One hash in another, by one context.
LEMMA Mac2 ==
  ASSUME NEW B, NEW c, NEW alg, NEW msg, NEW ikey, NEW okey, NEW inner,
         Macking(B, c, alg, msg, ikey, okey, inner)
  PROVE  Sha2Digest(Sha2Finish(Sha2Update(Sha2Update(Sha2Init(inner, alg), okey), Sha2Digest(inner))))
           = HashOf(alg, okey \o HashOf(alg, ikey \o msg))
<1>1. /\ IsSha2(B, c) /\ IsBytes(B) /\ msg \in Seq(B) /\ alg \in DOMAIN Sha2
      /\ inner = Sha2Finish(Sha2Update(Sha2Update(Sha2Init(c, alg), ikey), msg))
  BY DEF Macking
<1>2. PICK I : ikey \in Seq(I)
  BY DEF Macking
<1>3. PICK O : okey \in Seq(O)
  BY DEF Macking
<1> DEFINE once == HashOf(alg, ikey \o msg)
<1>4. PICK D : once \in Seq(D)
  BY <1>1, HashItems, Zenon
<1> HIDE DEF once
<1> DEFINE C == B \cup I \cup O \cup D
<1>5. IsSha2(C, c) /\ IsBytes(C)
  <2>1. B \subseteq C
    OBVIOUS
  <2> HIDE DEF C
  <2>. QED
    BY <1>1, <2>1, MoreIsBytes
<1>6. msg \in Seq(C) /\ ikey \in Seq(C) /\ okey \in Seq(C) /\ once \in Seq(C)
  <2>1. B \subseteq C /\ I \subseteq C /\ O \subseteq C /\ D \subseteq C
    OBVIOUS
  <2> HIDE DEF C
  <2>. QED
    BY <1>1, <1>2, <1>3, <1>4, <2>1, MoreBytes
<1> HIDE DEF C
<1>7. Sha2Digest(inner) = once /\ IsSha2(C, inner)
  <2> DEFINE in == Sha2Finish(Sha2Update(Sha2Update(Sha2Init(c, alg), ikey), msg))
  <2>1. alg \in DOMAIN Sha2 /\ inner = in
    BY <1>1
  <2>2. Sha2Digest(in) = HashOf(alg, ikey \o msg) /\ IsSha2(C, in)
    BY <1>5, <1>6, <2>1, Sha2OfTwo
  <2> HIDE DEF in
  <2>. QED
    BY <2>1, <2>2 DEF once
<1>8. Sha2Digest(Sha2Finish(Sha2Update(Sha2Update(Sha2Init(inner, alg), okey), once)))
        = HashOf(alg, okey \o once)
  <2>1. alg \in DOMAIN Sha2 /\ IsBytes(C) /\ IsSha2(C, inner) /\ okey \in Seq(C) /\ once \in Seq(C)
    BY <1>1, <1>5, <1>6, <1>7
  <2>2. /\ Sha2Digest(Sha2Finish(Sha2Update(Sha2Update(Sha2Init(inner, alg), okey), once)))
             = HashOf(alg, okey \o once)
        /\ IsSha2(C, Sha2Finish(Sha2Update(Sha2Update(Sha2Init(inner, alg), okey), once)))
    BY <2>1, Sha2OfTwo
  <2>. QED
    BY <2>2
<1>. QED
  BY <1>7, <1>8, Zenon DEF once

\* HMAC as RFC 2104 defines it, by the two blocks made of the key.
LEMMA HmacOf ==
  ASSUME NEW alg, NEW key, NEW msg, NEW k, alg \in DOMAIN Sha2,
         k = LET short == IF Len(key) > Block THEN HashOf(alg, key) ELSE key
             IN  short \o Zeros(Block - Len(short))
  PROVE  Hmac(alg, key, msg)
           = HashOf(alg, Padded(k, "opad", Block) \o HashOf(alg, Padded(k, "ipad", Block) \o msg))
<1>1. alg # "sha3"
  BY OfSha2
<1>. QED
  BY <1>1, Zenon DEF Hmac, Padded

\* HMAC of all three functions.
LEMMA HmacSha2 ==
  ASSUME NEW B, NEW K, NEW c, NEW alg, NEW key, NEW msg,
         IsSha2(B, c), IsBytes(B), msg \in Seq(B), key \in Seq(K), alg \in DOMAIN Sha2
  PROVE  /\ HmacSha512(alg, c, key, msg) = Hmac(alg, key, msg)
         /\ alg = "sha256" => HmacSha256(c, key, msg) = Hmac(alg, key, msg)
<1> DEFINE hashed == Sha2Digest(Sha2Finish(Sha2Update(Sha2Init(Sha2New, alg), key)))
           short == IF Len(key) > Block THEN HashOf(alg, key) ELSE key
           k == short \o Zeros(Block - Len(short))
           ikey == Padded(k, "ipad", Block)
           okey == Padded(k, "opad", Block)
           inner == Sha2Finish(Sha2Update(Sha2Update(Sha2Init(c, alg), ikey), msg))
           mac == Sha2Digest(Sha2Finish(Sha2Update(Sha2Update(Sha2Init(inner, alg), okey), Sha2Digest(inner))))
<1> DEFINE C == B \cup K
<1>1. IsBytes(C) /\ key \in Seq(C)
  <2>1. B \subseteq C /\ K \subseteq C
    OBVIOUS
  <2> HIDE DEF C
  <2>. QED
    BY <2>1, MoreIsBytes, MoreBytes
<1> HIDE DEF C
<1>2. hashed = HashOf(alg, key)
  <2>1. IsSha2(C, Sha2New)
    BY <1>1, NewIsSha2 DEF IsBytes
  <2>. QED
    BY <1>1, <2>1, Sha2OfOne
<1>3. OneShot(alg, key) = HashOf(alg, key)
  BY <1>1, OneShotHashes
<1>4. \E S : short \in Seq(S) /\ Len(short) <= Block
  <2>1. CASE Len(key) > Block
    <3>1. Len(HashOf(alg, key)) <= Block /\ \E D : HashOf(alg, key) \in Seq(D)
      BY HashItems, HashShape, SMTT(30)
    <3>. QED
      BY <2>1, <3>1
  <2>2. CASE ~(Len(key) > Block)
    <3>1. Len(key) <= Block
      BY <1>1, <2>2, HashShape, SeqIsList
    <3>. QED
      BY <2>2, <3>1
  <2>. QED
    BY <2>1, <2>2
<1> HIDE DEF hashed
<1>5. Copy(Zeros(Block), 0, short) = k
  <2> HIDE DEF short
  <2>1. PICK S : short \in Seq(S) /\ Len(short) <= Block
    BY <1>4
  <2>. QED
    BY <2>1, HashShape, KeyPadded
<1>6. Hmac(alg, key, msg) = HashOf(alg, okey \o HashOf(alg, ikey \o msg))
  BY HmacOf, ZenonT(40)
<1>7. mac = HashOf(alg, okey \o HashOf(alg, ikey \o msg))
  <2> HIDE DEF k
  <2>1. (\E A : ikey \in Seq(A)) /\ (\E A : okey \in Seq(A))
    BY HashShape, PaddedItems, Zenon
  <2> HIDE DEF ikey, okey
  <2>2. Macking(B, c, alg, msg, ikey, okey, inner)
    BY <2>1, Zenon DEF Macking
  <2> HIDE DEF inner
  <2>. QED
    BY <2>2, Mac2
<1>8. HmacSha512(alg, c, key, msg) = mac
  <2>1. Copy(Zeros(Block), 0, IF Len(key) > Block THEN hashed ELSE key) = k
    BY <1>2, <1>5, Zenon
  <2>2. HmacSha512(alg, c, key, msg)
          = LET kprime == Copy(Zeros(Block), 0, IF Len(key) > Block THEN hashed ELSE key)
                in == Sha2Finish(Sha2Update(Sha2Update(Sha2Init(c, alg), Padded(kprime, "ipad", Block)), msg))
            IN  Sha2Digest(Sha2Finish(Sha2Update(Sha2Update(Sha2Init(in, alg), Padded(kprime, "opad", Block)),
                                                 Sha2Digest(in))))
    BY Zenon DEF HmacSha512, Padded, hashed
  <2> HIDE DEF k
  <2>. QED
    BY <2>1, <2>2, Zenon
<1>9. alg = "sha256" => HmacSha256(c, key, msg) = mac
  <2>1. SUFFICES ASSUME alg = "sha256" PROVE HmacSha256(c, key, msg) = mac
    OBVIOUS
  <2>2. Copy(Zeros(Block), 0, IF Len(key) > Block THEN OneShot(alg, key) ELSE key) = k
    BY <1>3, <1>5, Zenon
  <2>3. HmacSha256(c, key, msg)
          = LET kprime == Copy(Zeros(Block), 0, IF Len(key) > Block THEN OneShot(alg, key) ELSE key)
                in == Sha2Finish(Sha2Update(Sha2Update(Sha2Init(c, alg), Padded(kprime, "ipad", Block)), msg))
            IN  Sha2Digest(Sha2Finish(Sha2Update(Sha2Update(Sha2Init(in, alg), Padded(kprime, "opad", Block)),
                                                 Sha2Digest(in))))
    BY <2>1, Zenon DEF HmacSha256, Padded
  <2> HIDE DEF k
  <2>. QED
    BY <2>2, <2>3, Zenon
<1>. QED
  BY <1>6, <1>7, <1>8, <1>9, Zenon

-----------------------------------------------------------------------------
(* Sha3Ctx, and the padding of FIPS 202, whose two marks may meet in a byte. *)

\* A SHA-3 context that has taken the first n bytes of msg since it was set up.
Sha3Has(B, c, msg, n) ==
  /\ c = [past |-> c.past, buf |-> c.buf, used |-> c.used]
  /\ Holding(B, Rate, c.past, c.buf, c.used, msg, n)

\* A turn of its update.
Sha3Turning(B, data, done, whole, base, n, c, t, n2) ==
  /\ done \in Nat /\ base \in Nat /\ data \in Seq(B) /\ done < Len(data) /\ {} \in B
  /\ Behind(whole, base, data)
  /\ Sha3Has(B, c, whole, n)
  /\ n = base + done /\ t = Sha3Take(c, data, done) /\ n2 = base + t.done

\* It takes at least one byte, and the context has then taken it.
LEMMA Sha3Turn ==
  ASSUME NEW B, NEW data, NEW done, NEW whole, NEW base, NEW n, NEW c, NEW t, NEW n2,
         Sha3Turning(B, data, done, whole, base, n, c, t, n2)
  PROVE  /\ t = [ctx |-> t.ctx, done |-> t.done]
         /\ t.done \in Nat /\ t.done > done /\ t.done <= Len(data)
         /\ Sha3Has(B, t.ctx, whole, n2)
<1>1. /\ done \in Nat /\ base \in Nat /\ data \in Seq(B) /\ done < Len(data) /\ {} \in B
      /\ Behind(whole, base, data)
      /\ Sha3Has(B, c, whole, n)
      /\ n = base + done /\ t = Sha3Take(c, data, done) /\ n2 = base + t.done
  BY DEF Sha3Turning
<1> DEFINE past == c.past
           buf == c.buf
           used == c.used
           take == Taken(data, done, Rate - used)
           next == Copy(buf, used, Slice(data, done, take))
           longer == Compressed(past, next)
           u2 == used + take
           d2 == done + take
           m2 == base + d2
           zero == Zeros(Rate)
<1>2. /\ c = [past |-> past, buf |-> buf, used |-> used]
      /\ Holding(B, Rate, past, buf, used, whole, n)
  BY <1>1 DEF Sha3Has
<1>3. /\ used \in Nat /\ take \in Nat /\ u2 <= Rate
      /\ d2 \in Nat /\ d2 > done /\ d2 <= Len(data)
      /\ IsBuffer(B, Rate, next)
      /\ u2 < Rate => Holding(B, Rate, past, next, u2, whole, m2)
      /\ u2 = Rate => Holding(B, Rate, longer, next, 0, whole, m2)
  <2>1. Behind(whole, base, data) /\ n = base + done /\ Holding(B, Rate, past, buf, used, whole, n)
    BY <1>1, <1>2
  <2>2. Rate \in Nat
    BY HashShape
  <2>3. Filling(B, Rate, data, done, whole, base, n, past, buf, used, take, next, longer, u2, d2, m2)
    BY <1>1, <2>1, <2>2, Zenon DEF Filling
  <2> HIDE DEF past, buf, used, take, next, longer, u2, d2, m2
  <2>. QED
    BY <2>3, Fill
<1>4. IsBuffer(B, Rate, zero)
  BY <1>1, HashShape, ZeroBytes DEF IsBuffer
<1> HIDE DEF zero
<1>5. /\ u2 = Rate =>
           t = [ctx |-> [past |-> longer, buf |-> zero, used |-> 0], done |-> d2]
      /\ u2 # Rate =>
           t = [ctx |-> [past |-> past, buf |-> next, used |-> u2], done |-> d2]
  <2>1. t = Sha3Take(c, data, done)
    BY <1>1
  <2>2. /\ take = Taken(data, done, Rate - used)
        /\ next = Copy(buf, used, Slice(data, done, take))
        /\ longer = Compressed(past, next) /\ u2 = used + take /\ d2 = done + take
    OBVIOUS
  <2>3. c = [past |-> past, buf |-> buf, used |-> used]
    BY <1>2
  <2> HIDE DEF past, buf, used, take, next, longer, u2, d2
  <2>4. c.past = past /\ c.buf = buf /\ c.used = used
    BY <2>3
  <2> DEFINE filled == [c EXCEPT !.buf = next, !.used = u2]
             absorbed == [filled EXCEPT !.past = longer, !.buf = zero]
             begun == [absorbed EXCEPT !.used = 0]
  <2>5. filled \in [past : {past}, buf : {next}, used : {u2}]
    BY <2>3
  <2> HIDE DEF filled
  <2>6. filled = [past |-> past, buf |-> next, used |-> u2]
    BY <2>5
  <2>7. absorbed \in [past : {longer}, buf : {zero}, used : {u2}]
    BY <2>6
  <2>8. filled.past = past /\ filled.buf = next /\ filled.used = u2
    BY <2>6
  <2>9. AbsorbBlock(filled) = absorbed
    BY <2>2, <2>8, Zenon DEF AbsorbBlock, zero
  <2> HIDE DEF absorbed
  <2>10. absorbed = [past |-> longer, buf |-> zero, used |-> u2]
    BY <2>7
  <2>11. begun \in [past : {longer}, buf : {zero}, used : {0}]
    BY <2>10
  <2>12. t = [ctx |-> IF filled.used = Rate THEN [AbsorbBlock(filled) EXCEPT !.used = 0] ELSE filled,
              done |-> d2]
    BY <2>1, <2>2, <2>4, Zenon DEF Sha3Take, filled
  <2>13. t = [ctx |-> IF u2 = Rate THEN begun ELSE filled, done |-> d2]
    BY <2>8, <2>9, <2>12, Zenon
  <2> HIDE DEF begun
  <2>14. begun = [past |-> longer, buf |-> zero, used |-> 0]
    BY <2>11
  <2>. QED
    BY <2>6, <2>13, <2>14, Zenon
<1>6. n2 = base + t.done
  BY <1>1
<1>7. Rate \in Nat
  BY HashShape
<1> HIDE DEF past, buf, take, used, next, longer, u2
<1>8. CASE u2 = Rate
  <2>1. /\ t.ctx = [past |-> longer, buf |-> zero, used |-> 0]
        /\ t.done = d2
    BY <1>5, <1>8
  <2>2. Holding(B, Rate, longer, next, 0, whole, m2) /\ n2 = m2
    BY <1>3, <1>6, <1>8, <2>1
  <2> HIDE DEF m2
  <2>3. Holding(B, Rate, longer, zero, 0, whole, m2)
    BY <1>4, <2>2, Emptied
  <2>4. Sha3Has(B, t.ctx, whole, n2)
    BY <2>1, <2>2, <2>3 DEF Sha3Has
  <2>. QED
    BY <1>3, <1>5, <1>8, <2>1, <2>4
<1>9. CASE u2 # Rate
  <2>1. u2 < Rate
    BY <1>3, <1>7, <1>9 DEF u2
  <2>2. /\ t.ctx = [past |-> past, buf |-> next, used |-> u2]
        /\ t.done = d2
    BY <1>5, <1>9
  <2>3. Holding(B, Rate, past, next, u2, whole, m2) /\ n2 = m2
    BY <1>3, <1>6, <2>1, <2>2
  <2>4. Sha3Has(B, t.ctx, whole, n2)
    <3> HIDE DEF m2
    <3>. QED
      BY <2>2, <2>3 DEF Sha3Has
  <2>. QED
    BY <1>3, <1>5, <1>9, <2>2, <2>4
<1>. QED
  BY <1>8, <1>9

\* Where the loop stays.
Sha3Contexts(B) == [past : Seq([1 .. Rate -> B]), buf : [1 .. Rate -> B], used : Nat]

\* A context that has taken something is one of them.
LEMMA Sha3Typed ==
  ASSUME NEW B, NEW c, NEW msg, NEW n, Sha3Has(B, c, msg, n)
  PROVE  c \in Sha3Contexts(B)
<1>1. c = [past |-> c.past, buf |-> c.buf, used |-> c.used]
  BY DEF Sha3Has
<1>2. c.past \in Seq([1 .. Rate -> B]) /\ c.buf \in [1 .. Rate -> B] /\ c.used \in Nat
  BY DEF Sha3Has, Holding, IsBuffer
<1>. QED
  BY <1>1, <1>2 DEF Sha3Contexts

\* Update of a context: it has then taken the data too, and no other byte.
LEMMA Sha3Fed ==
  ASSUME NEW B, NEW c, NEW msg, NEW data, NEW whole, NEW base, NEW total, {} \in B,
         Sha3Has(B, c, msg, base), Follows(B, msg, data, whole, base), total = base + Len(data)
  PROVE  Sha3Has(B, Sha3Update(c, data), whole, total)
<1> DEFINE n == Len(data)
           start == [ctx |-> c, done |-> 0]
           S == {t \in [ctx : Sha3Contexts(B), done : 0 .. n] :
                   Sha3Has(B, t.ctx, whole, base + t.done)}
           Turn(t) == IF t.done = n THEN t ELSE Sha3Take(t.ctx, data, t.done)
           turn == [t \in S |-> Turn(t)]
           done == [t \in S |-> t.done]
<1>1. /\ data \in Seq(B) /\ base \in Nat /\ n \in Nat /\ total = base + n
      /\ Behind(whole, base, data) /\ SameTo(base, msg, whole)
  BY BehindMsg
<1>2. start \in S
  <2>1. /\ c = [past |-> c.past, buf |-> c.buf, used |-> c.used]
        /\ Holding(B, Rate, c.past, c.buf, c.used, msg, base)
    BY DEF Sha3Has
  <2>2. Holding(B, Rate, c.past, c.buf, c.used, whole, base)
    BY <1>1, <2>1, HashShape, StillHolds
  <2>3. Sha3Has(B, c, whole, base)
    BY <2>1, <2>2 DEF Sha3Has
  <2>4. c \in Sha3Contexts(B)
    BY <2>3, Sha3Typed
  <2>5. start = [ctx |-> c, done |-> 0] /\ 0 \in 0 .. n /\ base + 0 = base
    BY <1>1
  <2> HIDE DEF start, n
  <2>. QED
    BY <2>3, <2>4, <2>5
<1>3. ASSUME NEW t \in S PROVE Turn(t) \in S /\ (Turn(t).done = n \/ Turn(t).done > t.done)
  <2>1. CASE t.done = n
    BY <2>1
  <2>2. CASE t.done # n
    <3> DEFINE r == Sha3Take(t.ctx, data, t.done)
               m == base + t.done
               n2 == base + r.done
    <3>1. t.done \in Nat /\ t.done < Len(data) /\ t.done \in 0 .. n /\ Sha3Has(B, t.ctx, whole, m)
      BY <1>1, <2>2
    <3>2. m = base + t.done /\ r = Sha3Take(t.ctx, data, t.done) /\ n2 = base + r.done
      OBVIOUS
    <3>3. Turn(t) = r
      BY <2>2
    <3> HIDE DEF r, m, n2, S, Turn
    <3>4. /\ r = [ctx |-> r.ctx, done |-> r.done]
          /\ r.done \in Nat /\ r.done > t.done /\ r.done <= Len(data)
          /\ Sha3Has(B, r.ctx, whole, n2)
      <4>1. Sha3Turning(B, data, t.done, whole, base, m, t.ctx, r, n2)
        BY <1>1, <3>1, <3>2 DEF Sha3Turning
      <4>. QED
        BY <4>1, Sha3Turn
    <3>5. r.ctx \in Sha3Contexts(B)
      BY <3>4, Sha3Typed
    <3>6. r.done \in 0 .. n
      BY <1>1, <3>4
    <3> HIDE DEF n
    <3>7. r \in S
      BY <3>2, <3>4, <3>5, <3>6 DEF S
    <3>. QED
      BY <3>3, <3>4, <3>7
  <2>. QED
    BY <2>1, <2>2
<1>4. IsLoop(S, start, turn, n, done)
  <2>1. \A t \in S : t.done \in 0 .. n
    OBVIOUS
  <2> HIDE DEF S, Turn
  <2>2. /\ turn \in [S -> S]
        /\ done \in [S -> 0 .. n]
        /\ \A t \in S : done[turn[t]] = n \/ done[turn[t]] > done[t]
    BY <1>3, <2>1
  <2> HIDE DEF turn, done, start, n
  <2>. QED
    BY <1>1, <1>2, <2>2 DEF IsLoop
<1> DEFINE after == CHOOSE after : after = [k \in Nat |-> IF k = 0 THEN start ELSE Turn(after[k - 1])]
<1>5. Sha3Update(c, data) = after[n].ctx
  BY DEF Sha3Update, Loop
<1>6. after = [k \in Nat |-> IF k = 0 THEN start ELSE Turn(after[k - 1])]
  <2> HIDE DEF S, start
  <2>1. PICK f : f \in [Nat -> S] /\ IsRun(S, start, turn, f)
    <3> HIDE DEF turn, done, n
    <3>. QED
      BY <1>4, LoopRuns
  <2> HIDE DEF Turn
  <2>2. \A k \in Nat : f[k + 1] = Turn(f[k])
    BY <2>1 DEF IsRun
  <2>3. f = [k \in Nat |-> IF k = 0 THEN start ELSE Turn(f[k - 1])]
    <3>1. \A k \in Nat : k # 0 => k - 1 \in Nat /\ k - 1 + 1 = k
      OBVIOUS
    <3>. QED
      BY <2>1, <2>2, <3>1 DEF IsRun
  <2>. QED
    BY <2>3
<1> HIDE DEF S, Turn, start, after
<1>7. after[n] \in S /\ done[after[n]] = n
  <2>1. IsRun(S, start, turn, after)
    BY <1>6 DEF IsRun
  <2> HIDE DEF turn, done, n
  <2>. QED
    BY <1>4, <2>1, LoopEnds
<1>8. after[n].done = n /\ Sha3Has(B, after[n].ctx, whole, base + after[n].done)
  BY <1>7 DEF S
<1>. QED
  BY <1>1, <1>5, <1>8

\* Three parts of a message, either two of them first.
LEMMA ThreeParts ==
  ASSUME NEW B, NEW s, NEW t, NEW u, s \in Seq(B), t \in Seq(B), u \in Seq(B)
  PROVE  (s \o t) \o u = s \o (t \o u)
BY ConcatAssociative

\* What the padding of FIPS 202 is made of.
IsBytes3(B, alg) ==
  IsBytes(B) /\ DomainOf(alg) \in B /\ Last \in B /\ DomainOf(alg) \cup Last \in B

\* A block that ends a message: its last bytes, the domain, zeros and the last bit, or both
\* in one byte.
IsTail3(last, buf, used, alg) ==
  /\ \A i \in 1 .. used : last[i] = buf[i]
  /\ \A i \in used + 2 .. Rate - 1 : last[i] = {}
  /\ used + 1 = Rate => last[Rate] = DomainOf(alg) \cup Last
  /\ used + 1 # Rate => last[used + 1] = DomainOf(alg) /\ last[Rate] = Last

\* A padded message.
IsPadded3(padded, msg, n, total, alg) ==
  /\ \A i \in 1 .. n : padded[i] = msg[i]
  /\ \A i \in n + 2 .. total - 1 : padded[i] = {}
  /\ n + 1 = total => padded[total] = DomainOf(alg) \cup Last
  /\ n + 1 # total => padded[n + 1] = DomainOf(alg) /\ padded[total] = Last

\* A message of whole blocks and a rest, and its padding.
Padding3(B, alg, msg, n, base, used, padded, total) ==
  /\ msg \in Seq(B) /\ IsBytes3(B, alg) /\ n = Len(msg) /\ base \in Nat /\ used \in 0 .. Rate - 1
  /\ n = base + used /\ Len(msg) % Rate = used
  /\ padded = Padded3(alg, msg) /\ total = base + Rate

\* It ends with the block of the rest, and is what IsPadded3 says.
LEMMA Padded3Parts ==
  ASSUME NEW B, NEW alg, NEW msg, NEW n, NEW base, NEW used, NEW padded, NEW total,
         Padding3(B, alg, msg, n, base, used, padded, total)
  PROVE  /\ padded \in Seq(B) /\ Len(padded) = total /\ n \in Nat
         /\ IsPadded3(padded, msg, n, total, alg)
<1> DEFINE fill == Rate - used
           z == fill - 2
           D == DomainOf(alg)
           both == D \cup Last
<1>1. /\ msg \in Seq(B) /\ IsBytes3(B, alg) /\ n = Len(msg) /\ base \in Nat /\ used \in 0 .. Rate - 1
      /\ n = base + used /\ total = base + Rate
  BY DEF Padding3
<1>2. padded = msg \o (IF fill = 1 THEN <<both>> ELSE <<D>> \o Zeros(z) \o <<Last>>)
  BY Zenon DEF Padding3, Padded3
<1>3. Rate \in Nat /\ fill \in Nat /\ fill >= 1 /\ n \in Nat /\ total = n + fill
  BY <1>1, HashShape
<1>4. D \in B /\ Last \in B /\ both \in B /\ {} \in B
  BY <1>1 DEF IsBytes3, IsBytes
<1> HIDE DEF D, both
<1>5. CASE fill = 1
  <2> DEFINE one == <<both>>
  <2>1. one \in Seq(B) /\ Len(one) = 1 /\ one[1] = both
    BY <1>4, OneByte
  <2>2. padded = msg \o one
    BY <1>2, <1>5
  <2> HIDE DEF one
  <2>3. Follows(B, msg, one, padded, n)
    BY <1>1, <2>1, <2>2 DEF Follows
  <2>4. /\ padded \in Seq(B) /\ Len(padded) = n + Len(one)
        /\ \A i \in 1 .. n : padded[i] = msg[i]
        /\ \A i \in 1 .. Len(one) : padded[n + i] = one[i]
    BY <2>3, TwoParts
  <2>5. padded[n + 1] = both /\ n + 1 = total
    BY <1>3, <1>5, <2>1, <2>4
  <2>6. IsPadded3(padded, msg, n, total, alg)
    <3>1. \A i \in n + 2 .. total - 1 : FALSE
      BY <1>3, <2>5
    <3>. QED
      BY <2>4, <2>5, <3>1, Zenon DEF IsPadded3, both, D
  <2>. QED
    BY <1>3, <2>1, <2>4, <2>5, <2>6
<1>6. CASE fill # 1
  <2> DEFINE one == <<D>>
             gap == Zeros(z)
             tip == <<Last>>
             a == msg \o one
             g == one \o gap
             whole == a \o gap \o tip
  <2>1. z \in Nat /\ total = n + z + 2
    BY <1>3, <1>6
  <2> HIDE DEF z
  <2>2. one \in Seq(B) /\ gap \in Seq(B) /\ tip \in Seq(B)
    BY <1>4, <2>1, OneByte, ZeroBytes
  <2> HIDE DEF one, gap, tip
  <2>3. g \in Seq(B) /\ a \in Seq(B)
    BY <1>1, <2>2, ConcatProperties
  <2>4. whole = padded
    <3>1. padded = msg \o (g \o tip)
      BY <1>2, <1>6, Zenon DEF one, gap, tip
    <3>1a. ASSUME NEW x, NEW y, NEW w, x \in Seq(B), y \in Seq(B), w \in Seq(B)
           PROVE  (x \o y) \o w = x \o (y \o w)
      BY <3>1a, ThreeParts
    <3>2. (msg \o one) \o gap = msg \o (one \o gap)
      BY <1>1, <2>2, <3>1a, SMTT(30)
    <3> DEFINE h == one \o gap
               ag == (msg \o one) \o gap
    <3>3. h \in Seq(B)
      BY <2>3
    <3>4. ag = msg \o h
      BY <3>2
    <3> HIDE DEF h
    <3>5. (msg \o h) \o tip = msg \o (h \o tip)
      <4>1. msg \in Seq(B) /\ h \in Seq(B) /\ tip \in Seq(B)
        BY <1>1, <2>2, <3>3
      <4>. QED
        BY <3>1a, <4>1
    <3>. QED
      BY <3>1, <3>4, <3>5, Zenon DEF h
  <2>5. FourOf(B, msg, D, z, Last, n, total, padded)
    <3>1. padded = msg \o <<D>> \o Zeros(z) \o <<Last>>
      BY <2>4, Zenon DEF one, gap, tip
    <3>2. IsBytes(B)
      BY <1>1 DEF IsBytes3
    <3>. QED
      BY <1>1, <1>4, <2>1, <3>1, <3>2, Zenon DEF FourOf
  <2>6. /\ padded \in Seq(B) /\ Len(padded) = total /\ n \in Nat
        /\ \A i \in 1 .. n : padded[i] = msg[i]
        /\ padded[n + 1] = D /\ padded[total] = Last
        /\ \A i \in n + 2 .. total - 1 : padded[i] = {}
    BY <2>5, FourParts
  <2>7. n + 1 # total
    BY <1>3, <2>1
  <2>8. IsPadded3(padded, msg, n, total, alg)
    BY <2>6, <2>7, Zenon DEF IsPadded3, D
  <2>. QED
    BY <2>6, <2>8
<1>. QED
  BY <1>5, <1>6

\* A context, the block that ends its message, and the message with its padding.
Fitting3(B, past, buf, used, msg, n, last, padded, base, total, alg) ==
  /\ Holding(B, Rate, past, buf, used, msg, n) /\ n \in Nat /\ base \in Nat /\ used \in Nat
  /\ base = Len(past) * Rate /\ n = base + used /\ total = base + Rate /\ used < Rate
  /\ IsTail3(last, buf, used, alg) /\ IsPadded3(padded, msg, n, total, alg)

\* Byte by byte the block is that of the padded message.
LEMMA Tail3Fits ==
  ASSUME NEW B, NEW past, NEW buf, NEW used, NEW msg, NEW n, NEW last, NEW padded, NEW base,
         NEW total,
         NEW alg, Fitting3(B, past, buf, used, msg, n, last, padded, base, total, alg)
  PROVE  \A i \in 1 .. Rate : last[i] = padded[base + i]
<1>0. /\ Holding(B, Rate, past, buf, used, msg, n)
      /\ n \in Nat /\ base \in Nat /\ used \in Nat /\ Rate \in Nat
      /\ base = Len(past) * Rate /\ n = base + used /\ total = base + Rate /\ used < Rate
  BY HashShape DEF Fitting3
<1>9. IsTail3(last, buf, used, alg) /\ IsPadded3(padded, msg, n, total, alg)
  BY DEF Fitting3
<1>10. used + 1 = Rate <=> n + 1 = total
  BY <1>0
<1>1. ASSUME NEW i \in 1 .. Rate PROVE last[i] = padded[base + i]
  <2>1. CASE i <= used
    <3>1. i \in 1 .. used /\ base + i \in 1 .. n
      BY <1>0, <2>1
    <3>2. buf[i] = msg[base + i]
      BY <1>0, <3>1 DEF Holding
    <3>. QED
      BY <1>9, <3>1, <3>2 DEF IsTail3, IsPadded3
  <2>2. CASE i = used + 1 /\ i # Rate
    <3>1. base + i = n + 1 /\ used + 1 # Rate
      BY <1>0, <2>2
    <3>2. last[used + 1] = DomainOf(alg) /\ padded[n + 1] = DomainOf(alg)
      BY <1>9, <1>10, <3>1, Zenon DEF IsTail3, IsPadded3
    <3>. QED
      BY <2>2, <3>1, <3>2, Zenon
  <2>3. CASE i > used + 1 /\ i < Rate
    <3>1. i \in used + 2 .. Rate - 1 /\ base + i \in n + 2 .. total - 1
      BY <1>0, <2>3
    <3>. QED
      BY <1>9, <3>1 DEF IsTail3, IsPadded3
  <2>4. CASE i = Rate
    <3>1. base + i = total
      BY <1>0, <2>4
    <3>2. last[Rate] = padded[total]
      BY <1>9, <1>10, Zenon DEF IsTail3, IsPadded3
    <3>. QED
      BY <2>4, <3>1, <3>2, Zenon
  <2>. QED
    BY <1>0, <2>1, <2>2, <2>3, <2>4
<1>. QED
  BY <1>1

\* One block as the blocks of itself.
LEMMA OneBlock ==
  ASSUME NEW B, NEW size, NEW b, size \in Nat \ {0}, b \in [1 .. size -> B]
  PROVE  Blocks(b, size) = <<b>>
<1>1. Len(b) = size
  BY ListIsSeq
<1>2. size \div size = 1
  <2>1. (1 * size + 0) \div size = 1
    <3>1. 0 \in 0 .. size - 1
      OBVIOUS
    <3>. QED
      BY <3>1, DivMod
  <2>. QED
    BY <2>1
<1>3. Blocks(b, size) = [k \in 1 .. 1 |-> Slice(b, (k - 1) * size, size)]
  BY <1>1, <1>2 DEF Blocks
<1>4. \A k \in 1 .. 1 : (k - 1) * size = 0
  OBVIOUS
<1>5. Slice(b, 0, size) = b
  <2>1. \A i \in 1 .. size : b[0 + i] = b[i]
    OBVIOUS
  <2>2. b = [i \in 1 .. size |-> b[i]]
    OBVIOUS
  <2>. QED
    BY <2>1, <2>2 DEF Slice
<1>6. Blocks(b, size) = [k \in 1 .. 1 |-> b]
  BY <1>3, <1>4, <1>5
<1>. QED
  BY <1>6

\* A context that has taken a whole message, and the block that ends it.
Ending3(B, alg, past, buf, used, msg, n, last) ==
  /\ Holding(B, Rate, past, buf, used, msg, n) /\ IsBytes3(B, alg) /\ msg \in Seq(B) /\ n = Len(msg)
  /\ last \in [1 .. Rate -> B] /\ IsTail3(last, buf, used, alg)

\* What has been compressed in the end are the blocks of the padded message.
LEMMA Ended3 ==
  ASSUME NEW B, NEW alg, NEW past, NEW buf, NEW used, NEW msg, NEW n, NEW last,
         Ending3(B, alg, past, buf, used, msg, n, last)
  PROVE  Compressed(past, last) = Blocks(Padded3(alg, msg), Rate)
<1> DEFINE L == Len(past)
           base == L * Rate
           total == base + Rate
           padded == Padded3(alg, msg)
<1>1. /\ Holding(B, Rate, past, buf, used, msg, n) /\ IsBytes3(B, alg) /\ msg \in Seq(B) /\ n = Len(msg)
      /\ last \in [1 .. Rate -> B] /\ IsTail3(last, buf, used, alg)
  BY DEF Ending3
<1>2. Rate \in Nat \ {0}
  BY HashShape DEF Sha3Digest
<1>3. /\ used \in Nat /\ used < Rate /\ L \in Nat /\ base \in Nat /\ n = base + used
      /\ past \in Seq([1 .. Rate -> B])
  <2>1. /\ used \in Nat /\ used < Rate /\ n = L * Rate + used /\ past \in Seq([1 .. Rate -> B])
    BY <1>1 DEF Holding
  <2>2. L \in Nat
    BY <2>1, SeqIsList
  <2>3. L * Rate \in Nat
    BY <1>2, <2>2
  <2>. QED
    BY <2>1, <2>2, <2>3
<1>4. used \in 0 .. Rate - 1 /\ n \in Nat
  BY <1>2, <1>3
<1>5. Len(msg) % Rate = used
  <2>1. (L * Rate + used) % Rate = used
    <3>1. L \in Int
      BY <1>3
    <3> HIDE DEF L
    <3>. QED
      BY <1>2, <1>4, <3>1, DivMod
  <2>. QED
    BY <1>1, <1>3, <2>1
<1>6. total = base + Rate /\ padded = Padded3(alg, msg) /\ base = Len(past) * Rate
  OBVIOUS
<1> HIDE DEF L, base, total, padded
<1>7. /\ padded \in Seq(B) /\ Len(padded) = total
      /\ IsPadded3(padded, msg, n, total, alg)
  <2>1. Padding3(B, alg, msg, n, base, used, padded, total)
    BY <1>1, <1>3, <1>4, <1>5, <1>6, Zenon DEF Padding3
  <2>. QED
    BY <2>1, Padded3Parts
<1>8. \A i \in 1 .. Rate : last[i] = padded[base + i]
  <2>1. Fitting3(B, past, buf, used, msg, n, last, padded, base, total, alg)
    BY <1>1, <1>3, <1>4, <1>6, <1>7, Zenon DEF Fitting3
  <2>. QED
    BY <2>1, Tail3Fits
<1>9. EndsLike(B, Rate, past, last, 1, padded)
  <2>1. 1 * Rate = Rate /\ (L + 1) * Rate = total
    BY <1>2, <1>3 DEF L, base, total
  <2>. QED
    BY <1>1, <1>7, <1>8, <2>1 DEF EndsLike, base, L
<1>10. SameTo(n, msg, padded)
  BY <1>7 DEF SameTo, IsPadded3
<1>11. past \o Blocks(last, Rate) = Blocks(padded, Rate)
  BY <1>1, <1>2, <1>9, <1>10, BlocksJoin
<1>12. Blocks(last, Rate) = <<last>>
  BY <1>1, <1>2, OneBlock
<1>13. Compressed(past, last) = past \o <<last>>
  BY <1>1, <1>3, AppendIsConcat DEF Compressed
<1>. QED
  BY <1>11, <1>12, <1>13, Zenon DEF padded

\* A context that has taken a whole message.
Finishing3(B, c, msg, n) ==
  /\ Sha3Has(B, c, msg, n) /\ msg \in Seq(B) /\ n = Len(msg) /\ IsBytes3(B, "sha3")

\* The byte at the end of a block that two marks may share.
LEMMA XorIs ==
  ASSUME NEW alg
  PROVE  /\ Xor(DomainOf(alg), Last) = DomainOf(alg) \cup Last
         /\ \A a : Xor({}, a) = a
<1>1. DomainOf(alg) \cap Last = {}
  BY DEF DomainOf, Last
<1>2. Xor(DomainOf(alg), Last) = DomainOf(alg) \cup Last
  <2> DEFINE a == DomainOf(alg)
             b == Last
  <2>1. a \cap b = {}
    BY <1>1
  <2> HIDE DEF a, b
  <2>2. Xor(a, b) = a \cup b
    BY <2>1 DEF Xor
  <2>. QED
    BY <2>2 DEF a, b
<1>3. \A a : Xor({}, a) = a
  BY DEF Xor
<1>. QED
  BY <1>2, <1>3

\* The two marks in a block that has zeros behind its first bytes.
Marking(B, buf, used, alg, marked, last) ==
  /\ IsBytes3(B, alg) /\ buf \in [1 .. Rate -> B] /\ used \in 0 .. Rate - 1
  /\ \A i \in used + 1 .. Rate : buf[i] = {}
  /\ marked = [buf EXCEPT ![used + 1] = DomainOf(alg)]
  /\ last = [marked EXCEPT ![Rate] = Xor(@, Last)]

\* They make it the block that ends the message.
LEMMA Marks ==
  ASSUME NEW B, NEW buf, NEW used, NEW alg, NEW marked, NEW last,
         Marking(B, buf, used, alg, marked, last)
  PROVE  /\ last \in [1 .. Rate -> B] /\ IsTail3(last, buf, used, alg)
<1>1. /\ buf \in [1 .. Rate -> B] /\ used \in 0 .. Rate - 1 /\ Rate \in Nat /\ Rate >= 1
      /\ \A i \in used + 1 .. Rate : buf[i] = {}
  BY HashShape DEF Marking, Sha3Digest
<1> DEFINE D == DomainOf(alg)
           both == D \cup Last
<1>2. D \in B /\ Last \in B /\ both \in B
  BY DEF Marking, IsBytes3
<1>3. Xor(D, Last) = both /\ Xor({}, Last) = Last
  BY XorIs
<1>4. marked = [buf EXCEPT ![used + 1] = D] /\ last = [marked EXCEPT ![Rate] = Xor(marked[Rate], Last)]
  BY DEF Marking
<1> HIDE DEF D, both
<1>5. /\ marked \in [1 .. Rate -> B] /\ marked[used + 1] = D
      /\ \A i \in 1 .. Rate : i # used + 1 => marked[i] = buf[i]
  BY <1>1, <1>2, <1>4
<1>6. /\ used + 1 = Rate => Xor(marked[Rate], Last) = both
      /\ used + 1 # Rate => Xor(marked[Rate], Last) = Last
  <2>1. used + 1 # Rate => marked[Rate] = {}
    BY <1>1, <1>5
  <2>. QED
    BY <1>3, <1>5, <2>1
<1> DEFINE x == Xor(marked[Rate], Last)
<1>7. x \in B
  BY <1>2, <1>6
<1>8. last = [marked EXCEPT ![Rate] = x]
  BY <1>4
<1> HIDE DEF x
<1>9. /\ last \in [1 .. Rate -> B] /\ last[Rate] = x
      /\ \A i \in 1 .. Rate : i # Rate => last[i] = marked[i]
  BY <1>1, <1>5, <1>7, <1>8
<1>10. \A i \in 1 .. used : last[i] = buf[i]
  BY <1>1, <1>5, <1>9
<1>11. \A i \in used + 2 .. Rate - 1 : last[i] = {}
  BY <1>1, <1>5, <1>9
<1>12. used + 1 # Rate => last[used + 1] = D
  BY <1>1, <1>5, <1>9
<1>. QED
  BY <1>6, <1>9, <1>10, <1>11, <1>12 DEF IsTail3, D, both, x

\* Finish: what was compressed is the padded message.
LEMMA Sha3Finished ==
  ASSUME NEW B, NEW c, NEW msg, NEW n, Finishing3(B, c, msg, n)
  PROVE  /\ Sha3Finish(c) = [past |-> Blocks(Padded3("sha3", msg), Rate), buf |-> Zeros(Rate), used |-> c.used]
         /\ Digest("sha3", Sha3Finish(c).past, Sha3Digest) = HashOf("sha3", msg)
<1> DEFINE past == c.past
           buf == c.buf
           used == c.used
           room == Rate - used
           zero == Zeros(room)
           cleared == Copy(buf, used, zero)
           marked == [cleared EXCEPT ![used + 1] = DomainOf("sha3")]
           last == [marked EXCEPT ![Rate] = Xor(@, Last)]
           all == Blocks(Padded3("sha3", msg), Rate)
<1>1. Sha3Has(B, c, msg, n) /\ msg \in Seq(B) /\ n = Len(msg) /\ IsBytes3(B, "sha3")
  BY DEF Finishing3
<1>2. /\ c = [past |-> past, buf |-> buf, used |-> used]
      /\ Holding(B, Rate, past, buf, used, msg, n)
  BY <1>1 DEF Sha3Has
<1> HIDE DEF past, buf, used
<1>3. used \in Nat /\ used < Rate /\ IsBuffer(B, Rate, buf) /\ Rate \in Nat
  BY <1>2, HashShape DEF Holding
<1>4. room \in Nat /\ used + room = Rate
  BY <1>3
<1> HIDE DEF room
<1>5. zero \in Seq(B) /\ Len(zero) = room /\ \A i \in 1 .. room : zero[i] = {}
  <2>1. {} \in B
    BY <1>1 DEF IsBytes3, IsBytes
  <2>. QED
    BY <1>4, <2>1, ZeroBytes
<1> HIDE DEF zero
<1>6. IsBuffer(B, Rate, cleared) /\ Replaces(Rate, cleared, buf, used, zero, 0, room)
  <2>1. used + Len(zero) <= Rate
    BY <1>3, <1>4, <1>5
  <2>2. IsBuffer(B, Rate, cleared) /\ Replaces(Rate, cleared, buf, used, zero, 0, Len(zero))
    BY <1>3, <1>5, <2>1, Copied
  <2>. QED
    BY <1>5, <2>2
<1> HIDE DEF cleared
<1>7. \A i \in 1 .. used : cleared[i] = buf[i]
  BY <1>3, <1>4, <1>6 DEF Replaces
<1>8. ASSUME NEW i \in used + 1 .. Rate PROVE cleared[i] = {}
  <2> DEFINE j == 0 + (i - used)
  <2>1. i \in 1 .. Rate /\ ~(i <= used \/ i > used + room) /\ j \in 1 .. room
    BY <1>3, <1>4
  <2>2. cleared[i] = zero[j]
    BY <1>6, <2>1 DEF Replaces
  <2> HIDE DEF j
  <2>. QED
    BY <1>5, <2>1, <2>2
<1>9. last \in [1 .. Rate -> B] /\ IsTail3(last, cleared, used, "sha3")
  <2>1. used \in 0 .. Rate - 1 /\ cleared \in [1 .. Rate -> B]
    BY <1>3, <1>6 DEF IsBuffer
  <2>2. Marking(B, cleared, used, "sha3", marked, last)
    BY <1>1, <1>8, <2>1, Zenon DEF Marking
  <2> HIDE DEF marked, last
  <2>. QED
    BY <2>2, Marks
<1> HIDE DEF marked, last
<1>10. IsTail3(last, buf, used, "sha3")
  <2>1. \A i \in 1 .. used : last[i] = buf[i]
    BY <1>7, <1>9 DEF IsTail3
  <2>. QED
    BY <1>9, <2>1, Zenon DEF IsTail3
<1>11. Compressed(past, last) = all
  <2>1. Ending3(B, "sha3", past, buf, used, msg, n, last)
    BY <1>1, <1>2, <1>9, <1>10, Zenon DEF Ending3
  <2>. QED
    BY <2>1, Ended3
<1> DEFINE closed == [c EXCEPT !.buf = last]
           clear == Zeros(Rate)
           finished == [closed EXCEPT !.past = all, !.buf = clear]
<1> HIDE DEF all, clear
<1>12. closed \in [past : {past}, buf : {last}, used : {used}]
  BY <1>2
<1> HIDE DEF closed
<1>13. closed = [past |-> past, buf |-> last, used |-> used]
  BY <1>12
<1>14. finished \in [past : {all}, buf : {clear}, used : {used}]
  BY <1>13
<1>15. Sha3Finish(c) = finished
  <2>1. c.buf = buf /\ c.used = used
    BY <1>2
  <2>2. Sha3Finish(c) = AbsorbBlock(closed)
    BY <2>1, Zenon DEF Sha3Finish, closed, last, marked, cleared, zero, room
  <2>3. closed.past = past /\ closed.buf = last
    BY <1>13
  <2>. QED
    BY <1>11, <2>2, <2>3, Zenon DEF AbsorbBlock, clear
<1> HIDE DEF finished
<1>16. finished = [past |-> all, buf |-> clear, used |-> used]
  BY <1>14
<1>17. finished.past = all
  BY <1>16
<1>. QED
  BY <1>15, <1>16, <1>17, Zenon DEF all, clear, used, HashOf

\* Start: whatever the context was, it has taken nothing of the new message.
LEMMA Sha3Started ==
  ASSUME NEW B, {} \in B
  PROVE  Sha3Has(B, Sha3New, <<>>, 0) /\ \A c : Sha3Init(c) = Sha3New
<1> DEFINE empty == <<>>
           zero == Zeros(Rate)
<1>1. empty \in Seq([1 .. Rate -> B]) /\ Len(empty) = 0
  BY Empty
<1>2. IsBuffer(B, Rate, zero)
  BY HashShape, ZeroBytes DEF IsBuffer
<1>3. Sha3New = [past |-> empty, buf |-> zero, used |-> 0]
  BY DEF Sha3New
<1> HIDE DEF empty, zero
<1>4. Holding(B, Rate, empty, zero, 0, empty, 0)
  <2>1. 0 = Len(empty) * Rate + 0 /\ 0 \in Nat /\ 0 < Rate
    BY <1>1, HashShape DEF Sha3Digest
  <2>. QED
    BY <1>1, <1>2, <2>1 DEF Holding
<1>5. Sha3Has(B, Sha3New, empty, 0)
  BY <1>3, <1>4 DEF Sha3Has
<1>6. \A c : Sha3Init(c) = Sha3New
  BY DEF Sha3Init
<1>. QED
  BY <1>5, <1>6, Zenon DEF empty

\* A part of a message after another one.
LEMMA Sha3More ==
  ASSUME NEW B, NEW c, NEW msg, NEW data, Sha3Has(B, c, msg, Len(msg)),
         msg \in Seq(B), data \in Seq(B), {} \in B
  PROVE  /\ Sha3Has(B, Sha3Update(c, data), msg \o data, Len(msg \o data))
         /\ msg \o data \in Seq(B)
<1> DEFINE whole == msg \o data
           base == Len(msg)
           total == base + Len(data)
<1>1. Follows(B, msg, data, whole, base)
  BY DEF Follows
<1>2. Sha3Has(B, c, msg, base) /\ total = base + Len(data)
  OBVIOUS
<1>3. whole \in Seq(B) /\ Len(whole) = base + Len(data)
  <2> HIDE DEF whole, base
  <2>. QED
    BY <1>1, TwoParts
<1>4. Sha3Has(B, Sha3Update(c, data), whole, total)
  <2> HIDE DEF whole, base, total
  <2>. QED
    BY <1>1, <1>2, Sha3Fed
<1>5. total = Len(whole)
  BY <1>3
<1>. QED
  <2> HIDE DEF whole, base, total
  <2>1. whole \in Seq(B) /\ Sha3Has(B, Sha3Update(c, data), whole, Len(whole))
    BY <1>3, <1>4, <1>5
  <2>. QED
    BY <2>1, Zenon DEF whole

\* The digest of a finished context.
Result3(d) == Digest("sha3", d.past, Sha3Digest)

\* The hash of one part, and of two.
LEMMA Sha3OfOne ==
  ASSUME NEW B, NEW a, IsBytes3(B, "sha3"), a \in Seq(B)
  PROVE  /\ Sha3Has(B, Sha3Update(Sha3New, a), a, Len(a))
         /\ Result3(Sha3Finish(Sha3Update(Sha3New, a))) = HashOf("sha3", a)
<1> DEFINE one == Sha3Update(Sha3New, a)
           empty == <<>>
           n == Len(a)
<1>0. {} \in B
  BY DEF IsBytes3, IsBytes
<1>1. empty \in Seq(B) /\ Len(empty) = 0 /\ empty \o a = a
  BY Empty, EmptyFirst
<1>2. Sha3Has(B, Sha3New, empty, 0)
  BY <1>0, Sha3Started
<1> HIDE DEF empty
<1>3. Sha3Has(B, Sha3New, empty, Len(empty))
  BY <1>1, <1>2
<1>4. Sha3Has(B, one, empty \o a, Len(empty \o a))
  BY <1>0, <1>1, <1>3, Sha3More
<1>5. Sha3Has(B, one, a, n)
  <2> HIDE DEF one
  <2>. QED
    BY <1>1, <1>4
<1>6. Finishing3(B, one, a, n)
  <2> HIDE DEF one
  <2>. QED
    BY <1>5 DEF Finishing3
<1> HIDE DEF n, one
<1>7. Digest("sha3", Sha3Finish(one).past, Sha3Digest) = HashOf("sha3", a)
  BY <1>6, Sha3Finished
<1>. QED
  BY <1>5, <1>7, Zenon DEF one, n, Result3

\* The hash of a message in two parts.
LEMMA Sha3OfTwo ==
  ASSUME NEW B, NEW a, NEW b, IsBytes3(B, "sha3"), a \in Seq(B), b \in Seq(B)
  PROVE  Result3(Sha3Finish(Sha3Update(Sha3Update(Sha3New, a), b))) = HashOf("sha3", a \o b)
<1> DEFINE one == Sha3Update(Sha3New, a)
           two == Sha3Update(one, b)
           ab == a \o b
           n == Len(ab)
<1>0. {} \in B
  BY DEF IsBytes3, IsBytes
<1>1. Sha3Has(B, one, a, Len(a))
  BY Sha3OfOne
<1> HIDE DEF one
<1>2. Sha3Has(B, two, ab, n) /\ ab \in Seq(B)
  BY <1>0, <1>1, Sha3More
<1> HIDE DEF two, ab
<1>3. Finishing3(B, two, ab, n)
  BY <1>2 DEF Finishing3
<1> HIDE DEF n
<1>4. Digest("sha3", Sha3Finish(two).past, Sha3Digest) = HashOf("sha3", ab)
  BY <1>3, Sha3Finished
<1>. QED
  BY <1>4, Zenon DEF ab, two, one, Result3

\* A hash is a list of as many items as the function has.
LEMMA HashItems3 ==
  ASSUME NEW msg
  PROVE  Len(HashOf("sha3", msg)) = Sha3Digest /\ \E D : HashOf("sha3", msg) \in Seq(D)
<1> DEFINE blocks == Blocks(Padded3("sha3", msg), Rate)
<1>1. HashOf("sha3", msg) = Digest("sha3", blocks, Sha3Digest)
  BY Zenon DEF HashOf
<1>2. Sha3Digest \in Nat
  BY DEF Sha3Digest
<1> HIDE DEF blocks
<1>3. /\ Digest("sha3", blocks, Sha3Digest) \in Seq({OutputByte("sha3", blocks, i) : i \in 1 .. Sha3Digest})
      /\ Len(Digest("sha3", blocks, Sha3Digest)) = Sha3Digest
  BY <1>2, DigestItems
<1>. QED
  BY <1>1, <1>3, Zenon

\* Message and key are of any bytes, with those of a padding.
LEMMA WithPadding ==
  ASSUME NEW B, NEW alg
  PROVE  \E C : B \subseteq C /\ IsBytes3(C, alg)
<1> DEFINE C == B \cup {{}, Marker, DomainOf(alg), Last, DomainOf(alg) \cup Last} \cup {LengthOf(n) : n \in Nat}
<1>1. B \subseteq C
  OBVIOUS
<1>2. {} \in C /\ Marker \in C /\ DomainOf(alg) \in C /\ Last \in C /\ DomainOf(alg) \cup Last \in C
  OBVIOUS
<1>3. \A n \in Nat : LengthOf(n) \in C
  OBVIOUS
<1> HIDE DEF C
<1>4. IsBytes3(C, alg)
  BY <1>2, <1>3 DEF IsBytes3, IsBytes
<1>. QED
  BY <1>1, <1>4

\* HMAC by one context used twice.
LEMMA Mac3 ==
  ASSUME NEW M, NEW I, NEW O, NEW msg, NEW ikey, NEW okey,
         msg \in Seq(M), ikey \in Seq(I), okey \in Seq(O)
  PROVE  /\ Result3(Sha3Finish(Sha3Update(Sha3Update(Sha3New, ikey), msg))) = HashOf("sha3", ikey \o msg)
         /\ Result3(Sha3Finish(Sha3Update(Sha3Update(Sha3New, okey), HashOf("sha3", ikey \o msg))))
              = HashOf("sha3", okey \o HashOf("sha3", ikey \o msg))
<1> DEFINE once == HashOf("sha3", ikey \o msg)
<1>1. PICK D : once \in Seq(D)
  BY HashItems3, Zenon
<1> HIDE DEF once
<1> DEFINE B == M \cup I \cup O \cup D
<1>2. PICK C : B \subseteq C /\ IsBytes3(C, "sha3")
  <2> HIDE DEF B
  <2>. QED
    BY WithPadding
<1>3. msg \in Seq(C) /\ ikey \in Seq(C) /\ okey \in Seq(C) /\ once \in Seq(C)
  <2>1. M \subseteq C /\ I \subseteq C /\ O \subseteq C /\ D \subseteq C
    BY <1>2
  <2>. QED
    BY <1>1, <2>1, MoreBytes
<1>4. Result3(Sha3Finish(Sha3Update(Sha3Update(Sha3New, ikey), msg))) = HashOf("sha3", ikey \o msg)
  BY <1>2, <1>3, Sha3OfTwo
<1>5. Result3(Sha3Finish(Sha3Update(Sha3Update(Sha3New, okey), once))) = HashOf("sha3", okey \o once)
  BY <1>2, <1>3, Sha3OfTwo
<1>. QED
  BY <1>4, <1>5, Zenon DEF once

\* HMAC as RFC 2104 defines it, by the two blocks made of the key.
LEMMA HmacOf3 ==
  ASSUME NEW key, NEW msg, NEW k,
         k = LET short == IF Len(key) > Rate THEN HashOf("sha3", key) ELSE key
             IN  short \o Zeros(Rate - Len(short))
  PROVE  Hmac("sha3", key, msg)
           = HashOf("sha3", Padded(k, "opad", Rate) \o HashOf("sha3", Padded(k, "ipad", Rate) \o msg))
BY Zenon DEF Hmac, Padded

\* HMAC with SHA-3, for every message and key.
LEMMA HmacIsSha3 ==
  ASSUME NEW M, NEW K, NEW c, NEW key, NEW msg, msg \in Seq(M), key \in Seq(K)
  PROVE  HmacSha3(c, key, msg) = Hmac("sha3", key, msg)
<1> DEFINE hashed == Result3(Sha3Finish(Sha3Update(Sha3New, key)))
           short == IF Len(key) > Rate THEN HashOf("sha3", key) ELSE key
           k == short \o Zeros(Rate - Len(short))
           ikey == Padded(k, "ipad", Rate)
           okey == Padded(k, "opad", Rate)
           inner == Sha3Finish(Sha3Update(Sha3Update(Sha3New, ikey), msg))
           mac == Result3(Sha3Finish(Sha3Update(Sha3Update(Sha3New, okey), Result3(inner))))
<1>1. hashed = HashOf("sha3", key)
  <2>1. PICK C : K \subseteq C /\ IsBytes3(C, "sha3")
    BY WithPadding
  <2>2. key \in Seq(C)
    BY <2>1, MoreBytes
  <2>. QED
    BY <2>1, <2>2, Sha3OfOne
<1>2. \E S : short \in Seq(S) /\ Len(short) <= Rate
  <2>1. CASE Len(key) > Rate
    <3>1. Len(HashOf("sha3", key)) <= Rate /\ \E D : HashOf("sha3", key) \in Seq(D)
      BY HashItems3, HashShape
    <3>. QED
      BY <2>1, <3>1
  <2>2. CASE ~(Len(key) > Rate)
    <3>1. Len(key) <= Rate
      BY <2>2, HashShape, SeqIsList
    <3>. QED
      BY <2>2, <3>1
  <2>. QED
    BY <2>1, <2>2
<1> HIDE DEF hashed
<1>3. Copy(Zeros(Rate), 0, short) = k
  <2> HIDE DEF short
  <2>1. PICK S : short \in Seq(S) /\ Len(short) <= Rate
    BY <1>2
  <2>. QED
    BY <2>1, HashShape, KeyPadded
<1>4. Hmac("sha3", key, msg) = HashOf("sha3", okey \o HashOf("sha3", ikey \o msg))
  BY HmacOf3, Zenon
<1>5. mac = HashOf("sha3", okey \o HashOf("sha3", ikey \o msg))
  <2> HIDE DEF k
  <2>1. (\E A : ikey \in Seq(A)) /\ (\E A : okey \in Seq(A))
    BY HashShape, PaddedItems, Zenon
  <2> HIDE DEF ikey, okey
  <2>2. PICK I : ikey \in Seq(I)
    BY <2>1
  <2>3. PICK O : okey \in Seq(O)
    BY <2>1
  <2>4. /\ Result3(inner) = HashOf("sha3", ikey \o msg)
        /\ Result3(Sha3Finish(Sha3Update(Sha3Update(Sha3New, okey), HashOf("sha3", ikey \o msg))))
             = HashOf("sha3", okey \o HashOf("sha3", ikey \o msg))
    BY <2>2, <2>3, Mac3
  <2> HIDE DEF inner
  <2>. QED
    BY <2>4, Zenon
<1>6. HmacSha3(c, key, msg) = mac
  <2>1. Copy(Zeros(Rate), 0, IF Len(key) > Rate THEN hashed ELSE key) = k
    BY <1>1, <1>3, Zenon
  <2>2. HmacSha3(c, key, msg)
          = LET kprime == Copy(Zeros(Rate), 0, IF Len(key) > Rate THEN hashed ELSE key)
                in == Sha3Finish(Sha3Update(Sha3Update(Sha3New, Padded(kprime, "ipad", Rate)), msg))
            IN  Result3(Sha3Finish(Sha3Update(Sha3Update(Sha3New, Padded(kprime, "opad", Rate)),
                                              Result3(in))))
    BY Zenon DEF HmacSha3, Padded, hashed, Result3, Sha3Init
  <2> HIDE DEF k
  <2>. QED
    BY <2>1, <2>2, Zenon
<1> HIDE DEF mac, ikey, okey
<1>. QED
  BY <1>4, <1>5, <1>6, Zenon

-----------------------------------------------------------------------------
(* ArmSha3Ctx: absorbing.  Its state is a buffer that is zero behind what it *)
(* holds, so that the sum with the data is a copy of it.                     *)

\* What is behind the position is zero.
Clear(state, pos) == \A i \in pos + 1 .. Rate : state[i] = {}

\* The fields of a context.
Absorbing(alg, past, state, pos, sq_buf, sq_pos) ==
  [alg |-> alg, past |-> past, state |-> state, pos |-> pos,
   sq_buf |-> sq_buf, sq_pos |-> sq_pos, squeezing |-> FALSE]

\* A context that has absorbed the first n bytes of msg.
OqsHas(B, c, alg, sq_buf, sq_pos, msg, n) ==
  /\ c = Absorbing(alg, c.past, c.state, c.pos, sq_buf, sq_pos)
  /\ Holding(B, Rate, c.past, c.state, c.pos, msg, n) /\ Clear(c.state, c.pos)

\* The one context with these fields, as a set.
AbsorbingFields(alg, past, state, pos, sq_buf, sq_pos) ==
  [alg : {alg}, past : {past}, state : {state}, pos : {pos},
   sq_buf : {sq_buf}, sq_pos : {sq_pos}, squeezing : {FALSE}]

\* What XorIn puts into the state.
Summed(state, pos, data, done, take) == [i \in 1 .. take |-> Xor(state[pos + i], data[done + i])]

\* The sum with zeros is the data.
LEMMA SumIsSlice ==
  ASSUME NEW state, NEW pos, NEW data, NEW done, NEW take, pos \in Nat, take \in Nat, Rate \in Nat,
         Clear(state, pos), pos + take <= Rate
  PROVE  Summed(state, pos, data, done, take) = Slice(data, done, take)
<1>1. ASSUME NEW i \in 1 .. take PROVE Xor(state[pos + i], data[done + i]) = data[done + i]
  <2>1. pos + i \in pos + 1 .. Rate
    OBVIOUS
  <2>2. state[pos + i] = {}
    BY <2>1 DEF Clear
  <2>. QED
    BY <2>2, XorIs
<1>. QED
  BY <1>1 DEF Slice, Summed

\* What is behind the position stays zero.
LEMMA StaysClear ==
  ASSUME NEW B, NEW state, NEW pos, NEW data, NEW done, NEW take, NEW next, NEW p2,
         IsBuffer(B, Rate, state), data \in Seq(B), pos \in Nat, done \in Nat, take \in Nat,
         p2 = pos + take, p2 <= Rate, done + take <= Len(data),
         Clear(state, pos), next = Copy(state, pos, Slice(data, done, take))
  PROVE  Clear(next, p2)
<1>1. Replaces(Rate, next, state, pos, data, done, take)
  BY HashShape, Poured
<1>2. ASSUME NEW i \in p2 + 1 .. Rate PROVE next[i] = {}
  <2>1. i \in 1 .. Rate /\ i > pos + take /\ i \in pos + 1 .. Rate
    BY HashShape
  <2>2. next[i] = state[i]
    BY <1>1, <2>1 DEF Replaces
  <2>. QED
    BY <2>1, <2>2 DEF Clear
<1>. QED
  BY <1>2 DEF Clear

\* A turn of absorbing.
OqsTurning(B, data, done, whole, base, n, c, alg, sq_buf, sq_pos, t, n2) ==
  /\ done \in Nat /\ base \in Nat /\ data \in Seq(B) /\ done < Len(data) /\ {} \in B
  /\ Behind(whole, base, data)
  /\ OqsHas(B, c, alg, sq_buf, sq_pos, whole, n)
  /\ n = base + done /\ t = XorIn(c, data, done) /\ n2 = base + t.done

\* It takes at least one byte, and the context has then absorbed it.
LEMMA OqsTurn ==
  ASSUME NEW B, NEW data, NEW done, NEW whole, NEW base, NEW n, NEW c, NEW alg, NEW sq_buf,
         NEW sq_pos,
         NEW t, NEW n2,
         OqsTurning(B, data, done, whole, base, n, c, alg, sq_buf, sq_pos, t, n2)
  PROVE  /\ t = [ctx |-> t.ctx, done |-> t.done]
         /\ t.done \in Nat /\ t.done > done /\ t.done <= Len(data)
         /\ OqsHas(B, t.ctx, alg, sq_buf, sq_pos, whole, n2)
<1>1. /\ done \in Nat /\ base \in Nat /\ data \in Seq(B) /\ done < Len(data) /\ {} \in B
      /\ Behind(whole, base, data)
      /\ OqsHas(B, c, alg, sq_buf, sq_pos, whole, n)
      /\ n = base + done /\ t = XorIn(c, data, done) /\ n2 = base + t.done
  BY DEF OqsTurning
<1> DEFINE past == c.past
           buf == c.state
           used == c.pos
           take == Taken(data, done, Rate - used)
           next == Copy(buf, used, Slice(data, done, take))
           longer == Compressed(past, next)
           u2 == used + take
           d2 == done + take
           m2 == base + d2
           zero == Zeros(Rate)
<1>2. /\ c = Absorbing(alg, past, buf, used, sq_buf, sq_pos)
      /\ Holding(B, Rate, past, buf, used, whole, n) /\ Clear(buf, used)
  BY <1>1 DEF OqsHas
<1>3. /\ used \in Nat /\ take \in Nat /\ u2 <= Rate
      /\ d2 \in Nat /\ d2 > done /\ d2 <= Len(data)
      /\ IsBuffer(B, Rate, next)
      /\ u2 < Rate => Holding(B, Rate, past, next, u2, whole, m2)
      /\ u2 = Rate => Holding(B, Rate, longer, next, 0, whole, m2)
  <2>1. Behind(whole, base, data) /\ n = base + done /\ Holding(B, Rate, past, buf, used, whole, n)
    BY <1>1, <1>2
  <2>2. Rate \in Nat
    BY HashShape
  <2>3. Filling(B, Rate, data, done, whole, base, n, past, buf, used, take, next, longer, u2, d2, m2)
    BY <1>1, <2>1, <2>2, Zenon DEF Filling
  <2> HIDE DEF past, buf, used, take, next, longer, u2, d2, m2
  <2>. QED
    BY <2>3, Fill
<1>4. IsBuffer(B, Rate, zero) /\ Clear(zero, 0)
  <2>1. zero \in [1 .. Rate -> B] /\ \A i \in 1 .. Rate : zero[i] = {}
    BY <1>1, HashShape, ZeroBytes
  <2>2. \A i \in 0 + 1 .. Rate : zero[i] = {}
    BY <2>1
  <2>. QED
    BY <2>1, <2>2 DEF IsBuffer, Clear
<1>a. Clear(next, u2)
  <2>1. IsBuffer(B, Rate, buf)
    BY <1>2 DEF Holding
  <2>2. u2 = used + take /\ next = Copy(buf, used, Slice(data, done, take)) /\ done + take <= Len(data)
    BY <1>3
  <2>3. used \in Nat /\ take \in Nat /\ u2 <= Rate /\ Clear(buf, used)
    BY <1>2, <1>3
  <2> HIDE DEF past, buf, used, take, next, longer, u2, d2, m2
  <2>. QED
    BY <1>1, <2>1, <2>2, <2>3, StaysClear
<1> HIDE DEF zero
<1>5. /\ u2 = Rate =>
           t = [ctx |-> Absorbing(alg, longer, zero, 0, sq_buf, sq_pos), done |-> d2]
      /\ u2 # Rate =>
           t = [ctx |-> Absorbing(alg, past, next, u2, sq_buf, sq_pos), done |-> d2]
  <2>1. t = XorIn(c, data, done)
    BY <1>1
  <2>2. /\ take = Taken(data, done, Rate - used)
        /\ next = Copy(buf, used, Slice(data, done, take))
        /\ longer = Compressed(past, next) /\ u2 = used + take /\ d2 = done + take
    OBVIOUS
  <2>3. c = Absorbing(alg, past, buf, used, sq_buf, sq_pos)
    BY <1>2
  <2>a. Summed(buf, used, data, done, take) = Slice(data, done, take)
    <3>1. used \in Nat /\ take \in Nat /\ used + take <= Rate /\ Clear(buf, used) /\ Rate \in Nat
      BY <1>2, <1>3, HashShape
    <3> HIDE DEF past, buf, used, take, next, longer, u2, d2, m2
    <3>. QED
      BY <3>1, SumIsSlice
  <2> HIDE DEF past, buf, used, take, next, longer, u2, d2, m2
  <2>4. c.past = past /\ c.state = buf /\ c.pos = used
    BY <2>3 DEF Absorbing
  <2> DEFINE filled == [c EXCEPT !.state = next, !.pos = u2]
             absorbed == [filled EXCEPT !.past = longer, !.state = zero]
             begun == [absorbed EXCEPT !.pos = 0]
  <2>5. filled \in AbsorbingFields(alg, past, next, u2, sq_buf, sq_pos)
    BY <2>3 DEF Absorbing, AbsorbingFields
  <2> HIDE DEF filled
  <2>6. filled = Absorbing(alg, past, next, u2, sq_buf, sq_pos)
    BY <2>5 DEF Absorbing, AbsorbingFields
  <2>7. absorbed \in AbsorbingFields(alg, longer, zero, u2, sq_buf, sq_pos)
    BY <2>6 DEF Absorbing, AbsorbingFields
  <2>8. filled.past = past /\ filled.state = next /\ filled.pos = u2
    BY <2>6 DEF Absorbing
  <2>9. Keccak(filled) = absorbed
    BY <2>2, <2>8, Zenon DEF Keccak, zero
  <2> HIDE DEF absorbed
  <2>10. absorbed = Absorbing(alg, longer, zero, u2, sq_buf, sq_pos)
    BY <2>7 DEF Absorbing, AbsorbingFields
  <2>11. begun \in AbsorbingFields(alg, longer, zero, 0, sq_buf, sq_pos)
    BY <2>10 DEF Absorbing, AbsorbingFields
  <2>12. t = [ctx |-> IF filled.pos = Rate THEN [Keccak(filled) EXCEPT !.pos = 0] ELSE filled,
              done |-> d2]
    BY <2>1, <2>2, <2>4, <2>a, Zenon DEF XorIn, filled, Summed
  <2>13. t = [ctx |-> IF u2 = Rate THEN begun ELSE filled, done |-> d2]
    BY <2>8, <2>9, <2>12, Zenon
  <2> HIDE DEF begun
  <2>14. begun = Absorbing(alg, longer, zero, 0, sq_buf, sq_pos)
    BY <2>11 DEF Absorbing, AbsorbingFields
  <2>. QED
    BY <2>6, <2>13, <2>14, Zenon
<1>6. n2 = base + t.done
  BY <1>1
<1>7. Rate \in Nat
  BY HashShape
<1> HIDE DEF past, buf, take, used, next, longer, u2
<1>8. CASE u2 = Rate
  <2>1. /\ t.ctx = Absorbing(alg, longer, zero, 0, sq_buf, sq_pos)
        /\ t.done = d2
    BY <1>5, <1>8
  <2>2. Holding(B, Rate, longer, next, 0, whole, m2) /\ n2 = m2
    BY <1>3, <1>6, <1>8, <2>1
  <2> HIDE DEF m2
  <2>3. Holding(B, Rate, longer, zero, 0, whole, m2)
    BY <1>4, <2>2, Emptied
  <2>4. t.ctx.past = longer /\ t.ctx.state = zero /\ t.ctx.pos = 0
    BY <2>1 DEF Absorbing
  <2>5. OqsHas(B, t.ctx, alg, sq_buf, sq_pos, whole, n2)
    BY <1>4, <2>1, <2>2, <2>3, <2>4, Zenon DEF OqsHas
  <2>. QED
    BY <1>3, <1>5, <1>8, <2>1, <2>5
<1>9. CASE u2 # Rate
  <2>1. u2 < Rate
    BY <1>3, <1>7, <1>9 DEF u2
  <2>2. /\ t.ctx = Absorbing(alg, past, next, u2, sq_buf, sq_pos)
        /\ t.done = d2
    BY <1>5, <1>9
  <2>3. Holding(B, Rate, past, next, u2, whole, m2) /\ n2 = m2
    BY <1>3, <1>6, <2>1, <2>2
  <2>4. t.ctx.past = past /\ t.ctx.state = next /\ t.ctx.pos = u2
    BY <2>2 DEF Absorbing
  <2>5. OqsHas(B, t.ctx, alg, sq_buf, sq_pos, whole, n2)
    <3> HIDE DEF m2
    <3>. QED
      BY <1>a, <2>2, <2>3, <2>4, Zenon DEF OqsHas
  <2>. QED
    BY <1>3, <1>5, <1>9, <2>2, <2>5
<1>. QED
  BY <1>8, <1>9

\* Where the loop stays.
OqsContexts(B, alg, sq_buf, sq_pos) ==
  [alg : {alg}, past : Seq([1 .. Rate -> B]), state : [1 .. Rate -> B], pos : Nat,
   sq_buf : {sq_buf}, sq_pos : {sq_pos}, squeezing : {FALSE}]

\* A context that has absorbed something is one of them.
LEMMA OqsTyped ==
  ASSUME NEW B, NEW c, NEW alg, NEW sq_buf, NEW sq_pos, NEW msg, NEW n,
         OqsHas(B, c, alg, sq_buf, sq_pos, msg, n)
  PROVE  c \in OqsContexts(B, alg, sq_buf, sq_pos)
<1>1. c = Absorbing(alg, c.past, c.state, c.pos, sq_buf, sq_pos)
  BY DEF OqsHas
<1>2. c.past \in Seq([1 .. Rate -> B]) /\ c.state \in [1 .. Rate -> B] /\ c.pos \in Nat
  BY DEF OqsHas, Holding, IsBuffer
<1>3. ASSUME NEW past \in Seq([1 .. Rate -> B]), NEW state \in [1 .. Rate -> B], NEW pos \in Nat
      PROVE  Absorbing(alg, past, state, pos, sq_buf, sq_pos) \in OqsContexts(B, alg, sq_buf, sq_pos)
  BY DEF OqsContexts, Absorbing
<1>4. Absorbing(alg, c.past, c.state, c.pos, sq_buf, sq_pos) \in OqsContexts(B, alg, sq_buf, sq_pos)
  BY <1>2, <1>3
<1>. QED
  BY <1>1, <1>4

\* Absorbing the data behind the message.
LEMMA OqsFed ==
  ASSUME NEW B, NEW c, NEW alg, NEW sq_buf, NEW sq_pos, NEW msg, NEW data, NEW whole, NEW base,
         NEW total,
         {} \in B,
         OqsHas(B, c, alg, sq_buf, sq_pos, msg, base), Follows(B, msg, data, whole, base),
         total = base + Len(data)
  PROVE  OqsHas(B, Absorb(c, data), alg, sq_buf, sq_pos, whole, total)
<1> DEFINE n == Len(data)
           start == [ctx |-> c, done |-> 0]
           S == {t \in [ctx : OqsContexts(B, alg, sq_buf, sq_pos), done : 0 .. n] :
                   OqsHas(B, t.ctx, alg, sq_buf, sq_pos, whole, base + t.done)}
           Turn(t) == IF t.done = n THEN t ELSE XorIn(t.ctx, data, t.done)
           turn == [t \in S |-> Turn(t)]
           done == [t \in S |-> t.done]
<1>1. /\ data \in Seq(B) /\ base \in Nat /\ n \in Nat /\ total = base + n
      /\ Behind(whole, base, data) /\ SameTo(base, msg, whole)
  BY BehindMsg
<1>2. start \in S
  <2>1. /\ c = Absorbing(alg, c.past, c.state, c.pos, sq_buf, sq_pos)
        /\ Clear(c.state, c.pos) /\ Holding(B, Rate, c.past, c.state, c.pos, msg, base)
    BY DEF OqsHas
  <2>2. Holding(B, Rate, c.past, c.state, c.pos, whole, base)
    BY <1>1, <2>1, HashShape, StillHolds
  <2>3. OqsHas(B, c, alg, sq_buf, sq_pos, whole, base)
    BY <2>1, <2>2 DEF OqsHas
  <2>4. c \in OqsContexts(B, alg, sq_buf, sq_pos)
    BY <2>3, OqsTyped
  <2>5. start = [ctx |-> c, done |-> 0] /\ 0 \in 0 .. n /\ base + 0 = base
    BY <1>1
  <2> HIDE DEF start, n
  <2>. QED
    BY <2>3, <2>4, <2>5
<1>3. ASSUME NEW t \in S PROVE Turn(t) \in S /\ (Turn(t).done = n \/ Turn(t).done > t.done)
  <2>1. CASE t.done = n
    BY <2>1
  <2>2. CASE t.done # n
    <3> DEFINE r == XorIn(t.ctx, data, t.done)
               m == base + t.done
               n2 == base + r.done
    <3>1. t.done \in Nat /\ t.done < Len(data) /\ t.done \in 0 .. n /\ OqsHas(B, t.ctx, alg, sq_buf, sq_pos, whole, m)
      BY <1>1, <2>2
    <3>2. m = base + t.done /\ r = XorIn(t.ctx, data, t.done) /\ n2 = base + r.done
      OBVIOUS
    <3>3. Turn(t) = r
      BY <2>2
    <3> HIDE DEF r, m, n2, S, Turn
    <3>4. /\ r = [ctx |-> r.ctx, done |-> r.done]
          /\ r.done \in Nat /\ r.done > t.done /\ r.done <= Len(data)
          /\ OqsHas(B, r.ctx, alg, sq_buf, sq_pos, whole, n2)
      <4>1. OqsTurning(B, data, t.done, whole, base, m, t.ctx, alg, sq_buf, sq_pos, r, n2)
        BY <1>1, <3>1, <3>2 DEF OqsTurning
      <4>. QED
        BY <4>1, OqsTurn
    <3>5. r.ctx \in OqsContexts(B, alg, sq_buf, sq_pos)
      BY <3>4, OqsTyped
    <3>6. r.done \in 0 .. n
      BY <1>1, <3>4
    <3> HIDE DEF n
    <3>7. r \in S
      BY <3>2, <3>4, <3>5, <3>6 DEF S
    <3>. QED
      BY <3>3, <3>4, <3>7
  <2>. QED
    BY <2>1, <2>2
<1>4. IsLoop(S, start, turn, n, done)
  <2>1. \A t \in S : t.done \in 0 .. n
    OBVIOUS
  <2> HIDE DEF S, Turn
  <2>2. /\ turn \in [S -> S]
        /\ done \in [S -> 0 .. n]
        /\ \A t \in S : done[turn[t]] = n \/ done[turn[t]] > done[t]
    BY <1>3, <2>1
  <2> HIDE DEF turn, done, start, n
  <2>. QED
    BY <1>1, <1>2, <2>2 DEF IsLoop
<1> DEFINE after == CHOOSE after : after = [k \in Nat |-> IF k = 0 THEN start ELSE Turn(after[k - 1])]
<1>5. Absorb(c, data) = after[n].ctx
  BY DEF Absorb, Loop
<1>6. after = [k \in Nat |-> IF k = 0 THEN start ELSE Turn(after[k - 1])]
  <2> HIDE DEF S, start
  <2>1. PICK f : f \in [Nat -> S] /\ IsRun(S, start, turn, f)
    <3> HIDE DEF turn, done, n
    <3>. QED
      BY <1>4, LoopRuns
  <2> HIDE DEF Turn
  <2>2. \A k \in Nat : f[k + 1] = Turn(f[k])
    BY <2>1 DEF IsRun
  <2>3. f = [k \in Nat |-> IF k = 0 THEN start ELSE Turn(f[k - 1])]
    <3>1. \A k \in Nat : k # 0 => k - 1 \in Nat /\ k - 1 + 1 = k
      OBVIOUS
    <3>. QED
      BY <2>1, <2>2, <3>1 DEF IsRun
  <2>. QED
    BY <2>3
<1> HIDE DEF S, Turn, start, after
<1>7. after[n] \in S /\ done[after[n]] = n
  <2>1. IsRun(S, start, turn, after)
    BY <1>6 DEF IsRun
  <2> HIDE DEF turn, done, n
  <2>. QED
    BY <1>4, <2>1, LoopEnds
<1>8. after[n].done = n /\ OqsHas(B, after[n].ctx, alg, sq_buf, sq_pos, whole, base + after[n].done)
  BY <1>7 DEF S
<1>. QED
  BY <1>1, <1>5, <1>8

\* A context that has absorbed a whole message, and nothing else.
OqsHolds(B, c, alg, msg) == OqsHas(B, c, alg, c.sq_buf, c.sq_pos, msg, Len(msg))

\* A context that gives bytes of the sponge.
Squeezing(alg, past, state, sq_buf, sq_pos) ==
  [alg |-> alg, past |-> past, state |-> state, pos |-> 0,
   sq_buf |-> sq_buf, sq_pos |-> sq_pos, squeezing |-> TRUE]

\* One that is new or was reset has absorbed nothing.
LEMMA OqsEmpty ==
  ASSUME NEW B, NEW c, NEW alg, NEW sq_buf, {} \in B,
         c = Absorbing(alg, <<>>, Zeros(Rate), 0, sq_buf, 0)
  PROVE  OqsHolds(B, c, alg, <<>>)
<1> DEFINE empty == <<>>
           zero == Zeros(Rate)
<1>1. empty \in Seq([1 .. Rate -> B]) /\ Len(empty) = 0
  BY Empty
<1>2. IsBuffer(B, Rate, zero) /\ Clear(zero, 0)
  <2>1. zero \in [1 .. Rate -> B] /\ \A i \in 1 .. Rate : zero[i] = {}
    BY HashShape, ZeroBytes
  <2>2. \A i \in 0 + 1 .. Rate : zero[i] = {}
    BY <2>1
  <2>. QED
    BY <2>1, <2>2 DEF IsBuffer, Clear
<1>3. c = Absorbing(alg, empty, zero, 0, sq_buf, 0)
  OBVIOUS
<1> HIDE DEF empty, zero
<1>4. Holding(B, Rate, empty, zero, 0, empty, 0)
  <2>1. 0 = Len(empty) * Rate + 0 /\ 0 \in Nat /\ 0 < Rate
    BY <1>1, HashShape DEF Sha3Digest
  <2>. QED
    BY <1>1, <1>2, <2>1 DEF Holding
<1>5. c.past = empty /\ c.state = zero /\ c.pos = 0 /\ c.sq_buf = sq_buf /\ c.sq_pos = 0
  BY <1>3 DEF Absorbing
<1>6. OqsHas(B, c, alg, c.sq_buf, c.sq_pos, empty, 0)
  BY <1>2, <1>3, <1>4, <1>5, Zenon DEF OqsHas
<1>7. OqsHolds(B, c, alg, empty)
  BY <1>1, <1>6, Zenon DEF OqsHolds
<1>. QED
  BY <1>7 DEF empty

\* A new context has absorbed nothing.
LEMMA OqsNews ==
  ASSUME NEW B, NEW alg, {} \in B
  PROVE  OqsHolds(B, OqsNew(alg), alg, <<>>)
<1> DEFINE zero == Zeros(Rate)
<1>1. OqsNew(alg) = Absorbing(alg, <<>>, zero, 0, zero, 0)
  <2> HIDE DEF zero
  <2>. QED
    BY DEF OqsNew, Absorbing, zero
<1>. QED
  BY <1>1, OqsEmpty, Zenon

\* Any context of a function, whatever it was used for.
IsOqs(c, alg) ==
  \E past, state, pos, sq_buf, sq_pos, squeezing :
     c = [alg |-> alg, past |-> past, state |-> state, pos |-> pos,
          sq_buf |-> sq_buf, sq_pos |-> sq_pos, squeezing |-> squeezing]

\* A context that was reset has absorbed nothing, whatever it was used for.
LEMMA OqsReset ==
  ASSUME NEW B, NEW c, NEW alg, {} \in B, IsOqs(c, alg)
  PROVE  OqsHolds(B, Reset(c), alg, <<>>)
<1> DEFINE zero == Zeros(Rate)
           empty == <<>>
           a == [c EXCEPT !.past = empty, !.state = zero, !.sq_pos = 0, !.squeezing = FALSE]
           b == [a EXCEPT !.pos = 0]
<1>1. Reset(c) = b
  BY Zenon DEF Reset, ResetBytes
<1> HIDE DEF zero, empty
<1>2. PICK past, state, pos, sq_buf, sq_pos, squeezing :
           c = [alg |-> alg, past |-> past, state |-> state, pos |-> pos,
                sq_buf |-> sq_buf, sq_pos |-> sq_pos, squeezing |-> squeezing]
  BY DEF IsOqs
<1>3. a \in [alg : {alg}, past : {empty}, state : {zero}, pos : {pos}, sq_buf : {sq_buf},
             sq_pos : {0}, squeezing : {FALSE}]
  BY <1>2
<1> HIDE DEF a
<1>4. b \in [alg : {alg}, past : {empty}, state : {zero}, pos : {0}, sq_buf : {sq_buf},
             sq_pos : {0}, squeezing : {FALSE}]
  BY <1>3
<1> HIDE DEF b
<1>5. b = Absorbing(alg, empty, zero, 0, sq_buf, 0)
  BY <1>4 DEF Absorbing
<1>. QED
  BY <1>1, <1>5, OqsEmpty, Zenon DEF zero, empty

\* A part of a message after another one.
LEMMA OqsMore ==
  ASSUME NEW B, NEW c, NEW alg, NEW msg, NEW data, OqsHolds(B, c, alg, msg),
         msg \in Seq(B), data \in Seq(B), {} \in B
  PROVE  /\ OqsHolds(B, Absorb(c, data), alg, msg \o data)
         /\ msg \o data \in Seq(B)
<1> DEFINE whole == msg \o data
           base == Len(msg)
           total == base + Len(data)
           sq_buf == c.sq_buf
           sq_pos == c.sq_pos
           d == Absorb(c, data)
<1>1. Follows(B, msg, data, whole, base)
  BY DEF Follows
<1>2. OqsHas(B, c, alg, sq_buf, sq_pos, msg, base) /\ total = base + Len(data)
  BY DEF OqsHolds
<1>3. whole \in Seq(B) /\ Len(whole) = base + Len(data)
  <2> HIDE DEF whole, base
  <2>. QED
    BY <1>1, TwoParts
<1>4. OqsHas(B, d, alg, sq_buf, sq_pos, whole, total)
  <2> HIDE DEF whole, base, total, sq_buf, sq_pos
  <2>. QED
    BY <1>1, <1>2, OqsFed
<1>5. total = Len(whole)
  BY <1>3
<1> HIDE DEF whole, base, total, sq_buf, sq_pos, d
<1>6. d.sq_buf = sq_buf /\ d.sq_pos = sq_pos
  <2>1. d = Absorbing(alg, d.past, d.state, d.pos, sq_buf, sq_pos)
    BY <1>4, Zenon DEF OqsHas
  <2>. QED
    BY <2>1 DEF Absorbing
<1>7. OqsHolds(B, d, alg, whole)
  BY <1>4, <1>5, <1>6, Zenon DEF OqsHolds
<1>. QED
  BY <1>3, <1>7, Zenon DEF whole, d

-----------------------------------------------------------------------------
(* ArmSha3Ctx: squeezing.                                                    *)

\* The blocks of a sponge after k more permutations.
Spun(alg, msg, k) == Blocks(Padded3(alg, msg), Rate) \o [b \in 1 .. k |-> Zeros(Rate)]

\* A context that has given the bytes up to place sq_pos of the sponge after k permutations.
Given(alg, msg, k, sq_pos) ==
  Squeezing(alg, Spun(alg, msg, k), Zeros(Rate), Digest("keccak", Spun(alg, msg, k), Rate), sq_pos)

\* A context that has given m bytes.
OqsGave(c, alg, msg, m) ==
  \E k \in Nat, p \in 0 .. Rate : c = Given(alg, msg, k, p) /\ m = k * Rate + p

\* At first the blocks are those of the padded message.
LEMMA SpunNone ==
  ASSUME NEW S, NEW alg, NEW msg, Blocks(Padded3(alg, msg), Rate) \in Seq(S)
  PROVE  Spun(alg, msg, 0) = Blocks(Padded3(alg, msg), Rate)
<1> DEFINE all == Blocks(Padded3(alg, msg), Rate)
<1>1. all \in Seq(S)
  OBVIOUS
<1>2. [b \in 1 .. 0 |-> Zeros(Rate)] = <<>>
  OBVIOUS
<1>3. Spun(alg, msg, 0) = all \o [b \in 1 .. 0 |-> Zeros(Rate)]
  BY Zenon DEF Spun
<1> HIDE DEF all
<1>4. all \o <<>> = all
  BY <1>1, ConcatEmptySeq
<1>. QED
  BY <1>2, <1>3, <1>4, Zenon DEF all

\* The end of the input.
LEMMA OqsFinalized ==
  ASSUME NEW B, NEW c, NEW alg, NEW msg, OqsHolds(B, c, alg, msg), IsBytes3(B, alg), msg \in Seq(B)
  PROVE  Finalize(c) = Given(alg, msg, 0, 0)
<1> DEFINE past == c.past
           state == c.state
           pos == c.pos
           sq_buf == c.sq_buf
           sq_pos == c.sq_pos
           n == Len(msg)
           marked == [state EXCEPT ![pos + 1] = DomainOf(alg)]
           last == [marked EXCEPT ![Rate] = Xor(@, Last)]
           all == Blocks(Padded3(alg, msg), Rate)
           zero == Zeros(Rate)
<1>1. /\ c = Absorbing(alg, past, state, pos, sq_buf, sq_pos)
      /\ Holding(B, Rate, past, state, pos, msg, n) /\ Clear(state, pos)
  BY Zenon DEF OqsHolds, OqsHas
<1>2. c.alg = alg
  BY <1>1 DEF Absorbing
<1> HIDE DEF past, state, pos, sq_buf, sq_pos, n
<1>3. pos \in Nat /\ pos < Rate /\ IsBuffer(B, Rate, state) /\ Rate \in Nat
  BY <1>1, HashShape DEF Holding
<1>4. last \in [1 .. Rate -> B] /\ IsTail3(last, state, pos, alg)
  <2>1. pos \in 0 .. Rate - 1 /\ state \in [1 .. Rate -> B]
    BY <1>3 DEF IsBuffer
  <2>2. Marking(B, state, pos, alg, marked, last)
    BY <1>1, <2>1, Zenon DEF Marking, Clear
  <2> HIDE DEF marked, last
  <2>. QED
    BY <2>2, Marks
<1>5. Compressed(past, last) = all
  <2> HIDE DEF last
  <2>1. Ending3(B, alg, past, state, pos, msg, n, last)
    BY <1>1, <1>4, Zenon DEF Ending3, n
  <2>. QED
    BY <2>1, Ended3
<1>6. [state EXCEPT ![pos + 1] = Xor(@, DomainOf(alg))] = marked
  <2>1. state[pos + 1] = {}
    <3>1. pos + 1 \in pos + 1 .. Rate
      BY <1>3
    <3>. QED
      BY <1>1, <3>1 DEF Clear
  <2>2. Xor(state[pos + 1], DomainOf(alg)) = DomainOf(alg)
    BY <2>1, XorIs
  <2>. QED
    BY <2>2, Zenon
<1> DEFINE closed == [c EXCEPT !.state = last]
           permuted == [closed EXCEPT !.past = all, !.state = zero]
           out == Digest("keccak", all, Rate)
           done == [permuted EXCEPT !.pos = 0, !.sq_pos = 0, !.squeezing = TRUE, !.sq_buf = out]
<1>7. c.past = past /\ c.state = state /\ c.pos = pos
  BY DEF past, state, pos
<1> HIDE DEF all, zero, out
<1>8. Finalize(c) = done
  <2>1. Finalize(c) = [Keccak(closed) EXCEPT !.pos = 0, !.sq_pos = 0, !.squeezing = TRUE,
                                             !.sq_buf = Permuted(Keccak(closed))]
    BY <1>2, <1>6, <1>7, Zenon DEF Finalize, closed, last
  <2> HIDE DEF last, marked
  <2>2. closed.past = past /\ closed.state = last
    BY <1>1 DEF Absorbing
  <2>3. Keccak(closed) = permuted
    BY <1>5, <2>2, Zenon DEF Keccak, zero
  <2>4. permuted.past = all
    BY <1>1 DEF Absorbing
  <2>5. Permuted(permuted) = out
    BY <2>4, Zenon DEF Permuted, out
  <2>. QED
    BY <2>1, <2>3, <2>5, Zenon
<1> HIDE DEF last, marked
<1>9. done \in [alg : {alg}, past : {all}, state : {zero}, pos : {0}, sq_buf : {out}, sq_pos : {0},
                squeezing : {TRUE}]
  BY <1>1 DEF Absorbing
<1> HIDE DEF done
<1>10. done = Squeezing(alg, all, zero, out, 0)
  BY <1>9 DEF Squeezing
<1>11. Spun(alg, msg, 0) = all
  <2>1. all \in Seq([1 .. Rate -> B])
    <3>1. past \in Seq([1 .. Rate -> B])
      BY <1>1 DEF Holding
    <3>. QED
      BY <1>4, <1>5, <3>1, OneMore
  <2>. QED
    BY <2>1, SpunNone DEF all
<1>. QED
  BY <1>8, <1>10, <1>11, Zenon DEF Given, zero, out

\* The blocks of a padded message are blocks.
LEMMA PaddedBlocks ==
  ASSUME NEW B, NEW alg, NEW msg, msg \in Seq(B), IsBytes3(B, alg)
  PROVE  \E S : Blocks(Padded3(alg, msg), Rate) \in Seq(S)
<1> DEFINE n == Len(msg)
           used == Len(msg) % Rate
           base == (Len(msg) \div Rate) * Rate
           padded == Padded3(alg, msg)
           total == base + Rate
           m == Len(padded) \div Rate
           Piece(b) == Slice(padded, (b - 1) * Rate, Rate)
           S == {Piece(b) : b \in 1 .. m}
           blocks == [b \in 1 .. m |-> Piece(b)]
<1>1. n \in Nat /\ Rate \in Nat /\ Rate >= 1
  BY HashShape, SeqIsList DEF Sha3Digest
<1>2. base \in Nat /\ used \in 0 .. Rate - 1 /\ n = base + used
  BY <1>1
<1>3. Len(msg) % Rate = used /\ n = Len(msg) /\ padded = Padded3(alg, msg) /\ total = base + Rate
  OBVIOUS
<1> HIDE DEF n, used, base, padded, total
<1>4. Padding3(B, alg, msg, n, base, used, padded, total)
  BY <1>2, <1>3, Zenon DEF Padding3
<1>5. Len(padded) = total
  BY <1>4, Padded3Parts
<1>6. Blocks(padded, Rate) = blocks
  BY Zenon DEF Blocks
<1>7. m \in Nat
  BY <1>1, <1>2, <1>3, <1>5
<1> HIDE DEF m, Piece
<1>8. blocks \in [1 .. m -> S]
  OBVIOUS
<1> HIDE DEF S, blocks
<1>9. blocks \in Seq(S)
  BY <1>7, <1>8, ListIsSeq
<1>. QED
  BY <1>3, <1>6, <1>9

\* One permutation more is one block of zeros more.
LEMMA SpunNext ==
  ASSUME NEW B, NEW alg, NEW msg, NEW k, msg \in Seq(B), IsBytes3(B, alg), k \in Nat
  PROVE  Compressed(Spun(alg, msg, k), Zeros(Rate)) = Spun(alg, msg, k + 1)
<1> DEFINE all == Blocks(Padded3(alg, msg), Rate)
           zero == Zeros(Rate)
           turns == [b \in 1 .. k |-> zero]
           more == [b \in 1 .. k + 1 |-> zero]
<1>1. PICK Q : all \in Seq(Q)
  BY PaddedBlocks
<1>2. Spun(alg, msg, k) = all \o turns /\ Spun(alg, msg, k + 1) = all \o more
  BY Zenon DEF Spun
<1> HIDE DEF all, zero
<1> DEFINE S == Q \cup {zero}
<1>3. all \in Seq(S)
  BY <1>1, MoreBytes
<1>4. turns \in [1 .. k -> S] /\ more \in [1 .. k + 1 -> S] /\ zero \in S
  OBVIOUS
<1> HIDE DEF S
<1>5. turns \in Seq(S) /\ Len(turns) = k /\ k + 1 \in Nat
  <2> HIDE DEF turns
  <2>. QED
    BY <1>4, ListIsSeq
<1>6. <<zero>> \in Seq(S)
  BY <1>4, OneByte
<1>7. Append(turns, zero) = more
  <2> DEFINE next == Append(turns, zero)
  <2>1. /\ next \in Seq(S) /\ Len(next) = k + 1
        /\ \A i \in 1 .. k : next[i] = turns[i]
        /\ next[k + 1] = zero
    <3> HIDE DEF turns
    <3>. QED
      BY <1>4, <1>5, AppendProperties
  <2> HIDE DEF next
  <2>2. next \in [1 .. k + 1 -> S]
    BY <2>1, SeqIsList
  <2>3. ASSUME NEW i \in 1 .. k + 1 PROVE next[i] = zero
    BY <2>1
  <2>4. next = more
    BY <2>2, <2>3
  <2>. QED
    BY <2>4 DEF next
<1> HIDE DEF turns, more
<1>8. Append(turns, zero) = turns \o <<zero>>
  BY <1>4, <1>5, AppendIsConcat
<1> DEFINE one == <<zero>>
           past == all \o turns
<1>9. one \in Seq(S) /\ past \in Seq(S)
  BY <1>3, <1>5, <1>6, ConcatProperties
<1>10. Append(past, zero) = past \o one
  <2> HIDE DEF past
  <2>. QED
    BY <1>4, <1>9, AppendIsConcat
<1> HIDE DEF one
<1>11. (all \o turns) \o one = all \o (turns \o one)
  <2>1. ASSUME NEW x, NEW y, NEW z, x \in Seq(S), y \in Seq(S), z \in Seq(S)
        PROVE  (x \o y) \o z = x \o (y \o z)
    BY <2>1, ThreeParts
  <2>2. one \in Seq(S)
    BY <1>9
  <2>. QED
    BY <1>3, <1>5, <2>1, <2>2
<1>. QED
  BY <1>2, <1>7, <1>8, <1>10, <1>11, Zenon DEF Compressed, one, zero

\* Where a byte of the output is.
LEMMA ByteAt ==
  ASSUME NEW alg, NEW msg, NEW k, NEW j, k \in Nat, j \in 0 .. Rate - 1
  PROVE  SpongeByte(alg, msg, k * Rate + j) = OutputByte("keccak", Spun(alg, msg, k), j + 1)
<1> DEFINE i == k * Rate + j
<1>1. i \div Rate = k /\ i % Rate = j
  <2>1. Rate \in Nat \ {0} /\ k \in Int
    BY HashShape DEF Sha3Digest
  <2>. QED
    BY <2>1, DivMod
<1> HIDE DEF i
<1>2. SpongeByte(alg, msg, i) = OutputByte("keccak", Spun(alg, msg, k), j + 1)
  BY <1>1, Zenon DEF SpongeByte, Spun
<1>. QED
  BY <1>2 DEF i

\* The bytes a sponge can give.
SpongeBytes(alg, msg) == {SpongeByte(alg, msg, i) : i \in Nat}

\* Those that come behind the first m bytes.
GivesFrom(out, alg, msg, m) ==
  /\ out \in Seq(SpongeBytes(alg, msg))
  /\ \A i \in 1 .. Len(out) : out[i] = SpongeByte(alg, msg, m + i - 1)

\* Its fields.
LEMMA GivenFields ==
  ASSUME NEW alg, NEW msg, NEW k, NEW p
  PROVE  /\ Given(alg, msg, k, p).past = Spun(alg, msg, k)
         /\ Given(alg, msg, k, p).state = Zeros(Rate)
         /\ Given(alg, msg, k, p).sq_buf = Digest("keccak", Spun(alg, msg, k), Rate)
         /\ Given(alg, msg, k, p).sq_pos = p
BY DEF Given, Squeezing

\* A permutation more, when all bytes of the last one are used.
LEMMA Refills ==
  ASSUME NEW B, NEW alg, NEW msg, NEW k, msg \in Seq(B), IsBytes3(B, alg), k \in Nat
  PROVE  Refill(Given(alg, msg, k, Rate)) = Given(alg, msg, k + 1, 0)
<1> DEFINE c == Given(alg, msg, k, Rate)
           past == Spun(alg, msg, k)
           next == Spun(alg, msg, k + 1)
           zero == Zeros(Rate)
           old == Digest("keccak", past, Rate)
           out == Digest("keccak", next, Rate)
           permuted == [c EXCEPT !.past = next, !.state = zero]
           done == [permuted EXCEPT !.sq_buf = out, !.sq_pos = 0]
<1>1. Compressed(past, zero) = next
  BY SpunNext
<1>2. c = Squeezing(alg, past, zero, old, Rate)
  BY Zenon DEF Given
<1> HIDE DEF c, past, next, zero, old, out
<1>3. c.past = past /\ c.state = zero
  BY <1>2 DEF Squeezing
<1>4. Keccak(c) = permuted
  BY <1>1, <1>3, Zenon DEF Keccak, zero
<1>5. permuted \in [alg : {alg}, past : {next}, state : {zero}, pos : {0}, sq_buf : {old},
                    sq_pos : {Rate}, squeezing : {TRUE}]
  BY <1>2 DEF Squeezing
<1> HIDE DEF permuted
<1>6. permuted.past = next
  BY <1>5
<1>7. Permuted(permuted) = out
  BY <1>6, Zenon DEF Permuted, out
<1>8. Refill(c) = done
  BY <1>4, <1>7, Zenon DEF Refill
<1>9. done \in [alg : {alg}, past : {next}, state : {zero}, pos : {0}, sq_buf : {out},
                sq_pos : {0}, squeezing : {TRUE}]
  BY <1>5
<1> HIDE DEF done
<1>10. done = Squeezing(alg, next, zero, out, 0)
  BY <1>9 DEF Squeezing
<1>. QED
  BY <1>8, <1>10, Zenon DEF c, next, zero, out, Given

\* The context as it is when bytes are copied: there is at least one left.
LEMMA ReadyToCopy ==
  ASSUME NEW B, NEW c, NEW alg, NEW msg, NEW m, msg \in Seq(B), IsBytes3(B, alg),
         OqsGave(c, alg, msg, m)
  PROVE  \E k \in Nat, p \in 0 .. Rate - 1 :
            /\ (IF c.sq_pos = Rate THEN Refill(c) ELSE c) = Given(alg, msg, k, p)
            /\ m = k * Rate + p
<1>1. PICK k \in Nat, p \in 0 .. Rate : c = Given(alg, msg, k, p) /\ m = k * Rate + p
  BY DEF OqsGave
<1>2. c.sq_pos = p
  BY <1>1, GivenFields
<1>3. Rate \in Nat /\ Rate >= 1
  BY HashShape DEF Sha3Digest
<1>4. CASE p = Rate
  <2>1. Refill(c) = Given(alg, msg, k + 1, 0)
    BY <1>1, <1>4, Refills
  <2>2. k * Rate + p = (k + 1) * Rate + 0
    <3>1. (k + 1) * Rate = k * Rate + Rate /\ k * Rate \in Nat
      BY <1>3
    <3> DEFINE a == k * Rate
               b == (k + 1) * Rate
    <3>2. b = a + Rate /\ a \in Nat
      BY <3>1
    <3> HIDE DEF a, b
    <3>3. a + p = b + 0
      BY <1>3, <1>4, <3>2
    <3>. QED
      BY <3>3 DEF a, b
  <2>3. k + 1 \in Nat /\ 0 \in 0 .. Rate - 1
    BY <1>3
  <2>4. (IF c.sq_pos = Rate THEN Refill(c) ELSE c) = Given(alg, msg, k + 1, 0)
    BY <1>2, <1>4, <2>1, Zenon
  <2>5. m = (k + 1) * Rate + 0
    BY <1>1, <2>2, Zenon
  <2>. QED
    BY <2>3, <2>4, <2>5, Zenon
<1>5. CASE p # Rate
  <2>1. p \in 0 .. Rate - 1
    BY <1>3, <1>5
  <2>2. (IF c.sq_pos = Rate THEN Refill(c) ELSE c) = Given(alg, msg, k, p)
    BY <1>1, <1>2, <1>5, Zenon
  <2>3. m = k * Rate + p
    BY <1>1
  <2>. QED
    BY <2>1, <2>2, <2>3, Zenon
<1>. QED
  BY <1>4, <1>5

\* A turn of squeezing: m0 bytes were given before the call, and "out" by it.
Copying(B, c, alg, msg, m, m0, len, out, t) ==
  /\ msg \in Seq(B) /\ IsBytes3(B, alg) /\ OqsGave(c, alg, msg, m) /\ m0 \in Nat /\ len \in Nat
  /\ GivesFrom(out, alg, msg, m0) /\ m = m0 + Len(out) /\ Len(out) < len
  /\ t = CopyOut(c, len, out)

\* A turn of the copying.
LEMMA CopyTurn ==
  ASSUME NEW B, NEW c, NEW alg, NEW msg, NEW m, NEW m0, NEW len, NEW out, NEW t,
         Copying(B, c, alg, msg, m, m0, len, out, t)
  PROVE  /\ t = [ctx |-> t.ctx, out |-> t.out]
         /\ Len(t.out) \in Nat /\ Len(t.out) > Len(out) /\ Len(t.out) <= len
         /\ GivesFrom(t.out, alg, msg, m0)
         /\ OqsGave(t.ctx, alg, msg, m0 + Len(t.out))
<1>1. /\ msg \in Seq(B) /\ IsBytes3(B, alg) /\ OqsGave(c, alg, msg, m) /\ m0 \in Nat /\ len \in Nat
      /\ GivesFrom(out, alg, msg, m0) /\ Len(out) < len
  BY DEF Copying
<1>2. m = m0 + Len(out) /\ t = CopyOut(c, len, out)
  BY DEF Copying
<1> DEFINE from == IF c.sq_pos = Rate THEN Refill(c) ELSE c
<1>3. PICK k \in Nat, p \in 0 .. Rate - 1 : from = Given(alg, msg, k, p) /\ m = k * Rate + p
  BY <1>1, ReadyToCopy
<1> DEFINE o == Len(out)
           avail == Rate - p
           take == IF len - o < avail THEN len - o ELSE avail
           p2 == p + take
           buf == Digest("keccak", Spun(alg, msg, k), Rate)
           piece == Slice(buf, p, take)
           longer == out \o piece
           ctx2 == [from EXCEPT !.sq_pos = p2]
           Y == SpongeBytes(alg, msg)
           base == k * Rate
<1>4. t = [ctx |-> ctx2, out |-> longer]
  <2>1. from.sq_pos = p /\ from.sq_buf = buf
    BY <1>3, GivenFields
  <2>2. CopyOut(c, len, out)
          = [ctx |-> [from EXCEPT !.sq_pos = from.sq_pos
                        + (IF len - Len(out) < Rate - from.sq_pos THEN len - Len(out) ELSE Rate - from.sq_pos)],
             out |-> out \o Slice(from.sq_buf, from.sq_pos,
                        IF len - Len(out) < Rate - from.sq_pos THEN len - Len(out) ELSE Rate - from.sq_pos)]
    BY Zenon DEF CopyOut
  <2> HIDE DEF from, buf
  <2>. QED
    BY <1>2, <2>1, <2>2, Zenon
<1>5. from = Given(alg, msg, k, p) /\ m = base + p /\ m = m0 + o /\ base \in Nat /\ Rate \in Nat
  <2>1. Rate \in Nat
    BY HashShape
  <2>. QED
    BY <1>2, <1>3, <2>1
<1> HIDE DEF from, base
<1>6. out \in Seq(Y) /\ o \in Nat /\ o < len /\ \A i \in 1 .. o : out[i] = SpongeByte(alg, msg, m0 + i - 1)
  <2>1. out \in Seq(Y) /\ \A i \in 1 .. o : out[i] = SpongeByte(alg, msg, m0 + i - 1)
    BY <1>1 DEF GivesFrom
  <2> HIDE DEF Y
  <2>. QED
    BY <1>1, <2>1, SeqIsList
<1> HIDE DEF o, Y
<1>7. take \in Nat /\ take > 0 /\ o + take <= len /\ p + take <= Rate /\ p \in Nat
  BY <1>1, <1>5, <1>6
<1>8. ctx2 = Given(alg, msg, k, p2)
  <2> DEFINE past == Spun(alg, msg, k)
             zero == Zeros(Rate)
  <2>1. from = Squeezing(alg, past, zero, buf, p)
    BY <1>5, Zenon DEF Given
  <2> HIDE DEF past, zero, buf, p2
  <2>2. ctx2 \in [alg : {alg}, past : {past}, state : {zero}, pos : {0}, sq_buf : {buf},
                  sq_pos : {p2}, squeezing : {TRUE}]
    BY <2>1 DEF Squeezing
  <2> HIDE DEF ctx2
  <2>3. ctx2 = Squeezing(alg, past, zero, buf, p2)
    BY <2>2 DEF Squeezing
  <2>. QED
    BY <2>3, Zenon DEF Given, past, zero, buf
<1> HIDE DEF take
<1>9. /\ piece \in Seq(Y) /\ Len(piece) = take
      /\ \A i \in 1 .. take : piece[i] = SpongeByte(alg, msg, m + i - 1)
  <2>1. ASSUME NEW i \in 1 .. take
        PROVE  buf[p + i] = SpongeByte(alg, msg, m + i - 1) /\ m + i - 1 \in Nat
    <3> DEFINE j == p + i - 1
    <3>1. j \in 0 .. Rate - 1 /\ p + i = j + 1 /\ j + 1 \in 1 .. Rate
      BY <1>5, <1>7
    <3>2. m + i - 1 = base + j /\ base + j \in Nat
      BY <1>5, <1>7, <3>1
    <3> HIDE DEF j
    <3>3. buf[j + 1] = OutputByte("keccak", Spun(alg, msg, k), j + 1)
      BY <3>1 DEF Digest
    <3> HIDE DEF buf
    <3>4. SpongeByte(alg, msg, k * Rate + j) = OutputByte("keccak", Spun(alg, msg, k), j + 1)
      BY <3>1, ByteAt
    <3>5. SpongeByte(alg, msg, base + j) = buf[j + 1]
      BY <3>3, <3>4, Zenon DEF base
    <3>. QED
      BY <3>1, <3>2, <3>5
  <2>2. \A i \in 1 .. take : piece[i] = buf[p + i]
    BY DEF Slice
  <2>3. ASSUME NEW i \in 1 .. take PROVE piece[i] \in Y
    <3>1. piece[i] = SpongeByte(alg, msg, m + i - 1) /\ m + i - 1 \in Nat
      BY <2>1, <2>2
    <3> HIDE DEF piece
    <3>. QED
      BY <3>1, Zenon DEF Y, SpongeBytes
  <2>4. piece = [i \in 1 .. take |-> buf[p + i]]
    BY Zenon DEF Slice
  <2>5. piece \in [1 .. take -> Y]
    <3>1. \A i \in 1 .. take : buf[p + i] \in Y
      BY <2>2, <2>3
    <3> HIDE DEF buf, piece
    <3>. QED
      BY <2>4, <3>1
  <2> HIDE DEF piece, buf
  <2>6. piece \in Seq(Y) /\ Len(piece) = take
    BY <1>7, <2>5, ListIsSeq
  <2>. QED
    BY <2>1, <2>2, <2>6
<1> HIDE DEF piece, buf
<1>10. /\ longer \in Seq(Y) /\ Len(longer) = o + take
       /\ \A i \in 1 .. o : longer[i] = out[i]
       /\ \A i \in 1 .. take : longer[o + i] = piece[i]
  <2>1. Follows(Y, out, piece, longer, o)
    BY <1>6, <1>9 DEF Follows, o
  <2> HIDE DEF longer
  <2>2. /\ longer \in Seq(Y) /\ Len(longer) = o + Len(piece)
        /\ \A i \in 1 .. o : longer[i] = out[i]
        /\ \A i \in 1 .. Len(piece) : longer[o + i] = piece[i]
    BY <2>1, TwoParts
  <2>. QED
    BY <1>9, <2>2
<1> HIDE DEF longer
<1>11. GivesFrom(longer, alg, msg, m0)
  <2>1. ASSUME NEW i \in 1 .. o + take PROVE longer[i] = SpongeByte(alg, msg, m0 + i - 1)
    <3>1. CASE i <= o
      <4>1. i \in 1 .. o
        BY <1>6, <1>7, <3>1
      <4>. QED
        BY <1>6, <1>10, <4>1
    <3>2. CASE i > o
      <4> DEFINE j == i - o
      <4>1. j \in 1 .. take /\ o + j = i /\ m + j - 1 = m0 + i - 1
        BY <1>1, <1>5, <1>6, <1>7, <3>2
      <4> HIDE DEF j
      <4>2. longer[o + j] = piece[j] /\ piece[j] = SpongeByte(alg, msg, m + j - 1)
        BY <1>9, <1>10, <4>1
      <4>. QED
        BY <4>1, <4>2
    <3>. QED
      BY <1>6, <1>7, <3>1, <3>2
  <2>2. Len(longer) = o + take /\ longer \in Seq(Y)
    BY <1>10
  <2>. QED
    BY <2>1, <2>2 DEF GivesFrom, Y
<1>12. OqsGave(ctx2, alg, msg, m0 + (o + take))
  <2>1. p2 \in 0 .. Rate /\ m0 + (o + take) = base + p2
    BY <1>1, <1>5, <1>6, <1>7
  <2> HIDE DEF ctx2, p2
  <2>2. m0 + (o + take) = k * Rate + p2
    BY <2>1 DEF base
  <2>. QED
    BY <1>8, <2>1, <2>2, Zenon DEF OqsGave
<1> HIDE DEF ctx2
<1>13. t.ctx = ctx2 /\ t.out = longer
  BY <1>4
<1>14. Len(t.out) = o + take
  BY <1>10, <1>13
<1>15. o + take \in Nat /\ o + take > o
  BY <1>6, <1>7
<1>. QED
  BY <1>4, <1>7, <1>11, <1>12, <1>13, <1>14, <1>15 DEF o

\* A call of squeeze.
Squeezes(B, c, alg, msg, m0, len) ==
  msg \in Seq(B) /\ IsBytes3(B, alg) /\ OqsGave(c, alg, msg, m0) /\ m0 \in Nat /\ len \in Nat

\* It gives the next len bytes of the sponge.
LEMMA Squeezed ==
  ASSUME NEW B, NEW c, NEW alg, NEW msg, NEW m0, NEW len, Squeezes(B, c, alg, msg, m0, len)
  PROVE  /\ OqsGave(Squeeze(c, len).ctx, alg, msg, m0 + len)
         /\ GivesFrom(Squeeze(c, len).out, alg, msg, m0) /\ Len(Squeeze(c, len).out) = len
<1> DEFINE Y == SpongeBytes(alg, msg)
           Contexts == {Given(alg, msg, k, p) : k \in Nat, p \in 0 .. Rate}
           empty == <<>>
           start == [ctx |-> c, out |-> empty]
           Good(t) == /\ Len(t.out) \in 0 .. len /\ GivesFrom(t.out, alg, msg, m0)
                      /\ OqsGave(t.ctx, alg, msg, m0 + Len(t.out))
           S == {t \in [ctx : Contexts, out : Seq(Y)] : Good(t)}
           Turn(t) == IF Len(t.out) = len THEN t ELSE CopyOut(t.ctx, len, t.out)
           turn == [t \in S |-> Turn(t)]
           done == [t \in S |-> Len(t.out)]
<1>1. msg \in Seq(B) /\ IsBytes3(B, alg) /\ OqsGave(c, alg, msg, m0) /\ m0 \in Nat /\ len \in Nat
  BY DEF Squeezes
<1>2. ASSUME NEW d, NEW m, OqsGave(d, alg, msg, m) PROVE d \in Contexts
  BY <1>2 DEF OqsGave
<1>3. start \in S
  <2>1. empty \in Seq(Y) /\ Len(empty) = 0
    BY Empty
  <2>2. c \in Contexts
    BY <1>1, <1>2
  <2>3. start.ctx = c /\ start.out = empty
    OBVIOUS
  <2>4. start \in [ctx : Contexts, out : Seq(Y)]
    <3> HIDE DEF Contexts, Y, empty
    <3>. QED
      BY <2>1, <2>2
  <2>5. GivesFrom(empty, alg, msg, m0)
    <3>1. \A i \in 1 .. Len(empty) : FALSE
      BY <2>1
    <3> HIDE DEF empty
    <3>. QED
      BY <2>1, <3>1 DEF GivesFrom
  <2> HIDE DEF empty
  <2>6. Len(empty) \in 0 .. len /\ m0 + Len(empty) = m0
    BY <1>1, <2>1
  <2>7. Good(start)
    <3> HIDE DEF start
    <3>. QED
      BY <1>1, <2>3, <2>5, <2>6, Zenon
  <2> HIDE DEF start, Good, Contexts
  <2>. QED
    BY <2>4, <2>7
<1>4. ASSUME NEW t \in S PROVE Turn(t) \in S /\ (Len(Turn(t).out) = len \/ Len(Turn(t).out) > Len(t.out))
  <2>1. CASE Len(t.out) = len
    BY <2>1
  <2>2. CASE Len(t.out) # len
    <3> DEFINE r == CopyOut(t.ctx, len, t.out)
               m == m0 + Len(t.out)
    <3>1. Good(t)
      OBVIOUS
    <3>2. Len(t.out) < len
      <4> HIDE DEF S
      <4>. QED
        BY <1>1, <2>2, <3>1
    <3>3. Turn(t) = r
      BY <2>2
    <3>4. m = m0 + Len(t.out) /\ r = CopyOut(t.ctx, len, t.out)
      OBVIOUS
    <3> HIDE DEF r, m, S, Turn
    <3>a. OqsGave(t.ctx, alg, msg, m) /\ GivesFrom(t.out, alg, msg, m0)
      BY <3>1, <3>4
    <3> HIDE DEF Good
    <3>5. Copying(B, t.ctx, alg, msg, m, m0, len, t.out, r)
      BY <1>1, <3>2, <3>4, <3>a, Zenon DEF Copying
    <3>6. /\ r = [ctx |-> r.ctx, out |-> r.out]
          /\ Len(r.out) \in Nat /\ Len(r.out) > Len(t.out) /\ Len(r.out) <= len
          /\ GivesFrom(r.out, alg, msg, m0)
          /\ OqsGave(r.ctx, alg, msg, m0 + Len(r.out))
      BY <3>5, CopyTurn
    <3>7. r.ctx \in Contexts /\ r.out \in Seq(Y)
      <4>1. r.out \in Seq(Y)
        BY <3>6 DEF GivesFrom
      <4>2. r.ctx \in Contexts
        BY <1>2, <3>6
      <4>. QED
        BY <4>1, <4>2
    <3>8. Len(r.out) \in 0 .. len
      BY <1>1, <3>6
    <3>9. Good(r)
      BY <3>6, <3>8 DEF Good
    <3> HIDE DEF Good, Contexts, Y
    <3>10. r \in [ctx : Contexts, out : Seq(Y)]
      BY <3>6, <3>7
    <3>11. r \in S
      BY <3>9, <3>10 DEF S
    <3>. QED
      BY <3>3, <3>6, <3>11
  <2>. QED
    BY <2>1, <2>2
<1>5. IsLoop(S, start, turn, len, done)
  <2>1. \A t \in S : Len(t.out) \in 0 .. len
    OBVIOUS
  <2> HIDE DEF S, Turn
  <2>2. /\ turn \in [S -> S]
        /\ done \in [S -> 0 .. len]
        /\ \A t \in S : done[turn[t]] = len \/ done[turn[t]] > done[t]
    BY <1>4, <2>1
  <2> HIDE DEF turn, done, start
  <2>. QED
    BY <1>1, <1>3, <2>2 DEF IsLoop
<1> DEFINE after == CHOOSE after : after = [k \in Nat |-> IF k = 0 THEN start ELSE Turn(after[k - 1])]
<1>6. Squeeze(c, len) = after[len]
  BY DEF Squeeze, Loop
<1>7. after = [k \in Nat |-> IF k = 0 THEN start ELSE Turn(after[k - 1])]
  <2> HIDE DEF S, start
  <2>1. PICK f : f \in [Nat -> S] /\ IsRun(S, start, turn, f)
    <3> HIDE DEF turn, done
    <3>. QED
      BY <1>5, LoopRuns
  <2> HIDE DEF Turn
  <2>2. \A k \in Nat : f[k + 1] = Turn(f[k])
    BY <2>1 DEF IsRun
  <2>3. f = [k \in Nat |-> IF k = 0 THEN start ELSE Turn(f[k - 1])]
    <3>1. \A k \in Nat : k # 0 => k - 1 \in Nat /\ k - 1 + 1 = k
      OBVIOUS
    <3>. QED
      BY <2>1, <2>2, <3>1 DEF IsRun
  <2>. QED
    BY <2>3
<1> HIDE DEF S, Turn, start, after
<1>8. after[len] \in S /\ done[after[len]] = len
  <2>1. IsRun(S, start, turn, after)
    BY <1>7 DEF IsRun
  <2> HIDE DEF turn, done
  <2>. QED
    BY <1>5, <2>1, LoopEnds
<1> DEFINE t == after[len]
<1>9. Good(t)
  BY <1>8 DEF S
<1>10. Len(t.out) = len
  <2> HIDE DEF Good
  <2>. QED
    BY <1>8
<1> HIDE DEF t
<1>11. OqsGave(t.ctx, alg, msg, m0 + len) /\ GivesFrom(t.out, alg, msg, m0)
  BY <1>9, <1>10, Zenon
<1>12. Squeeze(c, len) = t
  BY <1>6 DEF t
<1>. QED
  BY <1>10, <1>11, <1>12, Zenon

\* The next bytes behind those that came before.
LEMMA GivesMore ==
  ASSUME NEW alg, NEW msg, NEW a, NEW b, NEW m, GivesFrom(a, alg, msg, 0), m = Len(a),
         GivesFrom(b, alg, msg, m)
  PROVE  GivesFrom(a \o b, alg, msg, 0) /\ Len(a \o b) = m + Len(b)
<1> DEFINE Y == SpongeBytes(alg, msg)
           whole == a \o b
<1>1. /\ a \in Seq(Y) /\ b \in Seq(Y) /\ m = Len(a)
      /\ \A i \in 1 .. m : a[i] = SpongeByte(alg, msg, 0 + i - 1)
      /\ \A i \in 1 .. Len(b) : b[i] = SpongeByte(alg, msg, m + i - 1)
  BY DEF GivesFrom
<1> HIDE DEF Y
<1>2. Follows(Y, a, b, whole, m)
  BY <1>1, Zenon DEF Follows
<1> HIDE DEF whole
<1>3. /\ whole \in Seq(Y) /\ Len(whole) = m + Len(b) /\ Len(b) \in Nat /\ m \in Nat
      /\ \A i \in 1 .. m : whole[i] = a[i]
      /\ \A i \in 1 .. Len(b) : whole[m + i] = b[i]
  BY <1>2, TwoParts
<1>4. ASSUME NEW i \in 1 .. Len(whole) PROVE whole[i] = SpongeByte(alg, msg, 0 + i - 1)
  <2>1. CASE i <= m
    <3>1. i \in 1 .. m
      BY <1>3, <2>1
    <3>. QED
      BY <1>1, <1>3, <3>1
  <2>2. CASE i > m
    <3> DEFINE j == i - m
    <3>1. j \in 1 .. Len(b) /\ m + j = i /\ m + j - 1 = 0 + i - 1
      BY <1>3, <2>2
    <3> HIDE DEF j
    <3>2. whole[m + j] = b[j] /\ b[j] = SpongeByte(alg, msg, m + j - 1)
      BY <1>1, <1>3, <3>1
    <3>. QED
      BY <3>1, <3>2
  <2>. QED
    BY <1>3, <2>1, <2>2
<1>5. GivesFrom(whole, alg, msg, 0)
  BY <1>3, <1>4 DEF GivesFrom, Y
<1>. QED
  BY <1>3, <1>5, Zenon DEF whole

-----------------------------------------------------------------------------
(* The inductive invariant: what a caller's context and those of liboqs hold *)
(* of the message that was fed, and what came out of it.                     *)

\* All contexts there are.
Contexts == {Local} \cup Oqs

\* All bytes of messages and of their padding.
Bytes ==
  {{}, Marker, Last} \cup {LengthOf(n) : n \in Nat}
    \cup {DomainOf("sha3"), DomainOf("sha3") \cup Last, DomainOf("shake"), DomainOf("shake") \cup Last}
    \cup {{<<"byte", s, i>>} : s \in Nat, i \in Nat}

\* They are the bytes that the lemmas ask for.
LEMMA AllBytes ==
  /\ IsBytes(Bytes) /\ {} \in Bytes
  /\ \A alg \in {"sha3", "shake"} : IsBytes3(Bytes, alg)
<1>1. {} \in Bytes /\ Marker \in Bytes /\ Last \in Bytes
  BY DEF Bytes
<1>2. \A n \in Nat : LengthOf(n) \in Bytes
  BY DEF Bytes
<1>3. \A alg \in {"sha3", "shake"} : DomainOf(alg) \in Bytes /\ DomainOf(alg) \cup Last \in Bytes
  <2>1. DomainOf("sha3") \in Bytes /\ DomainOf("sha3") \cup Last \in Bytes
    BY DEF Bytes
  <2>2. DomainOf("shake") \in Bytes /\ DomainOf("shake") \cup Last \in Bytes
    BY DEF Bytes
  <2>. QED
    BY <2>1, <2>2
<1>. QED
  BY <1>1, <1>2, <1>3 DEF IsBytes, IsBytes3

\* The context of a caller: before the end it has taken the message, then out is its hash.
LocalGood(f, s, c, msg, out) ==
  /\ f \in DOMAIN Sha2 => IsSha2(Bytes, c)
  /\ s > 0 /\ out = <<>> /\ f \in DOMAIN Sha2 => Sha2Has(Bytes, c, f, Len(msg), msg, Len(msg))
  /\ s > 0 /\ out = <<>> /\ f = "sha3" => Sha3Has(Bytes, c, msg, Len(msg))
  /\ out # <<>> => f # "liboqs" /\ out = HashOf(f, msg)

\* A context of liboqs takes a message, or gives the bytes of its sponge.
Absorbs(c, alg, msg, out) ==
  c.alg = alg /\ c.squeezing = FALSE /\ out = <<>> /\ OqsHolds(Bytes, c, alg, msg)

\* A context of liboqs gives the bytes of its sponge, a SHAKE function as many as came out.
Gives(c, alg, msg, out) ==
  /\ c.alg = alg /\ c.squeezing = TRUE /\ GivesFrom(out, alg, msg, 0)
  /\ \E m \in Nat : OqsGave(c, alg, msg, m) /\ (alg = "shake" => m = Len(out))

\* Every context of liboqs that exists does one or the other.
OqsGood(c, msg, out) ==
  c # Null => \E alg \in {"sha3", "shake"} : Absorbs(c, alg, msg, out) \/ Gives(c, alg, msg, out)

\* A context that has absorbed a message, and nothing came out.
LEMMA HoldsAbsorbs ==
  ASSUME NEW c, NEW alg, NEW msg, OqsHolds(Bytes, c, alg, msg)
  PROVE  Absorbs(c, alg, msg, <<>>) /\ IsOqs(c, alg)
<1>1. c = Absorbing(alg, c.past, c.state, c.pos, c.sq_buf, c.sq_pos)
  BY Zenon DEF OqsHolds, OqsHas
<1>2. c.alg = alg /\ c.squeezing = FALSE /\ IsOqs(c, alg)
  <2> DEFINE past == c.past
             state == c.state
             pos == c.pos
             sq_buf == c.sq_buf
             sq_pos == c.sq_pos
  <2>1. c = Absorbing(alg, past, state, pos, sq_buf, sq_pos)
    BY <1>1
  <2> HIDE DEF past, state, pos, sq_buf, sq_pos
  <2>. QED
    <3> DEFINE d == Absorbing(alg, past, state, pos, sq_buf, sq_pos)
    <3>1. d.alg = alg /\ d.squeezing = FALSE
      BY DEF Absorbing
    <3>2. IsOqs(d, alg)
      BY Zenon DEF IsOqs, Absorbing
    <3>. QED
      BY <2>1, <3>1, <3>2, Zenon
<1>. QED
  BY <1>2, Zenon DEF Absorbs

\* One that has given bytes.
LEMMA GaveIsOqs ==
  ASSUME NEW c, NEW alg, NEW msg, NEW m, OqsGave(c, alg, msg, m)
  PROVE  c.alg = alg /\ c.squeezing = TRUE /\ IsOqs(c, alg)
<1>1. PICK k \in Nat, p \in 0 .. Rate : c = Given(alg, msg, k, p)
  BY DEF OqsGave
<1> DEFINE d == Given(alg, msg, k, p)
<1>2. d.alg = alg /\ d.squeezing = TRUE
  BY DEF Given, Squeezing
<1>3. IsOqs(d, alg)
  BY Zenon DEF IsOqs, Given, Squeezing
<1>. QED
  BY <1>1, <1>2, <1>3, Zenon

\* The invariant speaks of contexts.
LEMMA GoodIsOqs ==
  ASSUME NEW c, NEW msg, NEW out, OqsGood(c, msg, out), c # Null
  PROVE  IsOqs(c, c.alg) /\ c.alg \in {"sha3", "shake"}
<1>1. PICK alg \in {"sha3", "shake"} : Absorbs(c, alg, msg, out) \/ Gives(c, alg, msg, out)
  BY DEF OqsGood
<1>2. CASE Absorbs(c, alg, msg, out)
  BY <1>2, HoldsAbsorbs DEF Absorbs
<1>3. CASE Gives(c, alg, msg, out)
  BY <1>3, GaveIsOqs DEF Gives
<1>. QED
  BY <1>1, <1>2, <1>3

\* init.
LEMMA GoodNew ==
  ASSUME NEW alg, alg \in {"sha3", "shake"}
  PROVE  OqsGood(OqsNew(alg), <<>>, <<>>)
<1>1. Absorbs(OqsNew(alg), alg, <<>>, <<>>)
  BY AllBytes, OqsNews, HoldsAbsorbs
<1>. QED
  BY <1>1, Zenon DEF OqsGood

\* reset.
LEMMA GoodReset ==
  ASSUME NEW c, NEW msg, NEW out, OqsGood(c, msg, out), c # Null
  PROVE  OqsGood(Reset(c), <<>>, <<>>)
<1> DEFINE alg == c.alg
<1>1. IsOqs(c, alg) /\ alg \in {"sha3", "shake"}
  BY GoodIsOqs
<1> HIDE DEF alg
<1>2. Absorbs(Reset(c), alg, <<>>, <<>>)
  BY <1>1, AllBytes, OqsReset, HoldsAbsorbs
<1>. QED
  BY <1>1, <1>2, Zenon DEF OqsGood

\* Absorb.
LEMMA GoodAbsorb ==
  ASSUME NEW c, NEW msg, NEW out, NEW data, OqsGood(c, msg, out), c # Null, ~c.squeezing,
         msg \in Seq(Bytes), data \in Seq(Bytes)
  PROVE  out = <<>> /\ OqsGood(Absorb(c, data), msg \o data, out) /\ msg \o data \in Seq(Bytes)
<1>1. PICK alg \in {"sha3", "shake"} : Absorbs(c, alg, msg, out)
  BY Zenon DEF OqsGood, Gives
<1>2. out = <<>> /\ OqsHolds(Bytes, c, alg, msg)
  BY <1>1, Zenon DEF Absorbs
<1> DEFINE d == Absorb(c, data)
           whole == msg \o data
<1>3. OqsHolds(Bytes, d, alg, whole) /\ whole \in Seq(Bytes)
  BY <1>2, AllBytes, OqsMore
<1> HIDE DEF d, whole
<1>4. Absorbs(d, alg, whole, <<>>)
  BY <1>3, HoldsAbsorbs
<1>5. OqsGood(d, whole, out)
  BY <1>2, <1>4, Zenon DEF OqsGood
<1>. QED
  BY <1>2, <1>3, <1>5, Zenon DEF d, whole

\* The end of the input, and the digest of it for the SHA-3 functions.
LEMMA GoodFinal ==
  ASSUME NEW c, NEW msg, NEW out, OqsGood(c, msg, out), c # Null, ~c.squeezing, msg \in Seq(Bytes)
  PROVE  /\ out = <<>>
         /\ c.alg = "shake" => OqsGood(Finalize(c), msg, out)
         /\ c.alg = "sha3" => OqsGood(Finalize(c), msg, Slice(Finalize(c).sq_buf, 0, Sha3Digest))
<1>1. PICK alg \in {"sha3", "shake"} : Absorbs(c, alg, msg, out)
  BY Zenon DEF OqsGood, Gives
<1>2. out = <<>> /\ OqsHolds(Bytes, c, alg, msg) /\ c.alg = alg
  BY <1>1, Zenon DEF Absorbs
<1> DEFINE d == Finalize(c)
           buf == Digest("keccak", Spun(alg, msg, 0), Rate)
           Y == SpongeBytes(alg, msg)
<1>3. d = Given(alg, msg, 0, 0)
  BY <1>2, AllBytes, OqsFinalized
<1>4. Rate \in Nat /\ Rate >= Sha3Digest /\ Sha3Digest \in Nat
  BY HashShape DEF Sha3Digest
<1> HIDE DEF d
<1>5. OqsGave(d, alg, msg, 0) /\ d.sq_buf = buf
  <2>1. 0 \in Nat /\ 0 \in 0 .. Rate /\ 0 = 0 * Rate + 0
    BY <1>4
  <2>2. OqsGave(d, alg, msg, 0)
    BY <1>3, <2>1, Zenon DEF OqsGave
  <2>3. d.sq_buf = buf
    BY <1>3, GivenFields
  <2>. QED
    BY <2>2, <2>3
<1>6. d.alg = alg /\ d.squeezing = TRUE
  BY <1>5, GaveIsOqs
<1>7. ASSUME alg = "shake" PROVE OqsGood(d, msg, <<>>)
  <2> DEFINE empty == <<>>
  <2>1. empty \in Seq(Y) /\ Len(empty) = 0
    BY Empty
  <2>2. \A i \in 1 .. Len(empty) : FALSE
    BY <2>1
  <2> HIDE DEF empty
  <2>3. GivesFrom(empty, alg, msg, 0)
    BY <2>1, <2>2 DEF GivesFrom
  <2>4. Gives(d, alg, msg, empty)
    <3>1. 0 \in Nat
      OBVIOUS
    <3>. QED
      BY <1>5, <1>6, <2>1, <2>3, <3>1, Zenon DEF Gives
  <2>. QED
    BY <2>4, Zenon DEF OqsGood, empty
<1>8. ASSUME alg = "sha3" PROVE OqsGood(d, msg, Slice(d.sq_buf, 0, Sha3Digest))
  <2> DEFINE n == Sha3Digest
             piece == [i \in 1 .. n |-> buf[0 + i]]
  <2>1. ASSUME NEW i \in 1 .. n PROVE buf[0 + i] = SpongeByte(alg, msg, 0 + i - 1) /\ 0 + i - 1 \in Nat
    <3> DEFINE j == i - 1
    <3>1. j \in 0 .. Rate - 1 /\ 0 + i = j + 1 /\ j + 1 \in 1 .. Rate /\ 0 * Rate + j = 0 + i - 1
      BY <1>4
    <3> HIDE DEF j
    <3>2. buf[j + 1] = OutputByte("keccak", Spun(alg, msg, 0), j + 1)
      BY <3>1 DEF Digest
    <3> HIDE DEF buf
    <3>3. SpongeByte(alg, msg, 0 * Rate + j) = OutputByte("keccak", Spun(alg, msg, 0), j + 1)
      BY <3>1, ByteAt
    <3>4. 0 + i - 1 \in Nat
      BY <1>4
    <3>. QED
      BY <3>1, <3>2, <3>3, <3>4
  <2>2. \A i \in 1 .. n : buf[0 + i] \in Y
    BY <2>1, Zenon DEF SpongeBytes
  <2>3. Slice(d.sq_buf, 0, Sha3Digest) = piece
    BY <1>5, Zenon DEF Slice
  <2> HIDE DEF buf, n, Y
  <2>4. piece \in [1 .. n -> Y] /\ \A i \in 1 .. n : piece[i] = buf[0 + i]
    BY <2>2
  <2> HIDE DEF piece
  <2>5. piece \in Seq(Y) /\ Len(piece) = n
    BY <1>4, <2>4, ListIsSeq DEF n
  <2>6. GivesFrom(piece, alg, msg, 0)
    BY <2>1, <2>4, <2>5 DEF GivesFrom, Y
  <2>7. Gives(d, alg, msg, piece)
    <3>1. 0 \in Nat /\ alg # "shake"
      BY <1>8
    <3>. QED
      BY <1>5, <1>6, <2>6, <3>1, Zenon DEF Gives
  <2>. QED
    BY <2>3, <2>7, Zenon DEF OqsGood
<1>. QED
  BY <1>2, <1>7, <1>8, Zenon DEF d

\* The next bytes of a SHAKE function.
LEMMA GoodSqueeze ==
  ASSUME NEW c, NEW msg, NEW out, NEW n, OqsGood(c, msg, out), c # Null, c.squeezing,
         c.alg = "shake",
         msg \in Seq(Bytes), n \in Nat
  PROVE  OqsGood(Squeeze(c, n).ctx, msg, out \o Squeeze(c, n).out)
<1> DEFINE alg == "shake"
           d == Squeeze(c, n).ctx
           more == Squeeze(c, n).out
           m == Len(out)
<1>1. Gives(c, alg, msg, out)
  BY Zenon DEF OqsGood, Absorbs, Gives
<1>2. GivesFrom(out, alg, msg, 0) /\ OqsGave(c, alg, msg, m) /\ m \in Nat
  BY <1>1, Zenon DEF Gives
<1>3. Squeezes(Bytes, c, alg, msg, m, n)
  BY <1>2, AllBytes DEF Squeezes
<1> HIDE DEF m, d, more
<1>4. OqsGave(d, alg, msg, m + n) /\ GivesFrom(more, alg, msg, m) /\ Len(more) = n
  <2> HIDE DEF alg
  <2>. QED
    BY <1>3, Squeezed DEF d, more
<1> DEFINE whole == out \o more
<1> HIDE DEF d, more, whole
<1>5. GivesFrom(whole, alg, msg, 0) /\ Len(whole) = m + Len(more)
  <2>1. m = Len(out)
    BY DEF m
  <2> HIDE DEF alg
  <2>. QED
    BY <1>2, <1>4, <2>1, GivesMore DEF whole
<1>6. d.alg = alg /\ d.squeezing = TRUE
  BY <1>4, GaveIsOqs
<1>7. Gives(d, alg, msg, whole)
  <2>1. m + n \in Nat /\ m + n = Len(whole)
    BY <1>2, <1>4, <1>5
  <2>. QED
    BY <1>4, <1>5, <1>6, <2>1, Zenon DEF Gives
<1>. QED
  BY <1>7, Zenon DEF OqsGood, whole, d, more

\* The names of the functions differ.
LEMMA NotOqs ==
  ASSUME NEW f, f \in DOMAIN Sha2 PROVE f # "sha3" /\ f # "liboqs"
BY DEF Sha2

\* What Start, Update and Finish compute, for either kind of context.
StartOf(f, c) == IF f = "sha3" THEN Sha3Init(c) ELSE Sha2Init(c, f)
UpdateOf(f, c, data) == IF f = "sha3" THEN Sha3Update(c, data) ELSE Sha2Update(c, data)
FinishOf(f, c) == IF f = "sha3" THEN Sha3Finish(c) ELSE Sha2Finish(c)
DigestOf(f, c) == IF f = "sha3" THEN Digest("sha3", c.past, Sha3Digest) ELSE Sha2Digest(c)

\* Start of a message, of any function, keeps the invariant of a caller's context.
LEMMA LocalStarts ==
  ASSUME NEW f, NEW s, NEW s2, NEW c, NEW msg, NEW out, f \in DOMAIN Sha2 \cup {"sha3"},
         LocalGood(f, s, c, msg, out)
  PROVE  LocalGood(f, s2, StartOf(f, c), <<>>, <<>>)
<1> DEFINE empty == <<>>
           d == StartOf(f, c)
<1>1. Len(empty) = 0
  BY Empty
<1> HIDE DEF empty, d
<1>2. CASE f \in DOMAIN Sha2
  <2>1. f # "sha3" /\ IsSha2(Bytes, c)
    BY <1>2, NotOqs, Zenon DEF LocalGood
  <2>2. d = Sha2Init(c, f)
    BY <2>1 DEF d, StartOf
  <2>3. Sha2Has(Bytes, Sha2Init(c, f), f, 0, <<>>, 0)
    BY <2>1, Sha2Started
  <2>4. Sha2Has(Bytes, d, f, 0, empty, 0)
    BY <2>2, <2>3, Zenon DEF empty
  <2>5. Sha2Has(Bytes, d, f, Len(empty), empty, Len(empty)) /\ IsSha2(Bytes, d)
    BY <1>1, <2>4, Sha2Remains
  <2>6. LocalGood(f, s2, d, empty, empty)
    BY <2>1, <2>5, Zenon DEF LocalGood, empty
  <2>. QED
    BY <2>6, Zenon DEF d, empty
<1>3. CASE f \notin DOMAIN Sha2
  <2>1. f = "sha3"
    BY <1>3
  <2>2. d = Sha3New
    BY <2>1, AllBytes, Sha3Started, Zenon DEF d, StartOf
  <2>3. Sha3Has(Bytes, d, <<>>, 0)
    BY <2>2, AllBytes, Sha3Started
  <2>4. Sha3Has(Bytes, d, empty, Len(empty))
    BY <1>1, <2>3, Zenon DEF empty
  <2>5. LocalGood(f, s2, d, empty, empty)
    BY <1>3, <2>4, Zenon DEF LocalGood, empty
  <2>. QED
    BY <2>5, Zenon DEF d, empty
<1>. QED
  BY <1>2, <1>3

\* So does a part of a message,
LEMMA LocalUpdates ==
  ASSUME NEW f, NEW s, NEW c, NEW msg, NEW out, NEW data, f \in DOMAIN Sha2 \cup {"sha3"},
         LocalGood(f, s, c, msg, out), s > 0, out = <<>>, msg \in Seq(Bytes), data \in Seq(Bytes)
  PROVE  LocalGood(f, s, UpdateOf(f, c, data), msg \o data, out) /\ msg \o data \in Seq(Bytes)
<1> DEFINE d == UpdateOf(f, c, data)
           whole == msg \o data
<1> HIDE DEF d, whole
<1>2. CASE f \in DOMAIN Sha2
  <2>1. f # "sha3" /\ Sha2Has(Bytes, c, f, Len(msg), msg, Len(msg))
    BY <1>2, NotOqs, Zenon DEF LocalGood
  <2>2. d = Sha2Update(c, data)
    BY <2>1 DEF d, UpdateOf
  <2>3. Sha2Has(Bytes, Sha2Update(c, data), f, Len(msg \o data), msg \o data, Len(msg \o data))
        /\ msg \o data \in Seq(Bytes)
    BY <2>1, Sha2More
  <2>4. Sha2Has(Bytes, d, f, Len(whole), whole, Len(whole)) /\ whole \in Seq(Bytes)
    BY <2>2, <2>3, Zenon DEF whole
  <2>5. IsSha2(Bytes, d)
    BY <2>4, Sha2Remains
  <2>6. LocalGood(f, s, d, whole, out)
    BY <2>1, <2>4, <2>5, Zenon DEF LocalGood
  <2>. QED
    BY <2>4, <2>6, Zenon DEF d, whole
<1>3. CASE f \notin DOMAIN Sha2
  <2>1. f = "sha3"
    BY <1>3
  <2>2. Sha3Has(Bytes, c, msg, Len(msg))
    BY <2>1, Zenon DEF LocalGood
  <2>3. d = Sha3Update(c, data)
    BY <2>1, Zenon DEF d, UpdateOf
  <2>4. Sha3Has(Bytes, Sha3Update(c, data), msg \o data, Len(msg \o data)) /\ msg \o data \in Seq(Bytes)
    BY <2>2, AllBytes, Sha3More
  <2>5. Sha3Has(Bytes, d, whole, Len(whole)) /\ whole \in Seq(Bytes)
    BY <2>3, <2>4, Zenon DEF whole
  <2>6. LocalGood(f, s, d, whole, out)
    BY <1>3, <2>5, Zenon DEF LocalGood
  <2>. QED
    BY <2>5, <2>6, Zenon DEF d, whole
<1>. QED
  BY <1>2, <1>3

\* and its end.
LEMMA LocalFinishes ==
  ASSUME NEW f, NEW s, NEW c, NEW msg, NEW out, f \in DOMAIN Sha2 \cup {"sha3"},
         LocalGood(f, s, c, msg, out), s > 0, out = <<>>, msg \in Seq(Bytes)
  PROVE  LocalGood(f, s, FinishOf(f, c), msg, DigestOf(f, FinishOf(f, c)))
<1> DEFINE d == FinishOf(f, c)
           h == DigestOf(f, d)
           n == Len(msg)
<1> HIDE DEF d, h
<1>2. CASE f \in DOMAIN Sha2
  <2>1. f # "sha3" /\ f # "liboqs" /\ Sha2Has(Bytes, c, f, Len(msg), msg, Len(msg))
    BY <1>2, NotOqs, Zenon DEF LocalGood
  <2>2. d = Sha2Finish(c) /\ h = Sha2Digest(d)
    BY <2>1, Zenon DEF d, h, FinishOf, DigestOf
  <2>3. Finishing2(Bytes, c, f, msg, n)
    BY <1>2, <2>1, AllBytes DEF Finishing2
  <2> HIDE DEF n
  <2> DEFINE all == Blocks(Padded2(f, msg), Block)
  <2>4. /\ Sha2Finish(c) = [alg |-> f, past |-> all, buf |-> c.buf, used |-> c.used, total |-> n]
        /\ Sha2Digest(Sha2Finish(c)) = HashOf(f, msg)
    BY <2>3, Sha2Finished
  <2> HIDE DEF all
  <2>5. h = HashOf(f, msg)
    BY <2>2, <2>4, Zenon
  <2>6. IsBuffer(Bytes, Block, c.buf)
    BY <2>1, Sha2Remains DEF IsSha2
  <2>7. IsSha2(Bytes, d)
    <3>1. d = [alg |-> f, past |-> all, buf |-> c.buf, used |-> c.used, total |-> n]
      BY <2>2, <2>4, Zenon
    <3>. QED
      BY <2>6, <3>1 DEF IsSha2
  <2>8. h # <<>>
    <3>1. Len(HashOf(f, msg)) = Sha2[f].digest /\ Sha2[f].digest \in 1 .. 2
      BY <1>2, HashItems
    <3> DEFINE e == <<>>
    <3>2. Len(e) = 0
      BY Empty
    <3> HIDE DEF e
    <3>3. Len(h) # 0
      BY <2>5, <3>1
    <3>4. h # e
      BY <3>2, <3>3, Zenon
    <3>. QED
      BY <3>4 DEF e
  <2>9. LocalGood(f, s, d, msg, h)
    BY <2>1, <2>5, <2>7, <2>8, Zenon DEF LocalGood
  <2>. QED
    BY <2>9, Zenon DEF d, h
<1>3. CASE f \notin DOMAIN Sha2
  <2>1. f = "sha3"
    BY <1>3
  <2>2. Sha3Has(Bytes, c, msg, n)
    BY <2>1, Zenon DEF LocalGood
  <2>3. d = Sha3Finish(c) /\ h = Digest("sha3", d.past, Sha3Digest)
    BY <2>1, Zenon DEF d, h, FinishOf, DigestOf
  <2>4. Finishing3(Bytes, c, msg, n)
    BY <2>2, AllBytes DEF Finishing3
  <2> HIDE DEF n
  <2>5. Digest("sha3", Sha3Finish(c).past, Sha3Digest) = HashOf("sha3", msg)
    BY <2>4, Sha3Finished
  <2>6. h = HashOf("sha3", msg)
    BY <2>3, <2>5, Zenon
  <2>7. h # <<>>
    <3>1. Len(HashOf("sha3", msg)) = 2
      BY HashItems3 DEF Sha3Digest
    <3> DEFINE e == <<>>
    <3>2. Len(e) = 0
      BY Empty
    <3> HIDE DEF e
    <3>3. Len(h) = 2
      BY <2>6, <3>1, Zenon
    <3>4. h # e
      BY <3>2, <3>3
    <3>. QED
      BY <3>4 DEF e
  <2>8. f # "liboqs" /\ h = HashOf(f, msg)
    BY <2>1, <2>6
  <2>9. LocalGood(f, s, d, msg, h)
    BY <1>3, <2>7, <2>8, Zenon DEF LocalGood
  <2>. QED
    BY <2>9, Zenon DEF d, h
<1>. QED
  BY <1>2, <1>3

-----------------------------------------------------------------------------
(* Its proof, and the theorem.                                               *)

\* The types of the variables.
HashTypes ==
  /\ function \in DOMAIN Sha2 \cup {"sha3", "liboqs"}
  /\ ctx = [x \in Contexts |-> ctx[x]] /\ got = [x \in Contexts |-> got[x]]
  /\ fed \in [Contexts -> Seq(Bytes)]
  /\ session \in Nat

\* The invariant.
HashInv ==
  /\ HashTypes
  /\ LocalGood(function, session, ctx[Local], fed[Local], got[Local])
  /\ \A x \in Oqs : OqsGood(ctx[x], fed[x], got[x])

\* A step of one context.
Changed(x, c, msg, out) ==
  /\ ctx' = [ctx EXCEPT ![x] = c] /\ fed' = [fed EXCEPT ![x] = msg] /\ got' = [got EXCEPT ![x] = out]

\* It keeps the types and the other contexts.
LEMMA ChangedTypes ==
  ASSUME HashTypes, NEW x \in Contexts, NEW c, NEW msg \in Seq(Bytes), NEW out, Changed(x, c, msg, out),
         function' = function, session' \in Nat
  PROVE  /\ HashTypes'
         /\ ctx'[x] = c /\ fed'[x] = msg /\ got'[x] = out
         /\ \A y \in Contexts \ {x} : ctx'[y] = ctx[y] /\ fed'[y] = fed[y] /\ got'[y] = got[y]
<1>1. fed' \in [Contexts -> Seq(Bytes)] /\ fed'[x] = msg /\ \A y \in Contexts \ {x} : fed'[y] = fed[y]
  BY DEF HashTypes, Changed
<1>2. ctx' = [y \in Contexts |-> IF y = x THEN c ELSE ctx[y]]
  <2>1. ctx = [y \in Contexts |-> ctx[y]] /\ ctx' = [ctx EXCEPT ![x] = c]
    BY DEF HashTypes, Changed
  <2>. QED
    BY <2>1
<1>3. got' = [y \in Contexts |-> IF y = x THEN out ELSE got[y]]
  <2>1. got = [y \in Contexts |-> got[y]] /\ got' = [got EXCEPT ![x] = out]
    BY DEF HashTypes, Changed
  <2>. QED
    BY <2>1
<1>4. /\ ctx'[x] = c /\ got'[x] = out
      /\ \A y \in Contexts \ {x} : ctx'[y] = ctx[y] /\ got'[y] = got[y]
  BY <1>2, <1>3
<1>5. ctx' = [y \in Contexts |-> ctx'[y]]
  BY <1>2
<1>6. got' = [y \in Contexts |-> got'[y]]
  BY <1>3
<1>7. function' \in DOMAIN Sha2 \cup {"sha3", "liboqs"}
  BY DEF HashTypes
<1>. QED
  BY <1>1, <1>4, <1>5, <1>6, <1>7, Zenon DEF HashTypes

\* A step of the caller's context keeps the invariant when its own part of it holds again.
LEMMA ChangedLocal ==
  ASSUME HashInv, NEW c, NEW msg \in Seq(Bytes), NEW out, Changed(Local, c, msg, out),
         function' = function, session' \in Nat, LocalGood(function, session', c, msg, out)
  PROVE  HashInv'
<1>1. Local \in Contexts /\ Oqs \subseteq Contexts \ {Local}
  BY HashShape DEF Contexts
<1>2. /\ HashTypes'
      /\ ctx'[Local] = c /\ fed'[Local] = msg /\ got'[Local] = out
      /\ \A y \in Contexts \ {Local} : ctx'[y] = ctx[y] /\ fed'[y] = fed[y] /\ got'[y] = got[y]
  BY <1>1, ChangedTypes DEF HashInv
<1>3. LocalGood(function, session, ctx[Local], fed[Local], got[Local])'
  BY <1>2
<1>4. ASSUME NEW y \in Oqs PROVE OqsGood(ctx[y], fed[y], got[y])'
  <2>1. OqsGood(ctx[y], fed[y], got[y])
    BY DEF HashInv
  <2>2. ctx'[y] = ctx[y] /\ fed'[y] = fed[y] /\ got'[y] = got[y]
    BY <1>1, <1>2
  <2>. QED
    BY <2>1, <2>2
<1>. QED
  BY <1>2, <1>3, <1>4 DEF HashInv

\* The same of a context of liboqs.
LEMMA ChangedOqs ==
  ASSUME HashInv, function = "liboqs", NEW x \in Oqs, NEW c, NEW msg \in Seq(Bytes), NEW out,
         Changed(x, c, msg, out), function' = function, session' \in Nat, OqsGood(c, msg, out)
  PROVE  HashInv'
<1>1. Local \in Contexts \ {x} /\ x \in Contexts /\ Oqs \subseteq Contexts
  BY HashShape DEF Contexts
<1>2. /\ HashTypes'
      /\ ctx'[x] = c /\ fed'[x] = msg /\ got'[x] = out
      /\ \A y \in Contexts \ {x} : ctx'[y] = ctx[y] /\ fed'[y] = fed[y] /\ got'[y] = got[y]
  BY <1>1, ChangedTypes DEF HashInv
<1>3. LocalGood(function, session, ctx[Local], fed[Local], got[Local])'
  <2>1. LocalGood(function, session, ctx[Local], fed[Local], got[Local])
    BY DEF HashInv
  <2>2. function \notin DOMAIN Sha2 /\ function # "sha3"
    BY NotOqs
  <2>3. LocalGood(function, session', ctx[Local], fed[Local], got[Local])
    BY <2>1, <2>2, Zenon DEF LocalGood
  <2>4. ctx'[Local] = ctx[Local] /\ fed'[Local] = fed[Local] /\ got'[Local] = got[Local]
    BY <1>1, <1>2
  <2>. QED
    BY <2>3, <2>4
<1>4. ASSUME NEW y \in Oqs PROVE OqsGood(ctx[y], fed[y], got[y])'
  <2>1. CASE y = x
    BY <1>2, <2>1
  <2>2. CASE y # x
    <3>1. OqsGood(ctx[y], fed[y], got[y])
      BY DEF HashInv
    <3>2. ctx'[y] = ctx[y] /\ fed'[y] = fed[y] /\ got'[y] = got[y]
      BY <1>1, <1>2, <2>2
    <3>. QED
      BY <3>1, <3>2
  <2>. QED
    BY <2>1, <2>2
<1>. QED
  BY <1>2, <1>3, <1>4 DEF HashInv

\* The bytes of the next part are bytes.
LEMMA NextBytesIn ==
  ASSUME HashInv, NEW x \in Contexts, NEW n \in Nat
  PROVE  NextBytes(x, n) \in Seq(Bytes)
<1>1. session \in Nat /\ fed[x] \in Seq(Bytes)
  BY DEF HashInv, HashTypes
<1>2. Len(fed[x]) \in Nat
  BY <1>1, SeqIsList
<1> DEFINE m == Len(fed[x])
           data == [i \in 1 .. n |-> {<<"byte", session, m + i>>}]
<1>3. ASSUME NEW i \in 1 .. n PROVE {<<"byte", session, m + i>>} \in Bytes
  <2> DEFINE j == m + i
  <2>1. j \in Nat
    BY <1>2
  <2> HIDE DEF j
  <2>2. {<<"byte", session, j>>} \in Bytes
    BY <1>1, <2>1 DEF Bytes
  <2>. QED
    BY <2>2 DEF j
<1> HIDE DEF m
<1>4. data \in [1 .. n -> Bytes]
  BY <1>3
<1> HIDE DEF data
<1>5. data \in Seq(Bytes)
  BY <1>4, ListIsSeq
<1>. QED
  BY <1>5 DEF NextBytes, data, m

\* What a step leaves as it is.
LEMMA Same ==
  ASSUME HashInv, NEW x \in Contexts
  PROVE  /\ ctx = [ctx EXCEPT ![x] = ctx[x]] /\ fed = [fed EXCEPT ![x] = fed[x]]
         /\ got = [got EXCEPT ![x] = got[x]]
         /\ fed[x] \in Seq(Bytes) /\ session \in Nat
<1>1. /\ ctx = [y \in Contexts |-> ctx[y]] /\ got = [y \in Contexts |-> got[y]]
      /\ fed \in [Contexts -> Seq(Bytes)] /\ session \in Nat
  BY DEF HashInv, HashTypes
<1>2. ctx = [ctx EXCEPT ![x] = ctx[x]]
  BY <1>1
<1>3. got = [got EXCEPT ![x] = got[x]]
  BY <1>1
<1>. QED
  BY <1>1, <1>2, <1>3

\* No bytes are a sequence of bytes.
LEMMA EmptyBytes == <<>> \in Seq(Bytes)
OBVIOUS

\* At first no context has taken anything.
LEMMA HashInit ==
  ASSUME Init PROVE HashInv
<1>1. /\ function \in DOMAIN Sha2 \cup {"sha3", "liboqs"}
      /\ ctx = [x \in Contexts |-> IF x \in Oqs THEN Null
                                   ELSE IF function = "sha3" THEN Sha3New ELSE Sha2New]
      /\ fed = [x \in Contexts |-> <<>>] /\ got = [x \in Contexts |-> <<>>] /\ session = 0
  BY DEF Init, Contexts
<1>2. Local \in Contexts /\ Local \notin Oqs /\ Oqs \subseteq Contexts
  BY HashShape DEF Contexts
<1>3. HashTypes
  <2>1. ctx = [x \in Contexts |-> ctx[x]]
    BY <1>1
  <2>2. got = [x \in Contexts |-> got[x]]
    BY <1>1
  <2>3. fed \in [Contexts -> Seq(Bytes)]
    BY <1>1, EmptyBytes
  <2>. QED
    BY <1>1, <2>1, <2>2, <2>3 DEF HashTypes
<1>4. LocalGood(function, session, ctx[Local], fed[Local], got[Local])
  <2>1. session = 0 /\ got[Local] = <<>>
    BY <1>1, <1>2
  <2>2. ASSUME function \in DOMAIN Sha2 PROVE IsSha2(Bytes, ctx[Local])
    <3>1. ctx[Local] = Sha2New
      BY <1>1, <1>2, <2>2, NotOqs
    <3>. QED
      BY <3>1, AllBytes, NewIsSha2
  <2>3. ~(session > 0)
    BY <2>1
  <2>. QED
    BY <2>1, <2>2, <2>3, Zenon DEF LocalGood
<1>5. ASSUME NEW x \in Oqs PROVE OqsGood(ctx[x], fed[x], got[x])
  <2>1. ctx[x] = Null
    BY <1>1, <1>2
  <2>. QED
    BY <2>1 DEF OqsGood
<1>. QED
  BY <1>3, <1>4, <1>5 DEF HashInv

\* The caller's steps.
LEMMA LocalSteps ==
  ASSUME HashInv, function' = function, Start \/ (\E n \in 0 .. MaxFed : Update(n)) \/ Finish
  PROVE  HashInv'
<1> DEFINE c == ctx[Local]
           msg == fed[Local]
           out == got[Local]
<1>1. Local \in Contexts
  BY DEF Contexts
<1>2. /\ LocalGood(function, session, c, msg, out)
      /\ ctx = [ctx EXCEPT ![Local] = ctx[Local]] /\ fed = [fed EXCEPT ![Local] = fed[Local]]
      /\ got = [got EXCEPT ![Local] = got[Local]]
      /\ msg \in Seq(Bytes) /\ session \in Nat
  BY <1>1, Same DEF HashInv
<1>3. function # "liboqs" => function \in DOMAIN Sha2 \cup {"sha3"}
  BY DEF HashInv, HashTypes
<1>4. CASE Start
  <2> DEFINE d == StartOf(function, c)
  <2>1. /\ function # "liboqs" /\ session' = session + 1
        /\ fed' = [fed EXCEPT ![Local] = <<>>] /\ got' = [got EXCEPT ![Local] = <<>>]
        /\ ctx' = [ctx EXCEPT ![Local] = d]
    BY <1>4, Zenon DEF Start, NewMessage, StartOf
  <2>2. LocalGood(function, session', d, <<>>, <<>>)
    BY <1>2, <1>3, <2>1, LocalStarts
  <2> HIDE DEF d
  <2>3. Changed(Local, d, <<>>, <<>>)
    BY <2>1 DEF Changed
  <2>4. session' \in Nat
    BY <1>2, <2>1
  <2>. QED
    BY <2>2, <2>3, <2>4, ChangedLocal, EmptyBytes
<1>5. ASSUME NEW n \in 0 .. MaxFed, Update(n) PROVE HashInv'
  <2> DEFINE data == NextBytes(Local, n)
             d == UpdateOf(function, c, data)
             whole == msg \o data
  <2>1. /\ function # "liboqs" /\ session > 0 /\ out = <<>>
        /\ fed' = [fed EXCEPT ![Local] = whole] /\ got' = got /\ session' = session
        /\ ctx' = [ctx EXCEPT ![Local] = d]
    BY <1>5, Zenon DEF Update, Fed, UpdateOf
  <2>2. data \in Seq(Bytes)
    <3>1. n \in Nat
      BY HashShape
    <3>. QED
      BY <1>1, <3>1, NextBytesIn
  <2> HIDE DEF data
  <2>3. LocalGood(function, session, d, whole, out) /\ whole \in Seq(Bytes)
    BY <1>2, <1>3, <2>1, <2>2, LocalUpdates
  <2> HIDE DEF d, whole
  <2>4. Changed(Local, d, whole, out)
    BY <1>2, <2>1, Zenon DEF Changed
  <2>. QED
    BY <1>2, <2>1, <2>3, <2>4, ChangedLocal
<1>6. CASE Finish
  <2> DEFINE d == FinishOf(function, c)
             h == DigestOf(function, d)
  <2>1. /\ function # "liboqs" /\ session > 0 /\ out = <<>>
        /\ fed' = fed /\ session' = session
        /\ ctx' = [ctx EXCEPT ![Local] = d]
        /\ got' = [got EXCEPT ![Local] = DigestOf(function, ctx'[Local])]
    BY <1>6, Zenon DEF Finish, FinishOf, DigestOf
  <2>2. LocalGood(function, session, d, msg, h)
    BY <1>2, <1>3, <2>1, LocalFinishes
  <2> HIDE DEF d
  <2>3. ctx'[Local] = d
    <3>1. ctx = [x \in Contexts |-> ctx[x]]
      BY DEF HashInv, HashTypes
    <3>. QED
      BY <1>1, <2>1, <3>1
  <2>4. Changed(Local, d, msg, h)
    BY <1>2, <2>1, <2>3, Zenon DEF Changed
  <2> HIDE DEF h
  <2>. QED
    BY <1>2, <2>1, <2>2, <2>4, ChangedLocal
<1>. QED
  BY <1>4, <1>5, <1>6

\* The callbacks.
LEMMA CallbackSteps ==
  ASSUME HashInv, function' = function, function = "liboqs", NEW x \in Oqs, Callback(x)
  PROVE  HashInv'
<1> DEFINE c == ctx[x]
           msg == fed[x]
           out == got[x]
<1>1. x \in Contexts
  BY DEF Contexts
<1>2. /\ OqsGood(c, msg, out)
      /\ ctx = [ctx EXCEPT ![x] = ctx[x]] /\ fed = [fed EXCEPT ![x] = fed[x]]
      /\ got = [got EXCEPT ![x] = got[x]]
      /\ msg \in Seq(Bytes) /\ session \in Nat
  BY <1>1, Same DEF HashInv
<1>3. ASSUME NEW alg \in {"sha3", "shake"}, inc_init(x, alg) PROVE HashInv'
  <2> DEFINE d == OqsNew(alg)
  <2>1. Changed(x, d, <<>>, <<>>) /\ session' = session + 1
    BY <1>3, Zenon DEF inc_init, NewMessage, Changed
  <2>2. OqsGood(d, <<>>, <<>>)
    BY GoodNew
  <2> HIDE DEF d
  <2>3. session' \in Nat
    BY <1>2, <2>1
  <2>. QED
    BY <2>1, <2>2, <2>3, ChangedOqs, EmptyBytes
<1>4. ASSUME NEW n \in 0 .. MaxFed, inc_absorb(x, n) PROVE HashInv'
  <2> DEFINE data == NextBytes(x, n)
             d == Absorb(c, data)
             whole == msg \o data
  <2>1. /\ c # Null /\ ~c.squeezing
        /\ fed' = [fed EXCEPT ![x] = whole] /\ got' = got /\ session' = session
        /\ ctx' = [ctx EXCEPT ![x] = d]
    BY <1>4, Zenon DEF inc_absorb, Fed
  <2>2. data \in Seq(Bytes)
    <3>1. n \in Nat
      BY HashShape
    <3>. QED
      BY <1>1, <3>1, NextBytesIn
  <2> HIDE DEF data
  <2>3. OqsGood(d, whole, out) /\ whole \in Seq(Bytes)
    BY <1>2, <2>1, <2>2, GoodAbsorb
  <2> HIDE DEF d, whole
  <2>4. Changed(x, d, whole, out)
    BY <1>2, <2>1, Zenon DEF Changed
  <2>. QED
    BY <1>2, <2>1, <2>3, <2>4, ChangedOqs
<1>5. CASE inc_finish(x)
  <2> DEFINE d == Finalize(c)
             h == Slice(d.sq_buf, 0, Sha3Digest)
  <2>1. /\ c # Null /\ ~c.squeezing /\ c.alg = "sha3"
        /\ fed' = fed /\ session' = session
        /\ ctx' = [ctx EXCEPT ![x] = d]
        /\ got' = [got EXCEPT ![x] = Slice(ctx'[x].sq_buf, 0, Sha3Digest)]
    BY <1>5, Zenon DEF inc_finish
  <2>2. OqsGood(d, msg, h)
    BY <1>2, <2>1, GoodFinal
  <2> HIDE DEF d
  <2>3. ctx'[x] = d
    <3>1. ctx = [y \in Contexts |-> ctx[y]]
      BY DEF HashInv, HashTypes
    <3>. QED
      BY <1>1, <2>1, <3>1
  <2>4. Changed(x, d, msg, h)
    BY <1>2, <2>1, <2>3, Zenon DEF Changed
  <2> HIDE DEF h
  <2>. QED
    BY <1>2, <2>1, <2>2, <2>4, ChangedOqs
<1>6. CASE inc_finalize(x)
  <2> DEFINE d == Finalize(c)
  <2>1. /\ c # Null /\ ~c.squeezing /\ c.alg = "shake"
        /\ fed' = fed /\ got' = got /\ session' = session
        /\ ctx' = [ctx EXCEPT ![x] = d]
    BY <1>6, Zenon DEF inc_finalize
  <2>2. OqsGood(d, msg, out)
    BY <1>2, <2>1, GoodFinal
  <2> HIDE DEF d
  <2>3. Changed(x, d, msg, out)
    BY <1>2, <2>1, Zenon DEF Changed
  <2>. QED
    BY <1>2, <2>1, <2>2, <2>3, ChangedOqs
<1>7. ASSUME NEW n \in 0 .. MaxSqueezed, inc_squeeze(x, n) PROVE HashInv'
  <2> DEFINE d == Squeeze(c, n).ctx
             more == out \o Squeeze(c, n).out
  <2>1. /\ c # Null /\ c.squeezing /\ c.alg = "shake"
        /\ fed' = fed /\ session' = session
        /\ ctx' = [ctx EXCEPT ![x] = d] /\ got' = [got EXCEPT ![x] = more]
    BY <1>7, Zenon DEF inc_squeeze
  <2>2. OqsGood(d, msg, more)
    <3>1. n \in Nat
      BY HashShape
    <3>. QED
      BY <1>2, <2>1, <3>1, GoodSqueeze
  <2> HIDE DEF d, more
  <2>3. Changed(x, d, msg, more)
    BY <1>2, <2>1, Zenon DEF Changed
  <2>. QED
    BY <1>2, <2>1, <2>2, <2>3, ChangedOqs
<1>8. CASE inc_ctx_reset(x)
  <2> DEFINE d == Reset(c)
  <2>1. c # Null /\ Changed(x, d, <<>>, <<>>) /\ session' = session + 1
    BY <1>8, Zenon DEF inc_ctx_reset, NewMessage, Changed
  <2>2. OqsGood(d, <<>>, <<>>)
    BY <1>2, <2>1, GoodReset
  <2> HIDE DEF d
  <2>3. session' \in Nat
    BY <1>2, <2>1
  <2>. QED
    BY <2>1, <2>2, <2>3, ChangedOqs, EmptyBytes
<1>9. ASSUME NEW src \in Oqs, inc_ctx_clone(x, src) PROVE HashInv'
  <2>1. Changed(x, ctx[src], fed[src], got[src]) /\ session' = session
    BY <1>9, Zenon DEF inc_ctx_clone, Changed
  <2>2. OqsGood(ctx[src], fed[src], got[src]) /\ fed[src] \in Seq(Bytes)
    BY Same DEF HashInv, Contexts
  <2>. QED
    BY <1>2, <2>1, <2>2, ChangedOqs
<1>10. CASE inc_ctx_release(x)
  <2>1. Changed(x, Null, <<>>, <<>>) /\ session' = session
    BY <1>10, Zenon DEF inc_ctx_release, Changed
  <2>2. OqsGood(Null, <<>>, <<>>)
    BY DEF OqsGood
  <2>. QED
    BY <1>2, <2>1, <2>2, ChangedOqs, EmptyBytes
<1>. QED
  BY <1>3, <1>4, <1>5, <1>6, <1>7, <1>8, <1>9, <1>10 DEF Callback

\* The invariant is inductive.
LEMMA HashSteps ==
  ASSUME HashInv, [Next]_vars PROVE HashInv'
<1>1. CASE Next
  <2>1. function' = function
    BY <1>1 DEF Next
  <2>2. CASE Start \/ (\E n \in 0 .. MaxFed : Update(n)) \/ Finish
    BY <2>1, <2>2, LocalSteps
  <2>3. CASE function = "liboqs" /\ \E x \in Oqs : Callback(x)
    BY <2>1, <2>3, CallbackSteps
  <2>. QED
    BY <1>1, <2>2, <2>3 DEF Next
<1>2. CASE UNCHANGED vars
  BY <1>2 DEF vars, HashInv, HashTypes
<1>. QED
  BY <1>1, <1>2

\* From the invariant, what the property says.
LEMMA LocalExact ==
  ASSUME HashInv, got[Local] # <<>>
  PROVE  /\ got[Local] = HashOf(function, fed[Local])
         /\ function \in DOMAIN Sha2 => OneShot(function, fed[Local]) = got[Local]
         /\ \A n \in 0 .. Block + 1 :
              LET key == [i \in 1 .. n |-> {<<"key", i>>}]
                  mac == CASE function = "sha256" -> HmacSha256(ctx[Local], key, fed[Local])
                           [] function = "sha3" -> HmacSha3(ctx[Local], key, fed[Local])
                           [] OTHER -> HmacSha512(function, ctx[Local], key, fed[Local])
              IN  mac = Hmac(function, key, fed[Local])
<1> DEFINE c == ctx[Local]
           msg == fed[Local]
           f == function
<1>1. f # "liboqs" /\ got[Local] = HashOf(f, msg) /\ (f \in DOMAIN Sha2 => IsSha2(Bytes, c))
  BY DEF HashInv, LocalGood
<1>2. msg \in Seq(Bytes) /\ f \in DOMAIN Sha2 \cup {"sha3"}
  BY <1>1 DEF HashInv, HashTypes, Contexts
<1> HIDE DEF c, msg, f
<1>3. f \in DOMAIN Sha2 => OneShot(f, msg) = got[Local]
  <2>1. ASSUME f \in DOMAIN Sha2 PROVE OneShot(f, msg) = HashOf(f, msg)
    BY <1>2, <2>1, AllBytes, OneShotHashes
  <2>. QED
    BY <1>1, <2>1
<1>4. ASSUME NEW n \in 0 .. Block + 1
      PROVE  LET key == [i \in 1 .. n |-> {<<"key", i>>}]
                 mac == CASE f = "sha256" -> HmacSha256(c, key, msg)
                          [] f = "sha3" -> HmacSha3(c, key, msg)
                          [] OTHER -> HmacSha512(f, c, key, msg)
             IN  mac = Hmac(f, key, msg)
  <2> DEFINE K == {{<<"key", i>>} : i \in 1 .. n}
             key == [i \in 1 .. n |-> {<<"key", i>>}]
             mac == CASE f = "sha256" -> HmacSha256(c, key, msg)
                      [] f = "sha3" -> HmacSha3(c, key, msg)
                      [] OTHER -> HmacSha512(f, c, key, msg)
  <2>1. key \in Seq(K)
    <3>1. key \in [1 .. n -> K] /\ n \in Nat
      OBVIOUS
    <3> HIDE DEF key, K
    <3>. QED
      BY <3>1, ListIsSeq
  <2> HIDE DEF key, K
  <2>2. CASE f = "sha3"
    <3>1. HmacSha3(c, key, msg) = Hmac("sha3", key, msg)
      BY <1>2, <2>1, HmacIsSha3
    <3>2. mac = HmacSha3(c, key, msg)
      BY <2>2
    <3>. QED
      BY <2>2, <3>1, <3>2, Zenon DEF key
  <2>3. CASE f # "sha3"
    <3>1. f \in DOMAIN Sha2 /\ IsSha2(Bytes, c)
      BY <1>1, <1>2, <2>3
    <3>2. /\ HmacSha512(f, c, key, msg) = Hmac(f, key, msg)
          /\ f = "sha256" => HmacSha256(c, key, msg) = Hmac(f, key, msg)
      BY <1>2, <2>1, <3>1, AllBytes, HmacSha2
    <3>3. mac = IF f = "sha256" THEN HmacSha256(c, key, msg) ELSE HmacSha512(f, c, key, msg)
      BY <2>3
    <3>4. mac = Hmac(f, key, msg)
      <4> HIDE DEF mac
      <4>. QED
        BY <3>2, <3>3, Zenon
    <3>. QED
      BY <3>4, Zenon DEF key
  <2>. QED
    BY <2>2, <2>3
<1>. QED
  BY <1>1, <1>3, <1>4, Zenon DEF c, msg, f

\* What a context of liboqs has given are the bytes of its sponge.
LEMMA OqsExact ==
  ASSUME HashInv, NEW x \in Oqs, ctx[x] # Null
  PROVE  got[x] = [i \in DOMAIN got[x] |-> SpongeByte(ctx[x].alg, fed[x], i - 1)]
<1> DEFINE c == ctx[x]
           msg == fed[x]
           out == got[x]
<1>1. OqsGood(c, msg, out) /\ c # Null
  BY DEF HashInv
<1> HIDE DEF c, msg, out
<1>2. PICK alg \in {"sha3", "shake"} : Absorbs(c, alg, msg, out) \/ Gives(c, alg, msg, out)
  BY <1>1 DEF OqsGood
<1>3. c.alg = alg /\ (out = <<>> \/ GivesFrom(out, alg, msg, 0))
  BY <1>2, Zenon DEF Absorbs, Gives
<1>4. out = [i \in DOMAIN out |-> SpongeByte(alg, msg, i - 1)]
  <2>1. CASE out = <<>>
    <3>1. DOMAIN out = {}
      BY <2>1
    <3>. QED
      BY <2>1, <3>1
  <2>2. CASE GivesFrom(out, alg, msg, 0)
    <3> DEFINE Y == SpongeBytes(alg, msg)
               n == Len(out)
    <3>1. out \in Seq(Y) /\ \A i \in 1 .. n : out[i] = SpongeByte(alg, msg, 0 + i - 1)
      BY <2>2 DEF GivesFrom
    <3> HIDE DEF Y
    <3>2. n \in Nat /\ out \in [1 .. n -> Y]
      BY <3>1, SeqIsList
    <3>3. \A i \in 1 .. n : 0 + i - 1 = i - 1
      OBVIOUS
    <3>4. \A i \in 1 .. n : out[i] = SpongeByte(alg, msg, i - 1)
      BY <3>1, <3>3
    <3> HIDE DEF n
    <3>. QED
      BY <3>2, <3>4
  <2>. QED
    BY <1>3, <2>1, <2>2
<1>. QED
  BY <1>3, <1>4, Zenon DEF c, msg, out

\* However a message is cut into parts, whatever was done with the context before, and with
\* every size of block: what comes out of a context is the hash of the message as FIPS 180-4 and
\* FIPS 202 pad it, the functions for a whole message agree with it, so does HMAC over it for
\* keys of every length up to one more than a block, and SHAKE goes on where it stopped.
THEOREM DigestsAreExact == Spec => []DigestsExact
<1>1. Init => HashInv
  BY HashInit
<1>2. HashInv /\ [Next]_vars => HashInv'
  BY HashSteps
<1>3. HashInv => DigestsExact
  BY LocalExact, OqsExact, Zenon DEF DigestsExact
<1>. QED
  BY <1>1, <1>2, <1>3, PTL DEF Spec
=============================================================================
