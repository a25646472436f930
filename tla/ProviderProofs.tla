---------------------------- MODULE ProviderProofs ----------------------------
(***************************************************************************)
(* What is under the providers.  A sealed message is opened only as it was *)
(* sealed, and no keystream is used twice, for messages and data of every  *)
(* length the counter allows, and every size of blocks.  The elements of   *)
(* the three prime fields are added, subtracted and multiplied as modulo   *)
(* the prime, for words of every size.                                     *)
(***************************************************************************)
EXTENDS HashingProofs

CONSTANTS CipherBlock, StreamBlock, CounterRange, TextLength, AadLength

VARIABLES aeadStage, job, wire, arrived, out, genuine

Aead == INSTANCE Aead WITH Block <- CipherBlock

Field == INSTANCE PrimeField

ASSUME CipherShape == Aead!AeadShape

\* A sealed message is opened only as it was sealed, and then completely; a refusal
\* leaves nothing of the message behind, and no keystream is used twice.
SealedOpens == Aead!Opened

-----------------------------------------------------------------------------
(* What is used of lists and of division. *)

\* A list of n items.
Lists(n, f) == f = [i \in 1 .. n |-> f[i]]

\* It is a sequence of what its items are.
LEMMA Listed ==
  ASSUME NEW n, NEW f, n \in Nat, Lists(n, f)
  PROVE  f \in Seq({f[i] : i \in 1 .. n}) /\ Len(f) = n
<1> DEFINE S == {f[i] : i \in 1 .. n}
<1>1. f \in [1 .. n -> S]
  BY DEF Lists
<1> HIDE DEF S
<1>2. f \in Seq(S) /\ Len(f) = n
  BY <1>1, ListIsSeq
<1>. QED
  BY <1>2 DEF S

\* Lists with the same items are the same.
LEMMA SameItems ==
  ASSUME NEW S, NEW T, NEW s, NEW t, s \in Seq(S), t \in Seq(T), Len(s) = Len(t),
         \A i \in 1 .. Len(s) : s[i] = t[i]
  PROVE  s = t
<1>1. s \in [1 .. Len(s) -> S] /\ t \in [1 .. Len(t) -> T]
  BY SeqIsList
<1>. QED
  BY <1>1

\* Quotient and remainder of a number.
LEMMA Divided ==
  ASSUME NEW n, NEW j, n \in Nat \ {0}, j \in Nat
  PROVE  /\ j \div n \in Nat /\ j % n \in 0 .. n - 1 /\ j % n \in Nat
         /\ (j \div n) * n \in Nat /\ j = (j \div n) * n + (j % n)
<1>1. j \div n \in Int /\ j % n \in 0 .. n - 1 /\ j = n * (j \div n) + (j % n)
  OBVIOUS
<1> DEFINE d == j \div n
           r == j % n
<1>2. d \in Int /\ r \in 0 .. n - 1 /\ j = n * d + r
  BY <1>1
<1> HIDE DEF d, r
<1>3. d >= 0
  <2>1. CASE d <= -1
    <3>1. n * d <= -n
      BY <1>2, <2>1
    <3>. QED
      BY <1>2, <3>1
  <2>. QED
    BY <1>2, <2>1
<1>4. n * d = d * n /\ d * n \in Nat
  BY <1>2, <1>3
<1>. QED
  BY <1>2, <1>3, <1>4 DEF d, r

\* A number of whole blocks more changes the quotient alone.
LEMMA Shifted ==
  ASSUME NEW n, NEW q, NEW j, n \in Nat \ {0}, q \in Nat, j \in Nat
  PROVE  (q * n + j) \div n = q + j \div n /\ (q * n + j) % n = j % n
<1> DEFINE d == j \div n
           r == j % n
<1>1. d \in Nat /\ r \in 0 .. n - 1 /\ j = d * n + r
  BY Divided
<1> HIDE DEF d, r
<1>2. q * n + j = (q + d) * n + r
  BY <1>1
<1>3. ((q + d) * n + r) \div n = q + d /\ ((q + d) * n + r) % n = r
  BY <1>1, DivMod
<1>. QED
  BY <1>2, <1>3 DEF d, r

\* A sum may be reduced before.
LEMMA ModSum ==
  ASSUME NEW n, NEW a, NEW b, n \in Nat \ {0}, a \in Nat, b \in Nat
  PROVE  ((a % n) + b) % n = (a + b) % n /\ a % n \in 0 .. n - 1
<1> DEFINE d == a \div n
           r == a % n
<1>1. d \in Nat /\ r \in 0 .. n - 1 /\ r \in Nat /\ a = d * n + r /\ d * n \in Nat
  BY Divided
<1> HIDE DEF d, r
<1>2. a + b = d * n + (r + b) /\ r + b \in Nat
  BY <1>1
<1>3. (d * n + (r + b)) % n = (r + b) % n
  BY <1>1, <1>2, Shifted
<1>. QED
  BY <1>1, <1>2, <1>3 DEF r

\* A number below is its own remainder.
LEMMA OwnRemainder ==
  ASSUME NEW n, NEW a, n \in Nat \ {0}, a \in 0 .. n - 1
  PROVE  a \div n = 0 /\ a % n = a
<1>1. (0 * n + a) \div n = 0 /\ (0 * n + a) % n = a
  BY DivMod
<1>. QED
  BY <1>1

\* Two lists that are the parts of a third.
Halves(n, m, k, s, t, w) ==
  /\ n \in Nat /\ m \in Nat /\ k = n + m /\ Lists(n, s) /\ Lists(m, t) /\ Lists(k, w)
  /\ \A i \in 1 .. n : s[i] = w[i]
  /\ \A i \in 1 .. m : t[i] = w[n + i]

LEMMA Prolonged ==
  ASSUME NEW n, NEW m, NEW k, NEW s, NEW t, NEW w, Halves(n, m, k, s, t, w)
  PROVE  s \o t = w
<1> DEFINE c == s \o t
           W == {w[i] : i \in 1 .. k}
<1>1. n \in Nat /\ m \in Nat /\ k = n + m /\ k \in Nat
  BY DEF Halves
<1>2. w \in Seq(W) /\ Len(w) = k
  BY <1>1, Listed DEF Halves
<1>3. s \in [1 .. n -> W] /\ t \in [1 .. m -> W]
  <2>1. \A i \in 1 .. n : i \in 1 .. k
    BY <1>1
  <2>2. \A i \in 1 .. m : n + i \in 1 .. k
    BY <1>1
  <2>3. \A i \in 1 .. n : s[i] \in W
    BY <2>1, Zenon DEF Halves
  <2>4. \A i \in 1 .. m : t[i] \in W
    BY <2>2, Zenon DEF Halves
  <2> HIDE DEF W
  <2>5. s = [i \in 1 .. n |-> s[i]] /\ t = [i \in 1 .. m |-> t[i]]
    BY DEF Halves, Lists
  <2>6. [i \in 1 .. n |-> s[i]] \in [1 .. n -> W] /\ [i \in 1 .. m |-> t[i]] \in [1 .. m -> W]
    BY <2>3, <2>4
  <2>. QED
    BY <2>5, <2>6, Zenon
<1> HIDE DEF W
<1>4. s \in Seq(W) /\ Len(s) = n /\ t \in Seq(W) /\ Len(t) = m
  BY <1>1, <1>3, ListIsSeq
<1>c. c = s \o t
  OBVIOUS
<1> HIDE DEF c
<1>5. /\ c \in Seq(W) /\ Len(c) = k
      /\ \A i \in 1 .. n : c[i] = s[i]
      /\ \A i \in 1 .. m : c[n + i] = t[i]
  <2>1. /\ c \in Seq(W) /\ Len(c) = Len(s) + Len(t)
        /\ \A i \in 1 .. Len(s) : c[i] = s[i]
        /\ \A i \in 1 .. Len(t) : c[Len(s) + i] = t[i]
    <3>1. s \in Seq(W) /\ t \in Seq(W)
      BY <1>4
    <3>. QED
      BY <1>c, <3>1, Joined
  <2>2. \A i \in 1 .. n : c[i] = s[i]
    BY <1>4, <2>1, Zenon
  <2>3. \A i \in 1 .. m : c[n + i] = t[i]
    BY <1>4, <2>1, Zenon
  <2>4. Len(c) = k
    BY <1>1, <1>4, <2>1
  <2>. QED
    BY <2>1, <2>2, <2>3, <2>4
<1>6. ASSUME NEW i \in 1 .. k PROVE c[i] = w[i]
  <2>1. CASE i <= n
    <3>1. i \in 1 .. n
      BY <1>1, <2>1
    <3>. QED
      BY <1>5, <3>1, Zenon DEF Halves
  <2>2. CASE i > n
    <3> DEFINE j == i - n
    <3>1. j \in 1 .. m /\ i = n + j
      BY <1>1, <2>2
    <3> HIDE DEF j
    <3>. QED
      BY <1>5, <3>1, Zenon DEF Halves
  <2>. QED
    BY <1>1, <2>1, <2>2
<1>. QED
  BY <1>2, <1>5, <1>6, SameItems DEF c

-----------------------------------------------------------------------------
(* The two stream ciphers: byte j is XORed with byte j of the keystream. *)

\* The first n bytes of a text under a keystream in blocks of a size, from a counter on.
Streamed(kind, nonce, in, size, first, n) ==
  [j \in 1 .. n |->
     Aead!Added(in[j], Aead!Symbol(kind, nonce, (first + ((j - 1) \div size)) % CounterRange,
                                   ((j - 1) % size) + 1, <<>>))]

\* Some bytes more, from the beginning of block q on.
Turning(kind, nonce, size, first, q, n, m, stream) ==
  /\ size \in Nat \ {0} /\ first \in Nat /\ q \in Nat /\ m \in Nat /\ n = q * size
  /\ \A i \in 1 .. m :
       stream[i] = Aead!Symbol(kind, nonce, (first + q + ((i - 1) \div size)) % CounterRange,
                               ((i - 1) % size) + 1, <<>>)

LEMMA StreamGoesOn ==
  ASSUME NEW kind, NEW nonce, NEW in, NEW size, NEW first, NEW q, NEW n, NEW m, NEW k, NEW stream,
         Turning(kind, nonce, size, first, q, n, m, stream), k = n + m
  PROVE  Streamed(kind, nonce, in, size, first, n)
           \o Aead!XorBytes(Aead!Slice(in, n, m), stream) = Streamed(kind, nonce, in, size, first, k)
<1> DEFINE s == Streamed(kind, nonce, in, size, first, n)
           t == Aead!XorBytes(Aead!Slice(in, n, m), stream)
           w == Streamed(kind, nonce, in, size, first, k)
<1>1. /\ size \in Nat \ {0} /\ first \in Nat /\ q \in Nat /\ m \in Nat /\ n = q * size /\ n \in Nat
      /\ k = n + m /\ k \in Nat
  BY DEF Turning
<1>a. \A i \in 1 .. m :
        stream[i] = Aead!Symbol(kind, nonce, (first + q + ((i - 1) \div size)) % CounterRange,
                                ((i - 1) % size) + 1, <<>>)
  BY DEF Turning
<1>2. Lists(n, s) /\ Lists(k, w)
  BY DEF Streamed, Lists
<1>3. \A i \in 1 .. n : s[i] = w[i]
  <2>1. \A i \in 1 .. n : i \in 1 .. k
    BY <1>1
  <2>. QED
    BY <2>1 DEF Streamed
<1>4. t = [i \in 1 .. m |-> Aead!Added(in[n + i], stream[i])]
  <2> DEFINE piece == Aead!Slice(in, n, m)
  <2>1. piece = [i \in 1 .. m |-> in[n + i]]
    BY DEF Aead!Slice
  <2>2. Len(piece) = m
    BY <1>1, <2>1, Listed DEF Lists
  <2>3. t = [i \in 1 .. Len(piece) |-> Aead!Added(piece[i], stream[i])]
    BY DEF Aead!XorBytes
  <2>4. t = [i \in 1 .. m |-> Aead!Added(piece[i], stream[i])]
    BY <2>2, <2>3, Zenon
  <2> HIDE DEF piece, t
  <2>. QED
    BY <2>1, <2>4
<1>5. ASSUME NEW i \in 1 .. m PROVE t[i] = w[n + i]
  <2> DEFINE j == i - 1
             l == n + i
  <2>0. j \in Nat /\ l \in 1 .. k /\ l - 1 = n + j
    BY <1>1, SMT
  <2>2. ((n + j) \div size) = q + (j \div size) /\ (n + j) % size = j % size
    <3> HIDE DEF j
    <3>1. (q * size + j) \div size = q + (j \div size) /\ (q * size + j) % size = j % size
      BY <1>1, <2>0, Shifted
    <3>. QED
      BY <1>1, <3>1, Zenon
  <2>3. j \div size \in Nat
    BY <1>1, <2>0, Divided
  <2>4. first + (q + (j \div size)) = first + q + (j \div size)
    BY <1>1, <2>3
  <2>6. stream[i] = Aead!Symbol(kind, nonce, (first + q + (j \div size)) % CounterRange,
                                (j % size) + 1, <<>>)
    BY <1>a, Zenon
  <2>7. t[i] = Aead!Added(in[l], stream[i])
    BY <1>4
  <2> HIDE DEF l, j
  <2>5. w[l] = Aead!Added(in[l], Aead!Symbol(kind, nonce,
                     (first + ((l - 1) \div size)) % CounterRange, ((l - 1) % size) + 1, <<>>))
    BY <2>0, Zenon DEF Streamed
  <2> HIDE DEF t, w
  <2>8. w[l] = Aead!Added(in[l], stream[i])
    BY <2>0, <2>2, <2>4, <2>5, <2>6, Zenon
  <2>. QED
    BY <2>7, <2>8 DEF l
<1>6. Lists(m, t)
  BY <1>4 DEF Lists
<1> HIDE DEF s, t, w
<1>7. s \o t = w
  <2>1. \A i \in 1 .. m : t[i] = w[n + i]
    BY <1>5
  <2>2. Halves(n, m, k, s, t, w)
    BY <1>1, <1>2, <1>3, <1>6, <2>1, Zenon DEF Halves
  <2>. QED
    BY <2>2, Prolonged
<1>. QED
  BY <1>7 DEF s, t, w

\* Where a cipher is after n bytes, with a counter that began at 1.
Ciphering(kind, nonce, in, size, first, c, n) ==
  [counter |-> c, out |-> Streamed(kind, nonce, in, size, first, n)]

\* It is at the end, or at the beginning of a block, and the counter is that of the block.
Cipherings(kind, nonce, in, size, first) ==
  {Ciphering(kind, nonce, in, size, first, x[1], x[2]) :
     x \in {y \in (0 .. CounterRange - 1) \X (0 .. Len(in)) :
              y[2] = Len(in) \/ \E q \in Nat : y[2] = q * size /\ y[1] = (1 + q) % CounterRange}}

LEMMA StreamLength ==
  ASSUME NEW kind, NEW nonce, NEW in, NEW size, NEW first, NEW n, n \in Nat
  PROVE  Len(Streamed(kind, nonce, in, size, first, n)) = n
<1> DEFINE s == Streamed(kind, nonce, in, size, first, n)
<1>1. Lists(n, s)
  BY DEF Streamed, Lists
<1> HIDE DEF s
<1>2. Len(s) = n
  BY <1>1, Listed
<1>. QED
  BY <1>2 DEF s

\* The counter's range.
LEMMA CounterIs == CounterRange \in Nat /\ CounterRange > 2 /\ CounterRange \in Nat \ {0}
BY CipherShape DEF Aead!AeadShape

\* It is there before the first byte.
LEMMA CipherBegins ==
  ASSUME NEW B, NEW kind, NEW nonce, NEW in, NEW size, NEW first, in \in Seq(B), size \in Nat
  PROVE  [counter |-> 1, out |-> <<>>] \in Cipherings(kind, nonce, in, size, first)
<1>1. Len(in) \in Nat
  BY SeqIsList
<1>2. 1 \in 0 .. CounterRange - 1 /\ 0 \in 0 .. Len(in)
  BY <1>1, CounterIs
<1>3. 0 = 0 * size /\ 1 = (1 + 0) % CounterRange
  BY <1>2, CounterIs, OwnRemainder
<1>4. Streamed(kind, nonce, in, size, first, 0) = <<>>
  BY DEF Streamed
<1>5. <<1, 0>> \in {y \in (0 .. CounterRange - 1) \X (0 .. Len(in)) :
              y[2] = Len(in) \/ \E q \in Nat : y[2] = q * size /\ y[1] = (1 + q) % CounterRange}
  BY <1>2, <1>3
<1>6. Ciphering(kind, nonce, in, size, first, <<1, 0>>[1], <<1, 0>>[2]) = [counter |-> 1, out |-> <<>>]
  BY <1>4 DEF Ciphering
<1>. QED
  BY <1>5, <1>6, Zenon DEF Cipherings

\* A turn of either cipher: some bytes more, and the counter some blocks further.
Enciphering(B, kind, nonce, in, size, first, c, q, n, m, k, blocks, stream) ==
  /\ in \in Seq(B) /\ size \in Nat \ {0} /\ first \in Nat
  /\ c = (1 + q) % CounterRange /\ q \in Nat /\ n = q * size /\ n \in 0 .. Len(in)
  /\ m \in Nat /\ k = n + m /\ k <= Len(in) /\ blocks \in Nat
  /\ k = Len(in) \/ m = blocks * size
  /\ \A i \in 1 .. m :
       stream[i] = Aead!Symbol(kind, nonce, (first + q + ((i - 1) \div size)) % CounterRange,
                               ((i - 1) % size) + 1, <<>>)

\* What it makes.
Enciphered(kind, nonce, in, size, first, c, n, m, blocks, stream) ==
  [counter |-> (c + blocks) % CounterRange,
   out |-> Streamed(kind, nonce, in, size, first, n)
             \o Aead!XorBytes(Aead!Slice(in, n, m), stream)]

LEMMA CipherGoesOn ==
  ASSUME NEW B, NEW kind, NEW nonce, NEW in, NEW size, NEW first, NEW c, NEW q, NEW n, NEW m, NEW k,
         NEW blocks, NEW stream, NEW t,
         Enciphering(B, kind, nonce, in, size, first, c, q, n, m, k, blocks, stream),
         t = Enciphered(kind, nonce, in, size, first, c, n, m, blocks, stream)
  PROVE  /\ t \in Cipherings(kind, nonce, in, size, first)
         /\ Len(t.out) = k
<1>1. /\ in \in Seq(B) /\ size \in Nat \ {0} /\ first \in Nat
      /\ c = (1 + q) % CounterRange /\ q \in Nat /\ n = q * size /\ n \in 0 .. Len(in)
      /\ m \in Nat /\ k = n + m /\ k <= Len(in) /\ blocks \in Nat
      /\ k = Len(in) \/ m = blocks * size
  BY DEF Enciphering
<1>2. Len(in) \in Nat /\ n \in Nat /\ k \in 0 .. Len(in) /\ k \in Nat
  <2>1. Len(in) \in Nat
    BY <1>1, SeqIsList
  <2>2. n \in 0 .. Len(in) /\ m \in Nat /\ k = n + m /\ k <= Len(in)
    BY <1>1
  <2>. QED
    BY <2>1, <2>2
<1> DEFINE d == (c + blocks) % CounterRange
<1>3. d = (1 + (q + blocks)) % CounterRange /\ d \in 0 .. CounterRange - 1
  <2>1. (((1 + q) % CounterRange) + blocks) % CounterRange = (1 + q + blocks) % CounterRange
    <3>1. 1 + q \in Nat
      BY <1>1
    <3>. QED
      BY <1>1, <3>1, CounterIs, ModSum
  <2>2. 1 + q + blocks = 1 + (q + blocks)
    BY <1>1
  <2>3. c + blocks \in Nat
    <3>1. 1 + q \in Nat
      BY <1>1
    <3>. QED
      BY <1>1, <3>1, CounterIs, Divided
  <2>. QED
    BY <1>1, <2>1, <2>2, <2>3, CounterIs, Divided
<1>4. Streamed(kind, nonce, in, size, first, n) \o Aead!XorBytes(Aead!Slice(in, n, m), stream)
        = Streamed(kind, nonce, in, size, first, k)
  <2>1. Turning(kind, nonce, size, first, q, n, m, stream)
    BY <1>1, Zenon DEF Turning, Enciphering
  <2>2. k = n + m
    BY <1>1
  <2>. QED
    BY <2>1, <2>2, StreamGoesOn
<1>5. t = Ciphering(kind, nonce, in, size, first, d, k)
  BY <1>4, Zenon DEF Ciphering, Enciphered
<1>6. k = Len(in) \/ \E r \in Nat : k = r * size /\ d = (1 + r) % CounterRange
  <2>1. CASE m = blocks * size
    <3>1. k = (q + blocks) * size /\ q + blocks \in Nat
      BY <1>1, <2>1
    <3>. QED
      BY <1>3, <3>1, Zenon
  <2>. QED
    BY <1>1, <2>1
<1> HIDE DEF d
<1>7. <<d, k>> \in {y \in (0 .. CounterRange - 1) \X (0 .. Len(in)) :
              y[2] = Len(in) \/ \E r \in Nat : y[2] = r * size /\ y[1] = (1 + r) % CounterRange}
  BY <1>2, <1>3, <1>6
<1>8. t = Ciphering(kind, nonce, in, size, first, <<d, k>>[1], <<d, k>>[2])
  BY <1>5
<1>9. t \in Cipherings(kind, nonce, in, size, first)
  BY <1>7, <1>8, Zenon DEF Cipherings
<1>10. t.out = Streamed(kind, nonce, in, size, first, k)
  BY <1>5 DEF Ciphering
<1>11. Len(Streamed(kind, nonce, in, size, first, k)) = k
  BY <1>2, StreamLength
<1>. QED
  BY <1>9, <1>10, <1>11, Zenon

\* What is known of a place in a cipher.
LEMMA CipherPlace ==
  ASSUME NEW B, NEW kind, NEW nonce, NEW in, NEW size, NEW first, NEW t, in \in Seq(B),
         t \in Cipherings(kind, nonce, in, size, first)
  PROVE  \E c \in 0 .. CounterRange - 1, n \in 0 .. Len(in) :
           /\ t.counter = c /\ t.out = Streamed(kind, nonce, in, size, first, n) /\ Len(t.out) = n
           /\ n = Len(in) \/ \E q \in Nat : n = q * size /\ c = (1 + q) % CounterRange
<1>1. PICK x \in (0 .. CounterRange - 1) \X (0 .. Len(in)) :
        /\ t = Ciphering(kind, nonce, in, size, first, x[1], x[2])
        /\ x[2] = Len(in) \/ \E q \in Nat : x[2] = q * size /\ x[1] = (1 + q) % CounterRange
  BY DEF Cipherings
<1> DEFINE c == x[1]
           n == x[2]
<1>2. c \in 0 .. CounterRange - 1 /\ n \in 0 .. Len(in)
  OBVIOUS
<1>3. t.counter = c /\ t.out = Streamed(kind, nonce, in, size, first, n)
  BY <1>1 DEF Ciphering
<1>4. n = Len(in) \/ \E q \in Nat : n = q * size /\ c = (1 + q) % CounterRange
  BY <1>1
<1> HIDE DEF c, n
<1>5. Len(Streamed(kind, nonce, in, size, first, n)) = n
  <2>1. n \in Nat
    BY <1>2, SeqIsList
  <2>. QED
    BY <2>1, StreamLength
<1>. QED
  BY <1>2, <1>3, <1>4, <1>5, Zenon

\* The smaller of two.
LEMMA LeastOf ==
  ASSUME NEW a, NEW b, NEW m, a \in Nat, b \in Nat, m = Aead!Least(a, b)
  PROVE  m \in Nat /\ m <= a /\ m <= b /\ (m = a \/ m = b)
BY DEF Aead!Least

\* Of GCM: the keystream begins with counter 2, for the counter is raised before.
LEMMA CtrTurn ==
  ASSUME NEW B, NEW nonce, NEW in, NEW t, NEW m, NEW next, in \in Seq(B),
         t \in Cipherings("aes", nonce, in, CipherBlock, 2),
         m = Aead!Least(Len(in) - Len(t.out), CipherBlock), m # 0,
         next = Aead!gcm_inc_counter(t.counter)
  PROVE  LET r == [counter |-> next,
                   out |-> t.out \o Aead!XorBytes(Aead!Slice(in, Len(t.out), m), Aead!aes(nonce, next))]
         IN  /\ r \in Cipherings("aes", nonce, in, CipherBlock, 2)
             /\ Len(r.out) \in Nat /\ Len(r.out) > Len(t.out)
<1>0. CipherBlock \in Nat \ {0} /\ Len(in) \in Nat
  BY CipherShape, SeqIsList DEF Aead!AeadShape
<1>1. PICK c \in 0 .. CounterRange - 1, n \in 0 .. Len(in) :
           /\ t.counter = c /\ t.out = Streamed("aes", nonce, in, CipherBlock, 2, n) /\ Len(t.out) = n
           /\ n = Len(in) \/ \E q \in Nat : n = q * CipherBlock /\ c = (1 + q) % CounterRange
  BY CipherPlace
<1>2. n \in Nat /\ Len(in) - n \in Nat
  BY <1>0
<1>3. m \in Nat /\ m <= Len(in) - n /\ m <= CipherBlock /\ (m = Len(in) - n \/ m = CipherBlock)
  BY <1>0, <1>1, <1>2, LeastOf
<1>4. n # Len(in)
  BY <1>0, <1>2, <1>3
<1>5. PICK q \in Nat : n = q * CipherBlock /\ c = (1 + q) % CounterRange
  BY <1>1, <1>4
<1> DEFINE k == n + m
           stream == Aead!aes(nonce, next)
<1>6. k \in Nat /\ k > n /\ k <= Len(in) /\ (k = Len(in) \/ m = 1 * CipherBlock)
  BY <1>0, <1>2, <1>3
<1>7. next = (2 + q) % CounterRange /\ next = (c + 1) % CounterRange
  <2>1. next = (c + 1) % CounterRange
    BY <1>1 DEF Aead!gcm_inc_counter
  <2>2. (((1 + q) % CounterRange) + 1) % CounterRange = ((1 + q) + 1) % CounterRange
    <3>1. 1 + q \in Nat /\ 1 \in Nat
      OBVIOUS
    <3>. QED
      BY <3>1, CounterIs, ModSum
  <2>3. (1 + q) + 1 = 2 + q
    OBVIOUS
  <2>. QED
    BY <1>5, <2>1, <2>2, <2>3
<1>8. ASSUME NEW i \in 1 .. m
      PROVE stream[i] = Aead!Symbol("aes", nonce, (2 + q + ((i - 1) \div CipherBlock)) % CounterRange,
                               ((i - 1) % CipherBlock) + 1, <<>>)
  <2>1. i - 1 \in 0 .. CipherBlock - 1 /\ i \in 1 .. CipherBlock /\ (i - 1) + 1 = i
    BY <1>0, <1>3
  <2>2. (i - 1) \div CipherBlock = 0 /\ (i - 1) % CipherBlock = i - 1
    BY <1>0, <2>1, OwnRemainder
  <2>3. stream[i] = Aead!Symbol("aes", nonce, next, i, <<>>)
    BY <2>1 DEF Aead!aes
  <2>4. 2 + q + 0 = 2 + q
    OBVIOUS
  <2>. QED
    BY <1>7, <2>1, <2>2, <2>3, <2>4, Zenon
<1>9. k = n + m
  OBVIOUS
<1> DEFINE r == Enciphered("aes", nonce, in, CipherBlock, 2, c, n, m, 1, stream)
<1>10. r = [counter |-> next,
            out |-> t.out \o Aead!XorBytes(Aead!Slice(in, Len(t.out), m), Aead!aes(nonce, next))]
  BY <1>1, <1>7, Zenon DEF Enciphered
<1>11. Enciphering(B, "aes", nonce, in, CipherBlock, 2, c, q, n, m, k, 1, stream)
  <2> HIDE DEF k, stream
  <2>1. 2 \in Nat /\ 1 \in Nat
    OBVIOUS
  <2>. QED
    BY <1>0, <1>3, <1>5, <1>6, <1>8, <1>9, <2>1, Zenon DEF Enciphering
<1>12. r \in Cipherings("aes", nonce, in, CipherBlock, 2) /\ Len(r.out) = k
  <2>1. r = Enciphered("aes", nonce, in, CipherBlock, 2, c, n, m, 1, stream)
    OBVIOUS
  <2> HIDE DEF k, stream, r
  <2>. QED
    BY <1>11, <2>1, CipherGoesOn
<1> HIDE DEF r, k
<1>13. Len(r.out) \in Nat /\ Len(r.out) > Len(t.out)
  BY <1>1, <1>6, <1>12
<1>. QED
  BY <1>10, <1>12, <1>13, Zenon

\* A cipher's loop that makes its turns leaves the whole of the message under its keystream.
LEMMA CipherEnds ==
  ASSUME NEW B, NEW kind, NEW nonce, NEW in, NEW size, NEW first, NEW S, NEW start, NEW turn, NEW done,
         NEW n, NEW after,
         in \in Seq(B), S = Cipherings(kind, nonce, in, size, first), n = Len(in),
         IsLoop(S, start, turn, n, done), done = [t \in S |-> Len(t.out)], IsRun(S, start, turn, after)
  PROVE  after[n].out = Streamed(kind, nonce, in, size, first, n)
<1>1. after[n] \in S /\ done[after[n]] = n
  BY LoopEnds
<1>2. PICK c \in 0 .. CounterRange - 1, k \in 0 .. Len(in) :
           /\ after[n].counter = c /\ after[n].out = Streamed(kind, nonce, in, size, first, k)
           /\ Len(after[n].out) = k
           /\ k = Len(in) \/ \E q \in Nat : k = q * size /\ c = (1 + q) % CounterRange
  BY SMTT(30), <1>1, CipherPlace
<1>3. k = n
  BY <1>1, <1>2, Zenon
<1>. QED
  BY <1>2, <1>3

\* Where a cipher is, it has done some of its bytes.
LEMMA CipherDone ==
  ASSUME NEW B, NEW kind, NEW nonce, NEW in, NEW size, NEW first, NEW t, in \in Seq(B),
         t \in Cipherings(kind, nonce, in, size, first)
  PROVE  Len(t.out) \in 0 .. Len(in) /\ Len(t.out) \in Nat /\ Len(in) \in Nat /\ Len(in) - Len(t.out) \in Nat
<1>1. PICK c \in 0 .. CounterRange - 1, k \in 0 .. Len(in) : Len(t.out) = k
  BY CipherPlace
<1>2. Len(in) \in Nat
  BY SeqIsList
<1>. QED
  BY <1>1, <1>2

LEMMA CtrIs ==
  ASSUME NEW B, NEW nonce, NEW in, in \in Seq(B)
  PROVE  Aead!gcm_ctr_crypt(in, nonce, Aead!J0) = Streamed("aes", nonce, in, CipherBlock, 2, Len(in))
<1> DEFINE n == Len(in)
           start == [counter |-> 1, out |-> <<>>]
           S == Cipherings("aes", nonce, in, CipherBlock, 2)
           Turn(t) ==
             LET m == Aead!Least(Len(in) - Len(t.out), CipherBlock)
                 next == Aead!gcm_inc_counter(t.counter)
             IN  IF m = 0 THEN t
                 ELSE [counter |-> next,
                       out |-> t.out \o Aead!XorBytes(Aead!Slice(in, Len(t.out), m), Aead!aes(nonce, next))]
           turn == [t \in S |-> Turn(t)]
           done == [t \in S |-> Len(t.out)]
<1>0. CipherBlock \in Nat /\ CipherBlock # 0 /\ n \in Nat
  BY CipherShape, SeqIsList DEF Aead!AeadShape
<1>1. start \in S
  BY <1>0, CipherBegins
<1>2. ASSUME NEW t \in S
      PROVE  Turn(t) \in S /\ (Len(Turn(t).out) = n \/ Len(Turn(t).out) > Len(t.out))
  <2> DEFINE m == Aead!Least(Len(in) - Len(t.out), CipherBlock)
             next == Aead!gcm_inc_counter(t.counter)
             r == [counter |-> next,
                   out |-> t.out \o Aead!XorBytes(Aead!Slice(in, Len(t.out), m), Aead!aes(nonce, next))]
  <2>0. Turn(t) = IF m = 0 THEN t ELSE r
    OBVIOUS
  <2>1. Len(t.out) \in 0 .. n /\ n - Len(t.out) \in Nat
    BY CipherDone
  <2>2. CASE m = 0
    <3>1. Turn(t) = t
      BY <2>0, <2>2
    <3>2. n - Len(t.out) = 0
      BY <1>0, <2>1, <2>2, LeastOf
    <3> HIDE DEF Turn
    <3>. QED
      BY <1>0, <2>1, <3>1, <3>2
  <2>3. CASE m # 0
    <3>1. m = Aead!Least(Len(in) - Len(t.out), CipherBlock) /\ next = Aead!gcm_inc_counter(t.counter)
      OBVIOUS
    <3>2. r \in S /\ Len(r.out) > Len(t.out)
      <4> HIDE DEF m, next
      <4>. QED
        BY <2>3, <3>1, CtrTurn
    <3>3. Turn(t) = r
      BY <2>0, <2>3
    <3> HIDE DEF r, S, Turn, n
    <3>. QED
      BY <3>2, <3>3, Zenon
  <2>. QED
    BY <2>2, <2>3
<1>3. IsLoop(S, start, turn, n, done)
  <2>1. \A t \in S : Len(t.out) \in 0 .. n
    BY CipherDone
  <2> HIDE DEF S, Turn, n
  <2>2. /\ turn \in [S -> S]
        /\ done \in [S -> 0 .. n]
        /\ \A t \in S : done[turn[t]] = n \/ done[turn[t]] > done[t]
    BY <1>2, <2>1
  <2> HIDE DEF turn, done, start
  <2>. QED
    BY <1>0, <1>1, <2>2 DEF IsLoop
<1> DEFINE after == CHOOSE after : after = [k \in Nat |-> IF k = 0 THEN start ELSE Turn(after[k - 1])]
<1>4. Aead!gcm_ctr_crypt(in, nonce, Aead!J0) = after[n].out
  BY DEF Aead!gcm_ctr_crypt, Aead!Loop, Aead!J0
<1>5. after = [k \in Nat |-> IF k = 0 THEN start ELSE Turn(after[k - 1])]
  <2> HIDE DEF S, start
  <2>1. PICK f : f \in [Nat -> S] /\ IsRun(S, start, turn, f)
    <3> HIDE DEF turn, done, n
    <3>. QED
      BY <1>3, LoopRuns
  <2> HIDE DEF Turn
  <2>2. \A k \in Nat : f[k + 1] = Turn(f[k])
    BY <2>1 DEF IsRun
  <2>3. f = [k \in Nat |-> IF k = 0 THEN start ELSE Turn(f[k - 1])]
    <3>1. \A k \in Nat : k # 0 => k - 1 \in Nat /\ k - 1 + 1 = k
      OBVIOUS
    <3>. QED
      BY <2>1, <2>2, <3>1 DEF IsRun
  <2>. QED
    BY <2>3
<1> HIDE DEF Turn, start, after
<1>6. IsRun(S, start, turn, after)
  <2> HIDE DEF S
  <2>. QED
    BY <1>5 DEF IsRun
<1>7. after[n].out = Streamed("aes", nonce, in, CipherBlock, 2, n)
  <2>1. S = Cipherings("aes", nonce, in, CipherBlock, 2) /\ n = Len(in) /\ done = [t \in S |-> Len(t.out)]
    OBVIOUS
  <2> HIDE DEF S, turn, done, n
  <2>. QED
    BY <1>3, <1>6, <2>1, CipherEnds
<1>. QED
  BY <1>4, <1>7

\* Of ChaCha20: four blocks, one, or part of one; the keystream begins with counter 1.
LEMMA ChachaTurn ==
  ASSUME NEW B, NEW nonce, NEW in, NEW t, NEW left, NEW blocks, NEW m, in \in Seq(B),
         t \in Cipherings("chacha", nonce, in, StreamBlock, 1),
         left = Len(in) - Len(t.out), left # 0,
         blocks = IF left >= 4 * StreamBlock THEN 4 ELSE 1,
         m = Aead!Least(left, blocks * StreamBlock)
  PROVE  LET r == [counter |-> (t.counter + blocks) % CounterRange,
                   out |-> t.out \o Aead!XorBytes(Aead!Slice(in, Len(t.out), m),
                                                  Aead!Keystream(nonce, t.counter, blocks))]
         IN  /\ r \in Cipherings("chacha", nonce, in, StreamBlock, 1)
             /\ Len(r.out) \in Nat /\ Len(r.out) > Len(t.out)
<1>0. StreamBlock \in Nat \ {0} /\ Len(in) \in Nat
  BY CipherShape, SeqIsList DEF Aead!AeadShape
<1>1. PICK c \in 0 .. CounterRange - 1, n \in 0 .. Len(in) :
           /\ t.counter = c /\ t.out = Streamed("chacha", nonce, in, StreamBlock, 1, n) /\ Len(t.out) = n
           /\ n = Len(in) \/ \E q \in Nat : n = q * StreamBlock /\ c = (1 + q) % CounterRange
  BY SMTT(30), CipherPlace
<1>2. n \in Nat /\ left \in Nat /\ left = Len(in) - n /\ left > 0
  BY SMTT(30), <1>0, <1>1
<1> DEFINE whole == blocks * StreamBlock
<1>3. blocks \in Nat /\ blocks >= 1 /\ whole \in Nat /\ whole > 0
  <2>1. CASE left >= 4 * StreamBlock
    BY <1>0, <2>1
  <2>2. CASE ~(left >= 4 * StreamBlock)
    BY <1>0, <2>2
  <2>. QED
    BY <2>1, <2>2
<1>4. m \in Nat /\ m <= left /\ m <= whole /\ (m = left \/ m = whole) /\ m > 0
  BY <1>2, <1>3, LeastOf
<1>5. PICK q \in Nat : n = q * StreamBlock /\ c = (1 + q) % CounterRange
  BY <1>0, <1>1, <1>2
<1> DEFINE k == n + m
           stream == Aead!Keystream(nonce, c, blocks)
<1>6. k = n + m /\ k \in Nat /\ k > n /\ k <= Len(in) /\ (k = Len(in) \/ m = blocks * StreamBlock)
  <2> HIDE DEF whole
  <2>1. k \in Nat /\ k > n
    BY <1>2, <1>4
  <2>2. left = Len(in) - n /\ m <= left /\ Len(in) \in Nat /\ n \in Nat /\ left \in Nat /\ m \in Nat
    BY <1>0, <1>2, <1>4
  <2>3. k <= Len(in)
    BY <2>2
  <2>4. m = left => k = Len(in)
    BY SMTT(30), <2>2
  <2>. QED
    BY <1>4, <2>1, <2>3, <2>4, Zenon DEF whole
<1>7. ASSUME NEW i \in 1 .. m
      PROVE stream[i] = Aead!Symbol("chacha", nonce, (1 + q + ((i - 1) \div StreamBlock)) % CounterRange,
                               ((i - 1) % StreamBlock) + 1, <<>>)
  <2> DEFINE j == i - 1
             d == j \div StreamBlock
             o == (j % StreamBlock) + 1
             counter == (c + d) % CounterRange
  <2>1. j \in Nat /\ i \in 1 .. whole
    BY <1>3, <1>4
  <2>2. d \in Nat /\ o \in 1 .. StreamBlock
    <3> HIDE DEF j
    <3>. QED
      BY <1>0, <2>1, Divided
  <2>3. stream[i] = Aead!chacha20_block(nonce, counter)[o]
    BY <2>1 DEF Aead!Keystream
  <2>4. Aead!chacha20_block(nonce, counter)[o] = Aead!Symbol("chacha", nonce, counter, o, <<>>)
    <3> HIDE DEF counter, o
    <3>. QED
      BY <2>2 DEF Aead!chacha20_block
  <2>5. counter = (1 + q + d) % CounterRange
    <3> HIDE DEF d
    <3>1. 1 + q \in Nat /\ d \in Nat
      BY <2>2
    <3>2. (((1 + q) % CounterRange) + d) % CounterRange = (1 + q + d) % CounterRange
      BY <3>1, CounterIs, ModSum
    <3>. QED
      BY <1>5, <3>2
  <2>. QED
    BY <2>3, <2>4, <2>5, Zenon
<1> DEFINE r == Enciphered("chacha", nonce, in, StreamBlock, 1, c, n, m, blocks, stream)
<1>8. r = [counter |-> (t.counter + blocks) % CounterRange,
           out |-> t.out \o Aead!XorBytes(Aead!Slice(in, Len(t.out), m),
                                          Aead!Keystream(nonce, t.counter, blocks))]
  BY <1>1, Zenon DEF Enciphered
<1>9. Enciphering(B, "chacha", nonce, in, StreamBlock, 1, c, q, n, m, k, blocks, stream)
  <2> HIDE DEF k, stream
  <2>1. 1 \in Nat
    OBVIOUS
  <2>. QED
    BY <1>0, <1>3, <1>4, <1>5, <1>6, <1>7, <2>1, Zenon DEF Enciphering
<1>10. r \in Cipherings("chacha", nonce, in, StreamBlock, 1) /\ Len(r.out) = k
  <2>1. r = Enciphered("chacha", nonce, in, StreamBlock, 1, c, n, m, blocks, stream)
    OBVIOUS
  <2> HIDE DEF k, stream, r
  <2>. QED
    BY <1>9, <2>1, CipherGoesOn
<1> HIDE DEF r, k
<1>11. Len(r.out) \in Nat /\ Len(r.out) > Len(t.out)
  BY <1>1, <1>6, <1>10
<1>. QED
  BY <1>8, <1>10, <1>11, Zenon

LEMMA ChachaIs ==
  ASSUME NEW B, NEW nonce, NEW in, in \in Seq(B)
  PROVE  Aead!chacha20_crypt(in, nonce, 1) = Streamed("chacha", nonce, in, StreamBlock, 1, Len(in))
<1> DEFINE n == Len(in)
           start == [counter |-> 1, out |-> <<>>]
           S == Cipherings("chacha", nonce, in, StreamBlock, 1)
           Turn(t) ==
             LET left == Len(in) - Len(t.out)
                 blocks == IF left >= 4 * StreamBlock THEN 4 ELSE 1
                 piece == Aead!Slice(in, Len(t.out), Aead!Least(left, blocks * StreamBlock))
             IN  IF left = 0 THEN t
                 ELSE [counter |-> (t.counter + blocks) % CounterRange,
                       out |-> t.out \o Aead!XorBytes(piece, Aead!Keystream(nonce, t.counter, blocks))]
           turn == [t \in S |-> Turn(t)]
           done == [t \in S |-> Len(t.out)]
<1>0. StreamBlock \in Nat /\ n \in Nat
  BY CipherShape, SeqIsList DEF Aead!AeadShape
<1>1. start \in S
  BY <1>0, CipherBegins
<1>2. ASSUME NEW t \in S
      PROVE  Turn(t) \in S /\ (Len(Turn(t).out) = n \/ Len(Turn(t).out) > Len(t.out))
  <2> DEFINE left == Len(in) - Len(t.out)
             blocks == IF left >= 4 * StreamBlock THEN 4 ELSE 1
             m == Aead!Least(left, blocks * StreamBlock)
             r == [counter |-> (t.counter + blocks) % CounterRange,
                   out |-> t.out \o Aead!XorBytes(Aead!Slice(in, Len(t.out), m),
                                                  Aead!Keystream(nonce, t.counter, blocks))]
  <2>0. Turn(t) = IF left = 0 THEN t ELSE r
    OBVIOUS
  <2>1. Len(t.out) \in 0 .. n /\ left \in Nat
    BY CipherDone
  <2>2. CASE left = 0
    <3>1. Turn(t) = t
      BY <2>0, <2>2
    <3>2. Len(t.out) = n
      BY <1>0, <2>1, <2>2
    <3> HIDE DEF Turn
    <3>. QED
      BY <3>1, <3>2, Zenon
  <2>3. CASE left # 0
    <3>1. left = Len(in) - Len(t.out) /\ blocks = (IF left >= 4 * StreamBlock THEN 4 ELSE 1)
          /\ m = Aead!Least(left, blocks * StreamBlock)
      OBVIOUS
    <3>2. r \in S /\ Len(r.out) > Len(t.out)
      <4> HIDE DEF m, left, blocks
      <4>. QED
        BY <2>3, <3>1, ChachaTurn
    <3>3. Turn(t) = r
      BY <2>0, <2>3
    <3> HIDE DEF r, S, Turn, n
    <3>. QED
      BY <3>2, <3>3, Zenon
  <2>. QED
    BY <2>2, <2>3
<1>3. IsLoop(S, start, turn, n, done)
  <2>1. \A t \in S : Len(t.out) \in 0 .. n
    BY CipherDone
  <2> HIDE DEF S, Turn, n
  <2>2. /\ turn \in [S -> S]
        /\ done \in [S -> 0 .. n]
        /\ \A t \in S : done[turn[t]] = n \/ done[turn[t]] > done[t]
    BY <1>2, <2>1
  <2> HIDE DEF turn, done, start
  <2>. QED
    BY <1>0, <1>1, <2>2 DEF IsLoop
<1> DEFINE after == CHOOSE after : after = [k \in Nat |-> IF k = 0 THEN start ELSE Turn(after[k - 1])]
<1>4. Aead!chacha20_crypt(in, nonce, 1) = after[n].out
  BY DEF Aead!chacha20_crypt, Aead!Loop
<1>5. after = [k \in Nat |-> IF k = 0 THEN start ELSE Turn(after[k - 1])]
  <2> HIDE DEF S, start
  <2>1. PICK f : f \in [Nat -> S] /\ IsRun(S, start, turn, f)
    <3> HIDE DEF turn, done, n
    <3>. QED
      BY <1>3, LoopRuns
  <2> HIDE DEF Turn
  <2>2. \A k \in Nat : f[k + 1] = Turn(f[k])
    BY <2>1 DEF IsRun
  <2>3. f = [k \in Nat |-> IF k = 0 THEN start ELSE Turn(f[k - 1])]
    <3>1. \A k \in Nat : k # 0 => k - 1 \in Nat /\ k - 1 + 1 = k
      OBVIOUS
    <3>. QED
      BY <2>1, <2>2, <3>1 DEF IsRun
  <2>. QED
    BY <2>3
<1> HIDE DEF Turn, start, after
<1>6. IsRun(S, start, turn, after)
  <2> HIDE DEF S
  <2>. QED
    BY <1>5 DEF IsRun
<1>7. after[n].out = Streamed("chacha", nonce, in, StreamBlock, 1, n)
  <2>1. S = Cipherings("chacha", nonce, in, StreamBlock, 1) /\ n = Len(in) /\ done = [t \in S |-> Len(t.out)]
    OBVIOUS
  <2> HIDE DEF S, turn, done, n
  <2>. QED
    BY <1>3, <1>6, <2>1, CipherEnds
<1>. QED
  BY <1>4, <1>7

-----------------------------------------------------------------------------
(* The fields under both tags: block by block, the last one filled up. *)

LEMMA Multiples ==
  ASSUME NEW a, NEW b, NEW n, a \in Nat, b \in Nat, n \in Nat, a <= b
  PROVE  a * n \in Nat /\ b * n \in Nat /\ a * n <= b * n
<1> DEFINE d == b - a
<1>1. d \in Nat /\ b = a + d
  OBVIOUS
<1> HIDE DEF d
<1>2. b * n = a * n + d * n /\ d * n \in Nat /\ a * n \in Nat
  BY <1>1
<1>. QED
  BY <1>2

\* How many blocks a field of n bytes has.
Count(n) == (n + CipherBlock - 1) \div CipherBlock

LEMMA CountIs ==
  ASSUME NEW n, n \in Nat
  PROVE  /\ Count(n) \in Nat /\ Count(n) * CipherBlock \in Nat /\ Count(n) * CipherBlock >= n
         /\ \A k \in Nat : k * CipherBlock < n <=> k < Count(n)
<1> DEFINE L == Count(n)
           r == (n + CipherBlock - 1) % CipherBlock
<1>0. CipherBlock \in Nat \ {0}
  BY CipherShape DEF Aead!AeadShape
<1>1. n + CipherBlock - 1 \in Nat
  BY <1>0
<1>2. L \in Nat /\ r \in 0 .. CipherBlock - 1 /\ L * CipherBlock \in Nat
      /\ n + CipherBlock - 1 = L * CipherBlock + r
  BY <1>0, <1>1, Divided DEF Count
<1> DEFINE whole == L * CipherBlock
<1>3. whole \in Nat /\ whole >= n /\ whole <= n + CipherBlock - 1
  <2> HIDE DEF L, r
  <2>1. whole \in Nat /\ r \in 0 .. CipherBlock - 1 /\ n + CipherBlock - 1 = whole + r
    BY <1>2
  <2> HIDE DEF whole
  <2>. QED
    BY <1>0, <2>1
<1>4. ASSUME NEW k \in Nat PROVE k * CipherBlock < n <=> k < L
  <2> HIDE DEF L
  <2>1. CASE k < L
    <3>1. (k + 1) * CipherBlock <= whole /\ (k + 1) * CipherBlock = k * CipherBlock + CipherBlock
          /\ k * CipherBlock \in Nat
      <4>1. k + 1 \in Nat /\ k + 1 <= L
        BY <1>2, <2>1
      <4>2. (k + 1) * CipherBlock <= whole
        BY <1>0, <1>2, <4>1, Multiples
      <4>. QED
        BY <1>0, <4>2
    <3> DEFINE m == k * CipherBlock
               l == (k + 1) * CipherBlock
    <3>2. m \in Nat /\ l = m + CipherBlock /\ l <= whole
      BY <3>1
    <3> HIDE DEF m, l, whole
    <3>3. m < n
      BY <1>0, <1>3, <3>2
    <3>. QED
      BY <2>1, <3>3 DEF m
  <2>2. CASE k >= L
    <3>1. whole <= k * CipherBlock /\ k * CipherBlock \in Nat
      BY <1>0, <1>2, <2>2, Multiples
    <3> DEFINE m == k * CipherBlock
    <3>2. m \in Nat /\ whole <= m
      BY <3>1
    <3> HIDE DEF m, whole
    <3>3. ~(m < n)
      BY <1>3, <3>2
    <3>. QED
      BY <1>2, <2>2, <3>3 DEF m
  <2>. QED
    BY <1>2, <2>1, <2>2
<1> HIDE DEF L, r
<1>5. L = Count(n)
  BY DEF L
<1>. QED
  BY <1>2, <1>3, <1>4, <1>5, Zenon DEF whole

\* Block k of a field, and the first k blocks.
FieldBlock(data, k) ==
  [i \in 1 .. CipherBlock |->
     IF (k - 1) * CipherBlock + i <= Len(data) THEN data[(k - 1) * CipherBlock + i] ELSE {}]
FirstBlocks(data, k) == [j \in 1 .. k |-> FieldBlock(data, j)]

\* A piece of the field, filled up.
IsPiece(B, data, k, from, m) ==
  /\ data \in Seq(B) /\ from \in Nat /\ from = (k - 1) * CipherBlock
  /\ m \in Nat /\ m <= CipherBlock /\ from + m <= Len(data)
  /\ m = CipherBlock \/ from + m = Len(data)

LEMMA PieceIs ==
  ASSUME NEW B, NEW data, NEW k, NEW from, NEW m, IsPiece(B, data, k, from, m)
  PROVE  Aead!Padded(Aead!Slice(data, from, m), {}) = FieldBlock(data, k)
<1> DEFINE piece == Aead!Slice(data, from, m)
<1>0. CipherBlock \in Nat /\ Len(data) \in Nat /\ from \in Nat /\ from = (k - 1) * CipherBlock
  BY CipherShape, SeqIsList DEF Aead!AeadShape, IsPiece
<1>a. m \in Nat /\ m <= CipherBlock /\ from + m <= Len(data) /\ (m = CipherBlock \/ from + m = Len(data))
  BY DEF IsPiece
<1>1. piece = [i \in 1 .. m |-> data[from + i]] /\ Len(piece) = m
  <2>1. piece = [i \in 1 .. m |-> data[from + i]]
    BY DEF Aead!Slice
  <2>2. Lists(m, piece)
    BY <2>1 DEF Lists
  <2> HIDE DEF piece
  <2>. QED
    BY <1>a, <2>1, <2>2, Listed
<1> HIDE DEF piece
<1>2. ASSUME NEW i \in 1 .. CipherBlock
      PROVE (IF i <= Len(piece) THEN piece[i] ELSE {})
              = IF from + i <= Len(data) THEN data[from + i] ELSE {}
  <2>1. i <= m <=> from + i <= Len(data)
    <3>1. from \in Nat /\ CipherBlock \in Nat /\ Len(data) \in Nat
      BY <1>0
    <3>. QED
      BY <1>a, <3>1
  <2>2. CASE i <= m
    <3>1. piece[i] = data[from + i]
      BY <1>0, <1>a, <1>1, <2>2
    <3>. QED
      BY <1>1, <2>1, <2>2, <3>1, Zenon
  <2>. QED
    BY <1>1, <2>1, <2>2, Zenon
<1>3. Aead!Padded(piece, {}) = [i \in 1 .. CipherBlock |-> IF i <= Len(piece) THEN piece[i] ELSE {}]
  BY DEF Aead!Padded
<1>4. FieldBlock(data, k) = [i \in 1 .. CipherBlock |-> IF from + i <= Len(data) THEN data[from + i] ELSE {}]
  BY <1>0, Zenon DEF FieldBlock
<1>5. Aead!Padded(piece, {}) = FieldBlock(data, k)
  BY <1>2, <1>3, <1>4, Zenon
<1>. QED
  BY <1>5 DEF piece

LEMMA PaddedBlocksAre ==
  ASSUME NEW B, NEW data, data \in Seq(B)
  PROVE  Aead!PaddedBlocks(data) = FirstBlocks(data, Count(Len(data)))
<1> DEFINE n == Len(data)
<1>0. CipherBlock \in Nat \ {0} /\ n \in Nat
  BY CipherShape, SeqIsList DEF Aead!AeadShape
<1>1. ASSUME NEW k \in 1 .. Count(n)
      PROVE Aead!Padded(Aead!Slice(data, (k - 1) * CipherBlock, Aead!Least(CipherBlock, n - (k - 1) * CipherBlock)), {})
              = FieldBlock(data, k)
  <2> DEFINE from == (k - 1) * CipherBlock
             m == Aead!Least(CipherBlock, n - from)
  <2>1. k - 1 \in Nat /\ k - 1 < Count(n) /\ k \in Nat \ {0}
    <3>1. Count(n) \in Nat
      BY <1>0, CountIs
    <3> HIDE DEF n
    <3>. QED
      BY <3>1
  <2>2. from \in Nat /\ from < n
    <3>1. from \in Nat
      BY <1>0, <2>1
    <3>. QED
      BY <1>0, <2>1, <3>1, CountIs
  <2>3. from = (k - 1) * CipherBlock
    OBVIOUS
  <2> HIDE DEF from
  <2>4. n - from \in Nat
    BY <1>0, <2>2
  <2>5. m \in Nat /\ m <= CipherBlock /\ m <= n - from /\ (m = CipherBlock \/ m = n - from)
    BY <1>0, <2>4, LeastOf
  <2> HIDE DEF m
  <2>6. from + m <= n /\ (m = CipherBlock \/ from + m = n)
    <3> HIDE DEF n
    <3>. QED
      BY <1>0, <2>2, <2>5
  <2>7. Aead!Padded(Aead!Slice(data, from, m), {}) = FieldBlock(data, k)
    <3>1. IsPiece(B, data, k, from, m)
      BY <2>2, <2>3, <2>5, <2>6, Zenon DEF IsPiece
    <3> HIDE DEF n
    <3>. QED
      BY <3>1, PieceIs
  <2>. QED
    BY <2>7 DEF m, from
<1>2. Aead!PaddedBlocks(data)
        = [k \in 1 .. Count(n) |->
             Aead!Padded(Aead!Slice(data, (k - 1) * CipherBlock, Aead!Least(CipherBlock, n - (k - 1) * CipherBlock)), {})]
  BY DEF Aead!PaddedBlocks, Count
<1> HIDE DEF n
<1>3. FirstBlocks(data, Count(n)) = [k \in 1 .. Count(n) |-> FieldBlock(data, k)]
  BY DEF FirstBlocks
<1>4. Aead!PaddedBlocks(data) = FirstBlocks(data, Count(n))
  BY <1>1, <1>2, <1>3, Zenon
<1>. QED
  BY <1>4 DEF n

\* A place in the field before its end.
Before(B, data, k, off) ==
  data \in Seq(B) /\ k \in Nat /\ k < Count(Len(data)) /\ off = k * CipherBlock

\* What is taken at once after k blocks: some blocks more, up to the last.
LEMMA GroupIs ==
  ASSUME NEW B, NEW data, NEW k, NEW off, NEW group, Before(B, data, k, off),
         group = Aead!FieldGroup(data, off, {})
  PROVE  \E g \in Nat : /\ g > 0 /\ k + g <= Count(Len(data))
                        /\ group = [j \in 1 .. g |-> FieldBlock(data, k + j)]
<1> DEFINE n == Len(data)
           L == Count(n)
           left == n - off
           full == left \div CipherBlock
           r == left % CipherBlock
<1>a. data \in Seq(B) /\ k \in Nat /\ k < L /\ off = k * CipherBlock
  BY DEF Before
<1>0. CipherBlock \in Nat \ {0} /\ n \in Nat /\ CipherBlock \in Nat
  BY <1>a, CipherShape, SeqIsList DEF Aead!AeadShape
<1>1. off \in Nat /\ off < n
  <2>1. off \in Nat
    BY <1>0, <1>a
  <2>. QED
    BY <1>0, <1>a, <2>1, CountIs
<1>2. left \in Nat /\ left > 0 /\ left = n - off
  <2> HIDE DEF n
  <2>. QED
    BY <1>0, <1>1
<1>3. full \in Nat /\ r \in 0 .. CipherBlock - 1 /\ full * CipherBlock \in Nat
      /\ left = full * CipherBlock + r
  <2> HIDE DEF left
  <2>. QED
    BY <1>0, <1>2, Divided
<1>4. L \in Nat
  BY <1>0, CountIs
<1>5. CASE full = 0
  <2>1. group = <<Aead!Padded(Aead!Slice(data, off, left), {})>>
    BY <1>5 DEF Aead!FieldGroup
  <2>2. IsPiece(B, data, k + 1, off, left)
    <3>1. left <= CipherBlock /\ off + left = Len(data)
      <4>1. left = r
        <5> HIDE DEF left, full, r
        <5>1. full * CipherBlock = 0
          BY <1>0, <1>5
        <5>. QED
          BY <1>2, <1>3, <5>1
      <4> HIDE DEF left, r, n
      <4>2. left <= CipherBlock
        BY <1>0, <1>2, <1>3, <4>1
      <4>3. off + left = n
        BY <1>0, <1>1, <1>2
      <4>. QED
        BY <4>2, <4>3 DEF n
    <3>2. (k + 1) - 1 = k
      BY <1>a
    <3>3. off + left <= Len(data)
      BY <1>0, <3>1
    <3> HIDE DEF left
    <3>. QED
      BY <1>1, <1>2, <1>a, <3>1, <3>2, <3>3, Zenon DEF IsPiece
  <2>3. Aead!Padded(Aead!Slice(data, off, left), {}) = FieldBlock(data, k + 1)
    <3> HIDE DEF left
    <3>. QED
      BY <2>2, PieceIs
  <2>4. <<FieldBlock(data, k + 1)>> = [j \in 1 .. 1 |-> FieldBlock(data, k + j)]
    BY <1>a
  <2>5. k + 1 <= L
    <3> HIDE DEF L
    <3>. QED
      BY <1>4, <1>a
  <2>6. group = [j \in 1 .. 1 |-> FieldBlock(data, k + j)]
    BY <2>1, <2>3, <2>4, Zenon
  <2>7. 1 \in Nat /\ 1 > 0
    OBVIOUS
  <2>. QED
    BY <2>5, <2>6, <2>7, Zenon
<1>6. CASE full # 0
  <2> DEFINE g == CASE full >= 4 -> 4 [] full \in 2 .. 3 -> 2 [] OTHER -> full
  <2>1. g \in Nat /\ g > 0 /\ g <= full
    <3> HIDE DEF full
    <3>. QED
      BY <1>3, <1>6
  <2>2. group = [j \in 1 .. g |-> Aead!Slice(data, off + (j - 1) * CipherBlock, CipherBlock)]
    BY <1>6 DEF Aead!FieldGroup
  <2> HIDE DEF g
  <2> DEFINE whole == full * CipherBlock
  <2>3. whole \in Nat /\ off + whole <= n
    <3> HIDE DEF left, full, r, n
    <3>1. whole \in Nat /\ left = whole + r
      BY <1>3
    <3> HIDE DEF whole
    <3>. QED
      BY <1>0, <1>1, <1>2, <1>3, <3>1
  <2> HIDE DEF full, left, r
  <2>4. ASSUME NEW j \in 1 .. g
        PROVE Aead!Slice(data, off + (j - 1) * CipherBlock, CipherBlock) = FieldBlock(data, k + j)
    <3> DEFINE from == off + (j - 1) * CipherBlock
               end == j * CipherBlock
    <3>1. j \in Nat /\ j - 1 \in Nat /\ j <= full
      BY <1>3, <2>1
    <3>2. end \in Nat /\ end <= whole /\ end = (j - 1) * CipherBlock + CipherBlock /\ (j - 1) * CipherBlock \in Nat
      <4>1. end \in Nat /\ end <= whole
        BY <1>0, <1>3, <3>1, Multiples
      <4>. QED
        BY <1>0, <3>1, <4>1
    <3>3. from = ((k + j) - 1) * CipherBlock
      BY <1>0, <1>a, <3>1
    <3>4. from \in Nat /\ from + CipherBlock <= n
      <4> DEFINE before == (j - 1) * CipherBlock
      <4>1. before \in Nat /\ end = before + CipherBlock /\ from = off + before
        BY <3>2
      <4>2. end \in Nat /\ end <= whole
        BY <3>2
      <4> HIDE DEF before, end, whole, from, n
      <4>. QED
        BY <1>0, <1>1, <2>3, <4>1, <4>2
    <3> HIDE DEF from
    <3>5. IsPiece(B, data, k + j, from, CipherBlock)
      <4>1. CipherBlock <= CipherBlock
        BY <1>0
      <4>. QED
        BY <1>0, <1>a, <3>3, <3>4, <4>1, Zenon DEF IsPiece
    <3>6. Aead!Padded(Aead!Slice(data, from, CipherBlock), {}) = FieldBlock(data, k + j)
      BY <3>5, PieceIs
    <3>7. Aead!Padded(Aead!Slice(data, from, CipherBlock), {}) = Aead!Slice(data, from, CipherBlock)
      <4> DEFINE piece == Aead!Slice(data, from, CipherBlock)
      <4>1. piece = [i \in 1 .. CipherBlock |-> data[from + i]]
        BY DEF Aead!Slice
      <4>2. Lists(CipherBlock, piece)
        BY <4>1 DEF Lists
      <4> HIDE DEF piece
      <4>3. Len(piece) = CipherBlock
        BY <1>0, <4>2, Listed
      <4>4. Aead!Padded(piece, {}) = [i \in 1 .. CipherBlock |-> IF i <= Len(piece) THEN piece[i] ELSE {}]
        BY DEF Aead!Padded
      <4>5. \A i \in 1 .. CipherBlock : (IF i <= Len(piece) THEN piece[i] ELSE {}) = piece[i]
        BY <1>0, <4>3
      <4>6. Aead!Padded(piece, {}) = [i \in 1 .. CipherBlock |-> piece[i]]
        BY <4>4, <4>5
      <4>7. Aead!Padded(piece, {}) = piece
        BY <4>2, <4>6, Zenon DEF Lists
      <4>. QED
        BY <4>7 DEF piece
    <3>8. Aead!Slice(data, from, CipherBlock) = FieldBlock(data, k + j)
      BY <3>6, <3>7, Zenon
    <3>. QED
      BY <3>8 DEF from
  <2>5. group = [j \in 1 .. g |-> FieldBlock(data, k + j)]
    BY <2>2, <2>4, Zenon
  <2>6. k + g <= L
    <3> DEFINE last == (k + g) - 1
    <3>1. last \in Nat /\ last = k + (g - 1) /\ g - 1 \in Nat /\ g \in Nat
      BY <1>a, <2>1
    <3>2. g * CipherBlock <= whole /\ g * CipherBlock = (g - 1) * CipherBlock + CipherBlock
          /\ (g - 1) * CipherBlock \in Nat
      <4>1. g * CipherBlock <= whole
        BY <1>0, <1>3, <2>1, Multiples
      <4>. QED
        BY <1>0, <3>1, <4>1
    <3>3. last * CipherBlock = off + (g - 1) * CipherBlock
      BY <1>0, <1>a, <3>1
    <3>4. last * CipherBlock < n
      <4> DEFINE before == (g - 1) * CipherBlock
                 end == g * CipherBlock
                 at == last * CipherBlock
      <4>1. before \in Nat /\ end = before + CipherBlock /\ at = off + before /\ end <= whole
        BY <3>2, <3>3
      <4> HIDE DEF before, end, whole, at, n
      <4>2. at < n
        BY <1>0, <1>1, <2>3, <4>1
      <4>. QED
        BY <4>2 DEF at
    <3>5. last < L
      <4> HIDE DEF last, n
      <4>. QED
        BY <1>0, <3>1, <3>4, CountIs
    <3> HIDE DEF L
    <3>. QED
      BY <1>4, <1>a, <2>1, <3>5
  <2>. QED
    BY <2>1, <2>5, <2>6, Zenon
<1>. QED
  BY <1>5, <1>6

\* Some blocks more behind what there was before the field.
Grouped(U, before, data, k, g, l, group) ==
  /\ before \in Seq(U) /\ k \in Nat /\ g \in Nat /\ l = k + g
  /\ \A j \in Nat : FieldBlock(data, j) \in U
  /\ group = [j \in 1 .. g |-> FieldBlock(data, k + j)]

LEMMA BlocksGoOn ==
  ASSUME NEW U, NEW before, NEW data, NEW k, NEW g, NEW l, NEW group,
         Grouped(U, before, data, k, g, l, group)
  PROVE  (before \o FirstBlocks(data, k)) \o group = before \o FirstBlocks(data, l)
<1> DEFINE s == FirstBlocks(data, k)
           w == FirstBlocks(data, l)
<1>0. /\ before \in Seq(U) /\ k \in Nat /\ g \in Nat /\ l = k + g
      /\ \A j \in Nat : FieldBlock(data, j) \in U
      /\ group = [j \in 1 .. g |-> FieldBlock(data, k + j)]
  BY DEF Grouped
<1>1. l \in Nat /\ \A j \in 1 .. k : j \in 1 .. l
  BY <1>0
<1>2. \A j \in 1 .. g : k + j \in 1 .. l /\ k + j \in Nat
  BY <1>0
<1>3. s \in [1 .. k -> U] /\ group \in [1 .. g -> U]
  BY <1>0, <1>2 DEF FirstBlocks
<1>4. s \in Seq(U) /\ group \in Seq(U)
  <2> HIDE DEF s
  <2>. QED
    BY <1>0, <1>3, ListIsSeq
<1>5. Halves(k, g, l, s, group, w)
  <2>1. Lists(k, s) /\ Lists(g, group) /\ Lists(l, w)
    BY <1>0, Zenon DEF Lists, FirstBlocks
  <2>2. \A j \in 1 .. k : s[j] = w[j]
    BY <1>1 DEF FirstBlocks
  <2>3. \A j \in 1 .. g : group[j] = w[k + j]
    BY <1>0, <1>2 DEF FirstBlocks
  <2> HIDE DEF s, w
  <2>. QED
    BY <1>0, <2>1, <2>2, <2>3, Zenon DEF Halves
<1> HIDE DEF s, w
<1>6. s \o group = w
  BY <1>5, Prolonged
<1>7. (before \o s) \o group = before \o (s \o group)
  BY SMTT(30), <1>0, <1>4, ConcatAssociative
<1>8. (before \o s) \o group = before \o w
  BY <1>6, <1>7, Zenon
<1>. QED
  BY <1>8 DEF s, w

\* Where the loop over a field is after k blocks.
Feeding(before, data, k) == [off |-> k * CipherBlock, fed |-> before \o FirstBlocks(data, k)]

LEMMA FieldsAre ==
  ASSUME NEW B, NEW U, NEW before, NEW data, data \in Seq(B), before \in Seq(U),
         \A j \in Nat : FieldBlock(data, j) \in U
  PROVE  Aead!FieldBlocks(before, data) = before \o FirstBlocks(data, Count(Len(data)))
<1> DEFINE n == Len(data)
           L == Count(n)
           start == [off |-> 0, fed |-> before]
           S == {Feeding(before, data, k) : k \in 0 .. L}
           Turn(t) ==
             LET group == Aead!FieldGroup(data, t.off, {})
             IN  IF t.off >= Len(data) THEN t
                 ELSE [off |-> t.off + Len(group) * CipherBlock, fed |-> t.fed \o group]
           turn == [t \in S |-> Turn(t)]
           Done(t) == IF t.off >= n THEN n ELSE t.off
           done == [t \in S |-> Done(t)]
<1>0. CipherBlock \in Nat \ {0} /\ n \in Nat /\ L \in Nat
  BY CipherShape, SeqIsList, CountIs DEF Aead!AeadShape
<1>1. ASSUME NEW t \in S
      PROVE \E k \in 0 .. L : /\ t = Feeding(before, data, k) /\ k \in Nat
                              /\ t.off = k * CipherBlock /\ t.off \in Nat /\ t.fed = before \o FirstBlocks(data, k)
                              /\ (t.off < n <=> k < L)
  <2>1. PICK k \in 0 .. L : t = Feeding(before, data, k)
    OBVIOUS
  <2>2. k \in Nat
    BY <1>0
  <2>3. t.off = k * CipherBlock /\ t.fed = before \o FirstBlocks(data, k)
    BY <2>1 DEF Feeding
  <2>4. t.off \in Nat
    BY <1>0, <2>2, <2>3
  <2>5. k * CipherBlock < n <=> k < L
    BY <1>0, <2>2, CountIs
  <2> HIDE DEF L, S, n
  <2>. QED
    BY <2>1, <2>2, <2>3, <2>4, <2>5, Zenon
<1>2. start \in S
  <2>1. 0 \in 0 .. L
    <3> HIDE DEF L
    <3>. QED
      BY <1>0
  <2>2. 0 * CipherBlock = 0 /\ FirstBlocks(data, 0) = <<>>
    BY <1>0 DEF FirstBlocks
  <2>3. before \o <<>> = before
    BY ConcatEmptySeq
  <2>4. start = Feeding(before, data, 0)
    BY <2>2, <2>3 DEF Feeding
  <2> HIDE DEF start, L
  <2>. QED
    BY <2>1, <2>4
<1>3. ASSUME NEW t \in S
      PROVE  Turn(t) \in S /\ (Done(Turn(t)) = n \/ Done(Turn(t)) > Done(t))
  <2> HIDE DEF n, L
  <2>1. PICK k \in 0 .. L : /\ t = Feeding(before, data, k) /\ k \in Nat
                            /\ t.off = k * CipherBlock /\ t.off \in Nat /\ t.fed = before \o FirstBlocks(data, k)
                            /\ (t.off < n <=> k < L)
    BY <1>1
  <2>2. CASE t.off >= n
    <3>1. Turn(t) = t
      BY <2>2 DEF n
    <3>2. Done(t) = n
      BY <2>2
    <3> HIDE DEF Turn, Done
    <3>. QED
      BY <3>1, <3>2
  <2>3. CASE ~(t.off >= n)
    <3>0. t.off < n /\ k < L
      BY <1>0, <2>1, <2>3
    <3> DEFINE group == Aead!FieldGroup(data, t.off, {})
    <3>1. PICK g \in Nat : /\ g > 0 /\ k + g <= L
                           /\ group = [j \in 1 .. g |-> FieldBlock(data, k + j)]
      <4>1. group = Aead!FieldGroup(data, t.off, {}) /\ k < Count(Len(data))
        BY <3>0 DEF L, n
      <4> HIDE DEF group
      <4>2. \E g \in Nat : /\ g > 0 /\ k + g <= Count(Len(data))
                           /\ group = [j \in 1 .. g |-> FieldBlock(data, k + j)]
        <5>1. Before(B, data, k, t.off)
          BY <2>1, <4>1, Zenon DEF Before
        <5>. QED
          BY <4>1, <5>1, GroupIs
      <4>. QED
        BY <4>2 DEF L, n
    <3>2. Lists(g, group)
      BY <3>1 DEF Lists
    <3>3. Len(group) = g
      <4> HIDE DEF group
      <4>. QED
        BY <3>2, Listed
    <3> DEFINE l == k + g
               r == [off |-> t.off + Len(group) * CipherBlock, fed |-> t.fed \o group]
    <3>4. Turn(t) = r
      BY <2>3 DEF n
    <3>5. l = k + g /\ l \in 0 .. L /\ l \in Nat
      BY <1>0, <2>1, <3>1
    <3> HIDE DEF group, l
    <3>6. t.off + Len(group) * CipherBlock = l * CipherBlock /\ l * CipherBlock > t.off
          /\ l * CipherBlock \in Nat
      <4>1. l * CipherBlock = k * CipherBlock + g * CipherBlock
        BY <1>0, <2>1, <3>5
      <4>2. 1 * CipherBlock <= g * CipherBlock /\ g * CipherBlock \in Nat /\ 1 * CipherBlock = CipherBlock
        <5>1. 1 \in Nat /\ 1 <= g /\ CipherBlock \in Nat
          BY <1>0, <3>1
        <5>2. 1 * CipherBlock <= g * CipherBlock /\ g * CipherBlock \in Nat
          BY <5>1, Multiples
        <5>. QED
          BY <1>0, <5>2
      <4> DEFINE more == g * CipherBlock
                 at == k * CipherBlock
                 end == l * CipherBlock
      <4>3. Len(group) * CipherBlock = more /\ t.off = at /\ t.off \in Nat
        BY <2>1, <3>3, Zenon
      <4>4. more >= CipherBlock /\ more \in Nat /\ end = at + more
        BY <4>1, <4>2
      <4> HIDE DEF more, at, end
      <4>5. at + more = end /\ end > at /\ end \in Nat
        BY <1>0, <4>3, <4>4
      <4>. QED
        BY <4>3, <4>5, Zenon DEF end
    <3>7. t.fed \o group = before \o FirstBlocks(data, l)
      <4>1. (before \o FirstBlocks(data, k)) \o group = before \o FirstBlocks(data, l)
        <5>1. Grouped(U, before, data, k, g, l, group)
          BY <2>1, <3>1, <3>5, Zenon DEF Grouped
        <5>. QED
          BY <5>1, BlocksGoOn
      <4>. QED
        BY <2>1, <4>1
    <3>8. r = Feeding(before, data, l) /\ r.off = l * CipherBlock
      BY <3>6, <3>7, Zenon DEF Feeding
    <3>9. r \in S
      <4> HIDE DEF r
      <4>. QED
        BY <3>5, <3>8
    <3>10. Done(r) = n \/ Done(r) > Done(t)
      <4> HIDE DEF r
      <4> DEFINE at == l * CipherBlock
      <4>1. r.off = at /\ at > t.off /\ at \in Nat
        BY <3>6, <3>8
      <4> HIDE DEF at
      <4>. QED
        BY <1>0, <2>1, <3>0, <4>1
    <3> HIDE DEF r, Done, Turn, S
    <3>. QED
      BY <3>4, <3>9, <3>10, Zenon
  <2>. QED
    BY <2>2, <2>3
<1>4. IsLoop(S, start, turn, n, done)
  <2>1. \A t \in S : Done(t) \in 0 .. n
    <3>1. ASSUME NEW t \in S PROVE Done(t) \in 0 .. n
      <4>1. t.off \in Nat
        BY <1>1
      <4> HIDE DEF S, n
      <4>. QED
        BY <1>0, <4>1
    <3>. QED
      BY <3>1
  <2> HIDE DEF S, Turn, n, Done
  <2>2. /\ turn \in [S -> S]
        /\ done \in [S -> 0 .. n]
        /\ \A t \in S : done[turn[t]] = n \/ done[turn[t]] > done[t]
    BY <1>3, <2>1
  <2> HIDE DEF turn, done, start
  <2>. QED
    BY <1>0, <1>2, <2>2 DEF IsLoop
<1> DEFINE after == CHOOSE after : after = [k \in Nat |-> IF k = 0 THEN start ELSE Turn(after[k - 1])]
<1>5. Aead!FieldBlocks(before, data) = after[n].fed
  BY DEF Aead!FieldBlocks, Aead!feed_field, Aead!Loop
<1>6. after = [k \in Nat |-> IF k = 0 THEN start ELSE Turn(after[k - 1])]
  <2> HIDE DEF S, start
  <2>1. PICK f : f \in [Nat -> S] /\ IsRun(S, start, turn, f)
    <3> HIDE DEF turn, done, n
    <3>. QED
      BY <1>4, LoopRuns
  <2> HIDE DEF Turn
  <2>2. \A k \in Nat : f[k + 1] = Turn(f[k])
    BY <2>1 DEF IsRun
  <2>3. f = [k \in Nat |-> IF k = 0 THEN start ELSE Turn(f[k - 1])]
    <3>1. \A k \in Nat : k # 0 => k - 1 \in Nat /\ k - 1 + 1 = k
      OBVIOUS
    <3>. QED
      BY <2>1, <2>2, <3>1 DEF IsRun
  <2>. QED
    BY <2>3
<1> HIDE DEF Turn, start, after
<1>7. IsRun(S, start, turn, after)
  <2> HIDE DEF S
  <2>. QED
    BY <1>6 DEF IsRun
<1>8. after[n] \in S /\ done[after[n]] = n
  <2> HIDE DEF S, turn, done, n
  <2>. QED
    BY <1>4, <1>7, LoopEnds
<1>9. PICK k \in 0 .. L : /\ k \in Nat /\ after[n].off = k * CipherBlock /\ after[n].off \in Nat
                          /\ after[n].fed = before \o FirstBlocks(data, k)
                          /\ (after[n].off < n <=> k < L)
  BY <1>1, <1>8
<1>10. k = L
  <2>1. Done(after[n]) = n
    BY <1>8
  <2> HIDE DEF n, L, after
  <2>2. ~(after[n].off < n)
    BY <1>0, <1>9, <2>1
  <2>. QED
    BY <1>0, <1>9, <2>2
<1>. QED
  BY <1>5, <1>9, <1>10

\* What is under the tag: the blocks of both fields, and their lengths.
Tagged(aad, ct) ==
  Aead!PaddedBlocks(aad) \o Aead!PaddedBlocks(ct) \o <<Aead!gcm_length_block(Len(aad), Len(ct))>>

LEMMA FirstBlocksAre ==
  ASSUME NEW U, NEW data, NEW k, k \in Nat, \A j \in Nat : FieldBlock(data, j) \in U
  PROVE  FirstBlocks(data, k) \in Seq(U) /\ Len(FirstBlocks(data, k)) = k
<1> DEFINE s == FirstBlocks(data, k)
<1>1. s \in [1 .. k -> U]
  BY DEF FirstBlocks
<1> HIDE DEF s
<1>2. s \in Seq(U) /\ Len(s) = k
  BY <1>1, ListIsSeq
<1>. QED
  BY <1>2 DEF s

\* The grouping of Poly1305 gives the same blocks.
LEMMA PolyBlocksAre ==
  ASSUME NEW B, NEW aad, NEW ct, aad \in Seq(B), ct \in Seq(B)
  PROVE  Aead!PolyBlocks(aad, ct) = Tagged(aad, ct)
<1> DEFINE U == {FieldBlock(aad, j) : j \in Nat} \cup {FieldBlock(ct, j) : j \in Nat}
           a == FirstBlocks(aad, Count(Len(aad)))
           c == FirstBlocks(ct, Count(Len(ct)))
           last == <<Aead!gcm_length_block(Len(aad), Len(ct))>>
<1>1. (\A j \in Nat : FieldBlock(aad, j) \in U) /\ (\A j \in Nat : FieldBlock(ct, j) \in U)
  OBVIOUS
<1> HIDE DEF U
<1> DEFINE none == <<>>
<1>2. none \in Seq(U)
  OBVIOUS
<1>3. a \in Seq(U)
  <2>1. Count(Len(aad)) \in Nat
    BY SeqIsList, CountIs
  <2>. QED
    BY <1>1, <2>1, FirstBlocksAre
<1>4. none \o a = a
  <2> HIDE DEF a
  <2>. QED
    BY <1>3, ConcatEmptySeq
<1>5. Aead!FieldBlocks(none, aad) = a
  <2> HIDE DEF none
  <2>1. Aead!FieldBlocks(none, aad) = none \o FirstBlocks(aad, Count(Len(aad)))
    BY <1>1, <1>2, FieldsAre
  <2>. QED
    BY <1>4, <2>1, Zenon
<1>6. Aead!FieldBlocks(a, ct) = a \o c
  <2> HIDE DEF a
  <2>. QED
    BY <1>1, <1>3, FieldsAre
<1>7. Aead!PolyBlocks(aad, ct) = (a \o c) \o last
  BY <1>5, <1>6, Zenon DEF Aead!PolyBlocks
<1>8. Aead!PaddedBlocks(aad) = a /\ Aead!PaddedBlocks(ct) = c
  BY PaddedBlocksAre
<1>. QED
  BY <1>7, <1>8, Zenon DEF Tagged

\* The blocks by their places.
LEMMA FedItems ==
  ASSUME NEW B, NEW aad, NEW ct, NEW a, NEW c, NEW b, aad \in Seq(B), ct \in Seq(B),
         a = Count(Len(aad)), c = Count(Len(ct)), b = Tagged(aad, ct)
  PROVE  /\ a \in Nat /\ c \in Nat /\ Len(b) = a + c + 1
         /\ \A k \in 1 .. a : b[k] = FieldBlock(aad, k)
         /\ \A k \in 1 .. c : b[a + k] = FieldBlock(ct, k)
         /\ b[a + c + 1] = Aead!gcm_length_block(Len(aad), Len(ct))
<1> DEFINE last == Aead!gcm_length_block(Len(aad), Len(ct))
           U == {FieldBlock(aad, j) : j \in Nat} \cup {FieldBlock(ct, j) : j \in Nat} \cup {last}
           s == FirstBlocks(aad, a)
           t == FirstBlocks(ct, c)
           st == s \o t
<1>1. (\A j \in Nat : FieldBlock(aad, j) \in U) /\ (\A j \in Nat : FieldBlock(ct, j) \in U) /\ last \in U
  OBVIOUS
<1> HIDE DEF U, last
<1>2. a \in Nat /\ c \in Nat
  BY SeqIsList, CountIs
<1>3. s \in Seq(U) /\ Len(s) = a /\ t \in Seq(U) /\ Len(t) = c
  BY <1>1, <1>2, FirstBlocksAre
<1>4. (\A k \in 1 .. a : s[k] = FieldBlock(aad, k)) /\ (\A k \in 1 .. c : t[k] = FieldBlock(ct, k))
  BY DEF FirstBlocks
<1>5. b = st \o <<last>>
  <2>1. Aead!PaddedBlocks(aad) = s /\ Aead!PaddedBlocks(ct) = t
    BY PaddedBlocksAre
  <2>. QED
    BY <2>1, Zenon DEF Tagged, last
<1>6. st = s \o t
  OBVIOUS
<1> HIDE DEF s, t, st
<1>7. /\ st \in Seq(U) /\ Len(st) = Len(s) + Len(t)
      /\ \A i \in 1 .. Len(s) : st[i] = s[i]
      /\ \A i \in 1 .. Len(t) : st[Len(s) + i] = t[i]
  <2>1. s \in Seq(U) /\ t \in Seq(U)
    BY <1>3
  <2>. QED
    BY <1>6, <2>1, Joined
<1>8. /\ \A i \in 1 .. a : st[i] = s[i]
      /\ \A i \in 1 .. c : st[a + i] = t[i]
  BY <1>3, <1>7, Zenon
<1>9. Len(st) = a + c
  BY <1>3, <1>7, Zenon
<1> DEFINE one == <<last>>
<1>10. one \in Seq(U) /\ Len(one) = 1 /\ one[1] = last
  BY <1>1
<1>11. b = st \o one
  BY <1>5
<1> HIDE DEF one
<1>12. /\ Len(b) = Len(st) + Len(one)
       /\ \A i \in 1 .. Len(st) : b[i] = st[i]
       /\ \A i \in 1 .. Len(one) : b[Len(st) + i] = one[i]
  <2>1. st \in Seq(U) /\ one \in Seq(U)
    BY <1>7, <1>10
  <2>. QED
    BY <1>11, <2>1, Joined
<1> DEFINE l == a + c
<1>13. l \in Nat /\ l = a + c
  BY <1>2
<1> HIDE DEF l
<1>14. Len(b) = l + 1 /\ (\A i \in 1 .. l : b[i] = st[i]) /\ (\A i \in 1 .. 1 : b[l + i] = one[i])
  BY <1>9, <1>10, <1>12, <1>13, Zenon
<1>15. b[l + 1] = last
  BY <1>10, <1>14
<1>16. ASSUME NEW k \in 1 .. a PROVE b[k] = FieldBlock(aad, k)
  <2>1. k \in 1 .. l
    BY <1>2, <1>13
  <2>. QED
    BY <1>4, <1>8, <1>14, <2>1, Zenon
<1>17. ASSUME NEW k \in 1 .. c PROVE b[a + k] = FieldBlock(ct, k)
  <2>1. a + k \in 1 .. l
    BY <1>2, <1>13
  <2>. QED
    BY <1>4, <1>8, <1>14, <2>1, Zenon
<1>18. Len(b) = a + c + 1 /\ b[a + c + 1] = last
  BY <1>13, <1>14, <1>15, Zenon
<1>. QED
  BY <1>2, <1>16, <1>17, <1>18, Zenon DEF last

-----------------------------------------------------------------------------
(* The blocks of two messages are the same only if the messages are. *)

\* The blocks with the same power in the same polynomial are the same.
Terms(b, d, m, n, e, k, l) ==
  /\ m = Len(b) /\ n = Len(d) /\ m \in Nat /\ n \in Nat /\ e \in Nat /\ e < m /\ e < n
  /\ k = m - e /\ l = n - e /\ Aead!Polynomial(b) = Aead!Polynomial(d)

LEMMA SameTerms ==
  ASSUME NEW b, NEW d, NEW m, NEW n, NEW e, NEW k, NEW l, Terms(b, d, m, n, e, k, l)
  PROVE  b[k] = d[l]
<1> DEFINE zeros == Aead!Zeros(CipherBlock)
<1>1. /\ Aead!Polynomial(b) = {<<m - j, b[j]>> : j \in {i \in 1 .. m : b[i] # zeros}}
      /\ Aead!Polynomial(d) = {<<n - j, d[j]>> : j \in {i \in 1 .. n : d[i] # zeros}}
  BY DEF Aead!Polynomial, Terms
<1> HIDE DEF zeros
<1>2. k \in 1 .. m /\ l \in 1 .. n /\ m - k = e /\ n - l = e
  BY DEF Terms
<1>b. m \in Nat /\ n \in Nat /\ e \in Nat
  BY DEF Terms
<1>a. Aead!Polynomial(b) = Aead!Polynomial(d)
  BY DEF Terms
<1>3. CASE b[k] # zeros
  <2>1. <<m - k, b[k]>> \in Aead!Polynomial(d)
    BY <1>1, <1>2, <1>3, <1>a
  <2>2. PICK j \in 1 .. n : <<m - k, b[k]>> = <<n - j, d[j]>>
    BY <1>1, <2>1
  <2>3. j = l /\ b[k] = d[j]
    BY <1>2, <1>b, <2>2
  <2>. QED
    BY <2>3
<1>4. CASE d[l] # zeros
  <2>1. <<n - l, d[l]>> \in Aead!Polynomial(b)
    BY <1>1, <1>2, <1>4, <1>a
  <2>2. PICK j \in 1 .. m : <<n - l, d[l]>> = <<m - j, b[j]>>
    BY <1>1, <2>1
  <2>3. j = k /\ d[l] = b[j]
    BY <1>2, <1>b, <2>2
  <2>. QED
    BY <2>3
<1>. QED
  BY <1>3, <1>4

\* Symbols are the same only as a whole.
LEMMA SameItem ==
  ASSUME NEW x, NEW y, {x} = {y}
  PROVE  x = y
OBVIOUS

LEMMA SameSymbols ==
  ASSUME NEW a, NEW b, NEW i, {<<"length", "", a, i, <<>>>>} = {<<"length", "", b, i, <<>>>>}
  PROVE  a = b
<1>1. <<"length", "", a, i, <<>>>> = <<"length", "", b, i, <<>>>>
  BY SameItem, Zenon
<1>. QED
  BY <1>1

\* Of the two lengths.
LEMMA SameLengths ==
  ASSUME NEW a, NEW c, NEW a2, NEW c2, a \in Nat, c \in Nat, a2 \in Nat, c2 \in Nat,
         Aead!gcm_length_block(a, c) = Aead!gcm_length_block(a2, c2)
  PROVE  a = a2 /\ c = c2
<1> DEFINE half == CipherBlock \div 2
<1>1. CipherBlock \in Nat /\ half \in Nat /\ CipherBlock = 2 * half /\ half > 0
  <2>1. CipherBlock \in Nat \ {0} /\ CipherBlock % 2 = 0
    BY CipherShape DEF Aead!AeadShape
  <2>. QED
    BY <2>1
<1>2. 1 \in 1 .. CipherBlock /\ CipherBlock \in 1 .. CipherBlock /\ 1 <= half /\ ~(CipherBlock <= half)
  BY <1>1
<1> DEFINE At(x, y, i) ==
             LET len == IF i <= half THEN x ELSE y
             IN  IF len = 0 THEN {} ELSE {<<"length", "", len, i, <<>>>>}
<1>3. \A x, y : Aead!gcm_length_block(x, y) = [i \in 1 .. CipherBlock |-> At(x, y, i)]
  BY DEF Aead!gcm_length_block, Aead!Symbol
<1>4. \A i \in 1 .. CipherBlock : At(a, c, i) = At(a2, c2, i)
  <2> HIDE DEF At
  <2>1. [i \in 1 .. CipherBlock |-> At(a, c, i)] = [i \in 1 .. CipherBlock |-> At(a2, c2, i)]
    BY <1>3
  <2>. QED
    BY <2>1
<1>5. At(a, c, 1) = At(a2, c2, 1) /\ At(a, c, CipherBlock) = At(a2, c2, CipherBlock)
  BY <1>2, <1>4
<1> HIDE DEF half
<1>6. a = a2
  <2>1. (IF a = 0 THEN {} ELSE {<<"length", "", a, 1, <<>>>>}) = IF a2 = 0 THEN {} ELSE {<<"length", "", a2, 1, <<>>>>}
    BY <1>2, <1>5
  <2>2. CASE a = 0 \/ a2 = 0
    BY <2>1, <2>2, Zenon
  <2>3. CASE a # 0 /\ a2 # 0
    BY <2>1, <2>3, SameSymbols, Zenon
  <2>. QED
    BY <2>2, <2>3
<1>7. c = c2
  <2>1. (IF c = 0 THEN {} ELSE {<<"length", "", c, CipherBlock, <<>>>>})
          = IF c2 = 0 THEN {} ELSE {<<"length", "", c2, CipherBlock, <<>>>>}
    BY <1>2, <1>5
  <2>2. CASE c = 0 \/ c2 = 0
    BY <2>1, <2>2, Zenon
  <2>3. CASE c # 0 /\ c2 # 0
    BY <2>1, <2>3, SameSymbols, Zenon
  <2>. QED
    BY <2>2, <2>3
<1>. QED
  BY <1>6, <1>7

\* Of the blocks of a field.
LEMMA SameFields ==
  ASSUME NEW B, NEW d, NEW e, NEW n, d \in Seq(B), e \in Seq(B), n = Len(d), Len(e) = n,
         \A k \in 1 .. Count(n) : FieldBlock(d, k) = FieldBlock(e, k)
  PROVE  d = e
<1>0. CipherBlock \in Nat \ {0} /\ n \in Nat
  BY CipherShape, SeqIsList DEF Aead!AeadShape
<1>1. ASSUME NEW j \in 1 .. n PROVE d[j] = e[j]
  <2> DEFINE q == (j - 1) \div CipherBlock
             r == (j - 1) % CipherBlock
             k == q + 1
             i == r + 1
  <2>1. q \in Nat /\ r \in 0 .. CipherBlock - 1 /\ q * CipherBlock \in Nat /\ j - 1 = q * CipherBlock + r
    <3>1. j - 1 \in Nat
      OBVIOUS
    <3>. QED
      BY <1>0, <3>1, Divided
  <2> HIDE DEF q, r
  <2>2. q < Count(n)
    <3> DEFINE at == q * CipherBlock
    <3>1. at \in Nat /\ j - 1 = at + r
      BY <2>1
    <3> HIDE DEF at
    <3>2. at < n
      BY <1>0, <2>1, <3>1
    <3>. QED
      BY <1>0, <2>1, <3>2, CountIs DEF at
  <2>3. k \in 1 .. Count(n) /\ i \in 1 .. CipherBlock /\ k - 1 = q
    <3>1. Count(n) \in Nat
      BY <1>0, CountIs
    <3>. QED
      BY <1>0, <2>1, <2>2, <3>1
  <2>4. (k - 1) * CipherBlock + i = j
    <3> DEFINE at == q * CipherBlock
    <3>1. at \in Nat /\ j - 1 = at + r /\ r \in Nat
      BY <1>0, <2>1
    <3>2. (k - 1) * CipherBlock = at
      BY <2>3, Zenon
    <3> HIDE DEF at, k
    <3>. QED
      BY <3>1, <3>2
  <2>5. FieldBlock(d, k)[i] = FieldBlock(e, k)[i]
    BY <2>3
  <2>6. ASSUME NEW x, Len(x) = n PROVE FieldBlock(x, k)[i] = x[j]
    <3>1. FieldBlock(x, k)[i]
            = IF (k - 1) * CipherBlock + i <= Len(x) THEN x[(k - 1) * CipherBlock + i] ELSE {}
      BY <2>3, Zenon DEF FieldBlock
    <3>2. j <= n
      BY <1>0
    <3>. QED
      BY <2>4, <2>6, <3>1, <3>2, Zenon
  <2> HIDE DEF k, i
  <2>. QED
    BY <2>5, <2>6, Zenon
<1>. QED
  BY <1>1, SameItems

LEMMA Unambiguous ==
  ASSUME NEW B, NEW aad, NEW ct, NEW aad2, NEW ct2,
         aad \in Seq(B), ct \in Seq(B), aad2 \in Seq(B), ct2 \in Seq(B),
         Aead!Polynomial(Tagged(aad, ct)) = Aead!Polynomial(Tagged(aad2, ct2))
  PROVE  aad = aad2 /\ ct = ct2
<1> DEFINE b == Tagged(aad, ct)
           d == Tagged(aad2, ct2)
           a == Count(Len(aad))
           c == Count(Len(ct))
           a2 == Count(Len(aad2))
           c2 == Count(Len(ct2))
<1>1. /\ a \in Nat /\ c \in Nat /\ Len(b) = a + c + 1
      /\ \A k \in 1 .. a : b[k] = FieldBlock(aad, k)
      /\ \A k \in 1 .. c : b[a + k] = FieldBlock(ct, k)
      /\ b[a + c + 1] = Aead!gcm_length_block(Len(aad), Len(ct))
  BY SMTT(30), FedItems
<1>2. /\ a2 \in Nat /\ c2 \in Nat /\ Len(d) = a2 + c2 + 1
      /\ \A k \in 1 .. a2 : d[k] = FieldBlock(aad2, k)
      /\ \A k \in 1 .. c2 : d[a2 + k] = FieldBlock(ct2, k)
      /\ d[a2 + c2 + 1] = Aead!gcm_length_block(Len(aad2), Len(ct2))
  BY FedItems
<1>3. Aead!Polynomial(b) = Aead!Polynomial(d)
  OBVIOUS
<1>4. Len(aad) \in Nat /\ Len(ct) \in Nat /\ Len(aad2) \in Nat /\ Len(ct2) \in Nat
  BY SeqIsList
<1> HIDE DEF b, d
<1>5. Len(aad) = Len(aad2) /\ Len(ct) = Len(ct2)
  <2> DEFINE m == Len(b)
             n == Len(d)
  <2>1. m = a + c + 1 /\ n = a2 + c2 + 1
    BY <1>1, <1>2
  <2>2. m \in Nat /\ n \in Nat /\ 0 \in Nat /\ 0 < m /\ 0 < n /\ m = m - 0 /\ n = n - 0
    <3> HIDE DEF m, n, a, c, a2, c2
    <3>. QED
      BY <1>1, <1>2, <2>1
  <2>3. b[m] = d[n]
    <3>1. Terms(b, d, m, n, 0, m, n)
      BY <1>3, <2>2, Zenon DEF Terms
    <3> HIDE DEF m, n
    <3>. QED
      BY <3>1, SameTerms
  <2>4. Aead!gcm_length_block(Len(aad), Len(ct)) = Aead!gcm_length_block(Len(aad2), Len(ct2))
    BY <1>1, <1>2, <2>1, <2>3, Zenon
  <2>. QED
    BY <1>4, <2>4, SameLengths
<1>6. a = a2 /\ c = c2
  BY <1>5, Zenon
<1> DEFINE m == a + c + 1
<1>7. m = Len(b) /\ m = Len(d) /\ m \in Nat
  <2>1. m = Len(b) /\ m = Len(d)
    BY <1>1, <1>2, <1>6, Zenon
  <2> HIDE DEF a, c
  <2>. QED
    BY <1>1, <2>1
<1>8. ASSUME NEW k \in 1 .. m PROVE b[k] = d[k]
  <2> DEFINE e == m - k
  <2>1. e \in Nat /\ e < m /\ k = m - e
    <3> HIDE DEF m
    <3>. QED
      BY <1>7
  <2> HIDE DEF e, m
  <2>2. Terms(b, d, m, m, e, k, k)
    BY <1>3, <1>7, <2>1, Zenon DEF Terms
  <2>. QED
    BY <2>2, SameTerms
<1>9. (\A k \in 1 .. a : k \in 1 .. m) /\ (\A k \in 1 .. c : a + k \in 1 .. m)
  <2> HIDE DEF a, c
  <2>. QED
    BY <1>1
<1> HIDE DEF m, a, c, a2, c2
<1>10. \A k \in 1 .. a : FieldBlock(aad, k) = FieldBlock(aad2, k)
  BY <1>1, <1>2, <1>6, <1>8, <1>9, Zenon
<1>11. \A k \in 1 .. c : FieldBlock(ct, k) = FieldBlock(ct2, k)
  BY <1>1, <1>2, <1>6, <1>8, <1>9, Zenon
<1>12. aad = aad2
  BY <1>5, <1>10, SameFields DEF a
<1>13. ct = ct2
  BY <1>5, <1>11, SameFields DEF c
<1>. QED
  BY <1>12, <1>13

-----------------------------------------------------------------------------
(* What is sealed, and what can arrive of it. *)

\* Encryption, which is decryption too, and the tag, of either scheme.
Ciphered(scheme, nonce, text) ==
  IF scheme = "gcm" THEN Streamed("aes", nonce, text, CipherBlock, 2, Len(text))
  ELSE Streamed("chacha", nonce, text, StreamBlock, 1, Len(text))

TagOf(scheme, nonce, aad, ct) ==
  IF scheme = "gcm" THEN Aead!gcm_compute_tag(nonce, aad, ct) ELSE Aead!poly1305_feed(nonce, aad, ct)

Job == [scheme : {"gcm", "chacha"}, text : TextLength, aad : AadLength]
Ciphertext == Ciphered(job.scheme, "own", Aead!Text)
OwnTag == TagOf(job.scheme, "own", Aead!Aad, Ciphertext)
Sealed == Ciphertext \o OwnTag

\* Bytes of the wire and of the data beside it, and zeros; all of them altered or not.
Pieces == {{}} \cup {Sealed[i] : i \in 1 .. job.text + CipherBlock} \cup {Aead!Aad[i] : i \in 1 .. job.aad}
Sendable == Pieces \cup {Aead!Added(p, Aead!Noise) : p \in Pieces}

Arrivals == [nonce : {"own", "other"}, aad : Seq(Sendable), wire : Seq(Sendable)]

\* The buffer the caller makes for what arrived.
Room(w) == Aead!Zeros(IF Len(w) < CipherBlock THEN 0 ELSE Len(w) - CipherBlock)

\* The inductive invariant: what is on the wire was sealed, and what arrives is made of it.
AeadInv ==
  /\ aeadStage \in {"job", "sealed", "arrived", "opened"} /\ job \in Job
  /\ aeadStage # "job" => wire = Sealed
  /\ aeadStage = "arrived" => arrived \in Arrivals /\ out = Room(arrived.wire)
  /\ SealedOpens

\* Text and data are lists of symbols, and the ciphertext is as long as the text.
LEMMA JobIs ==
  ASSUME job \in Job
  PROVE  /\ job.text \in Nat /\ job.aad \in Nat /\ job.scheme \in {"gcm", "chacha"}
         /\ job.text \in 0 .. (CounterRange - 2) * CipherBlock
<1>1. TextLength \subseteq 0 .. (CounterRange - 2) * CipherBlock /\ AadLength \subseteq Nat
  BY CipherShape DEF Aead!AeadShape
<1>2. job.text \in TextLength /\ job.aad \in AadLength /\ job.scheme \in {"gcm", "chacha"}
  BY DEF Job
<1>3. job.text \in 0 .. (CounterRange - 2) * CipherBlock
  BY <1>1, <1>2
<1>4. job.text \in Nat
  <2>1. (CounterRange - 2) * CipherBlock \in Nat
    <3>1. CounterRange - 2 \in Nat /\ CipherBlock \in Nat
      BY CipherShape, CounterIs DEF Aead!AeadShape
    <3>. QED
      BY <3>1
  <2> DEFINE most == (CounterRange - 2) * CipherBlock
  <2>2. job.text \in 0 .. most /\ most \in Nat
    BY <1>3, <2>1
  <2> HIDE DEF most
  <2>. QED
    BY <2>2
<1>5. job.aad \in Nat
  BY <1>1, <1>2
<1>. QED
  BY <1>2, <1>3, <1>4, <1>5, Zenon

LEMMA TextIs ==
  ASSUME job \in Job
  PROVE  /\ Lists(job.text, Aead!Text) /\ Len(Aead!Text) = job.text
         /\ Lists(job.aad, Aead!Aad) /\ Len(Aead!Aad) = job.aad
<1>1. Lists(job.text, Aead!Text) /\ Lists(job.aad, Aead!Aad)
  BY DEF Lists, Aead!Text, Aead!Aad
<1>2. job.text \in Nat /\ job.aad \in Nat
  BY JobIs
<1>. QED
  BY <1>1, <1>2, Listed

LEMMA CipheredIs ==
  ASSUME NEW B, NEW scheme, NEW nonce, NEW text, text \in Seq(B)
  PROVE  Lists(Len(text), Ciphered(scheme, nonce, text)) /\ Len(Ciphered(scheme, nonce, text)) = Len(text)
<1> DEFINE c == Ciphered(scheme, nonce, text)
<1>1. Lists(Len(text), c)
  BY Zenon DEF Ciphered, Streamed, Lists
<1>2. Len(text) \in Nat
  BY SeqIsList
<1> HIDE DEF c
<1>3. Len(c) = Len(text)
  BY <1>1, <1>2, Listed
<1>. QED
  BY <1>1, <1>3 DEF c

LEMMA TagIs ==
  ASSUME NEW scheme, NEW nonce, NEW aad, NEW ct
  PROVE  Lists(CipherBlock, TagOf(scheme, nonce, aad, ct)) /\ Len(TagOf(scheme, nonce, aad, ct)) = CipherBlock
<1> DEFINE t == TagOf(scheme, nonce, aad, ct)
<1>0. CipherBlock \in Nat
  BY CipherShape DEF Aead!AeadShape
<1>1. Lists(CipherBlock, t)
  <2>1. CASE scheme = "gcm"
    <3> DEFINE g == Aead!Ghash(Aead!PaddedBlocks(aad) \o Aead!PaddedBlocks(ct)
                                 \o <<Aead!gcm_length_block(Len(aad), Len(ct))>>)
    <3>1. Lists(CipherBlock, g)
      BY Zenon DEF Lists, Aead!Ghash
    <3>2. t = [i \in 1 .. Len(g) |-> Aead!Added(g[i], Aead!aes(nonce, Aead!J0)[i])]
      BY <2>1, Zenon DEF TagOf, Aead!gcm_compute_tag, Aead!XorBytes
    <3> HIDE DEF g
    <3>3. Len(g) = CipherBlock
      BY <1>0, <3>1, Listed
    <3>4. Lists(Len(g), t)
      BY <3>2, Zenon DEF Lists
    <3>. QED
      BY <3>3, <3>4, Zenon
  <2>2. CASE scheme # "gcm"
    BY <2>2, Zenon DEF TagOf, Lists, Aead!poly1305_feed
  <2>. QED
    BY <2>1, <2>2
<1> HIDE DEF t
<1>2. Len(t) = CipherBlock
  BY <1>0, <1>1, Listed
<1>. QED
  BY <1>1, <1>2 DEF t

\* The bytes of a tag of GCM, and of the other.
GcmByte(nonce, aad, ct, i, P) ==
  TagOf("gcm", nonce, aad, ct)[i]
    = Aead!Added(IF P = {} THEN {} ELSE {<<"ghash", "", 0, i, P>>}, {<<"aes", nonce, 1, i, <<>>>>})
PolyByte(scheme, nonce, aad, ct, i) ==
  TagOf(scheme, nonce, aad, ct)[i] = {<<"poly1305", nonce, 0, i, Tagged(aad, ct)>>}

LEMMA GcmTag ==
  ASSUME NEW nonce, NEW aad, NEW ct, NEW i \in 1 .. CipherBlock, NEW P,
         P = Aead!Polynomial(Tagged(aad, ct))
  PROVE  GcmByte(nonce, aad, ct, i, P)
<1> DEFINE g == Aead!Ghash(Tagged(aad, ct))
           a == Aead!aes(nonce, Aead!J0)
           t == TagOf("gcm", nonce, aad, ct)
<1>0. CipherBlock \in Nat /\ i \in 1 .. CipherBlock /\ P = Aead!Polynomial(Tagged(aad, ct))
  BY CipherShape DEF Aead!AeadShape
<1>1. Lists(CipherBlock, g)
  BY Zenon DEF Lists, Aead!Ghash
<1>2. t = [j \in 1 .. Len(g) |-> Aead!Added(g[j], a[j])]
  BY Zenon DEF TagOf, Aead!gcm_compute_tag, Aead!XorBytes, Tagged
<1>3. g[i] = IF P = {} THEN {} ELSE {<<"ghash", "", 0, i, P>>}
  BY <1>0, Zenon DEF Aead!Ghash, Aead!Symbol
<1>4. a[i] = {<<"aes", nonce, 1, i, <<>>>>}
  BY <1>0, Zenon DEF Aead!aes, Aead!Symbol, Aead!J0
<1> HIDE DEF g, a, t
<1>5. Len(g) = CipherBlock
  BY <1>0, <1>1, Listed
<1>6. t[i] = Aead!Added(g[i], a[i])
  BY <1>0, <1>2, <1>5, Zenon
<1>7. t[i] = Aead!Added(IF P = {} THEN {} ELSE {<<"ghash", "", 0, i, P>>}, {<<"aes", nonce, 1, i, <<>>>>})
  BY <1>3, <1>4, <1>6, Zenon
<1>. QED
  BY <1>7, Zenon DEF t, GcmByte

LEMMA PolyTag ==
  ASSUME NEW B, NEW scheme, NEW nonce, NEW aad, NEW ct, NEW i \in 1 .. CipherBlock,
         scheme # "gcm", aad \in Seq(B), ct \in Seq(B)
  PROVE  PolyByte(scheme, nonce, aad, ct, i)
<1>1. Aead!PolyBlocks(aad, ct) = Tagged(aad, ct)
  BY PolyBlocksAre
<1>2. TagOf(scheme, nonce, aad, ct) = Aead!poly1305_feed(nonce, aad, ct)
  BY DEF TagOf
<1>3. Aead!poly1305_feed(nonce, aad, ct)[i] = {<<"poly1305", nonce, 0, i, Aead!PolyBlocks(aad, ct)>>}
  BY Zenon DEF Aead!poly1305_feed, Aead!Symbol
<1>. QED
  BY <1>1, <1>2, <1>3, Zenon DEF PolyByte

\* Sealing gives what is called sealed here.
Seals(scheme, nonce, aad, pt, w) ==
  w = Ciphered(scheme, nonce, pt) \o TagOf(scheme, nonce, aad, Ciphered(scheme, nonce, pt))

LEMMA SealIs ==
  ASSUME NEW B, NEW nonce, NEW aad, NEW pt, pt \in Seq(B)
  PROVE  /\ Seals("gcm", nonce, aad, pt, Aead!aes256_gcm_encrypt(nonce, aad, pt))
         /\ \A scheme : scheme # "gcm" =>
              Seals(scheme, nonce, aad, pt, Aead!chacha20_poly1305_encrypt(nonce, aad, pt))
<1>1. Aead!gcm_ctr_crypt(pt, nonce, Aead!J0) = Ciphered("gcm", nonce, pt)
  BY CtrIs DEF Ciphered
<1>2. Seals("gcm", nonce, aad, pt, Aead!aes256_gcm_encrypt(nonce, aad, pt))
  BY <1>1, Zenon DEF Seals, Aead!aes256_gcm_encrypt, TagOf
<1>3. ASSUME NEW scheme, scheme # "gcm"
      PROVE  Seals(scheme, nonce, aad, pt, Aead!chacha20_poly1305_encrypt(nonce, aad, pt))
  <2>1. Aead!chacha20_crypt(pt, nonce, 1) = Ciphered(scheme, nonce, pt)
    BY <1>3, ChachaIs DEF Ciphered
  <2>. QED
    BY <1>3, <2>1, Zenon DEF Seals, Aead!chacha20_poly1305_encrypt, TagOf
<1>. QED
  BY <1>2, <1>3, Zenon

\* The bytes on the wire: those of the ciphertext, then those of the tag.
LEMMA WireIs ==
  ASSUME job \in Job
  PROVE  /\ Lists(job.text + CipherBlock, Sealed) /\ Len(Sealed) = job.text + CipherBlock
         /\ \A i \in 1 .. job.text : Sealed[i] = Ciphertext[i]
         /\ \A i \in 1 .. CipherBlock : Sealed[job.text + i] = OwnTag[i]
         /\ Aead!Slice(Sealed, 0, job.text) = Ciphertext
         /\ Aead!Slice(Sealed, job.text, CipherBlock) = OwnTag
<1> DEFINE n == job.text
           C == {Ciphertext[i] : i \in 1 .. n}
           T == {OwnTag[i] : i \in 1 .. CipherBlock}
           U == C \cup T
<1>0. CipherBlock \in Nat /\ n \in Nat
  BY CipherShape, JobIs DEF Aead!AeadShape
<1>1. Lists(n, Ciphertext) /\ Len(Ciphertext) = n
  <2>1. Aead!Text \in Seq({Aead!Text[i] : i \in 1 .. n})
    BY <1>0, TextIs, Listed
  <2>2. Lists(Len(Aead!Text), Ciphertext) /\ Len(Ciphertext) = Len(Aead!Text)
    BY <2>1, CipheredIs DEF Ciphertext
  <2>. QED
    BY <2>2, TextIs, Zenon
<1>2. Lists(CipherBlock, OwnTag) /\ Len(OwnTag) = CipherBlock
  BY TagIs DEF OwnTag
<1>3. Ciphertext \in [1 .. n -> C] /\ OwnTag \in [1 .. CipherBlock -> T]
  <2>1. Ciphertext = [i \in 1 .. n |-> Ciphertext[i]] /\ OwnTag = [i \in 1 .. CipherBlock |-> OwnTag[i]]
    BY <1>1, <1>2, Zenon DEF Lists
  <2>2. [i \in 1 .. n |-> Ciphertext[i]] \in [1 .. n -> C]
        /\ [i \in 1 .. CipherBlock |-> OwnTag[i]] \in [1 .. CipherBlock -> T]
    OBVIOUS
  <2>. QED
    BY <2>1, <2>2, Zenon
<1>4. Ciphertext \in [1 .. n -> U] /\ OwnTag \in [1 .. CipherBlock -> U]
  <2> HIDE DEF C, T
  <2>. QED
    BY <1>3
<1> HIDE DEF C, T, U, n
<1>5. Ciphertext \in Seq(U) /\ OwnTag \in Seq(U)
  BY <1>0, <1>4, ListIsSeq
<1> DEFINE s == Ciphertext
           t == OwnTag
           w == Sealed
<1>6. w = s \o t
  BY DEF Sealed
<1> HIDE DEF s, t, w
<1>7. s \in Seq(U) /\ t \in Seq(U) /\ Len(s) = n /\ Len(t) = CipherBlock /\ Lists(n, s) /\ Lists(CipherBlock, t)
  BY <1>1, <1>2, <1>5, Zenon DEF s, t
<1>8. /\ w \in Seq(U) /\ Len(w) = Len(s) + Len(t)
      /\ \A i \in 1 .. Len(s) : w[i] = s[i]
      /\ \A i \in 1 .. Len(t) : w[Len(s) + i] = t[i]
  <2>1. s \in Seq(U) /\ t \in Seq(U)
    BY <1>7
  <2>. QED
    BY <1>6, <2>1, Joined
<1>9. /\ Len(w) = n + CipherBlock
      /\ \A i \in 1 .. n : w[i] = s[i]
      /\ \A i \in 1 .. CipherBlock : w[n + i] = t[i]
  BY <1>7, <1>8, Zenon
<1>10. Lists(n + CipherBlock, w)
  <2>1. w \in [1 .. Len(w) -> U]
    BY <1>8, SeqIsList
  <2>2. w = [i \in 1 .. Len(w) |-> w[i]]
    BY <2>1
  <2>. QED
    BY <1>9, <2>2, Zenon DEF Lists
<1>11. Aead!Slice(w, 0, n) = s
  <2>1. Aead!Slice(w, 0, n) = [i \in 1 .. n |-> w[0 + i]]
    BY DEF Aead!Slice
  <2>2. \A i \in 1 .. n : w[0 + i] = s[i]
    <3>1. \A i \in 1 .. n : 0 + i = i
      BY <1>0
    <3>. QED
      BY <1>9, <3>1, Zenon
  <2>3. Aead!Slice(w, 0, n) = [i \in 1 .. n |-> s[i]]
    BY <2>1, <2>2, Zenon
  <2>. QED
    BY <1>7, <2>3, Zenon DEF Lists
<1>12. Aead!Slice(w, n, CipherBlock) = t
  <2>1. Aead!Slice(w, n, CipherBlock) = [i \in 1 .. CipherBlock |-> w[n + i]]
    BY DEF Aead!Slice
  <2>2. Aead!Slice(w, n, CipherBlock) = [i \in 1 .. CipherBlock |-> t[i]]
    BY <1>9, <2>1, Zenon
  <2>. QED
    BY <1>7, <2>2, Zenon DEF Lists
<1>. QED
  BY <1>9, <1>10, <1>11, <1>12, Zenon DEF s, t, w, n

-----------------------------------------------------------------------------
(* No keystream is used twice. *)

OwnKind == IF job.scheme = "gcm" THEN "aes" ELSE "chacha"
OwnSize == IF job.scheme = "gcm" THEN CipherBlock ELSE StreamBlock
OwnFirst == IF job.scheme = "gcm" THEN 2 ELSE 1

\* The symbol of the keystream for byte i.
MaskSymbol(i) ==
  <<OwnKind, "own", OwnFirst + ((i - 1) \div OwnSize), ((i - 1) % OwnSize) + 1, <<>>>>
TextSymbol(i) == <<"text", "", i, 0, <<>>>>

LEMMA SizeIs == OwnSize \in Nat \ {0} /\ CipherBlock \in Nat /\ CipherBlock <= OwnSize /\ OwnFirst \in {1, 2}
BY CipherShape DEF Aead!AeadShape, OwnSize, OwnFirst

\* The counter does not wrap around.
LEMMA CounterLow ==
  ASSUME job \in Job, NEW i \in 1 .. job.text
  PROVE  /\ (i - 1) \div OwnSize \in Nat /\ (i - 1) \div OwnSize < CounterRange - 2
         /\ (OwnFirst + ((i - 1) \div OwnSize)) % CounterRange = OwnFirst + ((i - 1) \div OwnSize)
<1> DEFINE j == i - 1
           q == j \div OwnSize
           r == j % OwnSize
           range == CounterRange - 2
           short == range * CipherBlock
           long == range * OwnSize
<1>1. j \in Nat /\ job.text \in Nat
  <2>1. job.text \in Nat
    BY JobIs
  <2>. QED
    BY <2>1
<1>2. q \in Nat /\ r \in 0 .. OwnSize - 1 /\ r \in Nat /\ q * OwnSize \in Nat /\ j = q * OwnSize + r
  <2> HIDE DEF j
  <2>. QED
    BY <1>1, SizeIs, Divided
<1>3. range \in Nat
  BY CounterIs
<1>4. long \in Nat /\ short \in Nat /\ short <= long
  <2>1. CipherBlock * range <= OwnSize * range /\ CipherBlock * range \in Nat /\ OwnSize * range \in Nat
    <3> HIDE DEF range
    <3>1. OwnSize \in Nat
      BY SizeIs
    <3>. QED
      BY <1>3, <3>1, SizeIs, Multiples
  <2>2. CipherBlock * range = short /\ OwnSize * range = long
    <3> HIDE DEF range
    <3>. QED
      BY <1>3, SizeIs
  <2>. QED
    BY <2>1, <2>2, Zenon
<1>5. j < long
  <2>1. job.text \in 0 .. short
    BY JobIs
  <2> HIDE DEF short, long
  <2>. QED
    BY <1>1, <1>4, <2>1
<1>6. q < range
  <2>1. CASE q >= range
    <3>1. long <= q * OwnSize
      <4> HIDE DEF q, range
      <4>1. OwnSize \in Nat
        BY SizeIs
      <4>. QED
        BY <1>2, <1>3, <2>1, <4>1, Multiples
    <3> DEFINE at == q * OwnSize
    <3>2. at \in Nat /\ long <= at /\ j = at + r
      BY <1>2, <3>1
    <3> HIDE DEF at, long, r, j
    <3>. QED
      BY <1>2, <1>4, <1>5, <3>2
  <2> HIDE DEF q, range
  <2>. QED
    BY <1>2, <1>3, <2>1
<1>7. (OwnFirst + q) % CounterRange = OwnFirst + q
  <2>1. OwnFirst + q \in 0 .. CounterRange - 1
    <3> HIDE DEF q
    <3>. QED
      BY <1>2, <1>6, SizeIs, CounterIs
  <2> HIDE DEF q
  <2>. QED
    BY <2>1, CounterIs, OwnRemainder
<1>. QED
  BY <1>2, <1>6, <1>7

LEMMA CipherByte ==
  ASSUME job \in Job, NEW i \in 1 .. job.text
  PROVE  /\ Aead!Text[i] = {TextSymbol(i)}
         /\ Ciphertext[i] = Aead!Added({TextSymbol(i)}, {MaskSymbol(i)})
<1>1. Aead!Text[i] = {TextSymbol(i)}
  BY Zenon DEF Aead!Text, Aead!Symbol, TextSymbol
<1>2. Len(Aead!Text) = job.text
  BY TextIs
<1>3. Ciphertext = Streamed(OwnKind, "own", Aead!Text, OwnSize, OwnFirst, job.text)
  BY <1>2 DEF Ciphertext, Ciphered, OwnKind, OwnSize, OwnFirst
<1> DEFINE counter == (OwnFirst + ((i - 1) \div OwnSize)) % CounterRange
<1>4. Ciphertext[i]
        = Aead!Added(Aead!Text[i], Aead!Symbol(OwnKind, "own", counter, ((i - 1) % OwnSize) + 1, <<>>))
  BY <1>3, Zenon DEF Streamed
<1>5. counter = OwnFirst + ((i - 1) \div OwnSize)
  BY CounterLow
<1> HIDE DEF counter
<1>6. Aead!Symbol(OwnKind, "own", counter, ((i - 1) % OwnSize) + 1, <<>>) = {MaskSymbol(i)}
  BY <1>5, Zenon DEF Aead!Symbol, MaskSymbol
<1>. QED
  BY <1>1, <1>4, <1>6, Zenon

\* Adding is undone by adding again.
LEMMA AddedTwice ==
  ASSUME NEW x, NEW y
  PROVE  Aead!Added(Aead!Added(x, y), x) = y /\ Aead!Added(Aead!Added(x, y), y) = x
BY DEF Aead!Added

\* The masks of two bytes differ.
LEMMA MasksDiffer ==
  ASSUME job \in Job, NEW i \in 1 .. job.text, NEW j \in 1 .. job.text, MaskSymbol(i) = MaskSymbol(j)
  PROVE  i = j
<1> DEFINE q == (i - 1) \div OwnSize
           r == (i - 1) % OwnSize
           p == (j - 1) \div OwnSize
           s == (j - 1) % OwnSize
<1>1. job.text \in Nat
  BY JobIs
<1>2. i - 1 \in Nat /\ j - 1 \in Nat /\ i = (i - 1) + 1 /\ j = (j - 1) + 1
  BY <1>1
<1>3. OwnFirst + q = OwnFirst + p /\ r + 1 = s + 1
  BY DEF MaskSymbol
<1> DEFINE k == i - 1
           l == j - 1
<1>4. q \in Nat /\ r \in Nat /\ k = q * OwnSize + r
  <2>1. k \in Nat /\ q = k \div OwnSize /\ r = k % OwnSize
    BY <1>2
  <2> HIDE DEF k
  <2>. QED
    BY <2>1, SizeIs, Divided
<1>5. p \in Nat /\ s \in Nat /\ l = p * OwnSize + s
  <2>1. l \in Nat /\ p = l \div OwnSize /\ s = l % OwnSize
    BY <1>2
  <2> HIDE DEF l
  <2>. QED
    BY <2>1, SizeIs, Divided
<1>6. k + 1 = i /\ l + 1 = j
  BY <1>2
<1> HIDE DEF q, r, p, s, k, l
<1>7. q = p /\ r = s
  <2>1. OwnFirst \in Nat
    BY SizeIs
  <2>. QED
    BY <1>3, <1>4, <1>5, <2>1
<1>8. k = l
  BY <1>4, <1>5, <1>7, Zenon
<1>. QED
  BY <1>6, <1>8, Zenon

\* What is sealed has a keystream of its own for every byte.
Once(what, text, w) ==
  LET Mask(i) == Aead!Added(w[i], text[i])
      reserved == IF what.scheme = "gcm" THEN Aead!aes("own", Aead!J0) ELSE Aead!chacha20_block("own", 0)
  IN  \A i \in DOMAIN text :
        /\ \E symbol \in Mask(i) : Mask(i) = {symbol}
        /\ \A j \in 1 .. i - 1 : Mask(j) # Mask(i)
        /\ \A j \in DOMAIN reserved : Mask(i) # reserved[j]

LEMMA KeystreamOnce ==
  ASSUME job \in Job, NEW w, w = Sealed
  PROVE  Once(job, Aead!Text, w)
<1> DEFINE Mask(i) == Aead!Added(w[i], Aead!Text[i])
           reserved == IF job.scheme = "gcm" THEN Aead!aes("own", Aead!J0)
                       ELSE Aead!chacha20_block("own", 0)
<1>1. DOMAIN Aead!Text = 1 .. job.text
  BY DEF Aead!Text
<1>2. ASSUME NEW i \in 1 .. job.text PROVE Mask(i) = {MaskSymbol(i)}
  <2>1. w[i] = Aead!Added({TextSymbol(i)}, {MaskSymbol(i)})
    BY CipherByte, WireIs, Zenon
  <2>2. Mask(i) = Aead!Added(Aead!Added({TextSymbol(i)}, {MaskSymbol(i)}), {TextSymbol(i)})
    BY <2>1, CipherByte, Zenon
  <2>. QED
    BY <2>2, AddedTwice, Zenon
<1>3. job.text \in Nat
  BY JobIs
<1>4. ASSUME NEW i \in 1 .. job.text PROVE \E symbol \in Mask(i) : Mask(i) = {symbol}
  <2> HIDE DEF Mask
  <2>. QED
    BY <1>2
<1>5. ASSUME NEW i \in 1 .. job.text, NEW j \in 1 .. i - 1 PROVE Mask(j) # Mask(i)
  <2> HIDE DEF Mask
  <2>1. j \in 1 .. job.text /\ i # j
    BY <1>3
  <2>2. MaskSymbol(i) # MaskSymbol(j)
    BY <2>1, MasksDiffer
  <2>. QED
    BY <1>2, <2>1, <2>2, SameItem, Zenon
<1>6. ASSUME NEW i \in 1 .. job.text, NEW j \in DOMAIN reserved PROVE Mask(i) # reserved[j]
  <2> HIDE DEF Mask
  <2> DEFINE d == (i - 1) \div OwnSize
  <2>1. d \in Nat
    BY CounterLow
  <2>2. CASE job.scheme = "gcm"
    <3>1. reserved[j] = {<<"aes", "own", 1, j, <<>>>>}
      BY <2>2, Zenon DEF Aead!aes, Aead!Symbol, Aead!J0
    <3>2. MaskSymbol(i) # <<"aes", "own", 1, j, <<>>>>
      <4>1. OwnFirst + d # 1
        <5> HIDE DEF d
        <5>. QED
          BY <2>1, <2>2 DEF OwnFirst
      <4>. QED
        BY <4>1 DEF MaskSymbol
    <3>. QED
      BY <1>2, <3>1, <3>2, SameItem, Zenon
  <2>3. CASE job.scheme # "gcm"
    <3>1. reserved[j] = {<<"chacha", "own", 0, j, <<>>>>}
      BY <2>3, Zenon DEF Aead!chacha20_block, Aead!Symbol
    <3>2. MaskSymbol(i) # <<"chacha", "own", 0, j, <<>>>>
      <4>1. OwnFirst + d # 0
        <5> HIDE DEF d
        <5>. QED
          BY <2>1, <2>3 DEF OwnFirst
      <4>. QED
        BY <4>1 DEF MaskSymbol
    <3>. QED
      BY <1>2, <3>1, <3>2, SameItem, Zenon
  <2>. QED
    BY <2>2, <2>3
<1>. QED
  BY <1>1, <1>4, <1>5, <1>6, Zenon DEF Once

-----------------------------------------------------------------------------
(* Whose tag it is. *)

\* Enciphering twice gives the text back.
LEMMA StreamTwice ==
  ASSUME NEW B, NEW scheme, NEW nonce, NEW text, text \in Seq(B)
  PROVE  Ciphered(scheme, nonce, Ciphered(scheme, nonce, text)) = text
<1> DEFINE n == Len(text)
           kind == IF scheme = "gcm" THEN "aes" ELSE "chacha"
           size == IF scheme = "gcm" THEN CipherBlock ELSE StreamBlock
           first == IF scheme = "gcm" THEN 2 ELSE 1
           K(j) == Aead!Symbol(kind, nonce, (first + ((j - 1) \div size)) % CounterRange,
                               ((j - 1) % size) + 1, <<>>)
           c == Ciphered(scheme, nonce, text)
           d == Ciphered(scheme, nonce, c)
<1>1. n \in Nat /\ text \in [1 .. n -> B]
  BY SeqIsList
<1>2. Len(c) = n
  BY CipheredIs
<1>3. c = [j \in 1 .. n |-> Aead!Added(text[j], K(j))]
  BY DEF Ciphered, Streamed
<1>4. d = [j \in 1 .. Len(c) |-> Aead!Added(c[j], K(j))]
  <2> HIDE DEF c
  <2>. QED
    BY DEF Ciphered, Streamed
<1> HIDE DEF c, d, K, n
<1>5. d = [j \in 1 .. n |-> Aead!Added(Aead!Added(text[j], K(j)), K(j))]
  BY <1>2, <1>3, <1>4
<1>6. \A j \in 1 .. n : Aead!Added(Aead!Added(text[j], K(j)), K(j)) = text[j]
  BY AddedTwice, Zenon
<1>7. d = [j \in 1 .. n |-> text[j]]
  BY <1>5, <1>6, Zenon
<1>8. text = [j \in 1 .. n |-> text[j]]
  BY <1>1
<1>. QED
  BY <1>7, <1>8, Zenon DEF c, d

\* What is sent consists of pieces.
LEMMA PiecesAre ==
  ASSUME job \in Job
  PROVE  /\ Aead!Aad \in Seq(Pieces) /\ Ciphertext \in Seq(Pieces) /\ Sealed \in Seq(Pieces)
         /\ Len(Aead!Aad) = job.aad /\ Len(Ciphertext) = job.text /\ Len(Sealed) = job.text + CipherBlock
         /\ Lists(job.text + CipherBlock, Sealed)
<1> DEFINE n == job.text
           m == n + CipherBlock
           S == {Sealed[i] : i \in 1 .. m}
           A == {Aead!Aad[i] : i \in 1 .. job.aad}
<1>1. Lists(m, Sealed) /\ Len(Sealed) = m /\ \A i \in 1 .. n : Sealed[i] = Ciphertext[i]
  BY WireIs
<1>2. Lists(job.aad, Aead!Aad) /\ Len(Aead!Aad) = job.aad /\ Lists(n, Aead!Text) /\ Len(Aead!Text) = n
  BY TextIs
<1>3. n \in Nat /\ job.aad \in Nat /\ m \in Nat /\ CipherBlock \in Nat
  <2>1. n \in Nat /\ CipherBlock \in Nat /\ job.aad \in Nat
    BY CipherShape, JobIs DEF Aead!AeadShape
  <2>. QED
    BY <2>1
<1>4. Lists(n, Ciphertext) /\ Len(Ciphertext) = n
  <2>1. Aead!Text \in Seq({Aead!Text[i] : i \in 1 .. n})
    BY <1>2, <1>3, Listed
  <2>2. Lists(Len(Aead!Text), Ciphertext) /\ Len(Ciphertext) = Len(Aead!Text)
    BY <2>1, CipheredIs DEF Ciphertext
  <2>. QED
    BY <1>2, <2>2, Zenon
<1>5. S \subseteq Pieces /\ A \subseteq Pieces
  BY DEF Pieces
<1>6. Sealed \in [1 .. m -> S] /\ Aead!Aad \in [1 .. job.aad -> A] /\ Ciphertext \in [1 .. n -> S]
  <2>1. Sealed = [i \in 1 .. m |-> Sealed[i]] /\ Aead!Aad = [i \in 1 .. job.aad |-> Aead!Aad[i]]
        /\ Ciphertext = [i \in 1 .. n |-> Ciphertext[i]]
    BY <1>1, <1>2, <1>4, Zenon DEF Lists
  <2>2. \A i \in 1 .. n : Ciphertext[i] \in S
    <3>1. \A i \in 1 .. n : i \in 1 .. m
      BY <1>3
    <3>. QED
      BY <1>1, <3>1, Zenon
  <2>3. [i \in 1 .. m |-> Sealed[i]] \in [1 .. m -> S]
    OBVIOUS
  <2>4. [i \in 1 .. job.aad |-> Aead!Aad[i]] \in [1 .. job.aad -> A]
    OBVIOUS
  <2>5. [i \in 1 .. n |-> Ciphertext[i]] \in [1 .. n -> S]
    <3> HIDE DEF S
    <3>. QED
      BY <2>2
  <2>. QED
    BY <2>1, <2>3, <2>4, <2>5, Zenon
<1> HIDE DEF n, m, S, A
<1>7. Sealed \in [1 .. m -> Pieces] /\ Aead!Aad \in [1 .. job.aad -> Pieces] /\ Ciphertext \in [1 .. n -> Pieces]
  BY <1>5, <1>6
<1>8. Sealed \in Seq(Pieces) /\ Aead!Aad \in Seq(Pieces) /\ Ciphertext \in Seq(Pieces)
  BY <1>3, <1>7, ListIsSeq
<1>. QED
  BY <1>1, <1>2, <1>4, <1>8, Zenon DEF n, m

\* The pieces by where they come from.
LEMMA PieceOrigins ==
  ASSUME job \in Job, NEW p \in Pieces
  PROVE  \/ p = {}
         \/ \E i \in 1 .. job.aad : p = {<<"aad", "", i, 0, <<>>>>}
         \/ \E i \in 1 .. job.text : p = Aead!Added({TextSymbol(i)}, {MaskSymbol(i)})
         \/ \E k \in 1 .. CipherBlock : p = OwnTag[k]
<1>1. CASE p = {}
  BY <1>1
<1>2. ASSUME NEW i \in 1 .. job.aad, p = Aead!Aad[i] PROVE p = {<<"aad", "", i, 0, <<>>>>}
  BY <1>2, Zenon DEF Aead!Aad, Aead!Symbol
<1>3. ASSUME NEW i \in 1 .. job.text + CipherBlock, p = Sealed[i]
      PROVE  \/ \E j \in 1 .. job.text : p = Aead!Added({TextSymbol(j)}, {MaskSymbol(j)})
             \/ \E k \in 1 .. CipherBlock : p = OwnTag[k]
  <2>0. job.text \in Nat /\ CipherBlock \in Nat
    BY CipherShape, JobIs DEF Aead!AeadShape
  <2>1. CASE i \in 1 .. job.text
    <3>1. p = Ciphertext[i]
      BY <1>3, <2>1, WireIs, Zenon
    <3>. QED
      BY <2>1, <3>1, CipherByte, Zenon
  <2>2. CASE i \notin 1 .. job.text
    <3> DEFINE k == i - job.text
    <3>1. k \in 1 .. CipherBlock /\ i = job.text + k
      BY <2>0, <2>2
    <3> HIDE DEF k
    <3>2. Sealed[i] = OwnTag[k]
      BY <3>1, WireIs, Zenon
    <3>. QED
      BY <1>3, <3>1, <3>2, Zenon
  <2>. QED
    BY <2>1, <2>2
<1>4. p = {} \/ (\E i \in 1 .. job.aad : p = Aead!Aad[i]) \/ \E i \in 1 .. job.text + CipherBlock : p = Sealed[i]
  BY Zenon DEF Pieces
<1>. QED
  BY <1>1, <1>2, <1>3, <1>4, Zenon

\* A symbol that is no noise comes from a piece.
LEMMA Marked ==
  ASSUME NEW x \in Sendable, NEW z \in x, z # <<"noise", "", 0, 0, <<>>>>
  PROVE  \E p \in Pieces : z \in p /\ (x = p \/ x = Aead!Added(p, Aead!Noise))
<1>1. CASE x \in Pieces
  BY <1>1
<1>2. CASE x \notin Pieces
  <2>1. PICK p \in Pieces : x = Aead!Added(p, Aead!Noise)
    BY <1>2 DEF Sendable
  <2>2. z \notin Aead!Noise
    BY DEF Aead!Noise, Aead!Symbol
  <2>3. z \in p
    BY <2>1, <2>2 DEF Aead!Added
  <2>. QED
    BY <2>1, <2>3
<1>. QED
  BY <1>1, <1>2

\* The bytes of the own tag, of which only the first has such a symbol.
LEMMA OwnTagIs ==
  ASSUME job \in Job, NEW k \in 1 .. CipherBlock, NEW P,
         P = Aead!Polynomial(Tagged(Aead!Aad, Ciphertext))
  PROVE  /\ job.scheme = "gcm" =>
              OwnTag[k] = Aead!Added(IF P = {} THEN {} ELSE {<<"ghash", "", 0, k, P>>},
                                     {<<"aes", "own", 1, k, <<>>>>})
         /\ job.scheme # "gcm" =>
              OwnTag[k] = {<<"poly1305", "own", 0, k, Tagged(Aead!Aad, Ciphertext)>>}
<1>1. ASSUME job.scheme = "gcm"
      PROVE  OwnTag[k] = Aead!Added(IF P = {} THEN {} ELSE {<<"ghash", "", 0, k, P>>},
                                    {<<"aes", "own", 1, k, <<>>>>})
  <2>1. OwnTag = TagOf("gcm", "own", Aead!Aad, Ciphertext)
    BY <1>1, Zenon DEF OwnTag
  <2>2. TagOf("gcm", "own", Aead!Aad, Ciphertext)[k]
          = Aead!Added(IF P = {} THEN {} ELSE {<<"ghash", "", 0, k, P>>}, {<<"aes", "own", 1, k, <<>>>>})
    <3>1. GcmByte("own", Aead!Aad, Ciphertext, k, P)
      BY GcmTag, Zenon
    <3>. QED
      BY <3>1, Zenon DEF GcmByte
  <2>. QED
    BY <2>1, <2>2, Zenon
<1>2. ASSUME job.scheme # "gcm"
      PROVE  OwnTag[k] = {<<"poly1305", "own", 0, k, Tagged(Aead!Aad, Ciphertext)>>}
  <2>1. OwnTag = TagOf(job.scheme, "own", Aead!Aad, Ciphertext)
    BY DEF OwnTag
  <2>2. Aead!Aad \in Seq(Pieces) /\ Ciphertext \in Seq(Pieces)
    BY PiecesAre
  <2>3. TagOf(job.scheme, "own", Aead!Aad, Ciphertext)[k]
          = {<<"poly1305", "own", 0, k, Tagged(Aead!Aad, Ciphertext)>>}
    <3>1. PolyByte(job.scheme, "own", Aead!Aad, Ciphertext, k)
      BY <1>2, <2>2, PolyTag
    <3>. QED
      BY <3>1, Zenon DEF PolyByte
  <2>. QED
    BY <2>1, <2>3, Zenon
<1>. QED
  BY <1>1, <1>2, Zenon

LEMMA MarkGcm ==
  ASSUME job \in Job, job.scheme = "gcm", NEW nonce, NEW x \in Sendable,
         <<"aes", nonce, 1, 1, <<>>>> \in x
  PROVE  nonce = "own" /\ (x = OwnTag[1] \/ x = Aead!Added(OwnTag[1], Aead!Noise))
<1> DEFINE z == <<"aes", nonce, 1, 1, <<>>>>
           P == Aead!Polynomial(Tagged(Aead!Aad, Ciphertext))
<1>1. z # <<"noise", "", 0, 0, <<>>>>
  OBVIOUS
<1>2. PICK p \in Pieces : z \in p /\ (x = p \/ x = Aead!Added(p, Aead!Noise))
  BY <1>1, Marked
<1>3. p # {} /\ \A i : p # {<<"aad", "", i, 0, <<>>>>}
  <2>1. \A i : z # <<"aad", "", i, 0, <<>>>>
    OBVIOUS
  <2> HIDE DEF z
  <2>. QED
    BY <1>2, <2>1
<1>4. ASSUME NEW i \in 1 .. job.text PROVE p # Aead!Added({TextSymbol(i)}, {MaskSymbol(i)})
  <2> DEFINE d == (i - 1) \div OwnSize
  <2>1. OwnFirst + d # 1
    <3>1. d \in Nat
      BY CounterLow
    <3> HIDE DEF d
    <3>. QED
      BY <3>1 DEF OwnFirst
  <2> HIDE DEF d
  <2>2. z # MaskSymbol(i)
    BY <2>1 DEF MaskSymbol, d
  <2>3. z # TextSymbol(i)
    BY DEF TextSymbol
  <2> HIDE DEF z
  <2>. QED
    BY <1>2, <2>2, <2>3 DEF Aead!Added
<1> HIDE DEF P
<1>5. PICK k \in 1 .. CipherBlock : p = OwnTag[k]
  BY <1>3, <1>4, PieceOrigins, Zenon
<1>6. p = Aead!Added(IF P = {} THEN {} ELSE {<<"ghash", "", 0, k, P>>}, {<<"aes", "own", 1, k, <<>>>>})
  BY <1>5, OwnTagIs DEF P
<1>7. nonce = "own" /\ k = 1
  <2>1. z \in {<<"ghash", "", 0, k, P>>, <<"aes", "own", 1, k, <<>>>>}
    <3> HIDE DEF z
    <3>. QED
      BY <1>2, <1>6 DEF Aead!Added
  <2>2. z # <<"ghash", "", 0, k, P>>
    OBVIOUS
  <2>3. z = <<"aes", "own", 1, k, <<>>>>
    BY <2>1, <2>2, Zenon
  <2>. QED
    BY <2>3
<1>. QED
  BY <1>2, <1>5, <1>7, Zenon

LEMMA MarkPoly ==
  ASSUME job \in Job, job.scheme # "gcm", NEW nonce, NEW blocks,
         {<<"poly1305", nonce, 0, 1, blocks>>} \in Sendable
  PROVE  nonce = "own" /\ blocks = Tagged(Aead!Aad, Ciphertext)
<1> DEFINE z == <<"poly1305", nonce, 0, 1, blocks>>
           x == {z}
           own == Tagged(Aead!Aad, Ciphertext)
<1>1. z # <<"noise", "", 0, 0, <<>>>>
  OBVIOUS
<1>2. PICK p \in Pieces : z \in p
  BY <1>1, Marked
<1>3. p # {} /\ \A i : p # {<<"aad", "", i, 0, <<>>>>}
  <2>1. \A i : z # <<"aad", "", i, 0, <<>>>>
    OBVIOUS
  <2> HIDE DEF z
  <2>. QED
    BY <1>2, <2>1
<1>4. ASSUME NEW i \in 1 .. job.text PROVE p # Aead!Added({TextSymbol(i)}, {MaskSymbol(i)})
  <2>1. OwnKind = "chacha"
    BY DEF OwnKind
  <2>2. z # MaskSymbol(i)
    BY <2>1 DEF MaskSymbol
  <2>3. z # TextSymbol(i)
    BY DEF TextSymbol
  <2> HIDE DEF z
  <2>. QED
    BY <1>2, <2>2, <2>3 DEF Aead!Added
<1> HIDE DEF own
<1>5. PICK k \in 1 .. CipherBlock : p = OwnTag[k]
  BY <1>3, <1>4, PieceOrigins, Zenon
<1>6. p = {<<"poly1305", "own", 0, k, own>>}
  BY <1>5, OwnTagIs DEF own
<1>7. z = <<"poly1305", "own", 0, k, own>>
  <2> HIDE DEF z
  <2>. QED
    BY <1>2, <1>6
<1>8. nonce = "own" /\ blocks = own
  BY <1>7
<1>. QED
  BY <1>8 DEF own

\* What arrives under a good tag: the first bytes, and the tag behind them.
Good(a, n, text) ==
  /\ a \in Arrivals /\ n \in Nat /\ Len(a.wire) = n + CipherBlock
  /\ text = Aead!Slice(a.wire, 0, n)
  /\ TagOf(job.scheme, a.nonce, a.aad, text) = Aead!Slice(a.wire, n, CipherBlock)

LEMMA PartsOf ==
  ASSUME NEW a, NEW n, NEW text, Good(a, n, text)
  PROVE  /\ a.aad \in Seq(Sendable) /\ a.wire \in Seq(Sendable) /\ a.nonce \in {"own", "other"}
         /\ text \in Seq(Sendable) /\ Len(text) = n
         /\ TagOf(job.scheme, a.nonce, a.aad, text)[1] \in Sendable
         /\ 1 \in 1 .. CipherBlock
<1>0. n \in Nat /\ Len(a.wire) = n + CipherBlock /\ text = Aead!Slice(a.wire, 0, n)
      /\ TagOf(job.scheme, a.nonce, a.aad, text) = Aead!Slice(a.wire, n, CipherBlock)
  BY DEF Good
<1>1. a.aad \in Seq(Sendable) /\ a.wire \in Seq(Sendable) /\ a.nonce \in {"own", "other"}
  BY DEF Good, Arrivals
<1>2. CipherBlock \in Nat /\ 1 \in 1 .. CipherBlock
  BY CipherShape DEF Aead!AeadShape
<1>3. \A i \in 1 .. Len(a.wire) : a.wire[i] \in Sendable
  <2>1. a.wire \in [1 .. Len(a.wire) -> Sendable]
    BY <1>1, SeqIsList
  <2>. QED
    BY <2>1
<1>4. text = [i \in 1 .. n |-> a.wire[0 + i]]
  BY <1>0 DEF Aead!Slice
<1>5. text \in [1 .. n -> Sendable]
  <2>1. \A i \in 1 .. n : 0 + i \in 1 .. Len(a.wire)
    BY <1>0, <1>2
  <2>2. [i \in 1 .. n |-> a.wire[0 + i]] \in [1 .. n -> Sendable]
    BY <1>3, <2>1
  <2>. QED
    BY <1>4, <2>2, Zenon
<1>6. text \in Seq(Sendable) /\ Len(text) = n
  BY <1>0, <1>5, ListIsSeq
<1>7. TagOf(job.scheme, a.nonce, a.aad, text)[1] \in Sendable
  <2>1. Aead!Slice(a.wire, n, CipherBlock)[1] = a.wire[n + 1]
    BY <1>2, Zenon DEF Aead!Slice
  <2>2. n + 1 \in 1 .. Len(a.wire)
    BY <1>0, <1>2
  <2>. QED
    BY <1>0, <1>3, <2>1, <2>2, Zenon
<1>. QED
  BY <1>1, <1>2, <1>6, <1>7, Zenon

\* The tag of GCM is good only for what was sealed.
LEMMA GoodGcm ==
  ASSUME job \in Job, job.scheme = "gcm", NEW a, NEW n, NEW text, Good(a, n, text)
  PROVE  a.nonce = "own" /\ a.aad = Aead!Aad /\ text = Ciphertext
<1> DEFINE P == Aead!Polynomial(Tagged(Aead!Aad, Ciphertext))
           Q == Aead!Polynomial(Tagged(a.aad, text))
           x == TagOf("gcm", a.nonce, a.aad, text)[1]
           own == {<<"aes", "own", 1, 1, <<>>>>}
           g == IF P = {} THEN {} ELSE {<<"ghash", "", 0, 1, P>>}
           h == IF Q = {} THEN {} ELSE {<<"ghash", "", 0, 1, Q>>}
<1>1. /\ a.aad \in Seq(Sendable) /\ text \in Seq(Sendable) /\ x \in Sendable /\ 1 \in 1 .. CipherBlock
  <2>1. TagOf(job.scheme, a.nonce, a.aad, text) = TagOf("gcm", a.nonce, a.aad, text)
    OBVIOUS
  <2> HIDE DEF P, Q
  <2>. QED
    BY <2>1, PartsOf
<1>2. x = Aead!Added(h, {<<"aes", a.nonce, 1, 1, <<>>>>})
  <2>1. GcmByte(a.nonce, a.aad, text, 1, Q)
    BY <1>1, GcmTag
  <2>. QED
    BY <2>1, Zenon DEF GcmByte
<1>3. OwnTag[1] = Aead!Added(g, own)
  BY <1>1, OwnTagIs
<1> HIDE DEF x, P, Q
<1>4. <<"aes", a.nonce, 1, 1, <<>>>> \in x
  <2>1. <<"aes", a.nonce, 1, 1, <<>>>> \notin h
    OBVIOUS
  <2> HIDE DEF h
  <2>. QED
    BY <1>2, <2>1 DEF Aead!Added
<1>5. a.nonce = "own" /\ (x = OwnTag[1] \/ x = Aead!Added(OwnTag[1], Aead!Noise))
  BY <1>1, <1>4, MarkGcm
<1>6. x = Aead!Added(h, own)
  BY <1>2, <1>5, Zenon
<1>7. /\ \A y \in g : y = <<"ghash", "", 0, 1, P>>
      /\ \A y \in h : y = <<"ghash", "", 0, 1, Q>>
  OBVIOUS
<1>8. <<"ghash", "", 0, 1, P>> \notin Aead!Noise /\ <<"ghash", "", 0, 1, Q>> \notin Aead!Noise
      /\ <<"noise", "", 0, 0, <<>>>> # <<"ghash", "", 0, 1, P>>
      /\ <<"noise", "", 0, 0, <<>>>> # <<"ghash", "", 0, 1, Q>>
      /\ <<"noise", "", 0, 0, <<>>>> \notin own
      /\ <<"noise", "", 0, 0, <<>>>> \in Aead!Noise
  BY DEF Aead!Noise, Aead!Symbol
<1>9. x = Aead!Added(g, own)
  <2>1. CASE x = Aead!Added(OwnTag[1], Aead!Noise)
    <3> DEFINE noise == <<"noise", "", 0, 0, <<>>>>
    <3>1. noise \notin g /\ noise \notin h
      BY <1>7, <1>8, Zenon
    <3> HIDE DEF noise, g, h, own
    <3>2. noise \notin x
      BY <1>6, <1>8, <3>1 DEF noise, Aead!Added
    <3>3. noise \in x
      BY <1>3, <1>8, <2>1, <3>1 DEF noise, Aead!Added
    <3>. QED
      BY <3>2, <3>3
  <2>. QED
    BY <1>3, <1>5, <2>1, Zenon
<1>10. g = h
  <2> HIDE DEF g, h, own
  <2>1. Aead!Added(Aead!Added(g, own), own) = g /\ Aead!Added(Aead!Added(h, own), own) = h
    BY AddedTwice
  <2>. QED
    BY <1>6, <1>9, <2>1, Zenon
<1>11. P = Q
  <2>1. CASE P = {}
    BY <1>10, <2>1
  <2>2. CASE P # {}
    <3>1. <<"ghash", "", 0, 1, P>> \in h
      BY <1>10, <2>2
    <3>2. <<"ghash", "", 0, 1, P>> = <<"ghash", "", 0, 1, Q>>
      BY <1>7, <3>1, Zenon
    <3>. QED
      BY <3>2
  <2>. QED
    BY <2>1, <2>2
<1>12. a.aad = Aead!Aad /\ text = Ciphertext
  <2>1. Aead!Aad \in Seq(Pieces) /\ Ciphertext \in Seq(Pieces)
    BY PiecesAre
  <2>2. Pieces \subseteq Sendable
    BY DEF Sendable
  <2>3. Aead!Aad \in Seq(Sendable) /\ Ciphertext \in Seq(Sendable)
    BY <2>1, <2>2
  <2>4. Aead!Polynomial(Tagged(Aead!Aad, Ciphertext)) = Aead!Polynomial(Tagged(a.aad, text))
    BY <1>11, Zenon DEF P, Q
  <2>. QED
    BY <1>1, <2>3, <2>4, Unambiguous
<1>. QED
  BY <1>5, <1>12

LEMMA GoodPoly ==
  ASSUME job \in Job, job.scheme # "gcm", NEW a, NEW n, NEW text, Good(a, n, text)
  PROVE  a.nonce = "own" /\ a.aad = Aead!Aad /\ text = Ciphertext
<1> DEFINE x == TagOf(job.scheme, a.nonce, a.aad, text)[1]
           blocks == Tagged(a.aad, text)
           own == Tagged(Aead!Aad, Ciphertext)
<1>1. a.aad \in Seq(Sendable) /\ text \in Seq(Sendable) /\ x \in Sendable /\ 1 \in 1 .. CipherBlock
  BY PartsOf
<1>2. x = {<<"poly1305", a.nonce, 0, 1, blocks>>}
  <2>1. PolyByte(job.scheme, a.nonce, a.aad, text, 1)
    BY <1>1, PolyTag
  <2>. QED
    BY <2>1, Zenon DEF PolyByte
<1> HIDE DEF x
<1>3. {<<"poly1305", a.nonce, 0, 1, blocks>>} \in Sendable
  BY <1>1, <1>2, Zenon
<1>4. a.nonce = "own" /\ blocks = own
  <2> HIDE DEF blocks
  <2>. QED
    BY <1>3, MarkPoly
<1>5. a.aad = Aead!Aad /\ text = Ciphertext
  <2>1. Aead!Aad \in Seq(Pieces) /\ Ciphertext \in Seq(Pieces)
    BY PiecesAre
  <2>2. Pieces \subseteq Sendable
    BY DEF Sendable
  <2>3. Aead!Aad \in Seq(Sendable) /\ Ciphertext \in Seq(Sendable)
    BY <2>1, <2>2
  <2>4. Aead!Polynomial(own) = Aead!Polynomial(blocks)
    BY <1>4, Zenon
  <2>. QED
    BY <1>1, <2>3, <2>4, Unambiguous
<1>. QED
  BY <1>4, <1>5

\* Under a good tag arrives what was sent.
LEMMA GoodIsSent ==
  ASSUME job \in Job, wire = Sealed, NEW a, NEW n, NEW text, Good(a, n, text)
  PROVE  a = Aead!Sent /\ a.nonce = "own" /\ text = Ciphertext
<1>1. a.nonce = "own" /\ a.aad = Aead!Aad /\ text = Ciphertext
  <2>1. CASE job.scheme = "gcm"
    BY <2>1, GoodGcm
  <2>2. CASE job.scheme # "gcm"
    BY <2>2, GoodPoly
  <2>. QED
    BY <2>1, <2>2
<1> DEFINE w == a.wire
<1>2. /\ n \in Nat /\ Len(w) = n + CipherBlock /\ text = Aead!Slice(w, 0, n)
      /\ TagOf(job.scheme, a.nonce, a.aad, text) = Aead!Slice(w, n, CipherBlock)
      /\ a \in Arrivals
  BY DEF Good
<1>3. w \in Seq(Sendable) /\ Len(text) = n
  BY PartsOf
<1>4. /\ Len(Sealed) = job.text + CipherBlock /\ Lists(job.text + CipherBlock, Sealed)
      /\ \A i \in 1 .. job.text : Sealed[i] = Ciphertext[i]
      /\ \A i \in 1 .. CipherBlock : Sealed[job.text + i] = OwnTag[i]
  BY WireIs
<1>5. n = job.text
  BY <1>1, <1>3, PiecesAre, Zenon
<1>6. Aead!Slice(w, n, CipherBlock) = OwnTag
  BY <1>1, <1>2, Zenon DEF OwnTag
<1>7. CipherBlock \in Nat
  BY CipherShape DEF Aead!AeadShape
<1> HIDE DEF w
<1>8. \A i \in 1 .. n : w[i] = Ciphertext[i]
  <2>1. Ciphertext = [i \in 1 .. n |-> w[0 + i]]
    BY <1>1, <1>2 DEF Aead!Slice
  <2>2. \A i \in 1 .. n : 0 + i = i
    BY <1>2
  <2>. QED
    BY <2>1, <2>2, Zenon
<1>9. \A i \in 1 .. CipherBlock : w[n + i] = OwnTag[i]
  <2>1. OwnTag = [i \in 1 .. CipherBlock |-> w[n + i]]
    BY <1>6 DEF Aead!Slice
  <2>. QED
    BY <2>1, Zenon
<1>10. ASSUME NEW i \in 1 .. n + CipherBlock PROVE w[i] = Sealed[i]
  <2>1. CASE i \in 1 .. n
    BY <1>4, <1>5, <1>8, <2>1, Zenon
  <2>2. CASE i \notin 1 .. n
    <3> DEFINE k == i - n
    <3>1. k \in 1 .. CipherBlock /\ i = n + k
      BY <1>2, <1>7, <2>2
    <3> HIDE DEF k
    <3>. QED
      BY <1>4, <1>5, <1>9, <3>1, Zenon
  <2>. QED
    BY <2>1, <2>2
<1>11. w = Sealed
  <2>1. w = [i \in 1 .. n + CipherBlock |-> w[i]]
    <3>1. w \in [1 .. Len(w) -> Sendable]
      BY <1>3, SeqIsList
    <3>. QED
      BY <1>2, <3>1
  <2>2. Sealed = [i \in 1 .. n + CipherBlock |-> Sealed[i]]
    BY <1>4, <1>5, Zenon DEF Lists
  <2>3. [i \in 1 .. n + CipherBlock |-> w[i]] = [i \in 1 .. n + CipherBlock |-> Sealed[i]]
    BY <1>10, Zenon
  <2>. QED
    BY <2>1, <2>2, <2>3, Zenon
<1>12. a = [nonce |-> a.nonce, aad |-> a.aad, wire |-> a.wire]
  BY <1>2 DEF Arrivals
<1>13. a = Aead!Sent
  BY <1>1, <1>11, <1>12, Zenon DEF Aead!Sent, w
<1>. QED
  BY <1>1, <1>13

\* What opening gives: nothing for what is too short, zeros under another tag, the text.
Opens(nonce, aad, w, result) ==
  LET n == Len(w) - CipherBlock
      text == Aead!Slice(w, 0, n)
  IN  result = IF Len(w) < CipherBlock THEN [good |-> FALSE, out |-> out]
               ELSE IF TagOf(job.scheme, nonce, aad, text) # Aead!Slice(w, n, CipherBlock)
                 THEN [good |-> FALSE, out |-> Aead!Zeros(n)]
               ELSE [good |-> TRUE, out |-> Ciphered(job.scheme, nonce, text)]

LEMMA OpenIs ==
  ASSUME job \in Job, NEW B, NEW nonce, NEW aad, NEW w, w \in Seq(B), NEW result,
         result = IF job.scheme = "gcm" THEN Aead!aes256_gcm_decrypt(nonce, aad, w)
                  ELSE Aead!chacha20_poly1305_decrypt(nonce, aad, w)
  PROVE  Opens(nonce, aad, w, result)
<1> DEFINE n == Len(w) - CipherBlock
           text == Aead!Slice(w, 0, n)
           good == TagOf(job.scheme, nonce, aad, text) = Aead!Slice(w, n, CipherBlock)
<1>0. CipherBlock \in Nat /\ Len(w) \in Nat
  BY CipherShape, SeqIsList DEF Aead!AeadShape
<1>1. CASE Len(w) < CipherBlock
  <2>1. result = [good |-> FALSE, out |-> out]
    BY <1>1, Zenon DEF Aead!aes256_gcm_decrypt, Aead!chacha20_poly1305_decrypt
  <2>. QED
    BY <1>1, <2>1, Zenon DEF Opens
<1>2. CASE ~(Len(w) < CipherBlock)
  <2>1. n \in Nat
    BY <1>0, <1>2
  <2>2. Lists(n, text)
    BY Zenon DEF Aead!Slice, Lists
  <2> HIDE DEF n, text
  <2>3. text \in Seq({text[i] : i \in 1 .. n})
    BY <2>1, <2>2, Listed
  <2>4. CASE job.scheme = "gcm"
    <3>1. Aead!gcm_ctr_crypt(text, nonce, Aead!J0) = Ciphered(job.scheme, nonce, text)
      BY <2>3, <2>4, CtrIs DEF Ciphered
    <3>2. Aead!gcm_compute_tag(nonce, aad, text) = TagOf(job.scheme, nonce, aad, text)
      BY <2>4, Zenon DEF TagOf
    <3>3. result = IF Aead!gcm_compute_tag(nonce, aad, text) # Aead!Slice(w, n, CipherBlock)
                     THEN [good |-> FALSE, out |-> Aead!Zeros(n)]
                   ELSE [good |-> TRUE, out |-> Aead!gcm_ctr_crypt(text, nonce, Aead!J0)]
      BY <1>2, <2>4, Zenon DEF Aead!aes256_gcm_decrypt, n, text
    <3>. QED
      BY <1>2, <3>1, <3>2, <3>3, Zenon DEF Opens, n, text
  <2>5. CASE job.scheme # "gcm"
    <3>1. Aead!chacha20_crypt(text, nonce, 1) = Ciphered(job.scheme, nonce, text)
      BY <2>3, <2>5, ChachaIs DEF Ciphered
    <3>2. Aead!poly1305_feed(nonce, aad, text) = TagOf(job.scheme, nonce, aad, text)
      BY <2>5, Zenon DEF TagOf
    <3>3. result = IF Aead!poly1305_feed(nonce, aad, text) # Aead!Slice(w, n, CipherBlock)
                     THEN [good |-> FALSE, out |-> Aead!Zeros(n)]
                   ELSE [good |-> TRUE, out |-> Aead!chacha20_crypt(text, nonce, 1)]
      BY <1>2, <2>5, Zenon DEF Aead!chacha20_poly1305_decrypt, n, text
    <3>. QED
      BY <1>2, <3>1, <3>2, <3>3, Zenon DEF Opens, n, text
  <2>. QED
    BY <2>4, <2>5
<1>. QED
  BY <1>1, <1>2

-----------------------------------------------------------------------------
(* What arrives. *)

LEMMA ZerosAre ==
  ASSUME NEW n, n \in Nat
  PROVE  /\ Aead!Zeros(n) \in Seq(Sendable) /\ Len(Aead!Zeros(n)) = n
         /\ Aead!Zeros(n) = Aead!Zeros(Len(Aead!Zeros(n)))
<1> DEFINE z == Aead!Zeros(n)
<1>1. {} \in Sendable
  BY DEF Sendable, Pieces
<1>2. z \in [1 .. n -> Sendable]
  BY <1>1 DEF Aead!Zeros
<1> HIDE DEF z
<1>3. z \in Seq(Sendable) /\ Len(z) = n
  BY <1>2, ListIsSeq
<1>4. z = Aead!Zeros(Len(z))
  BY <1>3, Zenon DEF z
<1>. QED
  BY <1>3, <1>4, Zenon DEF z

\* What is left of a list is one.
LEMMA SliceIs ==
  ASSUME NEW B, NEW s, s \in Seq(B), NEW from, NEW n, from \in Nat, n \in Nat, from + n <= Len(s)
  PROVE  Aead!Slice(s, from, n) \in Seq(B) /\ Len(Aead!Slice(s, from, n)) = n
<1>1. Len(s) \in Nat /\ s \in [1 .. Len(s) -> B]
  BY SeqIsList
<1>2. \A i \in 1 .. n : from + i \in 1 .. Len(s)
  BY <1>1
<1>3. \A i \in 1 .. n : s[from + i] \in B
  BY <1>1, <1>2
<1> DEFINE t == Aead!Slice(s, from, n)
<1>4. t \in [1 .. n -> B]
  BY <1>3 DEF Aead!Slice
<1> HIDE DEF t
<1>5. t \in Seq(B) /\ Len(t) = n
  BY <1>4, ListIsSeq
<1>. QED
  BY <1>5 DEF t

LEMMA HarmedAre ==
  ASSUME NEW s, s \in Seq(Pieces), NEW w \in Aead!Harmed(s)
  PROVE  w \in Seq(Sendable)
<1> DEFINE n == Len(s)
<1>0. CipherBlock \in Nat
  BY CipherShape DEF Aead!AeadShape
<1>1. n \in Nat /\ s \in [1 .. n -> Pieces]
  BY SeqIsList
<1>2. /\ {} \in Sendable /\ Pieces \subseteq Sendable
      /\ \A p \in Pieces : Aead!Added(p, Aead!Noise) \in Sendable
  BY DEF Sendable, Pieces
<1> HIDE DEF n
<1>3. \A i \in 1 .. n : s[i] \in Sendable /\ Aead!Added(s[i], Aead!Noise) \in Sendable
  BY <1>1, <1>2
<1>4. s \in Seq(Sendable)
  BY <1>2
<1>5. Aead!Zeros(CipherBlock) \o s \in Seq(Sendable)
  <2>1. Aead!Zeros(CipherBlock) \in Seq(Sendable)
    BY <1>0, ZerosAre
  <2>. QED
    BY <1>4, <2>1, Joined
<1>6. ASSUME NEW i \in 1 .. n PROVE Aead!Altered(s, i) \in Seq(Sendable)
  <2> DEFINE t == Aead!Altered(s, i)
  <2>1. s \in [1 .. n -> Sendable]
    BY <1>1, <1>2
  <2>2. t \in [1 .. n -> Sendable]
    BY <1>3, <2>1 DEF Aead!Altered
  <2> HIDE DEF t
  <2>3. t \in Seq(Sendable)
    BY <1>1, <2>2, ListIsSeq
  <2>. QED
    BY <2>3 DEF t
<1>7. ASSUME NEW i \in 1 .. n PROVE Aead!Without(s, i) \in Seq(Sendable)
  <2> DEFINE t == Aead!Without(s, i)
  <2>1. \A k \in 1 .. n - 1 : k \in 1 .. n /\ k + 1 \in 1 .. n
    BY <1>1
  <2>2. t \in [1 .. n - 1 -> Sendable]
    BY <1>3, <2>1 DEF Aead!Without, n
  <2>3. n - 1 \in Nat
    BY <1>1
  <2> HIDE DEF t
  <2>4. t \in Seq(Sendable)
    BY <2>2, <2>3, ListIsSeq
  <2>. QED
    BY <2>4 DEF t
<1>8. ASSUME NEW i \in 1 .. n + 1 PROVE Aead!WithZero(s, i) \in Seq(Sendable)
  <2> DEFINE t == Aead!WithZero(s, i)
             V(k) == IF k < i THEN s[k] ELSE IF k = i THEN {} ELSE s[k - 1]
  <2>1. ASSUME NEW k \in 1 .. n + 1 PROVE V(k) \in Sendable
    <3>1. (k < i => k \in 1 .. n) /\ (k # i /\ ~(k < i) => k - 1 \in 1 .. n)
      BY <1>1
    <3>. QED
      BY <1>2, <1>3, <3>1, Zenon
  <2>2. t = [k \in 1 .. n + 1 |-> V(k)]
    BY DEF Aead!WithZero, n
  <2> HIDE DEF V
  <2>3. t \in [1 .. n + 1 -> Sendable]
    BY <2>1, <2>2
  <2>4. n + 1 \in Nat
    BY <1>1
  <2> HIDE DEF t
  <2>5. t \in Seq(Sendable)
    BY <2>3, <2>4, ListIsSeq
  <2>. QED
    BY <2>5 DEF t
<1>9. ASSUME NEW i \in 1 .. n - CipherBlock PROVE Aead!Exchanged(s, i) \in Seq(Sendable)
  <2> DEFINE t == Aead!Exchanged(s, i)
  <2>1. i \in 1 .. n /\ i + CipherBlock \in 1 .. n
    BY <1>0, <1>1
  <2>2. s \in [1 .. n -> Sendable]
    BY <1>1, <1>2
  <2>3. t \in [1 .. n -> Sendable]
    BY <1>3, <2>1, <2>2 DEF Aead!Exchanged
  <2> HIDE DEF t
  <2>4. t \in Seq(Sendable)
    BY <1>1, <2>3, ListIsSeq
  <2>. QED
    BY <2>4 DEF t
<1>10. \/ w = s
       \/ w = Aead!Zeros(CipherBlock) \o s
       \/ \E i \in 1 .. n : w = Aead!Altered(s, i) \/ w = Aead!Without(s, i)
       \/ \E i \in 1 .. n + 1 : w = Aead!WithZero(s, i)
       \/ \E i \in 1 .. n - CipherBlock : w = Aead!Exchanged(s, i)
  BY Zenon DEF Aead!Harmed, n
<1>. QED
  BY <1>4, <1>5, <1>6, <1>7, <1>8, <1>9, <1>10, Zenon

\* Between data and message.
LEMMA MovedAre ==
  ASSUME job \in Job, wire = Sealed, NEW x \in Aead!Moved
  PROVE  x.aad \in Seq(Sendable) /\ x.wire \in Seq(Sendable)
<1> DEFINE aad == Aead!Aad
<1>0. /\ job.aad \in Nat /\ Len(aad) = job.aad /\ aad \in Seq(Sendable) /\ wire \in Seq(Sendable)
      /\ Len(wire) = job.text + CipherBlock
  <2>1. job.aad \in Nat /\ Len(aad) = job.aad /\ aad \in Seq(Pieces) /\ wire \in Seq(Pieces)
        /\ Len(wire) = job.text + CipherBlock
    BY JobIs, PiecesAre
  <2>2. Pieces \subseteq Sendable
    BY DEF Sendable
  <2> HIDE DEF aad
  <2>. QED
    BY <2>1, <2>2
<1>1. Len(wire) \in Nat /\ Len(wire) > 0
  <2>1. job.text \in Nat /\ CipherBlock \in Nat /\ CipherBlock > 0
    BY CipherShape, JobIs DEF Aead!AeadShape
  <2>. QED
    BY <1>0, <2>1
<1> DEFINE short == Aead!Slice(aad, 0, job.aad - 1)
           rest == Aead!Slice(wire, 1, Len(wire) - 1)
           more == <<aad[job.aad]>> \o wire
           long == Append(aad, wire[1])
<1>2. \/ job.aad # 0 /\ x = [aad |-> short, wire |-> more]
      \/ x = [aad |-> long, wire |-> rest]
  <2> HIDE DEF short, rest, more, long
  <2>1. Aead!Moved = (IF job.aad = 0 THEN {} ELSE {[aad |-> short, wire |-> more]})
                       \cup {[aad |-> long, wire |-> rest]}
    BY Zenon DEF Aead!Moved, short, rest, more, long, aad
  <2>. QED
    BY <2>1
<1> HIDE DEF aad
<1>3. CASE job.aad # 0 /\ x = [aad |-> short, wire |-> more]
  <2>1. job.aad - 1 \in Nat /\ 0 \in Nat /\ 0 + (job.aad - 1) <= Len(aad) /\ job.aad \in 1 .. Len(aad)
    BY <1>0, <1>3
  <2>2. short \in Seq(Sendable)
    BY <1>0, <2>1, SliceIs
  <2>3. aad[job.aad] \in Sendable
    BY <1>0, <2>1, SeqIsList
  <2>4. more \in Seq(Sendable)
    <3> DEFINE one == <<aad[job.aad]>>
    <3>1. one \in Seq(Sendable)
      BY <2>3
    <3> HIDE DEF one
    <3>2. one \o wire \in Seq(Sendable)
      BY <1>0, <3>1, Joined
    <3>. QED
      BY <3>2 DEF one
  <2> HIDE DEF short, more
  <2>. QED
    BY <1>3, <2>2, <2>4
<1>4. CASE x = [aad |-> long, wire |-> rest]
  <2>1. Len(wire) - 1 \in Nat /\ 1 \in Nat /\ 1 + (Len(wire) - 1) <= Len(wire) /\ 1 \in 1 .. Len(wire)
    BY <1>1
  <2>2. rest \in Seq(Sendable)
    BY <1>0, <2>1, SliceIs
  <2>3. wire[1] \in Sendable
    BY <1>0, <2>1, SeqIsList
  <2>4. long \in Seq(Sendable)
    BY <1>0, <2>3, AppendProperties
  <2> HIDE DEF long, rest
  <2>. QED
    BY <1>4, <2>2, <2>4
<1>. QED
  BY <1>2, <1>3, <1>4

-----------------------------------------------------------------------------
(* Sealing, arriving and opening keep the invariant. *)

\* While the job is the same, so is all that comes from it.
LEMMA JobStays ==
  ASSUME job' = job
  PROVE  /\ Aead!Text' = Aead!Text /\ Aead!Aad' = Aead!Aad /\ Job' = Job
         /\ Sealed' = Sealed /\ Arrivals' = Arrivals
<1>1. Aead!Text' = Aead!Text /\ Aead!Aad' = Aead!Aad
  BY Zenon DEF Aead!Text, Aead!Aad
<1>2. Ciphertext' = Ciphertext
  BY <1>1, Zenon DEF Ciphertext
<1>3. OwnTag' = OwnTag
  BY <1>1, <1>2, Zenon DEF OwnTag
<1>4. Sealed' = Sealed
  BY <1>2, <1>3, Zenon DEF Sealed
<1>5. Pieces' = Pieces
  BY <1>1, <1>4, Zenon DEF Pieces
<1>6. Sendable' = Sendable
  BY <1>5, Zenon DEF Sendable
<1>7. Arrivals' = Arrivals
  BY <1>6, Zenon DEF Arrivals
<1>8. Job' = Job
  BY DEF Job
<1>. QED
  BY <1>1, <1>4, <1>7, <1>8, Zenon

\* What the invariant says of one opening.
As(a, sent, good, o, text) ==
  IF a = sent THEN good /\ o = text ELSE ~good /\ o = Aead!Zeros(Len(o))

LEMMA OpenedThen ==
  ASSUME aeadStage' = "opened" => As(arrived', Aead!Sent', genuine', out', Aead!Text'),
         aeadStage' = "sealed" => Once(job', Aead!Text', wire')
  PROVE  SealedOpens'
BY Zenon DEF SealedOpens, Aead!Opened, As, Once

LEMMA SealKeeps ==
  ASSUME AeadInv, Aead!Seal
  PROVE  AeadInv'
<1>1. aeadStage' = "sealed" /\ job' = job /\ job \in Job
  BY DEF AeadInv, Aead!Seal
<1>2. wire' = Sealed
  <2>1. wire' = IF job.scheme = "gcm" THEN Aead!aes256_gcm_encrypt("own", Aead!Aad, Aead!Text)
                ELSE Aead!chacha20_poly1305_encrypt("own", Aead!Aad, Aead!Text)
    BY Zenon DEF Aead!Seal
  <2>2. Aead!Text \in Seq({Aead!Text[i] : i \in 1 .. job.text})
    BY <1>1, JobIs, TextIs, Listed
  <2>3. Seals(job.scheme, "own", Aead!Aad, Aead!Text, wire')
    <3>1. CASE job.scheme = "gcm"
      <4>1. wire' = Aead!aes256_gcm_encrypt("own", Aead!Aad, Aead!Text)
        BY <2>1, <3>1, Zenon
      <4>2. Seals("gcm", "own", Aead!Aad, Aead!Text, Aead!aes256_gcm_encrypt("own", Aead!Aad, Aead!Text))
        BY <2>2, SealIs
      <4>. QED
        BY <3>1, <4>1, <4>2, Zenon
    <3>2. CASE job.scheme # "gcm"
      <4>1. wire' = Aead!chacha20_poly1305_encrypt("own", Aead!Aad, Aead!Text)
        BY <2>1, <3>2, Zenon
      <4>2. Seals(job.scheme, "own", Aead!Aad, Aead!Text,
                  Aead!chacha20_poly1305_encrypt("own", Aead!Aad, Aead!Text))
        BY <2>2, <3>2, SealIs
      <4>. QED
        BY <4>1, <4>2, Zenon
    <3>. QED
      BY <3>1, <3>2
  <2>. QED
    BY <2>3, Zenon DEF Seals, Sealed, Ciphertext, OwnTag
<1>3. Sealed' = Sealed /\ Aead!Text' = Aead!Text /\ Job' = Job
  BY <1>1, JobStays
<1>4. Once(job', Aead!Text', wire')
  <2>1. Once(job, Aead!Text, wire')
    BY <1>1, <1>2, KeystreamOnce
  <2>. QED
    BY <1>1, <1>3, <2>1, Zenon
<1>5. SealedOpens'
  BY <1>1, <1>4, OpenedThen
<1>. QED
  BY <1>1, <1>2, <1>3, <1>5 DEF AeadInv

LEMMA ArriveKeeps ==
  ASSUME AeadInv, Aead!Arrive
  PROVE  AeadInv'
<1>1. /\ aeadStage = "sealed" /\ aeadStage' = "arrived" /\ job' = job /\ wire' = wire
      /\ job \in Job /\ wire = Sealed
  BY DEF AeadInv, Aead!Arrive
<1>2. Sealed' = Sealed /\ Arrivals' = Arrivals /\ Job' = Job
  BY <1>1, JobStays
<1>3. out' = Room(arrived'.wire)
  BY Zenon DEF Aead!Arrive, Room
<1>4. /\ Aead!Aad \in Seq(Pieces) /\ wire \in Seq(Pieces)
      /\ Aead!Aad \in Seq(Sendable) /\ wire \in Seq(Sendable) /\ Len(wire) \in Nat
  <2>1. Aead!Aad \in Seq(Pieces) /\ wire \in Seq(Pieces)
    BY <1>1, PiecesAre
  <2>2. Pieces \subseteq Sendable
    BY DEF Sendable
  <2>3. Len(wire) \in Nat
    BY <2>1, SeqIsList
  <2>. QED
    BY <2>1, <2>2, <2>3
<1>5. arrived' \in Arrivals
  <2>1. ASSUME NEW w \in Aead!Harmed(wire), arrived' = [Aead!Sent EXCEPT !.wire = w]
        PROVE  arrived' \in Arrivals
    <3>1. w \in Seq(Sendable)
      BY <1>4, HarmedAre
    <3>. QED
      BY <1>4, <2>1, <3>1 DEF Aead!Sent, Arrivals
  <2>2. ASSUME NEW a \in Aead!Harmed(Aead!Aad), arrived' = [Aead!Sent EXCEPT !.aad = a]
        PROVE  arrived' \in Arrivals
    <3>1. a \in Seq(Sendable)
      BY <1>4, HarmedAre
    <3>. QED
      BY <1>4, <2>2, <3>1 DEF Aead!Sent, Arrivals
  <2>3. ASSUME NEW x \in Aead!Moved, arrived' = [nonce |-> "own", aad |-> x.aad, wire |-> x.wire]
        PROVE  arrived' \in Arrivals
    <3>1. x.aad \in Seq(Sendable) /\ x.wire \in Seq(Sendable)
      BY <1>1, MovedAre
    <3>. QED
      BY <2>3, <3>1 DEF Arrivals
  <2>4. ASSUME NEW n \in 0 .. Aead!Least(Len(wire), 2 * CipherBlock),
               arrived' = [Aead!Sent EXCEPT !.wire = Aead!Slice(wire, 0, n)]
        PROVE  arrived' \in Arrivals
    <3>1. n \in Nat /\ 0 \in Nat /\ 0 + n <= Len(wire)
      <4>1. CipherBlock \in Nat
        BY CipherShape DEF Aead!AeadShape
      <4>. QED
        BY <1>4, <4>1 DEF Aead!Least
    <3>2. Aead!Slice(wire, 0, n) \in Seq(Sendable)
      BY <1>4, <3>1, SliceIs
    <3>. QED
      BY <1>4, <2>4, <3>2 DEF Aead!Sent, Arrivals
  <2>5. ASSUME arrived' = [Aead!Sent EXCEPT !.nonce = "other"]
        PROVE  arrived' \in Arrivals
    BY <1>4, <2>5 DEF Aead!Sent, Arrivals
  <2>. QED
    BY <2>1, <2>2, <2>3, <2>4, <2>5, Zenon DEF Aead!Arrive
<1>6. SealedOpens'
  BY <1>1, OpenedThen
<1>. QED
  BY <1>1, <1>2, <1>3, <1>5, <1>6, Zenon DEF AeadInv, Room

LEMMA OpenKeeps ==
  ASSUME AeadInv, Aead!Open
  PROVE  AeadInv'
<1> DEFINE w == arrived.wire
           n == Len(w) - CipherBlock
           text == Aead!Slice(w, 0, n)
           result == IF job.scheme = "gcm"
                     THEN Aead!aes256_gcm_decrypt(arrived.nonce, arrived.aad, arrived.wire)
                     ELSE Aead!chacha20_poly1305_decrypt(arrived.nonce, arrived.aad, arrived.wire)
<1>1. /\ aeadStage = "arrived" /\ aeadStage' = "opened" /\ job' = job /\ wire' = wire /\ arrived' = arrived
      /\ job \in Job /\ wire = Sealed /\ arrived \in Arrivals /\ out = Room(w)
  BY DEF AeadInv, Aead!Open
<1>2. genuine' = result.good /\ out' = result.out
  BY Zenon DEF Aead!Open
<1>3. w \in Seq(Sendable)
  BY <1>1 DEF Arrivals
<1>4. result = IF Len(w) < CipherBlock THEN [good |-> FALSE, out |-> out]
               ELSE IF TagOf(job.scheme, arrived.nonce, arrived.aad, text) # Aead!Slice(w, n, CipherBlock)
                 THEN [good |-> FALSE, out |-> Aead!Zeros(n)]
               ELSE [good |-> TRUE, out |-> Ciphered(job.scheme, arrived.nonce, text)]
  <2> HIDE DEF w
  <2>1. result = IF job.scheme = "gcm" THEN Aead!aes256_gcm_decrypt(arrived.nonce, arrived.aad, w)
                 ELSE Aead!chacha20_poly1305_decrypt(arrived.nonce, arrived.aad, w)
    BY Zenon DEF w
  <2> HIDE DEF result, n, text
  <2>2. Opens(arrived.nonce, arrived.aad, w, result)
    BY <1>1, <1>3, <2>1, OpenIs
  <2>. QED
    BY <2>2, Zenon DEF Opens, n, text
<1>5. CipherBlock \in Nat /\ CipherBlock > 0 /\ Len(w) \in Nat
  <2>1. Len(w) \in Nat
    BY <1>3, SeqIsList
  <2>. QED
    BY <2>1, CipherShape DEF Aead!AeadShape
<1>6. /\ Len(Sealed) = job.text + CipherBlock /\ job.text \in Nat
      /\ Aead!Slice(Sealed, 0, job.text) = Ciphertext
      /\ Aead!Slice(Sealed, job.text, CipherBlock) = OwnTag
  BY <1>1, WireIs, JobIs
<1>7. arrived = Aead!Sent => w = Sealed /\ arrived.nonce = "own" /\ arrived.aad = Aead!Aad
  BY <1>1 DEF Aead!Sent
<1> HIDE DEF result, w
<1>8. As(arrived, Aead!Sent, genuine', out', Aead!Text)
  <2>1. CASE Len(w) < CipherBlock
    <3>1. arrived # Aead!Sent
      <4>1. w # Sealed
        BY <1>5, <1>6, <2>1
      <4>. QED
        BY <1>7, <4>1
    <3>2. genuine' = FALSE /\ out' = out
      BY <1>2, <1>4, <2>1
    <3>3. out = Aead!Zeros(0)
      BY <1>1, <2>1, Zenon DEF Room
    <3>4. Aead!Zeros(0) = Aead!Zeros(Len(Aead!Zeros(0)))
      BY ZerosAre
    <3>. QED
      BY <3>1, <3>2, <3>3, <3>4, Zenon DEF As
  <2>2. CASE ~(Len(w) < CipherBlock)
             /\ TagOf(job.scheme, arrived.nonce, arrived.aad, text) # Aead!Slice(w, n, CipherBlock)
    <3>0. n \in Nat
      BY <1>5, <2>2
    <3>1. arrived # Aead!Sent
      <4>1. SUFFICES ASSUME arrived = Aead!Sent PROVE FALSE
        OBVIOUS
      <4>2. w = Sealed /\ arrived.nonce = "own" /\ arrived.aad = Aead!Aad
        BY <1>7, <4>1
      <4>3. n = job.text
        BY <1>5, <1>6, <4>2
      <4>4. text = Ciphertext
        BY <1>6, <4>2, <4>3, Zenon
      <4> HIDE DEF n, text
      <4>. QED
        BY <1>6, <2>2, <4>2, <4>3, <4>4, Zenon DEF OwnTag
    <3> HIDE DEF n, text
    <3>2. genuine' = FALSE /\ out' = Aead!Zeros(n)
      BY <1>2, <1>4, <2>2
    <3>3. Aead!Zeros(n) = Aead!Zeros(Len(Aead!Zeros(n)))
      BY <3>0, ZerosAre
    <3>. QED
      BY <3>1, <3>2, <3>3, Zenon DEF As
  <2>3. CASE ~(Len(w) < CipherBlock)
             /\ TagOf(job.scheme, arrived.nonce, arrived.aad, text) = Aead!Slice(w, n, CipherBlock)
    <3>0. n \in Nat /\ Len(w) = n + CipherBlock
      BY <1>5, <2>3
    <3> HIDE DEF n, text
    <3>1. Good(arrived, n, text)
      BY <1>1, <2>3, <3>0, Zenon DEF Good, text, w
    <3>2. arrived = Aead!Sent /\ arrived.nonce = "own" /\ text = Ciphertext
      BY <1>1, <3>1, GoodIsSent
    <3>3. genuine' = TRUE /\ out' = Ciphered(job.scheme, arrived.nonce, text)
      BY <1>2, <1>4, <2>3
    <3>4. Ciphered(job.scheme, "own", Ciphered(job.scheme, "own", Aead!Text)) = Aead!Text
      <4>1. Aead!Text \in Seq({Aead!Text[i] : i \in 1 .. job.text})
        BY <1>1, JobIs, TextIs, Listed
      <4>. QED
        BY <4>1, StreamTwice
    <3>5. out' = Aead!Text
      BY <3>2, <3>3, <3>4, Zenon DEF Ciphertext
    <3>. QED
      BY <3>2, <3>3, <3>5, Zenon DEF As
  <2>. QED
    BY <2>1, <2>2, <2>3, Zenon
<1>9. Sealed' = Sealed /\ Aead!Text' = Aead!Text /\ Aead!Aad' = Aead!Aad /\ Job' = Job
  BY <1>1, JobStays
<1>10. As(arrived', Aead!Sent', genuine', out', Aead!Text')
  <2>1. Aead!Sent' = Aead!Sent
    BY <1>1, <1>9, Zenon DEF Aead!Sent
  <2>. QED
    BY <1>1, <1>8, <1>9, <2>1, Zenon
<1>11. SealedOpens'
  BY <1>1, <1>10, OpenedThen
<1>. QED
  BY <1>1, <1>9, <1>11 DEF AeadInv

\* Whatever becomes of a sealed message on its way, of the kinds in Arrive, it is opened only
\* as it was sealed, with nothing left of it otherwise, and its keystream is its own:
\* aes256_gcm_encrypt and _decrypt, chacha20_poly1305_encrypt and _decrypt.
THEOREM OpensAsSealed == Aead!Spec => []SealedOpens
<1>1. Aead!Init => AeadInv
  <2>1. ASSUME Aead!Init PROVE aeadStage = "job" /\ job \in Job
    BY <2>1 DEF Aead!Init, Job
  <2>2. ASSUME Aead!Init PROVE SealedOpens
    BY <2>1, <2>2, Zenon DEF SealedOpens, Aead!Opened
  <2>. QED
    BY <2>1, <2>2 DEF AeadInv
<1>2. AeadInv /\ [Aead!Next]_Aead!aeadVars => AeadInv'
  <2> SUFFICES ASSUME AeadInv, [Aead!Next]_Aead!aeadVars PROVE AeadInv'
    OBVIOUS
  <2>1. CASE Aead!Seal
    BY <2>1, SealKeeps
  <2>2. CASE Aead!Arrive
    BY <2>2, ArriveKeeps
  <2>3. CASE Aead!Open
    BY <2>3, OpenKeeps
  <2>4. CASE UNCHANGED Aead!aeadVars
    <3>1. /\ aeadStage' = aeadStage /\ job' = job /\ wire' = wire /\ arrived' = arrived
          /\ out' = out /\ genuine' = genuine
      BY <2>4 DEF Aead!aeadVars
    <3>2. /\ Sealed' = Sealed /\ Arrivals' = Arrivals /\ Job' = Job
          /\ Aead!Text' = Aead!Text /\ Aead!Aad' = Aead!Aad
      BY <3>1, JobStays
    <3>3. Aead!Sent' = Aead!Sent
      BY <3>1, <3>2, Zenon DEF Aead!Sent
    <3>4. SealedOpens'
      <4>1. aeadStage = "opened" => As(arrived, Aead!Sent, genuine, out, Aead!Text)
        BY Zenon DEF AeadInv, SealedOpens, Aead!Opened, As
      <4>2. aeadStage = "sealed" => Once(job, Aead!Text, wire)
        BY Zenon DEF AeadInv, SealedOpens, Aead!Opened, Once
      <4>3. /\ aeadStage' = "opened" => As(arrived', Aead!Sent', genuine', out', Aead!Text')
            /\ aeadStage' = "sealed" => Once(job', Aead!Text', wire')
        BY <3>1, <3>2, <3>3, <4>1, <4>2, Zenon
      <4>. QED
        BY <4>3, OpenedThen
    <3>. QED
      BY <3>1, <3>2, <3>4, Zenon DEF AeadInv, Room
  <2>. QED
    BY <2>1, <2>2, <2>3, <2>4, Zenon DEF Aead!Next
<1>3. AeadInv => SealedOpens
  BY DEF AeadInv
<1>. QED
  BY <1>1, <1>2, <1>3, PTL DEF Aead!Spec

-----------------------------------------------------------------------------
(* Functions that are defined by recursion over a range. *)

\* f starts with "start", and each value follows from the one before.
IsSteps(S, n, start, step, f) ==
  /\ f \in [0 .. n -> S]
  /\ f[0] = start
  /\ \A i \in 1 .. n : f[i] = step[i][f[i - 1]]

\* The function exists whose first value is given and whose next ones follow by a step each.
LEMMA StepsRun ==
  ASSUME NEW S, NEW n \in Nat, NEW start \in S, NEW step \in [Nat -> [S -> S]]
  PROVE  \E f : IsSteps(S, n, start, step, f)
<1> DEFINE T == Nat \X S
           turn == [t \in T |-> <<t[1] + 1, step[t[1] + 1][t[2]]>>]
           done == [t \in T |-> 0]
<1>1. IsLoop(T, <<0, start>>, turn, 0, done)
  <2>1. turn \in [T -> T]
    <3> SUFFICES ASSUME NEW t \in T PROVE <<t[1] + 1, step[t[1] + 1][t[2]]>> \in T
      OBVIOUS
    <3>1. t[1] + 1 \in Nat /\ t[2] \in S
      OBVIOUS
    <3>2. step[t[1] + 1] \in [S -> S]
      BY <3>1
    <3>. QED
      BY <3>1, <3>2
  <2>2. done \in [T -> 0 .. 0] /\ <<0, start>> \in T
    OBVIOUS
  <2>3. \A t \in T : done[turn[t]] = 0
    BY <2>1
  <2>. QED
    BY <2>1, <2>2, <2>3 DEF IsLoop
<1>2. PICK g \in [Nat -> T] : IsRun(T, <<0, start>>, turn, g)
  <2> HIDE DEF T, turn, done
  <2>. QED
    BY <1>1, LoopRuns
<1>3. g[0] = <<0, start>> /\ \A k \in Nat : g[k] \in T /\ g[k + 1] = turn[g[k]]
  BY <1>2 DEF IsRun
<1>4. \A k \in Nat : g[k][1] = k
  <2> DEFINE U == {k \in Nat : g[k][1] = k}
  <2>1. 0 \in U
    BY <1>3
  <2>2. ASSUME NEW k \in U PROVE k + 1 \in U
    <3>1. k \in Nat /\ g[k] \in T /\ g[k][1] = k /\ g[k + 1] = turn[g[k]]
      BY <1>3
    <3>2. g[k + 1][1] = g[k][1] + 1
      BY <3>1
    <3>. QED
      BY <3>1, <3>2
  <2>3. U = Nat
    <3> HIDE DEF U
    <3>1. U \subseteq Nat
      BY DEF U
    <3>. QED
      BY <2>1, <2>2, <3>1, SetInduction
  <2>. QED
    BY <2>3
<1> DEFINE f == [i \in 0 .. n |-> g[i][2]]
<1>5. f \in [0 .. n -> S]
  BY <1>3
<1>6. f[0] = start
  BY <1>3
<1>7. ASSUME NEW i \in 1 .. n PROVE f[i] = step[i][f[i - 1]]
  <2>1. i - 1 \in Nat /\ (i - 1) + 1 = i /\ i - 1 \in 0 .. n /\ i \in 0 .. n
    OBVIOUS
  <2>2. g[i] = turn[g[i - 1]] /\ g[i - 1] \in T /\ g[i - 1][1] = i - 1
    BY <1>3, <1>4, <2>1
  <2>3. g[i][2] = step[i][g[i - 1][2]]
    BY <2>1, <2>2
  <2>. QED
    BY <2>1, <2>3
<1>. QED
  BY <1>5, <1>6, <1>7 DEF IsSteps

\* The value of a number, from its top word down.
IsValue(W, words, n, top) ==
  top[0] = 0 /\ \A i \in 1 .. n : top[i] = top[i - 1] * W + words[n + 1 - i]

LEMMA ValueIs ==
  ASSUME NEW W \in Int, NEW n \in Nat, NEW words \in [1 .. n -> Int], Len(words) = n
  PROVE  \E top \in [0 .. n -> Int] : IsValue(W, words, n, top) /\ Field!Value(W, words) = top[n]
<1> DEFINE step == [i \in Nat |-> [v \in Int |-> IF i \in 1 .. n
       THEN v * W + words[n + 1 - i] ELSE v]]
           Is(top) == top = [i \in 0 .. n |-> IF i = 0 THEN 0
               ELSE top[i - 1] * W + words[n + 1 - i]]
<1>2. PICK f : IsSteps(Int, n, 0, step, f)
  <2>1. step \in [Nat -> [Int -> Int]]
    <3> SUFFICES ASSUME NEW i \in Nat, NEW v \in Int
                 PROVE  (IF i \in 1 .. n THEN v * W + words[n + 1 - i] ELSE v) \in Int
      OBVIOUS
    <3>1. i \in 1 .. n => n + 1 - i \in 1 .. n
      OBVIOUS
    <3>2. v * W \in Int
      OBVIOUS
    <3>. QED
      BY <3>1, <3>2
  <2>2. 0 \in Int
    OBVIOUS
  <2> HIDE DEF step
  <2>. QED
    BY <2>1, <2>2, StepsRun, Zenon
<1>3. ASSUME NEW i \in 1 .. n PROVE f[i] = f[i - 1] * W + words[n + 1 - i]
  <2>1. i \in Nat /\ i - 1 \in 0 .. n
    OBVIOUS
  <2>2. f[i - 1] \in Int
    BY <1>2, <2>1 DEF IsSteps
  <2>. QED
    BY <1>2, <2>1, <2>2 DEF IsSteps
<1>4. Is(f)
  BY <1>2, <1>3 DEF IsSteps
<1> DEFINE top == CHOOSE top : Is(top)
<1>5. Is(top)
  <2> HIDE DEF Is
  <2>. QED
    BY <1>4, Zenon
<1>6. Field!Value(W, words) = top[n]
  BY DEF Field!Value
<1> HIDE DEF top
<1>7. top[0] = 0 /\ \A i \in 1 .. n : top[i] = top[i - 1] * W + words[n + 1 - i]
  <2>1. \A i \in 0 .. n : top[i] = IF i = 0 THEN 0 ELSE top[i - 1] * W + words[n + 1 - i]
    BY <1>5, Zenon
  <2>2. 0 \in 0 .. n
    OBVIOUS
  <2>3. \A i \in 1 .. n : i \in 0 .. n /\ i # 0
    OBVIOUS
  <2>. QED
    BY <2>1, <2>2, <2>3, Zenon
<1>8. top \in [0 .. n -> Int]
  <2> DEFINE U == {i \in Nat : i <= n => top[i] \in Int}
  <2>1. 0 \in U
    BY <1>7
  <2>2. ASSUME NEW i \in U PROVE i + 1 \in U
    <3>1. SUFFICES ASSUME i + 1 <= n PROVE top[i + 1] \in Int
      OBVIOUS
    <3>2. i + 1 \in 1 .. n /\ (i + 1) - 1 = i /\ top[i] \in Int
      BY <3>1
    <3>3. top[i + 1] = top[i] * W + words[n + 1 - (i + 1)]
      BY <1>7, <3>2, Zenon
    <3>4. n + 1 - (i + 1) \in 1 .. n
      BY <3>2
    <3>5. words[n + 1 - (i + 1)] \in Int
      BY <3>4, Zenon
    <3>6. \A x, y \in Int : x * W + y \in Int
      OBVIOUS
    <3>. QED
      BY <3>2, <3>3, <3>5, <3>6, Zenon
  <2>3. U = Nat
    <3> HIDE DEF U
    <3>1. U \subseteq Nat
      BY DEF U
    <3>. QED
      BY <2>1, <2>2, <3>1, SetInduction
  <2>4. \A i \in 0 .. n : top[i] \in Int
    BY <2>3
  <2>. QED
    BY <1>5, <2>4
<1>. QED
  BY <1>6, <1>7, <1>8 DEF IsValue

-----------------------------------------------------------------------------
(* Carries. *)

\* The words and the carries of a propagation, o[i] that out of word i.
IsCarried(W, r, n, words, o) ==
  /\ words \in [1 .. n -> 0 .. W - 1] /\ Len(words) = n
  /\ o[0] = 0 /\ \A i \in 0 .. n : o[i] \in Int
  /\ \A i \in 1 .. n : r[i] = words[i] + W * o[i] - o[i - 1]

IsPropagated(W, r, n, c) ==
  \E words, o : IsCarried(W, r, n, words, o) /\ c = [words |-> words, over |-> o[n]]

\* One word more.
Carry(W, r, i, last) ==
  [words |-> Append(last.words, (r[i] + last.over) % W), over |-> (r[i] + last.over) \div W]

Carried(W) == [words : Seq(0 .. W - 1), over : Int]

\* It leaves the words before it alone.
IsCarry(W, r, i, last, next) ==
  /\ next \in Carried(W)
  /\ Len(next.words) = Len(last.words) + 1
  /\ \A j \in 1 .. Len(last.words) : next.words[j] = last.words[j]
  /\ r[i] + last.over = next.words[Len(last.words) + 1] + W * next.over

LEMMA CarryIs ==
  ASSUME NEW W \in Nat, W >= 2, NEW r, NEW i, r[i] \in Int, NEW last \in Carried(W)
  PROVE  IsCarry(W, r, i, last, Carry(W, r, i, last))
<1> DEFINE sum == r[i] + last.over
<1>1. last.words \in Seq(0 .. W - 1) /\ last.over \in Int /\ sum \in Int
  BY DEF Carried
<1>2. sum % W \in 0 .. W - 1 /\ sum \div W \in Int /\ sum = (sum % W) + W * (sum \div W)
  <2> HIDE DEF sum
  <2>. QED
    BY <1>1
<1> HIDE DEF sum
<1>3. Carry(W, r, i, last) = [words |-> Append(last.words, sum % W), over |-> sum \div W]
  BY DEF Carry, sum
<1>4. /\ Append(last.words, sum % W) \in Seq(0 .. W - 1)
      /\ Len(Append(last.words, sum % W)) = Len(last.words) + 1
      /\ \A j \in 1 .. Len(last.words) : Append(last.words, sum % W)[j] = last.words[j]
      /\ Append(last.words, sum % W)[Len(last.words) + 1] = sum % W
  BY <1>1, <1>2, AppendProperties
<1>5. sum = r[i] + last.over
  BY DEF sum
<1>. QED
  BY <1>2, <1>3, <1>4, <1>5 DEF Carried, IsCarry

LEMMA PropagateIs ==
  ASSUME NEW W \in Nat, W >= 2, NEW n \in Nat, NEW r, Len(r) = n, \A i \in 1 .. n : r[i] \in Int
  PROVE  IsPropagated(W, r, n, Field!Propagate(W, r))
<1> DEFINE none == [words |-> <<>>, over |-> 0]
           step == [i \in Nat |-> [v \in Carried(W) |-> IF i \in 1 .. n
               THEN Carry(W, r, i, v) ELSE v]]
           Is(c) == c = [i \in 0 .. n |-> IF i = 0 THEN none ELSE Carry(W, r, i, c[i - 1])]
<1>1. none \in Carried(W)
  BY DEF Carried
<1>2. PICK f : IsSteps(Carried(W), n, none, step, f)
  <2>1. step \in [Nat -> [Carried(W) -> Carried(W)]]
    <3> SUFFICES ASSUME NEW i \in Nat, NEW v \in Carried(W)
                 PROVE  (IF i \in 1 .. n THEN Carry(W, r, i, v) ELSE v) \in Carried(W)
      OBVIOUS
    <3>. QED
      BY CarryIs DEF IsCarry
  <2> HIDE DEF step, none
  <2>. QED
    BY <1>1, <2>1, StepsRun, Zenon
<1>3. ASSUME NEW i \in 1 .. n PROVE f[i] = Carry(W, r, i, f[i - 1])
  <2>1. i \in Nat /\ i - 1 \in 0 .. n
    OBVIOUS
  <2>2. f[i - 1] \in Carried(W) /\ f[i] = step[i][f[i - 1]]
    BY <1>2, <2>1, Zenon DEF IsSteps
  <2>. QED
    BY <2>1, <2>2, Zenon
<1>4. Is(f)
  <2> HIDE DEF none
  <2>1. f = [i \in 0 .. n |-> f[i]] /\ f[0] = none
    BY <1>2 DEF IsSteps
  <2>2. \A i \in 0 .. n : i # 0 => i \in 1 .. n
    OBVIOUS
  <2>3. \A i \in 0 .. n : f[i] = IF i = 0 THEN none ELSE Carry(W, r, i, f[i - 1])
    BY <1>3, <2>1, <2>2, Zenon
  <2>. QED
    BY <2>1, <2>3, Zenon
<1> DEFINE c == CHOOSE c : Is(c)
<1>5. Is(c)
  <2> HIDE DEF Is
  <2>. QED
    BY <1>4, Zenon
<1>6. Field!Propagate(W, r) = c[n]
  BY DEF Field!Propagate, Carry
<1> HIDE DEF c
<1>7. c[0] = none /\ \A i \in 1 .. n : c[i] = Carry(W, r, i, c[i - 1])
  <2> HIDE DEF none
  <2>1. \A i \in 0 .. n : c[i] = IF i = 0 THEN none ELSE Carry(W, r, i, c[i - 1])
    BY <1>5, Zenon
  <2>2. 0 \in 0 .. n
    OBVIOUS
  <2>3. \A i \in 1 .. n : i \in 0 .. n /\ i # 0
    OBVIOUS
  <2>. QED
    BY <2>1, <2>2, <2>3, Zenon
<1> DEFINE Remains(i) ==
             /\ c[i] \in Carried(W) /\ Len(c[i].words) = i
             /\ \A j \in 1 .. i : r[j] + c[j - 1].over = c[i].words[j] + W * c[j].over
<1>8. \A i \in 0 .. n : Remains(i)
  <2> DEFINE U == {i \in Nat : i <= n => Remains(i)}
  <2>1. 0 \in U
    BY <1>1, <1>7
  <2>2. ASSUME NEW i \in U PROVE i + 1 \in U
    <3>1. SUFFICES ASSUME i + 1 <= n PROVE Remains(i + 1)
      OBVIOUS
    <3>2. i + 1 \in 1 .. n /\ (i + 1) - 1 = i /\ Remains(i) /\ i \in Nat
      BY <3>1
    <3>3. c[i + 1] = Carry(W, r, i + 1, c[i])
      BY <1>7, <3>2, Zenon
    <3>4. /\ c[i + 1] \in Carried(W)
          /\ Len(c[i + 1].words) = Len(c[i].words) + 1
          /\ \A j \in 1 .. Len(c[i].words) : c[i + 1].words[j] = c[i].words[j]
          /\ r[i + 1] + c[i].over = c[i + 1].words[Len(c[i].words) + 1] + W * c[i + 1].over
      <4> DEFINE k == i + 1
      <4>1. r[k] \in Int /\ c[i] \in Carried(W) /\ c[k] = Carry(W, r, k, c[i])
        BY <3>2, <3>3
      <4> HIDE DEF k, c, Good, U
      <4>2. IsCarry(W, r, k, c[i], Carry(W, r, k, c[i]))
        BY <4>1, CarryIs, Zenon
      <4>. QED
        BY <4>1, <4>2 DEF k, IsCarry
    <3>5. \A j \in 1 .. i + 1 : j \in 1 .. i \/ j = i + 1
      BY <3>2
    <3>6. ASSUME NEW j \in 1 .. i + 1
          PROVE  r[j] + c[j - 1].over = c[i + 1].words[j] + W * c[j].over
      <4>1. CASE j \in 1 .. i
        BY <3>2, <3>4, <4>1, Zenon
      <4>2. CASE j = i + 1
        BY <3>2, <3>4, <4>2, Zenon
      <4>. QED
        BY <3>5, <4>1, <4>2
    <3>. QED
      BY <3>2, <3>4, <3>6
  <2>3. U = Nat
    <3> HIDE DEF U
    <3>1. U \subseteq Nat
      BY DEF U
    <3>. QED
      BY <2>1, <2>2, <3>1, SetInduction
  <2> HIDE DEF Remains
  <2>. QED
    BY <2>3
<1> DEFINE o == [i \in 0 .. n |-> c[i].over]
<1>9. IsCarried(W, r, n, c[n].words, o)
  <2>1. n \in 0 .. n /\ 0 \in 0 .. n /\ \A i \in 1 .. n : i \in 0 .. n /\ i - 1 \in 0 .. n
    OBVIOUS
  <2>2. c[n].words \in [1 .. n -> 0 .. W - 1] /\ Len(c[n].words) = n
    <3>1. c[n].words \in Seq(0 .. W - 1) /\ Len(c[n].words) = n
      BY <1>8, <2>1 DEF Carried
    <3>. QED
      BY <3>1, LenProperties
  <2>3. o[0] = 0 /\ \A i \in 0 .. n : o[i] \in Int
    <3>1. o[0] = 0
      BY <1>7, <2>1
    <3>2. \A i \in 0 .. n : c[i].over \in Int
      BY <1>8 DEF Carried
    <3>. QED
      BY <3>1, <3>2
  <2>4. ASSUME NEW i \in 1 .. n PROVE r[i] = c[n].words[i] + W * o[i] - o[i - 1]
    <3>1. r[i] + o[i - 1] = c[n].words[i] + W * o[i]
      BY <1>8, <2>1, Zenon
    <3>2. o[i] \in Int /\ o[i - 1] \in Int
      BY <2>1, <2>3, Zenon
    <3>3. c[n].words[i] \in Int
      BY <2>2
    <3> HIDE DEF o
    <3> DEFINE u == W * o[i]
               v == c[n].words[i]
               x == o[i - 1]
               y == r[i]
    <3>4. u \in Int /\ v \in Int /\ x \in Int /\ y \in Int /\ y + x = v + u
      BY <3>1, <3>2, <3>3
    <3> HIDE DEF u, v, x, y
    <3>5. y = v + u - x
      BY <3>4
    <3>. QED
      BY <3>5 DEF u, v, x, y
  <2> HIDE DEF o
  <2>. QED
    BY <2>2, <2>3, <2>4 DEF IsCarried
<1>10. Field!Propagate(W, r) = [words |-> c[n].words, over |-> o[n]]
  <2>1. c[n] \in Carried(W) /\ n \in 0 .. n
    BY <1>8
  <2>. QED
    BY <1>6, <2>1 DEF Carried
<1>. QED
  BY <1>9, <1>10, Zenon DEF IsPropagated

-----------------------------------------------------------------------------
(* Numbers of eight and of twelve words. *)

\* 8 words, the lowest first, below a number x, and by themselves.
Below8(W, x, a1, a2, a3, a4, a5, a6, a7, a8) ==
  (((((((x * W + a8) * W + a7) * W + a6) * W + a5) * W + a4) * W + a3)
  * W + a2) * W + a1
Words8(W, a1, a2, a3, a4, a5, a6, a7, a8) ==
  Below8(W, 0, a1, a2, a3, a4, a5, a6, a7, a8)
Base8(W) == W * W * W * W * W * W * W * W

IsBelow8(W, x, a1, a2, a3, a4, a5, a6, a7, a8) ==
  Below8(W, x, a1, a2, a3, a4, a5, a6, a7, a8)
    = Words8(W, a1, a2, a3, a4, a5, a6, a7, a8) + x * Base8(W)

LEMMA BelowIs8 ==
  ASSUME NEW W \in Int, NEW x \in Int, NEW a1 \in Int, NEW a2 \in Int,
         NEW a3 \in Int, NEW a4 \in Int, NEW a5 \in Int, NEW a6 \in Int,
         NEW a7 \in Int, NEW a8 \in Int
  PROVE  IsBelow8(W, x, a1, a2, a3, a4, a5, a6, a7, a8)
BY SMTT(30) DEF Below8, Words8, Base8, IsBelow8

LEMMA Words8Type ==
  ASSUME NEW W \in Int, NEW a1 \in Int, NEW a2 \in Int, NEW a3 \in Int,
         NEW a4 \in Int, NEW a5 \in Int, NEW a6 \in Int, NEW a7 \in Int,
         NEW a8 \in Int
  PROVE  Words8(W, a1, a2, a3, a4, a5, a6, a7, a8) \in Int
BY DEF Below8, Words8

Eight(W, a) == Words8(W, a[1], a[2], a[3], a[4], a[5], a[6], a[7], a[8])
EightAbove(W, a) ==
  Words8(W, a[9], a[10], a[11], a[12], a[13], a[14], a[15], a[16])

LEMMA ValueOfEight ==
  ASSUME NEW W \in Int, NEW a \in [1 .. 8 -> Int], Len(a) = 8
  PROVE  Field!Value(W, a) = Eight(W, a) /\ Eight(W, a) \in Int
<1>1. PICK top \in [0 .. 8 -> Int] : IsValue(W, a, 8, top) /\ Field!Value(W, a) = top[8]
  <2>1. 8 \in Nat
    OBVIOUS
  <2>. QED
    BY <2>1, ValueIs, Zenon
<1>2. /\ top[0] = 0 /\ top[1] = top[0] * W + a[8]
      /\ top[2] = top[1] * W + a[7] /\ top[3] = top[2] * W + a[6]
      /\ top[4] = top[3] * W + a[5] /\ top[5] = top[4] * W + a[4]
      /\ top[6] = top[5] * W + a[3] /\ top[7] = top[6] * W + a[2]
      /\ top[8] = top[7] * W + a[1]
  BY <1>1 DEF IsValue
<1>3. top[8] = Eight(W, a)
  BY <1>2 DEF Eight, Words8, Below8
<1>. QED
  BY <1>1, <1>3

LEMMA ValueOfTwiceEight ==
  ASSUME NEW W \in Int, NEW a \in [1 .. 16 -> Int], Len(a) = 16
  PROVE  Field!Value(W, a) = Eight(W, a) + EightAbove(W, a) * Base8(W)
<1>1. PICK top \in [0 .. 16 -> Int] : IsValue(W, a, 16, top) /\ Field!Value(W, a) = top[16]
  <2>1. 16 \in Nat
    OBVIOUS
  <2>. QED
    BY <2>1, ValueIs, Zenon
<1>2. /\ top[0] = 0 /\ top[1] = top[0] * W + a[16]
      /\ top[2] = top[1] * W + a[15] /\ top[3] = top[2] * W + a[14]
      /\ top[4] = top[3] * W + a[13] /\ top[5] = top[4] * W + a[12]
      /\ top[6] = top[5] * W + a[11] /\ top[7] = top[6] * W + a[10]
      /\ top[8] = top[7] * W + a[9] /\ top[9] = top[8] * W + a[8]
      /\ top[10] = top[9] * W + a[7] /\ top[11] = top[10] * W + a[6]
      /\ top[12] = top[11] * W + a[5] /\ top[13] = top[12] * W + a[4]
      /\ top[14] = top[13] * W + a[3] /\ top[15] = top[14] * W + a[2]
      /\ top[16] = top[15] * W + a[1]
  BY <1>1 DEF IsValue
<1> DEFINE x == top[8]
<1>3. x = EightAbove(W, a)
  BY <1>2 DEF EightAbove, Words8, Below8
<1>4. x \in Int
  OBVIOUS
<1>5. top[16] = Below8(W, x, a[1], a[2], a[3], a[4], a[5], a[6], a[7], a[8])
  BY <1>2 DEF Below8
<1> HIDE DEF x
<1>6. top[16] = Eight(W, a) + x * Base8(W)
  <2>1. /\ a[1] \in Int /\ a[2] \in Int /\ a[3] \in Int /\ a[4] \in Int
        /\ a[5] \in Int /\ a[6] \in Int /\ a[7] \in Int /\ a[8] \in Int
    OBVIOUS
  <2>2. IsBelow8(W, x, a[1], a[2], a[3], a[4], a[5], a[6], a[7], a[8])
    BY <1>4, <2>1, BelowIs8, Zenon
  <2>. QED
    BY <1>5, <2>2 DEF Eight, IsBelow8
<1>. QED
  BY <1>1, <1>3, <1>6, Zenon

\* 12 words, the lowest first, below a number x, and by themselves.
Below12(W, x, a1, a2, a3, a4, a5, a6, a7, a8, a9, a10, a11, a12) ==
  (((((((((((x * W + a12) * W + a11) * W + a10) * W + a9) * W + a8)
  * W + a7) * W + a6) * W + a5) * W + a4) * W + a3) * W + a2) * W + a1
Words12(W, a1, a2, a3, a4, a5, a6, a7, a8, a9, a10, a11, a12) ==
  Below12(W, 0, a1, a2, a3, a4, a5, a6, a7, a8, a9, a10, a11, a12)
Base12(W) == W * W * W * W * W * W * W * W * W * W * W * W

IsBelow12(W, x, a1, a2, a3, a4, a5, a6, a7, a8, a9, a10, a11, a12) ==
  Below12(W, x, a1, a2, a3, a4, a5, a6, a7, a8, a9, a10, a11, a12)
    = Words12(W, a1, a2, a3, a4, a5, a6, a7, a8, a9, a10, a11, a12) + x * Base12(W)

LEMMA BelowIs12 ==
  ASSUME NEW W \in Int, NEW x \in Int, NEW a1 \in Int, NEW a2 \in Int,
         NEW a3 \in Int, NEW a4 \in Int, NEW a5 \in Int, NEW a6 \in Int,
         NEW a7 \in Int, NEW a8 \in Int, NEW a9 \in Int, NEW a10 \in Int,
         NEW a11 \in Int, NEW a12 \in Int
  PROVE  IsBelow12(W, x, a1, a2, a3, a4, a5, a6, a7, a8, a9, a10, a11, a12)
BY SMTT(30) DEF Below12, Words12, Base12, IsBelow12

LEMMA Words12Type ==
  ASSUME NEW W \in Int, NEW a1 \in Int, NEW a2 \in Int, NEW a3 \in Int,
         NEW a4 \in Int, NEW a5 \in Int, NEW a6 \in Int, NEW a7 \in Int,
         NEW a8 \in Int, NEW a9 \in Int, NEW a10 \in Int, NEW a11 \in Int,
         NEW a12 \in Int
  PROVE  Words12(W, a1, a2, a3, a4, a5, a6, a7, a8, a9, a10, a11, a12) \in Int
BY DEF Below12, Words12

Twelve(W, a) == Words12(W, a[1], a[2], a[3], a[4], a[5], a[6], a[7], a[8], a[9], a[10], a[11],
    a[12])
TwelveAbove(W, a) ==
  Words12(W, a[13], a[14], a[15], a[16], a[17], a[18], a[19], a[20], a[21], a[22], a[23], a[24])

LEMMA ValueOfTwelve ==
  ASSUME NEW W \in Int, NEW a \in [1 .. 12 -> Int], Len(a) = 12
  PROVE  Field!Value(W, a) = Twelve(W, a) /\ Twelve(W, a) \in Int
<1>1. PICK top \in [0 .. 12 -> Int] : IsValue(W, a, 12, top) /\ Field!Value(W, a) = top[12]
  <2>1. 12 \in Nat
    OBVIOUS
  <2>. QED
    BY <2>1, ValueIs, Zenon
<1>2. /\ top[0] = 0 /\ top[1] = top[0] * W + a[12]
      /\ top[2] = top[1] * W + a[11] /\ top[3] = top[2] * W + a[10]
      /\ top[4] = top[3] * W + a[9] /\ top[5] = top[4] * W + a[8]
      /\ top[6] = top[5] * W + a[7] /\ top[7] = top[6] * W + a[6]
      /\ top[8] = top[7] * W + a[5] /\ top[9] = top[8] * W + a[4]
      /\ top[10] = top[9] * W + a[3] /\ top[11] = top[10] * W + a[2]
      /\ top[12] = top[11] * W + a[1]
  BY <1>1 DEF IsValue
<1>3. top[12] = Twelve(W, a)
  BY <1>2 DEF Twelve, Words12, Below12
<1>. QED
  BY <1>1, <1>3

LEMMA ValueOfTwiceTwelve ==
  ASSUME NEW W \in Int, NEW a \in [1 .. 24 -> Int], Len(a) = 24
  PROVE  Field!Value(W, a) = Twelve(W, a) + TwelveAbove(W, a) * Base12(W)
<1>1. PICK top \in [0 .. 24 -> Int] : IsValue(W, a, 24, top) /\ Field!Value(W, a) = top[24]
  <2>1. 24 \in Nat
    OBVIOUS
  <2>. QED
    BY <2>1, ValueIs, Zenon
<1>2. /\ top[0] = 0 /\ top[1] = top[0] * W + a[24]
      /\ top[2] = top[1] * W + a[23] /\ top[3] = top[2] * W + a[22]
      /\ top[4] = top[3] * W + a[21] /\ top[5] = top[4] * W + a[20]
      /\ top[6] = top[5] * W + a[19] /\ top[7] = top[6] * W + a[18]
      /\ top[8] = top[7] * W + a[17] /\ top[9] = top[8] * W + a[16]
      /\ top[10] = top[9] * W + a[15] /\ top[11] = top[10] * W + a[14]
      /\ top[12] = top[11] * W + a[13] /\ top[13] = top[12] * W + a[12]
      /\ top[14] = top[13] * W + a[11] /\ top[15] = top[14] * W + a[10]
      /\ top[16] = top[15] * W + a[9] /\ top[17] = top[16] * W + a[8]
      /\ top[18] = top[17] * W + a[7] /\ top[19] = top[18] * W + a[6]
      /\ top[20] = top[19] * W + a[5] /\ top[21] = top[20] * W + a[4]
      /\ top[22] = top[21] * W + a[3] /\ top[23] = top[22] * W + a[2]
      /\ top[24] = top[23] * W + a[1]
  BY <1>1 DEF IsValue
<1> DEFINE x == top[12]
<1>3. x = TwelveAbove(W, a)
  BY <1>2 DEF TwelveAbove, Words12, Below12
<1>4. x \in Int
  OBVIOUS
<1>5. top[24] = Below12(W, x, a[1], a[2], a[3], a[4], a[5], a[6], a[7], a[8], a[9], a[10],
       a[11], a[12])
  BY <1>2 DEF Below12
<1> HIDE DEF x
<1>6. top[24] = Twelve(W, a) + x * Base12(W)
  <2>1. /\ a[1] \in Int /\ a[2] \in Int /\ a[3] \in Int /\ a[4] \in Int
        /\ a[5] \in Int /\ a[6] \in Int /\ a[7] \in Int /\ a[8] \in Int
        /\ a[9] \in Int /\ a[10] \in Int /\ a[11] \in Int /\ a[12] \in Int
    OBVIOUS
  <2>2. IsBelow12(W, x, a[1], a[2], a[3], a[4], a[5], a[6], a[7], a[8], a[9], a[10], a[11], a[12])
    BY <1>4, <2>1, BelowIs12, Zenon
  <2>. QED
    BY <1>5, <2>2 DEF Twelve, IsBelow12
<1>. QED
  BY <1>1, <1>3, <1>6, Zenon

-----------------------------------------------------------------------------
(* Carries and bounds of such numbers. *)

IsDigit(W, p, x, d) == x * W + d \in 0 .. p * W - 1 /\ p * W \in Nat

LEMMA DigitBelow ==
  ASSUME NEW W \in Nat, NEW p \in Nat, NEW x \in 0 .. p - 1, NEW d \in 0 .. W - 1
  PROVE  IsDigit(W, p, x, d)
<1>1. x * W + W <= p * W
  <2>1. p * W = x * W + W + (p - x - 1) * W
    OBVIOUS
  <2>2. (p - x - 1) * W >= 0
    OBVIOUS
  <2>3. x * W \in Int /\ p * W \in Int /\ (p - x - 1) * W \in Int
    OBVIOUS
  <2>. QED
    BY <2>1, <2>2, <2>3
<1>2. x * W \in Nat /\ p * W \in Nat
  OBVIOUS
<1>. QED
  BY <1>1, <1>2 DEF IsDigit

\* Passing carries on keeps the number, if what the last one carries is counted.
KeptBy8(W, r1, r2, r3, r4, r5, r6, r7, r8, w1, w2, w3, w4, w5, w6, w7, w8, o0, o1,
    o2, o3, o4, o5, o6, o7, o8) ==
  Words8(W, r1, r2, r3, r4, r5, r6, r7, r8)
    = (Words8(W, w1, w2, w3, w4, w5, w6, w7, w8) + o8 * Base8(W)) - o0

LEMMA CarriesKeep8 ==
  ASSUME NEW W \in Int, NEW r1 \in Int, NEW r2 \in Int, NEW r3 \in Int,
         NEW r4 \in Int, NEW r5 \in Int, NEW r6 \in Int, NEW r7 \in Int,
         NEW r8 \in Int, NEW w1 \in Int, NEW w2 \in Int, NEW w3 \in Int,
         NEW w4 \in Int, NEW w5 \in Int, NEW w6 \in Int, NEW w7 \in Int,
         NEW w8 \in Int, NEW o0 \in Int, NEW o1 \in Int, NEW o2 \in Int, NEW o3 \in Int,
         NEW o4 \in Int, NEW o5 \in Int, NEW o6 \in Int, NEW o7 \in Int,
         NEW o8 \in Int, r1 = w1 + W * o1 - o0, r2 = w2 + W * o2 - o1,
         r3 = w3 + W * o3 - o2, r4 = w4 + W * o4 - o3, r5 = w5 + W * o5 - o4,
         r6 = w6 + W * o6 - o5, r7 = w7 + W * o7 - o6, r8 = w8 + W * o8 - o7
  PROVE  KeptBy8(W, r1, r2, r3, r4, r5, r6, r7, r8, w1, w2, w3, w4, w5, w6, w7, w8, o0, o1,
                 o2, o3, o4, o5, o6, o7, o8)
<1>1. Words8(W, w1 + W * o1 - o0, w2 + W * o2 - o1, w3 + W * o3 - o2, w4 + W * o4 - o3,
             w5 + W * o5 - o4, w6 + W * o6 - o5, w7 + W * o7 - o6,
             w8 + W * o8 - o7)
      = (Words8(W, w1, w2, w3, w4, w5, w6, w7, w8) + o8 * Base8(W)) - o0
  BY SMTT(30) DEF Words8, Below8, Base8
<1>. QED
  BY ONLY <1>1, r1 = w1 + W * o1 - o0, r2 = w2 + W * o2 - o1, r3 = w3 + W * o3 - o2,
     r4 = w4 + W * o4 - o3, r5 = w5 + W * o5 - o4, r6 = w6 + W * o6 - o5,
     r7 = w7 + W * o7 - o6, r8 = w8 + W * o8 - o7 DEF KeptBy8

\* A number of 8 words is below the base that follows them.
Bounded8(W, a1, a2, a3, a4, a5, a6, a7, a8) ==
  Words8(W, a1, a2, a3, a4, a5, a6, a7, a8) \in 0 .. Base8(W) - 1

LEMMA WordsBounded8 ==
  ASSUME NEW W \in Nat, NEW a1 \in 0 .. W - 1, NEW a2 \in 0 .. W - 1,
         NEW a3 \in 0 .. W - 1, NEW a4 \in 0 .. W - 1, NEW a5 \in 0 .. W - 1,
         NEW a6 \in 0 .. W - 1, NEW a7 \in 0 .. W - 1, NEW a8 \in 0 .. W - 1
  PROVE  Bounded8(W, a1, a2, a3, a4, a5, a6, a7, a8)
<1> DEFINE x8 == 0 * W + a8
           x7 == x8 * W + a7
           x6 == x7 * W + a6
           x5 == x6 * W + a5
           x4 == x5 * W + a4
           x3 == x4 * W + a3
           x2 == x3 * W + a2
           x1 == x2 * W + a1
           p8 == W
           p7 == p8 * W
           p6 == p7 * W
           p5 == p6 * W
           p4 == p5 * W
           p3 == p4 * W
           p2 == p3 * W
           p1 == p2 * W
<1>8. x8 \in 0 .. p8 - 1 /\ p8 \in Nat
  OBVIOUS
<1> HIDE DEF x1, x2, x3, x4, x5, x6, x7, x8, p1, p2, p3, p4, p5, p6, p7, p8
<1>7. x7 \in 0 .. p7 - 1 /\ p7 \in Nat
  BY <1>8, DigitBelow, Zenon DEF x7, p7, IsDigit
<1>6. x6 \in 0 .. p6 - 1 /\ p6 \in Nat
  BY <1>7, DigitBelow, Zenon DEF x6, p6, IsDigit
<1>5. x5 \in 0 .. p5 - 1 /\ p5 \in Nat
  BY <1>6, DigitBelow, Zenon DEF x5, p5, IsDigit
<1>4. x4 \in 0 .. p4 - 1 /\ p4 \in Nat
  BY <1>5, DigitBelow, Zenon DEF x4, p4, IsDigit
<1>3. x3 \in 0 .. p3 - 1 /\ p3 \in Nat
  BY <1>4, DigitBelow, Zenon DEF x3, p3, IsDigit
<1>2. x2 \in 0 .. p2 - 1 /\ p2 \in Nat
  BY <1>3, DigitBelow, Zenon DEF x2, p2, IsDigit
<1>1. x1 \in 0 .. p1 - 1 /\ p1 \in Nat
  BY <1>2, DigitBelow, Zenon DEF x1, p1, IsDigit
<1>9. Words8(W, a1, a2, a3, a4, a5, a6, a7, a8) = x1 /\ Base8(W) = p1
  BY DEF Words8, Below8, Base8, x1, x2, x3, x4, x5, x6, x7, x8, p1, p2, p3, p4, p5, p6, p7, p8
<1>. QED
  BY <1>1, <1>9 DEF Bounded8

\* Passing carries on keeps the number, if what the last one carries is counted.
KeptBy12(W, r1, r2, r3, r4, r5, r6, r7, r8, r9, r10, r11, r12, w1, w2, w3, w4,
    w5, w6, w7, w8, w9, w10, w11, w12, o0, o1, o2, o3, o4, o5, o6, o7, o8, o9,
    o10, o11, o12) ==
  Words12(W, r1, r2, r3, r4, r5, r6, r7, r8, r9, r10, r11, r12)
    = (Words12(W, w1, w2, w3, w4, w5, w6, w7, w8, w9, w10, w11, w12) + o12 * Base12(W)) - o0

LEMMA CarriesKeep12 ==
  ASSUME NEW W \in Int, NEW r1 \in Int, NEW r2 \in Int, NEW r3 \in Int,
         NEW r4 \in Int, NEW r5 \in Int, NEW r6 \in Int, NEW r7 \in Int,
         NEW r8 \in Int, NEW r9 \in Int, NEW r10 \in Int, NEW r11 \in Int,
         NEW r12 \in Int, NEW w1 \in Int, NEW w2 \in Int, NEW w3 \in Int,
         NEW w4 \in Int, NEW w5 \in Int, NEW w6 \in Int, NEW w7 \in Int,
         NEW w8 \in Int, NEW w9 \in Int, NEW w10 \in Int, NEW w11 \in Int,
         NEW w12 \in Int, NEW o0 \in Int, NEW o1 \in Int, NEW o2 \in Int, NEW o3 \in Int,
         NEW o4 \in Int, NEW o5 \in Int, NEW o6 \in Int, NEW o7 \in Int,
         NEW o8 \in Int, NEW o9 \in Int, NEW o10 \in Int, NEW o11 \in Int,
         NEW o12 \in Int, r1 = w1 + W * o1 - o0, r2 = w2 + W * o2 - o1,
         r3 = w3 + W * o3 - o2, r4 = w4 + W * o4 - o3, r5 = w5 + W * o5 - o4,
         r6 = w6 + W * o6 - o5, r7 = w7 + W * o7 - o6, r8 = w8 + W * o8 - o7,
         r9 = w9 + W * o9 - o8, r10 = w10 + W * o10 - o9,
         r11 = w11 + W * o11 - o10, r12 = w12 + W * o12 - o11
  PROVE  KeptBy12(W, r1, r2, r3, r4, r5, r6, r7, r8, r9, r10, r11, r12, w1, w2, w3, w4,
                  w5, w6, w7, w8, w9, w10, w11, w12, o0, o1, o2, o3, o4, o5, o6,
                  o7, o8, o9, o10, o11, o12)
<1>1. Words12(W, w1 + W * o1 - o0, w2 + W * o2 - o1, w3 + W * o3 - o2, w4 + W * o4 - o3,
              w5 + W * o5 - o4, w6 + W * o6 - o5, w7 + W * o7 - o6,
              w8 + W * o8 - o7, w9 + W * o9 - o8, w10 + W * o10 - o9,
              w11 + W * o11 - o10, w12 + W * o12 - o11)
      = (Words12(W, w1, w2, w3, w4, w5, w6, w7, w8, w9, w10, w11, w12) + o12 * Base12(W)) - o0
  BY SMTT(30) DEF Words12, Below12, Base12
<1>. QED
  BY ONLY <1>1, r1 = w1 + W * o1 - o0, r2 = w2 + W * o2 - o1, r3 = w3 + W * o3 - o2,
     r4 = w4 + W * o4 - o3, r5 = w5 + W * o5 - o4, r6 = w6 + W * o6 - o5,
     r7 = w7 + W * o7 - o6, r8 = w8 + W * o8 - o7, r9 = w9 + W * o9 - o8,
     r10 = w10 + W * o10 - o9, r11 = w11 + W * o11 - o10, r12 = w12 + W * o12 - o11 DEF KeptBy12

\* A number of 12 words is below the base that follows them.
Bounded12(W, a1, a2, a3, a4, a5, a6, a7, a8, a9, a10, a11, a12) ==
  Words12(W, a1, a2, a3, a4, a5, a6, a7, a8, a9, a10, a11, a12) \in 0 .. Base12(W) - 1

LEMMA WordsBounded12 ==
  ASSUME NEW W \in Nat, NEW a1 \in 0 .. W - 1, NEW a2 \in 0 .. W - 1,
         NEW a3 \in 0 .. W - 1, NEW a4 \in 0 .. W - 1, NEW a5 \in 0 .. W - 1,
         NEW a6 \in 0 .. W - 1, NEW a7 \in 0 .. W - 1, NEW a8 \in 0 .. W - 1,
         NEW a9 \in 0 .. W - 1, NEW a10 \in 0 .. W - 1,
         NEW a11 \in 0 .. W - 1, NEW a12 \in 0 .. W - 1
  PROVE  Bounded12(W, a1, a2, a3, a4, a5, a6, a7, a8, a9, a10, a11, a12)
<1> DEFINE x12 == 0 * W + a12
           x11 == x12 * W + a11
           x10 == x11 * W + a10
           x9 == x10 * W + a9
           x8 == x9 * W + a8
           x7 == x8 * W + a7
           x6 == x7 * W + a6
           x5 == x6 * W + a5
           x4 == x5 * W + a4
           x3 == x4 * W + a3
           x2 == x3 * W + a2
           x1 == x2 * W + a1
           p12 == W
           p11 == p12 * W
           p10 == p11 * W
           p9 == p10 * W
           p8 == p9 * W
           p7 == p8 * W
           p6 == p7 * W
           p5 == p6 * W
           p4 == p5 * W
           p3 == p4 * W
           p2 == p3 * W
           p1 == p2 * W
<1>12. x12 \in 0 .. p12 - 1 /\ p12 \in Nat
  OBVIOUS
<1> HIDE DEF x1, x2, x3, x4, x5, x6, x7, x8, x9, x10, x11, x12, p1, p2, p3, p4, p5, p6, p7,
       p8, p9, p10, p11, p12
<1>11. x11 \in 0 .. p11 - 1 /\ p11 \in Nat
  BY <1>12, DigitBelow, Zenon DEF x11, p11, IsDigit
<1>10. x10 \in 0 .. p10 - 1 /\ p10 \in Nat
  BY <1>11, DigitBelow, Zenon DEF x10, p10, IsDigit
<1>9. x9 \in 0 .. p9 - 1 /\ p9 \in Nat
  BY <1>10, DigitBelow, Zenon DEF x9, p9, IsDigit
<1>8. x8 \in 0 .. p8 - 1 /\ p8 \in Nat
  BY <1>9, DigitBelow, Zenon DEF x8, p8, IsDigit
<1>7. x7 \in 0 .. p7 - 1 /\ p7 \in Nat
  BY <1>8, DigitBelow, Zenon DEF x7, p7, IsDigit
<1>6. x6 \in 0 .. p6 - 1 /\ p6 \in Nat
  BY <1>7, DigitBelow, Zenon DEF x6, p6, IsDigit
<1>5. x5 \in 0 .. p5 - 1 /\ p5 \in Nat
  BY <1>6, DigitBelow, Zenon DEF x5, p5, IsDigit
<1>4. x4 \in 0 .. p4 - 1 /\ p4 \in Nat
  BY <1>5, DigitBelow, Zenon DEF x4, p4, IsDigit
<1>3. x3 \in 0 .. p3 - 1 /\ p3 \in Nat
  BY <1>4, DigitBelow, Zenon DEF x3, p3, IsDigit
<1>2. x2 \in 0 .. p2 - 1 /\ p2 \in Nat
  BY <1>3, DigitBelow, Zenon DEF x2, p2, IsDigit
<1>1. x1 \in 0 .. p1 - 1 /\ p1 \in Nat
  BY <1>2, DigitBelow, Zenon DEF x1, p1, IsDigit
<1>13. Words12(W, a1, a2, a3, a4, a5, a6, a7, a8, a9, a10, a11, a12) = x1 /\ Base12(W) = p1
  BY DEF Words12, Below12, Base12, x1, x2, x3, x4, x5, x6, x7, x8, x9, x10, x11, x12, p1, p2,
     p3, p4, p5, p6, p7, p8, p9, p10, p11, p12
<1>. QED
  BY <1>1, <1>13 DEF Bounded12

-----------------------------------------------------------------------------
(* The end of a reduction. *)

\* Two numbers below p that differ by a multiple of it are the same.
LEMMA SameRemainder ==
  ASSUME NEW p \in Nat, NEW a \in 0 .. p - 1, NEW b \in 0 .. p - 1, NEW q \in Int, a = b + q * p
  PROVE  a = b
<1>1. CASE q >= 1
  <2>1. q * p >= p
    BY <1>1
  <2>. QED
    BY <2>1
<1>2. CASE q <= -1
  <2>1. q * p <= 0 - p
    BY <1>2
  <2>. QED
    BY <2>1
<1>3. CASE q = 0
  BY <1>3
<1>. QED
  BY <1>1, <1>2, <1>3

\* The passes over what is left: "left" is small enough for one pass to leave at most one
\* over, in either direction, and the next nothing.  d is what the base is worth.
LEMMA TwoPasses ==
  ASSUME NEW R \in Nat, NEW d \in Nat, d >= 1,
         NEW h1 \in 0 .. R - 1, NEW h2 \in 0 .. R - 1, NEW h3 \in 0 .. R - 1,
         NEW o1 \in Int, NEW o2 \in Int, NEW o3 \in Int,
         h2 + o2 * R = h1 + o1 * d, h3 + o3 * R = h2 + o2 * d,
         o1 * d <= R - d, 0 - (R - d) <= o1 * d
  PROVE  o3 = 0 /\ o2 \in {-1, 0, 1}
<1> DEFINE left == o1 * d
           over == o2 * R
           back == o3 * R
<1>0. left \in Int /\ over \in Int /\ back \in Int
  OBVIOUS
<1>1. left <= R - d /\ 0 - (R - d) <= left /\ h2 + over = h1 + left
  OBVIOUS
<1>2. (o2 >= 2 => over >= 2 * R) /\ (o2 <= -2 => over <= 0 - 2 * R)
  OBVIOUS
<1>3. (o2 = 1 => over = R) /\ (o2 = -1 => over = 0 - R) /\ (o2 = 0 => over = 0)
  OBVIOUS
<1>4. h3 + back = h2 + (IF o2 = 1 THEN d ELSE IF o2 = -1 THEN 0 - d ELSE IF o2 = 0 THEN 0
       ELSE o2 * d)
  OBVIOUS
<1>5. (o3 >= 1 => back >= R) /\ (o3 <= -1 => back <= 0 - R)
  OBVIOUS
<1> HIDE DEF left, over, back
<1>6. o2 \in {-1, 0, 1}
  BY <1>0, <1>1, <1>2
<1>7. CASE o2 = 1
  BY <1>0, <1>1, <1>3, <1>4, <1>5, <1>7
<1>8. CASE o2 = -1
  BY <1>0, <1>1, <1>3, <1>4, <1>5, <1>8
<1>9. CASE o2 = 0
  BY <1>0, <1>4, <1>5, <1>9
<1>. QED
  BY <1>6, <1>7, <1>8, <1>9

\* The conditional subtractions are enough.
LEMMA Subtracted ==
  ASSUME NEW p \in Nat, NEW W, NEW c, NEW h \in Nat, h < 2 * p, Field!Value(W, c.words) = h
  PROVE  /\ Field!SubtractFour(W, p, c) \in 0 .. p - 1
         /\ Field!SubtractFour(W, p, c) = h \/ Field!SubtractFour(W, p, c) = h - p
<1> DEFINE once(x) == IF x >= p THEN x - p ELSE x
<1>1. Field!SubtractFour(W, p, c) = once(once(once(once(h))))
  BY DEF Field!SubtractFour
<1>2. once(h) \in 0 .. p - 1 /\ (once(h) = h \/ once(h) = h - p)
  OBVIOUS
<1>3. \A x \in 0 .. p - 1 : once(x) = x
  OBVIOUS
<1> HIDE DEF once
<1>. QED
  BY <1>1, <1>2, <1>3

\* A word more keeps a remainder a remainder, r that of x * W + d.
IsNextDigit(W, p, q, e, x, d, r, t) == t * W + d = r + (e + q * W) * p /\ e + q * W \in Int

LEMMA NextDigit ==
  ASSUME NEW W \in Int, NEW p \in Int, NEW q \in Int, NEW e \in Int,
         NEW x \in Int, NEW d \in Int, NEW r \in Int, NEW t \in Int,
         t = x + q * p, x * W + d = r + e * p
  PROVE  IsNextDigit(W, p, q, e, x, d, r, t)
<1>1. t * W + d = (x * W + d) + (q * W) * p
  OBVIOUS
<1>2. t * W + d = (r + e * p) + (q * W) * p
  BY <1>1
<1>. QED
  BY <1>2 DEF IsNextDigit

LEMMA RemainderIs ==
  ASSUME NEW W \in Int, NEW p \in Nat, p >= 1,
         NEW n \in Nat, NEW words \in [1 .. n -> Int], Len(words) = n
  PROVE  /\ Field!Remainder(W, p, words) \in 0 .. p - 1
         /\ \E q \in Int : Field!Value(W, words) = Field!Remainder(W, p, words) + q * p
<1> DEFINE step == [i \in Nat |-> [v \in Int |->
                     IF i \in 1 .. n THEN (v * W + words[n + 1 - i]) % p ELSE v]]
           Is(rest) == rest = [i \in 0 .. n |->
                         IF i = 0 THEN 0 ELSE (rest[i - 1] * W + words[n + 1 - i]) % p]
<1>1. \A v \in Int, i \in 1 .. n : v * W + words[n + 1 - i] \in Int
  <2> SUFFICES ASSUME NEW v \in Int, NEW i \in 1 .. n PROVE v * W + words[n + 1 - i] \in Int
    OBVIOUS
  <2>1. n + 1 - i \in 1 .. n /\ v * W \in Int
    OBVIOUS
  <2>. QED
    BY <2>1
<1>2. \A x \in Int : x % p \in 0 .. p - 1 /\ x \div p \in Int /\ x = (x % p) + (x \div p) * p
  OBVIOUS
<1>3. PICK f : IsSteps(Int, n, 0, step, f)
  <2>1. step \in [Nat -> [Int -> Int]]
    <3> SUFFICES ASSUME NEW i \in Nat, NEW v \in Int
                 PROVE  (IF i \in 1 .. n THEN (v * W + words[n + 1 - i]) % p ELSE v) \in Int
      OBVIOUS
    <3>1. \A x \in Int : x % p \in Int
      OBVIOUS
    <3>. QED
      BY <1>1, <3>1, Zenon
  <2>2. 0 \in Int
    OBVIOUS
  <2> HIDE DEF step
  <2>. QED
    BY <2>1, <2>2, StepsRun, Zenon
<1>4. ASSUME NEW i \in 1 .. n PROVE f[i] = (f[i - 1] * W + words[n + 1 - i]) % p
  <2>1. i \in Nat /\ i - 1 \in 0 .. n
    OBVIOUS
  <2>2. f[i - 1] \in Int /\ f[i] = step[i][f[i - 1]]
    BY <1>3, <2>1 DEF IsSteps
  <2>. QED
    BY <2>1, <2>2
<1>5. Is(f)
  BY <1>3, <1>4 DEF IsSteps
<1> DEFINE rest == CHOOSE rest : Is(rest)
<1>6. Is(rest)
  <2> HIDE DEF Is
  <2>. QED
    BY <1>5, Zenon
<1>7. Field!Remainder(W, p, words) = rest[n]
  BY DEF Field!Remainder
<1> HIDE DEF rest
<1>8. rest[0] = 0 /\ \A i \in 1 .. n : rest[i] = (rest[i - 1] * W + words[n + 1 - i]) % p
  <2>1. \A i \in 0 .. n : rest[i] = IF i = 0 THEN 0 ELSE (rest[i - 1] * W + words[n + 1 - i]) % p
    BY <1>6, Zenon
  <2>2. 0 \in 0 .. n
    OBVIOUS
  <2>3. \A i \in 1 .. n : i \in 0 .. n /\ i # 0
    OBVIOUS
  <2>. QED
    BY <2>1, <2>2, <2>3, Zenon
<1>9. PICK top \in [0 .. n -> Int] : IsValue(W, words, n, top) /\ Field!Value(W, words) = top[n]
  BY ValueIs, Zenon
<1>10. top[0] = 0 /\ \A i \in 1 .. n : top[i] = top[i - 1] * W + words[n + 1 - i]
  BY <1>9 DEF IsValue
<1> DEFINE Remains(i) == rest[i] \in 0 .. p - 1 /\ \E q \in Int : top[i] = rest[i] + q * p
<1>11. \A i \in 0 .. n : Remains(i)
  <2> DEFINE U == {i \in Nat : i <= n => Remains(i)}
  <2>1. 0 \in U
    <3>1. 0 \in Int /\ 0 = 0 + 0 * p /\ 0 \in 0 .. p - 1
      OBVIOUS
    <3>. QED
      BY <1>8, <1>10, <3>1
  <2>2. ASSUME NEW i \in U PROVE i + 1 \in U
    <3>1. SUFFICES ASSUME i + 1 <= n PROVE Remains(i + 1)
      OBVIOUS
    <3> DEFINE k == i + 1
    <3>2. k \in 1 .. n /\ k - 1 = i /\ Remains(i)
      BY <3>1
    <3>3. PICK q \in Int : top[i] = rest[i] + q * p
      BY <3>2
    <3> DEFINE d == words[n + 1 - k]
               s == rest[i] * W + d
    <3>4. rest[i] \in Int /\ d \in Int /\ top[i] \in Int
      BY <3>2
    <3>5. rest[k] = s % p /\ top[k] = top[i] * W + d
      BY <1>8, <1>10, <3>2, Zenon
    <3> HIDE DEF d, k
    <3>6. s \in Int
      BY <3>4
    <3>7. s % p \in 0 .. p - 1 /\ s \div p \in Int /\ s = (s % p) + (s \div p) * p
      BY <1>2, <3>6, Zenon
    <3>8. s % p \in Int /\ p \in Int
      BY <3>7
    <3>9. IsNextDigit(W, p, q, s \div p, rest[i], d, s % p, top[i])
      <4>1. rest[i] * W + d = (s % p) + (s \div p) * p
        BY <3>7 DEF s
      <4> HIDE DEF s
      <4>. QED
        BY <3>3, <3>4, <3>7, <3>8, <4>1, NextDigit, Zenon
    <3> HIDE DEF s
    <3>10. Remains(k)
      BY <3>5, <3>7, <3>9, Zenon DEF IsNextDigit
    <3>. QED
      BY <3>10 DEF k
  <2>3. U = Nat
    <3> HIDE DEF U
    <3>1. U \subseteq Nat
      BY DEF U
    <3>. QED
      BY <2>1, <2>2, <3>1, SetInduction
  <2> HIDE DEF Remains
  <2>. QED
    BY <2>3
<1>12. Remains(n)
  <2>1. n \in 0 .. n
    OBVIOUS
  <2>. QED
    BY <1>11, <2>1
<1>. QED
  BY <1>7, <1>9, <1>12

-----------------------------------------------------------------------------
(* Propagation. *)

\* c holds x: its words and what is over.
Holds8(W, c, x) ==
  /\ c.over \in Int /\ c.words \in [1 .. 8 -> 0 .. W - 1] /\ Len(c.words) = 8
  /\ Eight(W, c.words) \in 0 .. Base8(W) - 1
  /\ x = Eight(W, c.words) + c.over * Base8(W)

LEMMA PropagateEight ==
  ASSUME NEW W \in Nat, W >= 2, NEW r, Len(r) = 8, \A i \in 1 .. 8 : r[i] \in Int
  PROVE  Holds8(W, Field!Propagate(W, r), Eight(W, r))
<1>1. PICK w, o : /\ IsCarried(W, r, 8, w, o)
                  /\ Field!Propagate(W, r) = [words |-> w, over |-> o[8]]
  <2>1. 8 \in Nat
    OBVIOUS
  <2>2. IsPropagated(W, r, 8, Field!Propagate(W, r))
    BY <2>1, PropagateIs, Zenon
  <2>. QED
    BY <2>2, Zenon DEF IsPropagated
<1>2. /\ w[1] \in 0 .. W - 1 /\ w[2] \in 0 .. W - 1 /\ w[3] \in 0 .. W - 1
      /\ w[4] \in 0 .. W - 1 /\ w[5] \in 0 .. W - 1 /\ w[6] \in 0 .. W - 1
      /\ w[7] \in 0 .. W - 1 /\ w[8] \in 0 .. W - 1
  <2>1. \A i \in 1 .. 8 : w[i] \in 0 .. W - 1
    BY <1>1, Zenon DEF IsCarried
  <2>. QED
    BY <2>1
<1>3. /\ o[0] \in Int /\ o[1] \in Int /\ o[2] \in Int /\ o[3] \in Int
      /\ o[4] \in Int /\ o[5] \in Int /\ o[6] \in Int /\ o[7] \in Int
      /\ o[8] \in Int
  BY <1>1 DEF IsCarried
<1>4. /\ r[1] \in Int /\ r[2] \in Int /\ r[3] \in Int /\ r[4] \in Int
      /\ r[5] \in Int /\ r[6] \in Int /\ r[7] \in Int /\ r[8] \in Int
  OBVIOUS
<1>5. /\ w[1] \in Int /\ w[2] \in Int /\ w[3] \in Int /\ w[4] \in Int
      /\ w[5] \in Int /\ w[6] \in Int /\ w[7] \in Int /\ w[8] \in Int
  BY <1>2
<1>6. /\ r[1] = w[1] + W * o[1] - o[0] /\ r[2] = w[2] + W * o[2] - o[1]
      /\ r[3] = w[3] + W * o[3] - o[2] /\ r[4] = w[4] + W * o[4] - o[3]
      /\ r[5] = w[5] + W * o[5] - o[4] /\ r[6] = w[6] + W * o[6] - o[5]
      /\ r[7] = w[7] + W * o[7] - o[6] /\ r[8] = w[8] + W * o[8] - o[7]
  <2>1. \A i \in 1 .. 8 : r[i] = w[i] + W * o[i] - o[i - 1]
    BY <1>1, Zenon DEF IsCarried
  <2>. QED
    BY <2>1
<1>7. KeptBy8(W, r[1], r[2], r[3], r[4], r[5], r[6], r[7], r[8], w[1], w[2], w[3],
              w[4], w[5], w[6], w[7], w[8], o[0], o[1], o[2], o[3], o[4],
              o[5], o[6], o[7], o[8])
  <2>1. W \in Int
    OBVIOUS
  <2>. QED
    BY <1>3, <1>4, <1>5, <1>6, <2>1, CarriesKeep8, ZenonT(60)
<1>8. Bounded8(W, w[1], w[2], w[3], w[4], w[5], w[6], w[7], w[8])
  BY <1>2, WordsBounded8, Zenon
<1>9. w \in [1 .. 8 -> 0 .. W - 1] /\ Len(w) = 8
  BY <1>1 DEF IsCarried
<1>10. o[0] = 0 /\ Words8(W, w[1], w[2], w[3], w[4], w[5], w[6], w[7], w[8])
       + o[8] * Base8(W) \in Int
  <2>1. Words8(W, w[1], w[2], w[3], w[4], w[5], w[6], w[7], w[8]) \in Int /\ Base8(W) \in Int
    BY <1>8 DEF Bounded8, Base8
  <2>2. \A x, y, z \in Int : x + y * z \in Int
    OBVIOUS
  <2>. QED
    BY <1>1, <1>3, <2>1, <2>2, Zenon DEF IsCarried
<1>11. Eight(W, r) = Eight(W, w) + o[8] * Base8(W)
  <2> DEFINE t == Words8(W, w[1], w[2], w[3], w[4], w[5], w[6], w[7], w[8])
                    + o[8] * Base8(W)
  <2>1. Eight(W, r) = t - o[0]
    BY <1>7 DEF KeptBy8, Eight
  <2>2. t \in Int /\ o[0] = 0
    BY <1>10
  <2>3. t = Eight(W, w) + o[8] * Base8(W)
    BY DEF Eight
  <2> HIDE DEF t
  <2>4. Eight(W, r) = t
    BY <2>1, <2>2
  <2>. QED
    BY <2>3, <2>4
<1>12. Eight(W, w) \in 0 .. Base8(W) - 1
  BY <1>8 DEF Bounded8, Eight
<1>. QED
  BY <1>1, <1>3, <1>9, <1>11, <1>12 DEF Holds8

\* c holds x: its words and what is over.
Holds12(W, c, x) ==
  /\ c.over \in Int /\ c.words \in [1 .. 12 -> 0 .. W - 1] /\ Len(c.words) = 12
  /\ Twelve(W, c.words) \in 0 .. Base12(W) - 1
  /\ x = Twelve(W, c.words) + c.over * Base12(W)

LEMMA PropagateTwelve ==
  ASSUME NEW W \in Nat, W >= 2, NEW r, Len(r) = 12, \A i \in 1 .. 12 : r[i] \in Int
  PROVE  Holds12(W, Field!Propagate(W, r), Twelve(W, r))
<1>1. PICK w, o : /\ IsCarried(W, r, 12, w, o)
                  /\ Field!Propagate(W, r) = [words |-> w, over |-> o[12]]
  <2>1. 12 \in Nat
    OBVIOUS
  <2>2. IsPropagated(W, r, 12, Field!Propagate(W, r))
    BY <2>1, PropagateIs, Zenon
  <2>. QED
    BY <2>2, Zenon DEF IsPropagated
<1>2. /\ w[1] \in 0 .. W - 1 /\ w[2] \in 0 .. W - 1 /\ w[3] \in 0 .. W - 1
      /\ w[4] \in 0 .. W - 1 /\ w[5] \in 0 .. W - 1 /\ w[6] \in 0 .. W - 1
      /\ w[7] \in 0 .. W - 1 /\ w[8] \in 0 .. W - 1 /\ w[9] \in 0 .. W - 1
      /\ w[10] \in 0 .. W - 1 /\ w[11] \in 0 .. W - 1 /\ w[12] \in 0 .. W - 1
  <2>1. \A i \in 1 .. 12 : w[i] \in 0 .. W - 1
    BY <1>1, Zenon DEF IsCarried
  <2>. QED
    BY <2>1
<1>3. /\ o[0] \in Int /\ o[1] \in Int /\ o[2] \in Int /\ o[3] \in Int
      /\ o[4] \in Int /\ o[5] \in Int /\ o[6] \in Int /\ o[7] \in Int
      /\ o[8] \in Int /\ o[9] \in Int /\ o[10] \in Int /\ o[11] \in Int
      /\ o[12] \in Int
  BY <1>1 DEF IsCarried
<1>4. /\ r[1] \in Int /\ r[2] \in Int /\ r[3] \in Int /\ r[4] \in Int
      /\ r[5] \in Int /\ r[6] \in Int /\ r[7] \in Int /\ r[8] \in Int
      /\ r[9] \in Int /\ r[10] \in Int /\ r[11] \in Int /\ r[12] \in Int
  OBVIOUS
<1>5. /\ w[1] \in Int /\ w[2] \in Int /\ w[3] \in Int /\ w[4] \in Int
      /\ w[5] \in Int /\ w[6] \in Int /\ w[7] \in Int /\ w[8] \in Int
      /\ w[9] \in Int /\ w[10] \in Int /\ w[11] \in Int /\ w[12] \in Int
  BY <1>2
<1>6. /\ r[1] = w[1] + W * o[1] - o[0] /\ r[2] = w[2] + W * o[2] - o[1]
      /\ r[3] = w[3] + W * o[3] - o[2] /\ r[4] = w[4] + W * o[4] - o[3]
      /\ r[5] = w[5] + W * o[5] - o[4] /\ r[6] = w[6] + W * o[6] - o[5]
      /\ r[7] = w[7] + W * o[7] - o[6] /\ r[8] = w[8] + W * o[8] - o[7]
      /\ r[9] = w[9] + W * o[9] - o[8] /\ r[10] = w[10] + W * o[10] - o[9]
      /\ r[11] = w[11] + W * o[11] - o[10]
      /\ r[12] = w[12] + W * o[12] - o[11]
  <2>1. \A i \in 1 .. 12 : r[i] = w[i] + W * o[i] - o[i - 1]
    BY <1>1, Zenon DEF IsCarried
  <2>. QED
    BY <2>1
<1>7. KeptBy12(W, r[1], r[2], r[3], r[4], r[5], r[6], r[7], r[8], r[9], r[10],
               r[11], r[12], w[1], w[2], w[3], w[4], w[5], w[6], w[7], w[8],
               w[9], w[10], w[11], w[12], o[0], o[1], o[2], o[3], o[4], o[5],
               o[6], o[7], o[8], o[9], o[10], o[11], o[12])
  <2>1. W \in Int
    OBVIOUS
  <2>. QED
    BY <1>3, <1>4, <1>5, <1>6, <2>1, CarriesKeep12, ZenonT(120)
<1>8. Bounded12(W, w[1], w[2], w[3], w[4], w[5], w[6], w[7], w[8], w[9], w[10],
                w[11], w[12])
  BY <1>2, WordsBounded12, Zenon
<1>9. w \in [1 .. 12 -> 0 .. W - 1] /\ Len(w) = 12
  BY <1>1 DEF IsCarried
<1>10. o[0] = 0 /\ Words12(W, w[1], w[2], w[3], w[4], w[5], w[6], w[7], w[8], w[9], w[10], w[11],
              w[12]) + o[12] * Base12(W) \in Int
  <2>1. Words12(W, w[1], w[2], w[3], w[4], w[5], w[6], w[7], w[8], w[9], w[10], w[11],
              w[12]) \in Int /\ Base12(W) \in Int
    BY <1>8 DEF Bounded12, Base12
  <2>2. \A x, y, z \in Int : x + y * z \in Int
    OBVIOUS
  <2>. QED
    BY <1>1, <1>3, <2>1, <2>2, Zenon DEF IsCarried
<1>11. Twelve(W, r) = Twelve(W, w) + o[12] * Base12(W)
  <2> DEFINE t == Words12(W, w[1], w[2], w[3], w[4], w[5], w[6], w[7], w[8], w[9], w[10], w[11],
                          w[12])
                    + o[12] * Base12(W)
  <2>1. Twelve(W, r) = t - o[0]
    BY <1>7 DEF KeptBy12, Twelve
  <2>2. t \in Int /\ o[0] = 0
    BY <1>10
  <2>3. t = Twelve(W, w) + o[12] * Base12(W)
    BY DEF Twelve
  <2> HIDE DEF t
  <2>4. Twelve(W, r) = t
    BY <2>1, <2>2
  <2>. QED
    BY <2>3, <2>4
<1>12. Twelve(W, w) \in 0 .. Base12(W) - 1
  BY <1>8 DEF Bounded12, Twelve
<1>. QED
  BY <1>1, <1>3, <1>9, <1>11, <1>12 DEF Holds12

-----------------------------------------------------------------------------
(* What is carried, and what is over in the end. *)

\* Carries keep to the factors the words keep to.
RowsWithin(W, r, n, lo, hi) ==
  \A i \in 1 .. n : r[i] \in Int /\ lo * (W - 1) <= r[i] /\ r[i] <= hi * (W - 1)
CarriesWithin(o, n, lo, hi) == \A i \in 0 .. n : lo <= o[i] /\ o[i] <= hi

LEMMA CarriesBounded ==
  ASSUME NEW W \in Nat, W >= 2, NEW n \in Nat, NEW r, NEW w, NEW o,
         IsCarried(W, r, n, w, o), NEW lo \in Int, NEW hi \in Int, lo <= 0, 0 <= hi,
         RowsWithin(W, r, n, lo, hi)
  PROVE  CarriesWithin(o, n, lo, hi)
<1>0. \A i \in 1 .. n : r[i] \in Int /\ lo * (W - 1) <= r[i] /\ r[i] <= hi * (W - 1)
  BY DEF RowsWithin
<1> DEFINE Remains(i) == lo <= o[i] /\ o[i] <= hi
           U == {i \in Nat : i <= n => Remains(i)}
<1>1. 0 \in U
  BY DEF IsCarried
<1>2. ASSUME NEW i \in U PROVE i + 1 \in U
  <2>1. SUFFICES ASSUME i + 1 <= n PROVE Remains(i + 1)
    OBVIOUS
  <2> DEFINE k == i + 1
             d == w[k]
             x == o[i]
             y == o[k]
             z == r[k]
  <2>2. k \in 1 .. n /\ k - 1 = i /\ i \in 0 .. n /\ k \in 0 .. n /\ Remains(i)
    BY <2>1
  <2>3. z = d + W * y - x
    <3>1. \A j \in 1 .. n : r[j] = w[j] + W * o[j] - o[j - 1]
      BY DEF IsCarried
    <3> HIDE DEF k
    <3>. QED
      BY <2>2, <3>1, Zenon
  <2>4. d \in 0 .. W - 1 /\ x \in Int /\ y \in Int /\ z \in Int
    BY <1>0, <2>2 DEF IsCarried
  <2>5. lo <= x /\ x <= hi /\ lo * (W - 1) <= z /\ z <= hi * (W - 1)
    BY <1>0, <2>2
  <2> HIDE DEF d, x, y, z
  <2> DEFINE u == W * y
             a == lo * W
             b == hi * W
  <2>6. u \in Int /\ a \in Int /\ b \in Int /\ z = d + u - x
    BY <2>3, <2>4
  <2>7. a - lo <= z /\ z <= b - hi
    BY <2>5
  <2>8. (y <= lo - 1 => u <= a - W) /\ (y >= hi + 1 => u >= b + W)
    <3>1. y <= lo - 1 => W * y <= W * (lo - 1)
      BY <2>4
    <3>2. y >= hi + 1 => W * y >= W * (hi + 1)
      BY <2>4
    <3>. QED
      BY <2>4, <3>1, <3>2
  <2> HIDE DEF u, a, b
  <2>9. lo <= y /\ y <= hi
    BY <2>4, <2>5, <2>6, <2>7, <2>8
  <2>. QED
    BY <2>9 DEF y
<1>3. U = Nat
  <2> HIDE DEF U
  <2>1. U \subseteq Nat
    BY DEF U
  <2>. QED
    BY <1>1, <1>2, <2>1, SetInduction
<1> HIDE DEF Remains
<1>4. \A i \in 0 .. n : Remains(i)
  BY <1>3
<1>. QED
  BY <1>4 DEF Remains, CarriesWithin

\* Each pass takes multiples of p off.
IsPassing(R, p, d, x, h1, h2, h3, o1, o2, o3) ==
  /\ R \in Nat /\ p \in Nat /\ d \in Nat /\ R = p + d /\ d >= 1
  /\ h1 \in 0 .. R - 1 /\ h2 \in 0 .. R - 1 /\ h3 \in 0 .. R - 1
  /\ o1 \in Int /\ o2 \in Int /\ o3 \in Int
  /\ \E q \in Int : x = (h1 + o1 * R) + q * p
  /\ h1 + o1 * d = h2 + o2 * R /\ h2 + o2 * d = h3 + o3 * R
  /\ o1 * d <= R - d /\ 0 - (R - d) <= o1 * d

IsReduced(p, x, h3, o3) == o3 = 0 /\ \E e \in Int : x = h3 + e * p

LEMMA PassesReduce ==
  ASSUME NEW R, NEW p, NEW d, NEW x, NEW h1, NEW h2, NEW h3, NEW o1, NEW o2, NEW o3,
         IsPassing(R, p, d, x, h1, h2, h3, o1, o2, o3)
  PROVE  IsReduced(p, x, h3, o3)
<1>0. /\ R \in Nat /\ p \in Nat /\ d \in Nat /\ R = p + d /\ d >= 1
      /\ h1 \in 0 .. R - 1 /\ h2 \in 0 .. R - 1 /\ h3 \in 0 .. R - 1
      /\ o1 \in Int /\ o2 \in Int /\ o3 \in Int
      /\ h1 + o1 * d = h2 + o2 * R /\ h2 + o2 * d = h3 + o3 * R
      /\ o1 * d <= R - d /\ 0 - (R - d) <= o1 * d
  BY Zenon DEF IsPassing
<1>q. PICK q \in Int : x = (h1 + o1 * R) + q * p
  BY Zenon DEF IsPassing
<1>1. o3 = 0
  BY <1>0, TwoPasses
<1>2. x = (h1 + o1 * d) + (o1 + q) * p
  <2>1. o1 * (p + d) = o1 * p + o1 * d /\ (o1 + q) * p = o1 * p + q * p
    BY <1>0, <1>q
  <2>2. o1 * R = o1 * (p + d)
    BY <1>0, <1>q
  <2> DEFINE a == o1 * p
             b == o1 * d
             c == q * p
             e == o1 * R
             f == (o1 + q) * p
  <2>3. a \in Int /\ b \in Int /\ c \in Int /\ e \in Int /\ f \in Int
    BY <1>0, <1>q
  <2>4. e = a + b /\ f = a + c /\ x = (h1 + e) + c
    BY <1>0, <1>q, <2>1, <2>2
  <2> HIDE DEF a, b, c, e, f
  <2>5. x = (h1 + b) + f
    BY <1>0, <2>3, <2>4
  <2>. QED
    BY <2>5 DEF b, f
<1>3. x = (h2 + o2 * d) + (o2 + o1 + q) * p
  <2>1. o2 * (p + d) = o2 * p + o2 * d /\ (o2 + o1 + q) * p = o2 * p + (o1 + q) * p
    BY <1>0, <1>q
  <2>2. o2 * R = o2 * (p + d)
    BY <1>0, <1>q
  <2> DEFINE a == o2 * p
             b == o2 * d
             c == (o1 + q) * p
             e == o2 * R
             f == (o2 + o1 + q) * p
  <2>3. a \in Int /\ b \in Int /\ c \in Int /\ e \in Int /\ f \in Int
    BY <1>0, <1>q
  <2>4. e = a + b /\ f = a + c /\ x = (h2 + e) + c
    BY <1>0, <1>2, <2>1, <2>2
  <2> HIDE DEF a, b, c, e, f
  <2>5. x = (h2 + b) + f
    BY <1>0, <2>3, <2>4
  <2>. QED
    BY <2>5 DEF b, f
<1>4. o2 * d \in Int /\ h2 + o2 * d = h3 /\ o2 + o1 + q \in Int
  BY <1>0, <1>1
<1>5. x = h3 + (o2 + o1 + q) * p
  BY <1>0, <1>3, <1>4
<1>. QED
  BY <1>1, <1>4, <1>5 DEF IsReduced

-----------------------------------------------------------------------------
(* P-256. *)

\* What the base of the words above is worth: the base itself less the prime.
Worth256(W) == (W * W * W * W - W * W * W - 1) * W * W * W + 1

LEMMA Prime256 ==
  ASSUME NEW W \in Nat, W >= 8
  PROVE  /\ Field!P256Prime(W) \in Nat /\ Worth256(W) \in Nat /\ Base8(W) \in Nat
         /\ Base8(W) = Field!P256Prime(W) + Worth256(W)
         /\ Worth256(W) >= 1 /\ 8 * Worth256(W) <= Base8(W)
         /\ Base8(W) < 2 * Field!P256Prime(W)
<1> DEFINE W3 == W * W * W
           W6 == W3 * W3
           W7 == W6 * W
           W8 == W7 * W
<1>1. W3 \in Nat /\ W3 >= 1 /\ W3 <= W6 /\ W6 \in Nat
  <2>1. W * W >= 8 /\ W * W \in Nat
    OBVIOUS
  <2>2. W3 >= 1 /\ W3 \in Nat
    BY <2>1
  <2> HIDE DEF W3
  <2>. QED
    BY <2>2
<1>2. W7 >= 8 * W6 /\ W7 \in Nat
  <2> HIDE DEF W6
  <2>. QED
    BY <1>1
<1>3. W8 >= 8 * W7 /\ W8 \in Nat
  <2> HIDE DEF W7
  <2>. QED
    BY <1>2
<1>4. Base8(W) = W8 /\ Worth256(W) = W7 - W6 - W3 + 1
  BY DEF Base8, Worth256
<1>5. Field!P256Prime(W) = W8 - W7 + W6 + W3 - 1
  BY DEF Field!P256Prime
<1> HIDE DEF W3, W6, W7, W8
<1>. QED
  BY <1>1, <1>2, <1>3, <1>4, <1>5

\* The overflow, folded into the words.
IsFoldedOver256(W, w1, w2, w3, w4, w5, w6, w7, w8, v) ==
  Words8(W, w1 + v, w2, w3, w4 - v, w5, w6, w7 - v, w8 + v)
    = Words8(W, w1, w2, w3, w4, w5, w6, w7, w8) + v * Worth256(W)

LEMMA FoldedOver256 ==
  ASSUME NEW W \in Int, NEW v \in Int, NEW w1 \in Int, NEW w2 \in Int,
         NEW w3 \in Int, NEW w4 \in Int, NEW w5 \in Int, NEW w6 \in Int,
         NEW w7 \in Int, NEW w8 \in Int
  PROVE  IsFoldedOver256(W, w1, w2, w3, w4, w5, w6, w7, w8, v)
BY SMTT(30) DEF IsFoldedOver256, Words8, Below8, Worth256

LEMMA FoldOver256 ==
  ASSUME NEW W \in Nat, W >= 2, NEW c, NEW x, Holds8(W, c, x)
  PROVE  Holds8(W, Field!FoldOver(W, c, Field!P256Over),
                Eight(W, c.words) + c.over * Worth256(W))
<1> DEFINE w == c.words
           v == c.over
           r == [i \in 1 .. Len(w) |-> w[i] + Field!P256Over[i] * v]
<1>1. v \in Int /\ w \in [1 .. 8 -> 0 .. W - 1] /\ Len(w) = 8
  BY DEF Holds8
<1>2. /\ w[1] \in Int /\ w[2] \in Int /\ w[3] \in Int /\ w[4] \in Int
      /\ w[5] \in Int /\ w[6] \in Int /\ w[7] \in Int /\ w[8] \in Int
  BY <1>1
<1> HIDE DEF w, v
<1>3. r \in [1 .. 8 -> Int] /\ Len(r) = 8
  <2>1. \A i \in 1 .. 8 : Field!P256Over[i] \in Int
    BY DEF Field!P256Over
  <2>2. \A i \in 1 .. 8 : Field!P256Over[i] * v \in Int /\ w[i] \in Int
    BY <1>1, <2>1
  <2>. QED
    BY <1>1, <2>2
<1>4. /\ r[1] = w[1] + v /\ r[2] = w[2] /\ r[3] = w[3] /\ r[4] = w[4] - v
      /\ r[5] = w[5] /\ r[6] = w[6] /\ r[7] = w[7] - v /\ r[8] = w[8] + v
  BY <1>1, <1>2 DEF Field!P256Over
<1>5. Field!FoldOver(W, c, Field!P256Over) = Field!Propagate(W, r)
  BY DEF Field!FoldOver, w, v
<1> HIDE DEF r
<1>6. Eight(W, r) = Eight(W, w) + v * Worth256(W)
  <2>1. IsFoldedOver256(W, w[1], w[2], w[3], w[4], w[5], w[6], w[7], w[8], v)
    <3>1. W \in Int
      OBVIOUS
    <3>. QED
      BY <1>1, <1>2, <3>1, FoldedOver256, Zenon
  <2>. QED
    BY <1>4, <2>1, Zenon DEF Eight, IsFoldedOver256
<1>7. Holds8(W, Field!Propagate(W, r), Eight(W, r))
  BY <1>3, PropagateEight
<1>. QED
  BY <1>5, <1>6, <1>7 DEF w, v

\* The words above, folded in, by the words of the quotient.
Over256(a1, a2, a3, a4, a5, a6, a7, a8, a9, a10, a11, a12, a13, a14, a15, a16, W) ==
  (((((a16 * W + (a15)) * W + (a14 - a16)) * W + (a13 - a15 - a16)) * W
      + (a12 - a14 - a15 - a16)) * W + (a11 - a13 - a14 - a15 - a16)) * W
      + (a10 - a12 - a13 - a14 - a15)
IsFolded256(W, a1, a2, a3, a4, a5, a6, a7, a8, a9, a10, a11, a12, a13, a14,
    a15, a16, r1, r2, r3, r4, r5, r6, r7, r8) ==
  Words8(W, a1, a2, a3, a4, a5, a6, a7, a8)
      + Words8(W, a9, a10, a11, a12, a13, a14, a15, a16) * Worth256(W)
    = Words8(W, r1, r2, r3, r4, r5, r6, r7, r8)
      + Over256(a1, a2, a3, a4, a5, a6, a7, a8, a9, a10, a11, a12, a13, a14, a15, a16,
                W) * Field!P256Prime(W)

LEMMA Folded256 ==
  ASSUME NEW W \in Int, NEW a1 \in Int, NEW a2 \in Int, NEW a3 \in Int,
         NEW a4 \in Int, NEW a5 \in Int, NEW a6 \in Int, NEW a7 \in Int,
         NEW a8 \in Int, NEW a9 \in Int, NEW a10 \in Int, NEW a11 \in Int,
         NEW a12 \in Int, NEW a13 \in Int, NEW a14 \in Int, NEW a15 \in Int,
         NEW a16 \in Int, NEW r1 \in Int, NEW r2 \in Int, NEW r3 \in Int,
         NEW r4 \in Int, NEW r5 \in Int, NEW r6 \in Int, NEW r7 \in Int,
         NEW r8 \in Int, r1 = a1 + a9 + a10 - a12 - a13 - a14 - a15,
         r2 = a2 + a10 + a11 - a13 - a14 - a15 - a16,
         r3 = a3 + a11 + a12 - a14 - a15 - a16,
         r4 = a4 + 2 * a12 + 2 * a13 + a14 - a16 - a9 - a10,
         r5 = a5 + 2 * a13 + 2 * a14 + a15 - a10 - a11,
         r6 = a6 + 2 * a14 + 2 * a15 + a16 - a11 - a12,
         r7 = a7 + 3 * a15 + 2 * a16 + a14 - a9 - a10,
         r8 = a8 + 3 * a16 + a9 - a11 - a12 - a13 - a14
  PROVE  IsFolded256(W, a1, a2, a3, a4, a5, a6, a7, a8, a9, a10, a11, a12, a13, a14,
               a15, a16, r1, r2, r3, r4, r5, r6, r7, r8)
<1>1. IsFolded256(W, a1, a2, a3, a4, a5, a6, a7, a8, a9, a10, a11, a12, a13, a14,
               a15, a16, a1 + a9 + a10 - a12 - a13 - a14 - a15,
               a2 + a10 + a11 - a13 - a14 - a15 - a16,
               a3 + a11 + a12 - a14 - a15 - a16,
               a4 + 2 * a12 + 2 * a13 + a14 - a16 - a9 - a10,
               a5 + 2 * a13 + 2 * a14 + a15 - a10 - a11,
               a6 + 2 * a14 + 2 * a15 + a16 - a11 - a12,
               a7 + 3 * a15 + 2 * a16 + a14 - a9 - a10,
               a8 + 3 * a16 + a9 - a11 - a12 - a13 - a14)
  BY SMTT(60) DEF IsFolded256, Over256, Words8, Below8, Worth256, Field!P256Prime
<1>. QED
  BY ONLY <1>1,
     r1 = a1 + a9 + a10 - a12 - a13 - a14 - a15,
     r2 = a2 + a10 + a11 - a13 - a14 - a15 - a16,
     r3 = a3 + a11 + a12 - a14 - a15 - a16,
     r4 = a4 + 2 * a12 + 2 * a13 + a14 - a16 - a9 - a10,
     r5 = a5 + 2 * a13 + 2 * a14 + a15 - a10 - a11,
     r6 = a6 + 2 * a14 + 2 * a15 + a16 - a11 - a12,
     r7 = a7 + 3 * a15 + 2 * a16 + a14 - a9 - a10,
     r8 = a8 + 3 * a16 + a9 - a11 - a12 - a13 - a14

\* The words above, folded into those below: a number of the same remainder, by words that
\* are small multiples of the greatest.
FoldsTo256(W, k, r) ==
  /\ Len(r) = 8
  /\ RowsWithin(W, r, 8, -4, 7)
  /\ \E q \in Int : Eight(W, k) + EightAbove(W, k) * Worth256(W)
                      = Eight(W, r) + q * Field!P256Prime(W)

LEMMA Fold256 ==
  ASSUME NEW W \in Nat, W >= 8, NEW k \in [1 .. 16 -> 0 .. W - 1]
  PROVE  FoldsTo256(W, k, Field!P256Fold(k))
<1> DEFINE r == Field!P256Fold(k)
           q == Over256(k[1], k[2], k[3], k[4], k[5], k[6], k[7], k[8], k[9], k[10], k[11],
                        k[12], k[13], k[14], k[15], k[16], W)
<1>1. /\ k[1] \in 0 .. W - 1 /\ k[2] \in 0 .. W - 1 /\ k[3] \in 0 .. W - 1
      /\ k[4] \in 0 .. W - 1 /\ k[5] \in 0 .. W - 1 /\ k[6] \in 0 .. W - 1
      /\ k[7] \in 0 .. W - 1 /\ k[8] \in 0 .. W - 1 /\ k[9] \in 0 .. W - 1
      /\ k[10] \in 0 .. W - 1 /\ k[11] \in 0 .. W - 1 /\ k[12] \in 0 .. W - 1
      /\ k[13] \in 0 .. W - 1 /\ k[14] \in 0 .. W - 1 /\ k[15] \in 0 .. W - 1
      /\ k[16] \in 0 .. W - 1
  OBVIOUS
<1>2. /\ k[1] \in Int /\ k[2] \in Int /\ k[3] \in Int /\ k[4] \in Int
      /\ k[5] \in Int /\ k[6] \in Int /\ k[7] \in Int /\ k[8] \in Int
      /\ k[9] \in Int /\ k[10] \in Int /\ k[11] \in Int /\ k[12] \in Int
      /\ k[13] \in Int /\ k[14] \in Int /\ k[15] \in Int /\ k[16] \in Int
  BY <1>1
<1>3. Len(r) = 8
  BY DEF Field!P256Fold
<1>4. IsFolded256(W, k[1], k[2], k[3], k[4], k[5], k[6], k[7], k[8], k[9], k[10],
                  k[11], k[12], k[13], k[14], k[15], k[16], r[1], r[2], r[3],
                  r[4], r[5], r[6], r[7], r[8])
  <2>1. W \in Int
    OBVIOUS
  <2>2. /\ r[1] = k[1] + k[9] + k[10] - k[12] - k[13] - k[14] - k[15]
        /\ r[2] = k[2] + k[10] + k[11] - k[13] - k[14] - k[15] - k[16]
        /\ r[3] = k[3] + k[11] + k[12] - k[14] - k[15] - k[16]
        /\ r[4] = k[4] + 2 * k[12] + 2 * k[13] + k[14] - k[16] - k[9] - k[10]
        /\ r[5] = k[5] + 2 * k[13] + 2 * k[14] + k[15] - k[10] - k[11]
        /\ r[6] = k[6] + 2 * k[14] + 2 * k[15] + k[16] - k[11] - k[12]
        /\ r[7] = k[7] + 3 * k[15] + 2 * k[16] + k[14] - k[9] - k[10]
        /\ r[8] = k[8] + 3 * k[16] + k[9] - k[11] - k[12] - k[13] - k[14]
    BY DEF Field!P256Fold
  <2>3. /\ r[1] \in Int /\ r[2] \in Int /\ r[3] \in Int /\ r[4] \in Int
        /\ r[5] \in Int /\ r[6] \in Int /\ r[7] \in Int
        /\ r[8] \in Int
    BY <1>2, <2>2
  <2> HIDE DEF r
  <2>. QED
    BY <1>2, <2>1, <2>2, <2>3, Folded256, ZenonT(60)
<1>5. q \in Int
  BY <1>2 DEF Over256
<1>6. Eight(W, k) + EightAbove(W, k) * Worth256(W) = Eight(W, r) + q * Field!P256Prime(W)
  BY <1>4 DEF IsFolded256, Eight, EightAbove
<1>7. RowsWithin(W, r, 8, -4, 7)
  BY <1>1 DEF Field!P256Fold, RowsWithin
<1> HIDE DEF q
<1>. QED
  BY <1>3, <1>5, <1>6, <1>7, Zenon DEF FoldsTo256, r

\* A multiple of p more or less.
IsMultipleOff(a, b, y, q, p, d, R, x) == x = y + (q + b) * p /\ q + b \in Int

LEMMA MultipleOff ==
  ASSUME NEW a \in Int, NEW b \in Int, NEW y \in Int, NEW q \in Int,
         NEW p \in Nat, NEW d \in Nat, NEW R \in Nat, NEW x,
         R = p + d, a + b * d = y + q * p, x = a + b * R
  PROVE  IsMultipleOff(a, b, y, q, p, d, R, x)
<1>1. x = (a + b * d) + b * p
  <2>1. b * (p + d) = b * d + b * p
    OBVIOUS
  <2>2. x = a + b * (p + d)
    OBVIOUS
  <2>3. b * d \in Int /\ b * p \in Int
    OBVIOUS
  <2>. QED
    BY <2>1, <2>2, <2>3
<1>2. x = (y + q * p) + b * p
  BY <1>1
<1>. QED
  BY <1>2 DEF IsMultipleOff

\* fe256_solinas, for words of any size from 8 on: nothing is left over after the second
\* pass over the overflow, so that none is lost where it is not kept, and the conditional
\* subtractions end with the remainder of the product.
LEMMA P256Reduces ==
  ASSUME NEW W \in Nat, W >= 8, NEW words \in [1 .. 16 -> 0 .. W - 1], Len(words) = 16
  PROVE  Field!ReducesTo(W, Field!P256Prime(W), words, Field!P256Solinas(W, words))
<1> DEFINE p == Field!P256Prime(W)
           d == Worth256(W)
           R == Base8(W)
           r == Field!P256Fold(words)
           c1 == Field!Propagate(W, r)
           c2 == Field!FoldOver(W, c1, Field!P256Over)
           c3 == Field!FoldOver(W, c2, Field!P256Over)
           x == Field!Value(W, words)
<1>0. W \in Int /\ W >= 2
  OBVIOUS
<1>1. /\ p \in Nat /\ d \in Nat /\ R \in Nat /\ R = p + d /\ R < 2 * p /\ d >= 1
      /\ 8 * d <= R
  BY Prime256
<1>2. FoldsTo256(W, words, r)
  BY Fold256
<1>3. Len(r) = 8 /\ RowsWithin(W, r, 8, -4, 7)
  BY <1>2 DEF FoldsTo256
<1>4. PICK q \in Int : Eight(W, words) + EightAbove(W, words) * d = Eight(W, r) + q * p
  BY <1>2 DEF FoldsTo256
<1> HIDE DEF p, d, R, r
<1>5. Holds8(W, c1, Eight(W, r))
  BY <1>3, PropagateEight DEF RowsWithin
<1>6. -4 <= c1.over /\ c1.over <= 7
  <2>1. 8 \in Nat /\ \A i \in 1 .. 8 : r[i] \in Int
    BY <1>3 DEF RowsWithin
  <2>2. IsPropagated(W, r, 8, c1)
    BY <1>0, <1>3, <2>1, PropagateIs, Zenon
  <2>3. PICK w, o : IsCarried(W, r, 8, w, o) /\ c1 = [words |-> w, over |-> o[8]]
    BY <2>2, Zenon DEF IsPropagated
  <2>4. 8 \in 0 .. 8 /\ -4 \in Int /\ 7 \in Int /\ -4 <= 0 /\ 0 <= 7
    OBVIOUS
  <2>5. CarriesWithin(o, 8, -4, 7)
    BY <1>0, <1>3, <2>1, <2>3, <2>4, CarriesBounded, Zenon
  <2> HIDE DEF c1
  <2>. QED
    BY <2>3, <2>4, <2>5 DEF CarriesWithin
<1> HIDE DEF c1
<1>7. Holds8(W, c2, Eight(W, c1.words) + c1.over * d)
  BY <1>5, FoldOver256 DEF d
<1> HIDE DEF c2
<1>8. Holds8(W, c3, Eight(W, c2.words) + c2.over * d)
  BY <1>7, FoldOver256 DEF d
<1> HIDE DEF c3
<1> DEFINE h1 == Eight(W, c1.words)
           h2 == Eight(W, c2.words)
           h3 == Eight(W, c3.words)
           o1 == c1.over
           o2 == c2.over
           o3 == c3.over
<1>9. /\ h1 \in 0 .. R - 1 /\ h2 \in 0 .. R - 1 /\ h3 \in 0 .. R - 1
      /\ o1 \in Int /\ o2 \in Int /\ o3 \in Int
      /\ Eight(W, r) = h1 + o1 * R
      /\ h1 + o1 * d = h2 + o2 * R /\ h2 + o2 * d = h3 + o3 * R
  BY <1>5, <1>7, <1>8, Zenon DEF Holds8, R
<1>10. x \in Int /\ x = Eight(W, words) + EightAbove(W, words) * R
  <2>1. words \in [1 .. 16 -> Int]
    OBVIOUS
  <2>2. x = Eight(W, words) + EightAbove(W, words) * R
    BY <1>0, <2>1, ValueOfTwiceEight, Zenon DEF R
  <2>3. Eight(W, words) \in Int /\ EightAbove(W, words) \in Int
    <3>1. /\ words[1] \in Int /\ words[2] \in Int /\ words[3] \in Int
          /\ words[4] \in Int /\ words[5] \in Int /\ words[6] \in Int
          /\ words[7] \in Int /\ words[8] \in Int /\ words[9] \in Int
          /\ words[10] \in Int /\ words[11] \in Int /\ words[12] \in Int
          /\ words[13] \in Int /\ words[14] \in Int /\ words[15] \in Int
          /\ words[16] \in Int
      BY <2>1
    <3>. QED
      BY <1>0, <3>1, Words8Type, Zenon DEF Eight, EightAbove
  <2>. QED
    BY <1>1, <2>2, <2>3
<1>11. \E e \in Int : x = (h1 + o1 * R) + e * p
  <2> DEFINE a == Eight(W, words)
             b == EightAbove(W, words)
             y == Eight(W, r)
  <2>1. a \in Int /\ b \in Int
    <3>1. /\ words[1] \in Int /\ words[2] \in Int /\ words[3] \in Int
          /\ words[4] \in Int /\ words[5] \in Int /\ words[6] \in Int
          /\ words[7] \in Int /\ words[8] \in Int /\ words[9] \in Int
          /\ words[10] \in Int /\ words[11] \in Int /\ words[12] \in Int
          /\ words[13] \in Int /\ words[14] \in Int /\ words[15] \in Int
          /\ words[16] \in Int
      OBVIOUS
    <3>. QED
      BY <1>0, <3>1, Words8Type, Zenon DEF Eight, EightAbove
  <2>2. y \in Int /\ y = h1 + o1 * R
    BY <1>1, <1>9
  <2>3. a + b * d = y + q * p /\ x = a + b * R
    BY <1>4, <1>10
  <2> HIDE DEF a, b, y, x, h1, o1
  <2>4. IsMultipleOff(a, b, y, q, p, d, R, x)
    BY <1>1, <2>1, <2>2, <2>3, MultipleOff, Zenon
  <2>. QED
    BY <2>1, <2>2, <2>4 DEF IsMultipleOff
<1>13. o1 * d <= R - d /\ 0 - (R - d) <= o1 * d
  <2> HIDE DEF o1
  <2>1. (0 - 4) <= o1 /\ o1 <= 7
    BY <1>6 DEF o1
  <2>2. o1 \in Int
    BY <1>9
  <2>3. o1 \in {-4, -3, -2, -1, 0, 1, 2, 3, 4, 5, 6, 7}
    BY <2>1, <2>2
  <2>. QED
    BY <1>1, <2>3
<1>14. IsReduced(p, x, h3, o3)
  <2> HIDE DEF x, h1, h2, h3, o1, o2, o3
  <2>1. IsPassing(R, p, d, x, h1, h2, h3, o1, o2, o3)
    BY <1>1, <1>9, <1>11, <1>13, Zenon DEF IsPassing
  <2>. QED
    BY <2>1, PassesReduce, Zenon
<1>15. Field!Value(W, c3.words) = h3
  <2>1. c3.words \in [1 .. 8 -> Int] /\ Len(c3.words) = 8
    BY <1>8 DEF Holds8
  <2>. QED
    BY <1>0, <2>1, ValueOfEight, Zenon
<1> DEFINE s == Field!SubtractFour(W, p, c3)
           m == Field!Remainder(W, p, words)
<1>16. s \in 0 .. p - 1 /\ (s = h3 \/ s = h3 - p)
  <2>1. h3 \in Nat /\ h3 < 2 * p
    BY <1>1, <1>9
  <2> HIDE DEF h3
  <2>. QED
    BY <1>1, <1>15, <2>1, Subtracted
<1>17. m \in 0 .. p - 1 /\ \E z \in Int : x = m + z * p
  <2>1. p >= 1 /\ 16 \in Nat /\ words \in [1 .. 16 -> Int] /\ W \in Int
    BY <1>1
  <2>. QED
    BY <1>0, <1>1, <2>1, RemainderIs, ZenonT(60)
<1>18. s = m
  <2>1. PICK z \in Int : x = m + z * p
    BY <1>17
  <2>2. PICK y \in Int : x = h3 + y * p
    BY <1>14 DEF IsReduced
  <2>3. h3 \in Int
    BY <1>1, <1>9
  <2> HIDE DEF s, m, x, h3
  <2>4. \E u \in Int : s = m + u * p
    <3>1. CASE s = h3
      <4>1. m + z * p = s + y * p
        BY <2>1, <2>2, <3>1
      <4>2. s = m + (z - y) * p
        BY <1>1, <1>16, <1>17, <4>1
      <4>. QED
        BY <4>2
    <3>2. CASE s = h3 - p
      <4>1. m + z * p = (s + p) + y * p
        BY <1>1, <2>1, <2>2, <2>3, <3>2
      <4>2. s = m + (z - y - 1) * p
        BY <1>1, <1>16, <1>17, <4>1
      <4>. QED
        BY <4>2
    <3>. QED
      BY <1>16, <3>1, <3>2
  <2>. QED
    BY <1>1, <1>16, <1>17, <2>4, SameRemainder
<1>19. o3 = 0
  BY <1>14 DEF IsReduced
<1>20. Field!P256Solinas(W, words) = c3
  BY DEF Field!P256Solinas, c1, c2, c3, r
<1>. QED
  BY <1>18, <1>19, <1>20 DEF Field!ReducesTo, p

-----------------------------------------------------------------------------
(* P-384. *)

\* What the base of the words above is worth: the base itself less the prime.
Worth384(W) == (W + 1) * W * W * W - W + 1

LEMMA Prime384 ==
  ASSUME NEW W \in Nat, W >= 8
  PROVE  /\ Field!P384Prime(W) \in Nat /\ Worth384(W) \in Nat /\ Base12(W) \in Nat
         /\ Base12(W) = Field!P384Prime(W) + Worth384(W)
         /\ Worth384(W) >= 1 /\ (5 * W + 1) * Worth384(W) <= Base12(W)
         /\ Base12(W) < 2 * Field!P384Prime(W)
<1> DEFINE W3 == W * W * W
           W4 == W3 * W
           W6 == W3 * W3
           W12 == W6 * W6
<1>1. W3 \in Nat /\ W3 >= 8 * W /\ W3 >= 512 /\ W * W \in Nat /\ W * W >= 64
  <2>1. W * W \in Nat /\ W * W >= 8 * W /\ W * W >= 64
    OBVIOUS
  <2> DEFINE y == W * W
  <2> HIDE DEF y
  <2>2. y * W \in Nat /\ y * W >= 64 * W
    BY <2>1 DEF y
  <2>. QED
    BY <2>1, <2>2 DEF y
<1>2. W4 \in Nat /\ W4 = W3 * W /\ W4 >= 8 * W3
  <2> HIDE DEF W3
  <2>. QED
    BY <1>1
<1>3. W6 \in Nat /\ W6 >= 512 * W3
  <2> HIDE DEF W3
  <2>. QED
    BY <1>1
<1>4. W12 \in Nat /\ W12 >= 512 * W3 * W6
  <2> HIDE DEF W6
  <2>. QED
    BY <1>1, <1>3
<1>5. Base12(W) = W12 /\ Worth384(W) = W4 + W3 - W + 1
  BY DEF Base12, Worth384
<1>6. Field!P384Prime(W) = W12 - W4 - W3 + W - 1
  BY DEF Field!P384Prime
<1>7. Worth384(W) \in Nat /\ Worth384(W) >= 1 /\ Worth384(W) <= 2 * W4
  <2> HIDE DEF W3, W4
  <2>. QED
    BY <1>1, <1>2, <1>5
<1>8. (5 * W + 1) * Worth384(W) <= W12
  <2> DEFINE d == Worth384(W)
  <2>1. (5 * W + 1) * d <= 6 * (W * W4) * 2
    <3> HIDE DEF d, W4
    <3>1. d \in Nat /\ d <= 2 * W4 /\ W4 \in Nat
      BY <1>2, <1>7 DEF d
    <3>2. (5 * W + 1) * d <= (6 * W) * d
      BY <3>1
    <3>3. (6 * W) * d <= (6 * W) * (2 * W4)
      BY <3>1
    <3>4. (5 * W + 1) * d \in Int /\ (6 * W) * d \in Int /\ (6 * W) * (2 * W4) = 6 * (W * W4) * 2
      BY <3>1
    <3> DEFINE a == (5 * W + 1) * d
               b == (6 * W) * d
               c == (6 * W) * (2 * W4)
    <3>5. a <= b /\ b <= c /\ a \in Int /\ b \in Int /\ c \in Int
      <4>1. c \in Int
        BY <3>1
      <4>. QED
        BY <3>2, <3>3, <3>4, <4>1
    <3>6. c = 6 * (W * W4) * 2
      BY <3>4
    <3> HIDE DEF a, b, c
    <3>7. a <= c
      BY <3>5
    <3>. QED
      BY <3>6, <3>7 DEF a
  <2>2. 12 * (W * W4) <= W12
    <3>1. W * W4 <= W6
      <4>1. W * W4 = W3 * (W * W) /\ W6 = W3 * (W * (W * W))
        OBVIOUS
      <4> DEFINE y == W * W
      <4>2. y <= W * y /\ y \in Nat /\ W * y \in Nat
        <5> HIDE DEF y
        <5>. QED
          BY <1>1 DEF y
      <4>3. W3 * y <= W3 * (W * y)
        <5> DEFINE z == W * y
        <5> HIDE DEF y, z, W3
        <5>. QED
          BY <1>1, <4>2 DEF z
      <4>. QED
        BY <4>1, <4>3
    <3>2. 512 * W6 <= W12
      <4> HIDE DEF W6
      <4>. QED
        BY <1>1, <1>3
    <3>3. W * W4 \in Nat
      BY <1>2
    <3> HIDE DEF W4, W6, W12
    <3>. QED
      BY <1>3, <1>4, <3>1, <3>2, <3>3
  <2>3. W * W4 \in Nat /\ (5 * W + 1) * d \in Int
    BY <1>2, <1>7
  <2>4. 6 * (W * W4) * 2 = 12 * (W * W4)
    BY <2>3
  <2>. QED
    BY <1>4, <2>1, <2>2, <2>3, <2>4
<1>9. 2 * Worth384(W) < W12
  <2> DEFINE d == Worth384(W)
  <2>1. (5 * W + 1) * d >= 41 * d
    BY <1>7
  <2>2. (5 * W + 1) * d \in Int /\ d \in Nat /\ d >= 1
    BY <1>7
  <2> HIDE DEF d, W12
  <2>. QED
    BY <1>4, <1>8, <2>1, <2>2 DEF d
<1> HIDE DEF W3, W4, W6, W12
<1>. QED
  BY <1>1, <1>2, <1>4, <1>5, <1>6, <1>7, <1>8, <1>9

\* The overflow, folded into the words.
IsFoldedOver384(W, w1, w2, w3, w4, w5, w6, w7, w8, w9, w10, w11, w12, v) ==
  Words12(W, w1 + v, w2 - v, w3, w4 + v, w5 + v, w6, w7, w8, w9, w10, w11, w12)
    = Words12(W, w1, w2, w3, w4, w5, w6, w7, w8, w9, w10, w11, w12) + v * Worth384(W)

LEMMA FoldedOver384 ==
  ASSUME NEW W \in Int, NEW v \in Int, NEW w1 \in Int, NEW w2 \in Int,
         NEW w3 \in Int, NEW w4 \in Int, NEW w5 \in Int, NEW w6 \in Int,
         NEW w7 \in Int, NEW w8 \in Int, NEW w9 \in Int, NEW w10 \in Int,
         NEW w11 \in Int, NEW w12 \in Int
  PROVE  IsFoldedOver384(W, w1, w2, w3, w4, w5, w6, w7, w8, w9, w10, w11, w12, v)
BY SMTT(30) DEF IsFoldedOver384, Words12, Below12, Worth384

LEMMA FoldOver384 ==
  ASSUME NEW W \in Nat, W >= 2, NEW c, NEW x, Holds12(W, c, x)
  PROVE  Holds12(W, Field!FoldOver(W, c, Field!P384Over),
                Twelve(W, c.words) + c.over * Worth384(W))
<1> DEFINE w == c.words
           v == c.over
           r == [i \in 1 .. Len(w) |-> w[i] + Field!P384Over[i] * v]
<1>1. v \in Int /\ w \in [1 .. 12 -> 0 .. W - 1] /\ Len(w) = 12
  BY DEF Holds12
<1>2. /\ w[1] \in Int /\ w[2] \in Int /\ w[3] \in Int /\ w[4] \in Int
      /\ w[5] \in Int /\ w[6] \in Int /\ w[7] \in Int /\ w[8] \in Int
      /\ w[9] \in Int /\ w[10] \in Int /\ w[11] \in Int /\ w[12] \in Int
  BY <1>1
<1> HIDE DEF w, v
<1>3. r \in [1 .. 12 -> Int] /\ Len(r) = 12
  <2>1. \A i \in 1 .. 12 : Field!P384Over[i] \in Int
    BY DEF Field!P384Over
  <2>2. \A i \in 1 .. 12 : Field!P384Over[i] * v \in Int /\ w[i] \in Int
    BY <1>1, <2>1
  <2>. QED
    BY <1>1, <2>2
<1>4. /\ r[1] = w[1] + v /\ r[2] = w[2] - v /\ r[3] = w[3] /\ r[4] = w[4] + v
      /\ r[5] = w[5] + v /\ r[6] = w[6] /\ r[7] = w[7] /\ r[8] = w[8]
      /\ r[9] = w[9] /\ r[10] = w[10] /\ r[11] = w[11] /\ r[12] = w[12]
  BY <1>1, <1>2 DEF Field!P384Over
<1>5. Field!FoldOver(W, c, Field!P384Over) = Field!Propagate(W, r)
  BY DEF Field!FoldOver, w, v
<1> HIDE DEF r
<1>6. Twelve(W, r) = Twelve(W, w) + v * Worth384(W)
  <2>1. IsFoldedOver384(W, w[1], w[2], w[3], w[4], w[5], w[6], w[7], w[8], w[9],
                        w[10], w[11], w[12], v)
    <3>1. W \in Int
      OBVIOUS
    <3>. QED
      BY <1>1, <1>2, <3>1, FoldedOver384, Zenon
  <2>. QED
    BY <1>4, <2>1, Zenon DEF Twelve, IsFoldedOver384
<1>7. Holds12(W, Field!Propagate(W, r), Twelve(W, r))
  BY <1>3, PropagateTwelve
<1>. QED
  BY <1>5, <1>6, <1>7 DEF w, v

\* The words above, folded in, by the words of the quotient.
Over384(a1, a2, a3, a4, a5, a6, a7, a8, a9, a10, a11, a12, a13, a14, a15, a16, a17, a18, a19,
    a20, a21, a22, a23, a24, W) ==
  ((a24 * W + (a23 + a24)) * W + (a22 + a23)) * W + (a21 - a23 - a24)
IsFolded384(W, a1, a2, a3, a4, a5, a6, a7, a8, a9, a10, a11, a12, a13, a14,
    a15, a16, a17, a18, a19, a20, a21, a22, a23, a24, r1, r2, r3, r4, r5, r6,
    r7, r8, r9, r10, r11, r12) ==
  Words12(W, a1, a2, a3, a4, a5, a6, a7, a8, a9, a10, a11, a12)
      + Words12(W, a13, a14, a15, a16, a17, a18, a19, a20, a21, a22, a23, a24) * Worth384(W)
    = Words12(W, r1, r2, r3, r4, r5, r6, r7, r8, r9, r10, r11, r12)
      + Over384(a1, a2, a3, a4, a5, a6, a7, a8, a9, a10, a11, a12, a13, a14, a15, a16,
                a17, a18, a19, a20, a21, a22, a23, a24, W) * Field!P384Prime(W)

LEMMA Folded384 ==
  ASSUME NEW W \in Int, NEW a1 \in Int, NEW a2 \in Int, NEW a3 \in Int,
         NEW a4 \in Int, NEW a5 \in Int, NEW a6 \in Int, NEW a7 \in Int,
         NEW a8 \in Int, NEW a9 \in Int, NEW a10 \in Int, NEW a11 \in Int,
         NEW a12 \in Int, NEW a13 \in Int, NEW a14 \in Int, NEW a15 \in Int,
         NEW a16 \in Int, NEW a17 \in Int, NEW a18 \in Int, NEW a19 \in Int,
         NEW a20 \in Int, NEW a21 \in Int, NEW a22 \in Int, NEW a23 \in Int,
         NEW a24 \in Int, NEW r1 \in Int, NEW r2 \in Int, NEW r3 \in Int,
         NEW r4 \in Int, NEW r5 \in Int, NEW r6 \in Int, NEW r7 \in Int,
         NEW r8 \in Int, NEW r9 \in Int, NEW r10 \in Int, NEW r11 \in Int,
         NEW r12 \in Int, r1 = a1 + a13 + a21 + (W - 1) * a23 + (W - 1) * a24,
         r2 = a2 + (W - 1) * a13 + a14 + (W - 1) * a21 + a22 + a23,
         r3 = a3 + (W - 1) * a13 + (W - 1) * a14 + a15 + (W - 1) * a21 + (W - 1) * a22 + a24,
         r4 = a4 + (W - 1) * a14 + (W - 1) * a15 + a16 + (W - 1) * a22 + (W - 2) * a23
             + (W - 1) * a24,
         r5 = a5 + a13 + (W - 1) * a15 + (W - 1) * a16 + a17 + a21 + (W - 1) * a23
             + (W - 3) * a24,
         r6 = a6 + a14 + (W - 1) * a16 + (W - 1) * a17 + a18 + a22 + a23,
         r7 = a7 + a15 + (W - 1) * a17 + (W - 1) * a18 + a19 + a23 + 2 * a24,
         r8 = a8 + a16 + (W - 1) * a18 + (W - 1) * a19 + a20 + a24,
         r9 = a9 + a17 + (W - 1) * a19 + (W - 1) * a20 + a21,
         r10 = a10 + a18 + (W - 1) * a20 + (W - 1) * a21 + a22,
         r11 = a11 + a19 + (W - 1) * a21 + (W - 1) * a22 + a23,
         r12 = a12 + a20 + (W - 1) * a22 + (W - 1) * a23 + a24
  PROVE  IsFolded384(W, a1, a2, a3, a4, a5, a6, a7, a8, a9, a10, a11, a12, a13, a14,
               a15, a16, a17, a18, a19, a20, a21, a22, a23, a24, r1, r2, r3,
               r4, r5, r6, r7, r8, r9, r10, r11, r12)
<1>1. IsFolded384(W, a1, a2, a3, a4, a5, a6, a7, a8, a9, a10, a11, a12, a13, a14,
               a15, a16, a17, a18, a19, a20, a21, a22, a23, a24,
               a1 + a13 + a21 + (W - 1) * a23 + (W - 1) * a24,
               a2 + (W - 1) * a13 + a14 + (W - 1) * a21 + a22 + a23,
               a3 + (W - 1) * a13 + (W - 1) * a14 + a15 + (W - 1) * a21 + (W - 1) * a22 + a24,
               a4 + (W - 1) * a14 + (W - 1) * a15 + a16 + (W - 1) * a22 + (W - 2) * a23
                   + (W - 1) * a24,
               a5 + a13 + (W - 1) * a15 + (W - 1) * a16 + a17 + a21 + (W - 1) * a23
                   + (W - 3) * a24,
               a6 + a14 + (W - 1) * a16 + (W - 1) * a17 + a18 + a22 + a23,
               a7 + a15 + (W - 1) * a17 + (W - 1) * a18 + a19 + a23 + 2 * a24,
               a8 + a16 + (W - 1) * a18 + (W - 1) * a19 + a20 + a24,
               a9 + a17 + (W - 1) * a19 + (W - 1) * a20 + a21,
               a10 + a18 + (W - 1) * a20 + (W - 1) * a21 + a22,
               a11 + a19 + (W - 1) * a21 + (W - 1) * a22 + a23,
               a12 + a20 + (W - 1) * a22 + (W - 1) * a23 + a24)
  BY SMTT(60) DEF IsFolded384, Over384, Words12, Below12, Worth384, Field!P384Prime
<1>. QED
  BY ONLY <1>1,
     r1 = a1 + a13 + a21 + (W - 1) * a23 + (W - 1) * a24,
     r2 = a2 + (W - 1) * a13 + a14 + (W - 1) * a21 + a22 + a23,
     r3 = a3 + (W - 1) * a13 + (W - 1) * a14 + a15 + (W - 1) * a21 + (W - 1) * a22 + a24,
     r4 = a4 + (W - 1) * a14 + (W - 1) * a15 + a16 + (W - 1) * a22 + (W - 2) * a23
         + (W - 1) * a24,
     r5 = a5 + a13 + (W - 1) * a15 + (W - 1) * a16 + a17 + a21 + (W - 1) * a23 + (W - 3) * a24,
     r6 = a6 + a14 + (W - 1) * a16 + (W - 1) * a17 + a18 + a22 + a23,
     r7 = a7 + a15 + (W - 1) * a17 + (W - 1) * a18 + a19 + a23 + 2 * a24,
     r8 = a8 + a16 + (W - 1) * a18 + (W - 1) * a19 + a20 + a24,
     r9 = a9 + a17 + (W - 1) * a19 + (W - 1) * a20 + a21,
     r10 = a10 + a18 + (W - 1) * a20 + (W - 1) * a21 + a22,
     r11 = a11 + a19 + (W - 1) * a21 + (W - 1) * a22 + a23,
     r12 = a12 + a20 + (W - 1) * a22 + (W - 1) * a23 + a24

\* The words above, folded into those below: a number of the same remainder, by words that
\* are small multiples of the greatest.
FoldsTo384(W, k, r) ==
  /\ Len(r) = 12
  /\ RowsWithin(W, r, 12, 0, 5 * W)
  /\ \E q \in Int : Twelve(W, k) + TwelveAbove(W, k) * Worth384(W)
                      = Twelve(W, r) + q * Field!P384Prime(W)

LEMMA Fold384 ==
  ASSUME NEW W \in Nat, W >= 8, NEW k \in [1 .. 24 -> 0 .. W - 1]
  PROVE  FoldsTo384(W, k, Field!P384Fold(W, k))
<1> DEFINE r == Field!P384Fold(W, k)
           q == Over384(k[1], k[2], k[3], k[4], k[5], k[6], k[7], k[8], k[9], k[10], k[11],
                        k[12], k[13], k[14], k[15], k[16], k[17], k[18],
                        k[19], k[20], k[21], k[22], k[23], k[24], W)
<1>1. /\ k[1] \in 0 .. W - 1 /\ k[2] \in 0 .. W - 1 /\ k[3] \in 0 .. W - 1
      /\ k[4] \in 0 .. W - 1 /\ k[5] \in 0 .. W - 1 /\ k[6] \in 0 .. W - 1
      /\ k[7] \in 0 .. W - 1 /\ k[8] \in 0 .. W - 1 /\ k[9] \in 0 .. W - 1
      /\ k[10] \in 0 .. W - 1 /\ k[11] \in 0 .. W - 1 /\ k[12] \in 0 .. W - 1
      /\ k[13] \in 0 .. W - 1 /\ k[14] \in 0 .. W - 1 /\ k[15] \in 0 .. W - 1
      /\ k[16] \in 0 .. W - 1 /\ k[17] \in 0 .. W - 1 /\ k[18] \in 0 .. W - 1
      /\ k[19] \in 0 .. W - 1 /\ k[20] \in 0 .. W - 1 /\ k[21] \in 0 .. W - 1
      /\ k[22] \in 0 .. W - 1 /\ k[23] \in 0 .. W - 1 /\ k[24] \in 0 .. W - 1
  OBVIOUS
<1>2. /\ k[1] \in Int /\ k[2] \in Int /\ k[3] \in Int /\ k[4] \in Int
      /\ k[5] \in Int /\ k[6] \in Int /\ k[7] \in Int /\ k[8] \in Int
      /\ k[9] \in Int /\ k[10] \in Int /\ k[11] \in Int /\ k[12] \in Int
      /\ k[13] \in Int /\ k[14] \in Int /\ k[15] \in Int /\ k[16] \in Int
      /\ k[17] \in Int /\ k[18] \in Int /\ k[19] \in Int /\ k[20] \in Int
      /\ k[21] \in Int /\ k[22] \in Int /\ k[23] \in Int /\ k[24] \in Int
  BY <1>1
<1>3. Len(r) = 12
  BY DEF Field!P384Fold
<1>4. IsFolded384(W, k[1], k[2], k[3], k[4], k[5], k[6], k[7], k[8], k[9], k[10],
                  k[11], k[12], k[13], k[14], k[15], k[16], k[17], k[18],
                  k[19], k[20], k[21], k[22], k[23], k[24], r[1], r[2], r[3],
                  r[4], r[5], r[6], r[7], r[8], r[9], r[10], r[11], r[12])
  <2>1. W \in Int
    OBVIOUS
  <2>2. /\ r[1] = k[1] + k[13] + k[21] + (W - 1) * k[23] + (W - 1) * k[24]
        /\ r[2] = k[2] + (W - 1) * k[13] + k[14] + (W - 1) * k[21] + k[22] + k[23]
        /\ r[3] = k[3] + (W - 1) * k[13] + (W - 1) * k[14] + k[15] + (W - 1) * k[21]
               + (W - 1) * k[22] + k[24]
        /\ r[4] = k[4] + (W - 1) * k[14] + (W - 1) * k[15] + k[16] + (W - 1) * k[22]
               + (W - 2) * k[23] + (W - 1) * k[24]
        /\ r[5] = k[5] + k[13] + (W - 1) * k[15] + (W - 1) * k[16] + k[17] + k[21]
               + (W - 1) * k[23] + (W - 3) * k[24]
        /\ r[6] = k[6] + k[14] + (W - 1) * k[16] + (W - 1) * k[17] + k[18] + k[22] + k[23]
        /\ r[7] = k[7] + k[15] + (W - 1) * k[17] + (W - 1) * k[18] + k[19] + k[23] + 2 * k[24]
        /\ r[8] = k[8] + k[16] + (W - 1) * k[18] + (W - 1) * k[19] + k[20] + k[24]
        /\ r[9] = k[9] + k[17] + (W - 1) * k[19] + (W - 1) * k[20] + k[21]
        /\ r[10] = k[10] + k[18] + (W - 1) * k[20] + (W - 1) * k[21] + k[22]
        /\ r[11] = k[11] + k[19] + (W - 1) * k[21] + (W - 1) * k[22] + k[23]
        /\ r[12] = k[12] + k[20] + (W - 1) * k[22] + (W - 1) * k[23] + k[24]
    BY DEF Field!P384Fold
  <2>3. /\ r[1] \in Int /\ r[2] \in Int /\ r[3] \in Int /\ r[4] \in Int
        /\ r[5] \in Int /\ r[6] \in Int /\ r[7] \in Int
        /\ r[8] \in Int /\ r[9] \in Int /\ r[10] \in Int
        /\ r[11] \in Int /\ r[12] \in Int
    BY <1>2, <2>2
  <2> HIDE DEF r
  <2>. QED
    BY <1>2, <2>1, <2>2, <2>3, Folded384, ZenonT(120)
<1>5. q \in Int
  BY <1>2 DEF Over384
<1>6. Twelve(W, k) + TwelveAbove(W, k) * Worth384(W) = Twelve(W, r) + q * Field!P384Prime(W)
  BY <1>4 DEF IsFolded384, Twelve, TwelveAbove
<1>7. RowsWithin(W, r, 12, 0, 5 * W)
  <2> DEFINE M == (W - 1) * (W - 1)
  <2>1. M \in Nat /\ (5 * W) * (W - 1) = 5 * M + 5 * (W - 1) /\ 0 * (W - 1) = 0
    OBVIOUS
  <2>2. \A c, t \in 0 .. W - 1 : t * c \in 0 .. M
    <3> SUFFICES ASSUME NEW c \in 0 .. W - 1, NEW t \in 0 .. W - 1 PROVE t * c \in 0 .. M
      OBVIOUS
    <3>1. t * c <= (W - 1) * c /\ (W - 1) * c <= (W - 1) * (W - 1)
      OBVIOUS
    <3>2. t * c \in Nat /\ (W - 1) * c \in Nat
      OBVIOUS
    <3>. QED
      BY <2>1, <3>1, <3>2
  <2>3. /\ (W - 1) * k[13] \in 0 .. M /\ (W - 1) * k[14] \in 0 .. M
        /\ (W - 1) * k[15] \in 0 .. M /\ (W - 1) * k[16] \in 0 .. M
        /\ (W - 1) * k[17] \in 0 .. M /\ (W - 1) * k[18] \in 0 .. M
        /\ (W - 1) * k[19] \in 0 .. M /\ (W - 1) * k[20] \in 0 .. M
        /\ (W - 1) * k[21] \in 0 .. M /\ (W - 1) * k[22] \in 0 .. M
        /\ (W - 1) * k[23] \in 0 .. M /\ (W - 1) * k[24] \in 0 .. M
        /\ (W - 2) * k[23] \in 0 .. M /\ (W - 3) * k[24] \in 0 .. M
    <3>1. W - 1 \in 0 .. W - 1 /\ W - 2 \in 0 .. W - 1 /\ W - 3 \in 0 .. W - 1
      OBVIOUS
    <3> HIDE DEF M
    <3>. QED
      BY <1>1, <2>2, <3>1, Zenon
  <2>4. /\ r[1] = k[1] + k[13] + k[21] + (W - 1) * k[23] + (W - 1) * k[24]
        /\ r[2] = k[2] + (W - 1) * k[13] + k[14] + (W - 1) * k[21] + k[22] + k[23]
        /\ r[3] = k[3] + (W - 1) * k[13] + (W - 1) * k[14] + k[15] + (W - 1) * k[21]
               + (W - 1) * k[22] + k[24]
        /\ r[4] = k[4] + (W - 1) * k[14] + (W - 1) * k[15] + k[16] + (W - 1) * k[22]
               + (W - 2) * k[23] + (W - 1) * k[24]
        /\ r[5] = k[5] + k[13] + (W - 1) * k[15] + (W - 1) * k[16] + k[17] + k[21]
               + (W - 1) * k[23] + (W - 3) * k[24]
        /\ r[6] = k[6] + k[14] + (W - 1) * k[16] + (W - 1) * k[17] + k[18] + k[22] + k[23]
        /\ r[7] = k[7] + k[15] + (W - 1) * k[17] + (W - 1) * k[18] + k[19] + k[23] + 2 * k[24]
        /\ r[8] = k[8] + k[16] + (W - 1) * k[18] + (W - 1) * k[19] + k[20] + k[24]
        /\ r[9] = k[9] + k[17] + (W - 1) * k[19] + (W - 1) * k[20] + k[21]
        /\ r[10] = k[10] + k[18] + (W - 1) * k[20] + (W - 1) * k[21] + k[22]
        /\ r[11] = k[11] + k[19] + (W - 1) * k[21] + (W - 1) * k[22] + k[23]
        /\ r[12] = k[12] + k[20] + (W - 1) * k[22] + (W - 1) * k[23] + k[24]
    BY DEF Field!P384Fold
  <2>5. /\ r[1] \in 0 .. (5 * M + 5 * (W - 1))
        /\ r[2] \in 0 .. (5 * M + 5 * (W - 1))
        /\ r[3] \in 0 .. (5 * M + 5 * (W - 1))
        /\ r[4] \in 0 .. (5 * M + 5 * (W - 1))
        /\ r[5] \in 0 .. (5 * M + 5 * (W - 1))
        /\ r[6] \in 0 .. (5 * M + 5 * (W - 1))
        /\ r[7] \in 0 .. (5 * M + 5 * (W - 1))
        /\ r[8] \in 0 .. (5 * M + 5 * (W - 1))
        /\ r[9] \in 0 .. (5 * M + 5 * (W - 1))
        /\ r[10] \in 0 .. (5 * M + 5 * (W - 1))
        /\ r[11] \in 0 .. (5 * M + 5 * (W - 1))
        /\ r[12] \in 0 .. (5 * M + 5 * (W - 1))
    <3> DEFINE m113 == (W - 1) * k[13]
               m114 == (W - 1) * k[14]
               m115 == (W - 1) * k[15]
               m116 == (W - 1) * k[16]
               m117 == (W - 1) * k[17]
               m118 == (W - 1) * k[18]
               m119 == (W - 1) * k[19]
               m120 == (W - 1) * k[20]
               m121 == (W - 1) * k[21]
               m122 == (W - 1) * k[22]
               m123 == (W - 1) * k[23]
               m124 == (W - 1) * k[24]
               m223 == (W - 2) * k[23]
               m324 == (W - 3) * k[24]
    <3>1. /\ m113 \in 0 .. M /\ m114 \in 0 .. M /\ m115 \in 0 .. M
          /\ m116 \in 0 .. M /\ m117 \in 0 .. M /\ m118 \in 0 .. M
          /\ m119 \in 0 .. M /\ m120 \in 0 .. M /\ m121 \in 0 .. M
          /\ m122 \in 0 .. M /\ m123 \in 0 .. M /\ m124 \in 0 .. M
          /\ m223 \in 0 .. M /\ m324 \in 0 .. M
      BY <2>3
    <3>2. /\ r[1] = k[1] + k[13] + k[21] + m123 + m124
          /\ r[2] = k[2] + m113 + k[14] + m121 + k[22] + k[23]
          /\ r[3] = k[3] + m113 + m114 + k[15] + m121 + m122 + k[24]
          /\ r[4] = k[4] + m114 + m115 + k[16] + m122 + m223 + m124
          /\ r[5] = k[5] + k[13] + m115 + m116 + k[17] + k[21] + m123 + m324
          /\ r[6] = k[6] + k[14] + m116 + m117 + k[18] + k[22] + k[23]
          /\ r[7] = k[7] + k[15] + m117 + m118 + k[19] + k[23] + 2 * k[24]
          /\ r[8] = k[8] + k[16] + m118 + m119 + k[20] + k[24]
          /\ r[9] = k[9] + k[17] + m119 + m120 + k[21]
          /\ r[10] = k[10] + k[18] + m120 + m121 + k[22]
          /\ r[11] = k[11] + k[19] + m121 + m122 + k[23]
          /\ r[12] = k[12] + k[20] + m122 + m123 + k[24]
      BY <2>4
    <3> HIDE DEF M, r, m113, m114, m115, m116, m117, m118, m119, m120, m121, m122, m123, m124,
           m223, m324
    <3>. QED
      BY <1>1, <2>1, <3>1, <3>2
  <2>6. \A i \in 1 .. 12 : r[i] \in 0 .. (5 * M + 5 * (W - 1))
    BY <2>5
  <2> HIDE DEF M, r
  <2>. QED
    BY <2>1, <2>6 DEF RowsWithin
<1> HIDE DEF q
<1>. QED
  BY <1>3, <1>5, <1>6, <1>7, Zenon DEF FoldsTo384, r

\* fe384_solinas, for words of any size from 8 on: nothing is left over after the second
\* pass over the overflow, so that none is lost where it is not kept, and the conditional
\* subtractions end with the remainder of the product.
LEMMA P384Reduces ==
  ASSUME NEW W \in Nat, W >= 8, NEW words \in [1 .. 24 -> 0 .. W - 1], Len(words) = 24
  PROVE  Field!ReducesTo(W, Field!P384Prime(W), words, Field!P384Solinas(W, words))
<1> DEFINE p == Field!P384Prime(W)
           d == Worth384(W)
           R == Base12(W)
           r == Field!P384Fold(W, words)
           c1 == Field!Propagate(W, r)
           c2 == Field!FoldOver(W, c1, Field!P384Over)
           c3 == Field!FoldOver(W, c2, Field!P384Over)
           x == Field!Value(W, words)
<1>0. W \in Int /\ W >= 2
  OBVIOUS
<1>1. /\ p \in Nat /\ d \in Nat /\ R \in Nat /\ R = p + d /\ R < 2 * p /\ d >= 1
      /\ (5 * W + 1) * d <= R
  BY Prime384
<1>2. FoldsTo384(W, words, r)
  BY Fold384
<1>3. Len(r) = 12 /\ RowsWithin(W, r, 12, 0, 5 * W)
  BY <1>2 DEF FoldsTo384
<1>4. PICK q \in Int : Twelve(W, words) + TwelveAbove(W, words) * d = Twelve(W, r) + q * p
  BY <1>2 DEF FoldsTo384
<1> HIDE DEF p, d, R, r
<1>5. Holds12(W, c1, Twelve(W, r))
  BY <1>3, PropagateTwelve DEF RowsWithin
<1>6. 0 <= c1.over /\ c1.over <= 5 * W
  <2>1. 12 \in Nat /\ \A i \in 1 .. 12 : r[i] \in Int
    BY <1>3 DEF RowsWithin
  <2>2. IsPropagated(W, r, 12, c1)
    BY <1>0, <1>3, <2>1, PropagateIs, Zenon
  <2>3. PICK w, o : IsCarried(W, r, 12, w, o) /\ c1 = [words |-> w, over |-> o[12]]
    BY <2>2, Zenon DEF IsPropagated
  <2>4. 12 \in 0 .. 12 /\ 0 \in Int /\ 5 * W \in Int /\ 0 <= 0 /\ 0 <= 5 * W
    OBVIOUS
  <2>5. CarriesWithin(o, 12, 0, 5 * W)
    BY <1>0, <1>3, <2>1, <2>3, <2>4, CarriesBounded, Zenon
  <2> HIDE DEF c1
  <2>. QED
    BY <2>3, <2>4, <2>5 DEF CarriesWithin
<1> HIDE DEF c1
<1>7. Holds12(W, c2, Twelve(W, c1.words) + c1.over * d)
  BY <1>5, FoldOver384 DEF d
<1> HIDE DEF c2
<1>8. Holds12(W, c3, Twelve(W, c2.words) + c2.over * d)
  BY <1>7, FoldOver384 DEF d
<1> HIDE DEF c3
<1> DEFINE h1 == Twelve(W, c1.words)
           h2 == Twelve(W, c2.words)
           h3 == Twelve(W, c3.words)
           o1 == c1.over
           o2 == c2.over
           o3 == c3.over
<1>9. /\ h1 \in 0 .. R - 1 /\ h2 \in 0 .. R - 1 /\ h3 \in 0 .. R - 1
      /\ o1 \in Int /\ o2 \in Int /\ o3 \in Int
      /\ Twelve(W, r) = h1 + o1 * R
      /\ h1 + o1 * d = h2 + o2 * R /\ h2 + o2 * d = h3 + o3 * R
  BY <1>5, <1>7, <1>8, Zenon DEF Holds12, R
<1>10. x \in Int /\ x = Twelve(W, words) + TwelveAbove(W, words) * R
  <2>1. words \in [1 .. 24 -> Int]
    OBVIOUS
  <2>2. x = Twelve(W, words) + TwelveAbove(W, words) * R
    BY <1>0, <2>1, ValueOfTwiceTwelve, Zenon DEF R
  <2>3. Twelve(W, words) \in Int /\ TwelveAbove(W, words) \in Int
    <3>1. /\ words[1] \in Int /\ words[2] \in Int /\ words[3] \in Int
          /\ words[4] \in Int /\ words[5] \in Int /\ words[6] \in Int
          /\ words[7] \in Int /\ words[8] \in Int /\ words[9] \in Int
          /\ words[10] \in Int /\ words[11] \in Int /\ words[12] \in Int
          /\ words[13] \in Int /\ words[14] \in Int /\ words[15] \in Int
          /\ words[16] \in Int /\ words[17] \in Int /\ words[18] \in Int
          /\ words[19] \in Int /\ words[20] \in Int /\ words[21] \in Int
          /\ words[22] \in Int /\ words[23] \in Int /\ words[24] \in Int
      BY <2>1
    <3>. QED
      BY <1>0, <3>1, Words12Type, Zenon DEF Twelve, TwelveAbove
  <2>. QED
    BY <1>1, <2>2, <2>3
<1>11. \E e \in Int : x = (h1 + o1 * R) + e * p
  <2> DEFINE a == Twelve(W, words)
             b == TwelveAbove(W, words)
             y == Twelve(W, r)
  <2>1. a \in Int /\ b \in Int
    <3>1. /\ words[1] \in Int /\ words[2] \in Int /\ words[3] \in Int
          /\ words[4] \in Int /\ words[5] \in Int /\ words[6] \in Int
          /\ words[7] \in Int /\ words[8] \in Int /\ words[9] \in Int
          /\ words[10] \in Int /\ words[11] \in Int /\ words[12] \in Int
          /\ words[13] \in Int /\ words[14] \in Int /\ words[15] \in Int
          /\ words[16] \in Int /\ words[17] \in Int /\ words[18] \in Int
          /\ words[19] \in Int /\ words[20] \in Int /\ words[21] \in Int
          /\ words[22] \in Int /\ words[23] \in Int /\ words[24] \in Int
      OBVIOUS
    <3>. QED
      BY <1>0, <3>1, Words12Type, Zenon DEF Twelve, TwelveAbove
  <2>2. y \in Int /\ y = h1 + o1 * R
    BY <1>1, <1>9
  <2>3. a + b * d = y + q * p /\ x = a + b * R
    BY <1>4, <1>10
  <2> HIDE DEF a, b, y, x, h1, o1
  <2>4. IsMultipleOff(a, b, y, q, p, d, R, x)
    BY <1>1, <2>1, <2>2, <2>3, MultipleOff, Zenon
  <2>. QED
    BY <2>1, <2>2, <2>4 DEF IsMultipleOff
<1>13. o1 * d <= R - d /\ 0 - (R - d) <= o1 * d
  <2> DEFINE u == o1 * d
  <2>1. 0 <= o1 /\ o1 <= 5 * W /\ o1 \in Int
    BY <1>6, <1>9
  <2> HIDE DEF o1
  <2>2. 0 <= u /\ u \in Int
    BY <1>1, <2>1
  <2>3. u <= (5 * W) * d
    BY <1>1, <2>1
  <2>4. (5 * W + 1) * d = (5 * W) * d + d /\ (5 * W) * d \in Int
    BY <1>1
  <2> HIDE DEF u
  <2>5. u <= R - d /\ 0 - (R - d) <= u
    BY <1>1, <2>2, <2>3, <2>4
  <2>. QED
    BY <2>5 DEF u
<1>14. IsReduced(p, x, h3, o3)
  <2> HIDE DEF x, h1, h2, h3, o1, o2, o3
  <2>1. IsPassing(R, p, d, x, h1, h2, h3, o1, o2, o3)
    BY <1>1, <1>9, <1>11, <1>13, Zenon DEF IsPassing
  <2>. QED
    BY <2>1, PassesReduce, Zenon
<1>15. Field!Value(W, c3.words) = h3
  <2>1. c3.words \in [1 .. 12 -> Int] /\ Len(c3.words) = 12
    BY <1>8 DEF Holds12
  <2>. QED
    BY <1>0, <2>1, ValueOfTwelve, Zenon
<1> DEFINE s == Field!SubtractFour(W, p, c3)
           m == Field!Remainder(W, p, words)
<1>16. s \in 0 .. p - 1 /\ (s = h3 \/ s = h3 - p)
  <2>1. h3 \in Nat /\ h3 < 2 * p
    BY <1>1, <1>9
  <2> HIDE DEF h3
  <2>. QED
    BY <1>1, <1>15, <2>1, Subtracted
<1>17. m \in 0 .. p - 1 /\ \E z \in Int : x = m + z * p
  <2>1. p >= 1 /\ 24 \in Nat /\ words \in [1 .. 24 -> Int] /\ W \in Int
    BY <1>1
  <2>. QED
    BY <1>0, <1>1, <2>1, RemainderIs, ZenonT(60)
<1>18. s = m
  <2>1. PICK z \in Int : x = m + z * p
    BY <1>17
  <2>2. PICK y \in Int : x = h3 + y * p
    BY <1>14 DEF IsReduced
  <2>3. h3 \in Int
    BY <1>1, <1>9
  <2> HIDE DEF s, m, x, h3
  <2>4. \E u \in Int : s = m + u * p
    <3>1. CASE s = h3
      <4>1. m + z * p = s + y * p
        BY <2>1, <2>2, <3>1
      <4>2. s = m + (z - y) * p
        BY <1>1, <1>16, <1>17, <4>1
      <4>. QED
        BY <4>2
    <3>2. CASE s = h3 - p
      <4>1. m + z * p = (s + p) + y * p
        BY <1>1, <2>1, <2>2, <2>3, <3>2
      <4>2. s = m + (z - y - 1) * p
        BY <1>1, <1>16, <1>17, <4>1
      <4>. QED
        BY <4>2
    <3>. QED
      BY <1>16, <3>1, <3>2
  <2>. QED
    BY <1>1, <1>16, <1>17, <2>4, SameRemainder
<1>19. o3 = 0
  BY <1>14 DEF IsReduced
<1>20. Field!P384Solinas(W, words) = c3
  BY DEF Field!P384Solinas, c1, c2, c3, r
<1>. QED
  BY <1>18, <1>19, <1>20 DEF Field!ReducesTo, p

-----------------------------------------------------------------------------
(* The words of a product. *)

\* The powers of W up to the n-th.
IsPowers(W, n, power) ==
  power[0] = 1 /\ \A i \in 1 .. n : power[i] = power[i - 1] * W

\* What is left of a number after its lowest word is within what is left of its bound.
IsLeft(b, y) == y \in 0 .. b - 1

LEMMA OneWordLess ==
  ASSUME NEW W \in Nat, W >= 2, NEW b \in Nat, NEW w \in 0 .. W - 1, NEW y \in Int,
         w + W * y \in 0 .. b * W - 1
  PROVE  IsLeft(b, y)
<1> DEFINE wy == W * y
           bw == b * W
<1>1. wy \in Int /\ bw \in Int /\ w + wy >= 0 /\ w + wy <= bw - 1
  OBVIOUS
<1>2. CASE y <= -1
  <2>1. wy <= 0 - W
    BY <1>2
  <2> HIDE DEF wy, bw
  <2>. QED
    BY <1>1, <2>1
<1>3. CASE y >= b
  <2>1. wy >= bw
    BY <1>3
  <2> HIDE DEF wy, bw
  <2>. QED
    BY <1>1, <2>1
<1>. QED
  BY <1>2, <1>3 DEF IsLeft

\* A number below the n-th power of the base is what its n words say.
LEMMA WordsHold ==
  ASSUME NEW W \in Nat, W >= 2, NEW n \in Nat, n >= 1, NEW x \in Nat,
         NEW power \in [0 .. n -> Nat], IsPowers(W, n, power), x < power[n]
  PROVE  /\ Field!Words(W, n, x) \in [1 .. n -> 0 .. W - 1]
         /\ Len(Field!Words(W, n, x)) = n
         /\ Field!Value(W, Field!Words(W, n, x)) = x
<1> DEFINE r == [i \in 1 .. n |-> IF i = 1 THEN x ELSE 0]
<1>0. W \in Int /\ x \in Int
  OBVIOUS
<1>1. Len(r) = n /\ \A i \in 1 .. n : r[i] \in Int
  <2>1. r \in Seq(Int) /\ DOMAIN r = 1 .. n
    BY <1>0
  <2>. QED
    BY <1>0, <2>1
<1>2. Field!Words(W, n, x) = Field!Propagate(W, r).words
  BY DEF Field!Words
<1>3. r[1] = x /\ \A i \in 2 .. n : r[i] = 0
  OBVIOUS
<1> HIDE DEF r
<1>4. IsPropagated(W, r, n, Field!Propagate(W, r))
  BY <1>1, PropagateIs, Zenon
<1>5. PICK w, o : /\ IsCarried(W, r, n, w, o)
                  /\ Field!Propagate(W, r) = [words |-> w, over |-> o[n]]
  BY <1>4, Zenon DEF IsPropagated
<1>6. Field!Words(W, n, x) = w /\ w \in [1 .. n -> 0 .. W - 1] /\ Len(w) = n
  BY <1>2, <1>5 DEF IsCarried
<1> DEFINE left == [i \in 0 .. n |-> IF i = 0 THEN x ELSE o[i]]
<1>7. left \in [0 .. n -> Int] /\ left[0] = x
  <2>1. \A i \in 0 .. n : o[i] \in Int
    BY <1>5 DEF IsCarried
  <2>. QED
    BY <1>0, <2>1
<1>8. \A i \in 1 .. n : left[i - 1] = w[i] + W * left[i]
  <2>1. SUFFICES ASSUME NEW i \in 1 .. n PROVE left[i - 1] = w[i] + W * left[i]
    OBVIOUS
  <2>2. r[i] = w[i] + W * o[i] - o[i - 1] /\ o[0] = 0 /\ left[i] = o[i]
    BY <1>5 DEF IsCarried
  <2>3. o[i] \in Int /\ o[i - 1] \in Int /\ w[i] \in Int
    BY <1>5, <1>6 DEF IsCarried
  <2> DEFINE carried == W * o[i]
  <2>4. carried \in Int /\ W * left[i] = carried /\ r[i] = w[i] + carried - o[i - 1]
    BY <2>2, <2>3
  <2> HIDE DEF carried, left
  <2>5. CASE i = 1
    <3>1. r[i] = x /\ o[i - 1] = 0 /\ left[i - 1] = x
      BY <1>3, <2>2, <2>5 DEF left
    <3>2. left[i - 1] = w[i] + carried
      BY <2>3, <2>4, <3>1
    <3>. QED
      BY <2>4, <3>2, Zenon
  <2>6. CASE i # 1
    <3>1. r[i] = 0 /\ left[i - 1] = o[i - 1]
      BY <1>3, <2>6 DEF left
    <3>2. ASSUME NEW u \in Int, NEW v \in Int, NEW c \in Int, 0 = v + c - u
          PROVE  u = v + c
      BY <3>2
    <3>3. 0 = w[i] + carried - o[i - 1]
      BY <2>4, <3>1, Zenon
    <3>4. o[i - 1] = w[i] + carried
      BY <2>3, <2>4, <3>2, <3>3, Zenon
    <3>. QED
      BY <2>4, <3>1, <3>4, Zenon
  <2>. QED
    BY <2>5, <2>6
<1> HIDE DEF left
<1>9. \A i \in 0 .. n : IsLeft(power[n - i], left[i])
  <2> DEFINE U == {i \in Nat : i <= n => IsLeft(power[n - i], left[i])}
  <2>1. 0 \in U
    BY <1>7 DEF IsLeft
  <2>2. ASSUME NEW i \in U PROVE i + 1 \in U
    <3>1. SUFFICES ASSUME i + 1 <= n PROVE IsLeft(power[n - (i + 1)], left[i + 1])
      OBVIOUS
    <3> DEFINE k == i + 1
               b == power[n - k]
    <3>2. k \in 1 .. n /\ k - 1 = i /\ n - i \in 1 .. n /\ (n - i) - 1 = n - k /\ n - k \in 0 .. n
      BY <3>1
    <3>3. IsLeft(power[n - i], left[i])
      BY <3>1
    <3>4. power[n - i] = b * W
      BY <3>2 DEF IsPowers
    <3>5. left[i] = w[k] + W * left[k]
      BY <1>8, <3>2, Zenon
    <3>6. b \in Nat /\ w[k] \in 0 .. W - 1 /\ left[k] \in Int
      <4>1. k \in 0 .. n /\ n - k \in 0 .. n
        BY <3>2
      <4> HIDE DEF k
      <4>2. power[n - k] \in Nat /\ left[k] \in Int
        BY <1>7, <4>1, Zenon
      <4>3. w[k] \in 0 .. W - 1
        BY <1>6, <3>2, Zenon
      <4>. QED
        BY <4>2, <4>3
    <3> HIDE DEF k, b
    <3>7. w[k] + W * left[k] \in 0 .. b * W - 1
      BY <3>3, <3>4, <3>5, Zenon DEF IsLeft
    <3>8. IsLeft(b, left[k])
      BY <3>6, <3>7, OneWordLess
    <3>. QED
      BY <3>8 DEF b, k
  <2>3. U = Nat
    <3> HIDE DEF U
    <3>1. U \subseteq Nat
      BY DEF U
    <3>. QED
      BY <2>1, <2>2, <3>1, SetInduction
  <2>. QED
    BY <2>3
<1>10. left[n] = 0
  <2>1. n \in 0 .. n /\ n - n = 0 /\ power[0] = 1
    BY DEF IsPowers
  <2>2. IsLeft(1, left[n])
    BY <1>9, <2>1
  <2>. QED
    BY <2>2 DEF IsLeft
<1>11. PICK top \in [0 .. n -> Int] : IsValue(W, w, n, top) /\ Field!Value(W, w) = top[n]
  <2>1. w \in [1 .. n -> Int]
    BY <1>6
  <2>. QED
    BY <1>0, <1>6, <2>1, ValueIs, Zenon
<1>12. \A i \in 0 .. n : top[i] = left[n - i]
  <2> DEFINE U == {i \in Nat : i <= n => top[i] = left[n - i]}
  <2>1. 0 \in U
    BY <1>10, <1>11 DEF IsValue
  <2>2. ASSUME NEW i \in U PROVE i + 1 \in U
    <3>1. SUFFICES ASSUME i + 1 <= n PROVE top[i + 1] = left[n - (i + 1)]
      OBVIOUS
    <3>2. /\ i + 1 \in 1 .. n /\ (i + 1) - 1 = i /\ n + 1 - (i + 1) = n - i
          /\ n - i \in 1 .. n /\ (n - i) - 1 = n - (i + 1) /\ n - i \in 0 .. n
      BY <3>1
    <3>3. top[i + 1] = top[i] * W + w[n - i] /\ top[i] = left[n - i]
      BY <1>11, <3>1, <3>2 DEF IsValue
    <3>4. left[n - (i + 1)] = w[n - i] + W * left[n - i]
      BY <1>8, <3>2
    <3>5. left[n - i] \in Int /\ w[n - i] \in Int
      BY <1>6, <1>7, <3>2
    <3>. QED
      BY <3>3, <3>4, <3>5
  <2>3. U = Nat
    <3> HIDE DEF U
    <3>1. U \subseteq Nat
      BY DEF U
    <3>. QED
      BY <2>1, <2>2, <3>1, SetInduction
  <2>4. \A i \in 0 .. n : i \in U /\ i <= n
    <3> HIDE DEF U
    <3>. QED
      BY <2>3
  <2>. QED
    BY <2>4
<1>13. top[n] = x
  <2>1. n \in 0 .. n /\ n - n = 0
    OBVIOUS
  <2>. QED
    BY <1>7, <1>12, <2>1
<1>. QED
  BY <1>6, <1>11, <1>13

LEMMA PowersRun ==
  ASSUME NEW W \in Nat, NEW n \in Nat
  PROVE  \E power \in [0 .. n -> Nat] : IsPowers(W, n, power)
<1> DEFINE step == [i \in Nat |-> [v \in Nat |-> v * W]]
<1>1. PICK f : IsSteps(Nat, n, 1, step, f)
  <2>1. step \in [Nat -> [Nat -> Nat]] /\ 1 \in Nat
    OBVIOUS
  <2> HIDE DEF step
  <2>. QED
    BY <2>1, StepsRun, Zenon
<1>2. f \in [0 .. n -> Nat] /\ f[0] = 1
  BY <1>1 DEF IsSteps
<1>3. ASSUME NEW i \in 1 .. n PROVE f[i] = f[i - 1] * W
  <2>1. i \in Nat /\ i - 1 \in 0 .. n
    OBVIOUS
  <2>2. f[i - 1] \in Nat /\ f[i] = step[i][f[i - 1]]
    BY <1>1, <1>2, <2>1 DEF IsSteps
  <2>. QED
    BY <2>1, <2>2
<1>. QED
  BY <1>2, <1>3 DEF IsPowers

\* The only number below p that differs by a multiple is the remainder.
LEMMA RemainderOf ==
  ASSUME NEW p \in Nat, p >= 1, NEW x \in Int, NEW s \in 0 .. p - 1, NEW q \in Int, x = s + q * p
  PROVE  s = x % p
<1> DEFINE r == x % p
           e == x \div p
<1>1. r \in 0 .. p - 1 /\ e \in Int /\ x = r + e * p
  OBVIOUS
<1> HIDE DEF r, e
<1>2. s = r + (e - q) * p
  <2>1. (e - q) * p = e * p - q * p
    BY <1>1
  <2>2. e * p \in Int /\ q * p \in Int
    BY <1>1
  <2> DEFINE u == e * p
             v == q * p
             w == (e - q) * p
  <2>3. u \in Int /\ v \in Int /\ w = u - v /\ x = s + v /\ x = r + u
    BY <1>1, <2>1, <2>2
  <2> HIDE DEF u, v, w
  <2>4. s = r + w
    BY <1>1, <2>3
  <2>. QED
    BY <2>4 DEF w
<1>3. e - q \in Int
  BY <1>1
<1>4. s = r
  BY <1>1, <1>2, <1>3, SameRemainder
<1>. QED
  BY <1>4 DEF r


LEMMA PowerOfEight ==
  ASSUME NEW W \in Nat, NEW power \in [0 .. 16 -> Nat], IsPowers(W, 16, power)
  PROVE  power[16] = Base8(W) * Base8(W)
<1>1. /\ power[0] = 1
      /\ power[1] = power[0] * W /\ power[2] = power[1] * W
      /\ power[3] = power[2] * W /\ power[4] = power[3] * W
      /\ power[5] = power[4] * W /\ power[6] = power[5] * W
      /\ power[7] = power[6] * W /\ power[8] = power[7] * W
  BY DEF IsPowers
<1>2. /\ power[9] = power[8] * W /\ power[10] = power[9] * W
      /\ power[11] = power[10] * W /\ power[12] = power[11] * W
      /\ power[13] = power[12] * W /\ power[14] = power[13] * W
      /\ power[15] = power[14] * W /\ power[16] = power[15] * W
  BY DEF IsPowers
<1>3. power[8] = Base8(W)
  BY <1>1 DEF Base8
<1>4. power[16] = power[8] * W * W * W * W * W * W * W * W
  BY <1>2, Zenon
<1>5. \A y \in Nat : y * W * W * W * W * W * W * W * W = y * Base8(W)
  BY SMTT(30) DEF Base8
<1>6. power[8] \in Nat
  OBVIOUS
<1>. QED
  BY <1>3, <1>4, <1>5, <1>6, Zenon

LEMMA PowerOfTwelve ==
  ASSUME NEW W \in Nat, NEW power \in [0 .. 24 -> Nat], IsPowers(W, 24, power)
  PROVE  power[24] = Base12(W) * Base12(W)
<1>1. /\ power[0] = 1
      /\ power[1] = power[0] * W /\ power[2] = power[1] * W
      /\ power[3] = power[2] * W /\ power[4] = power[3] * W
      /\ power[5] = power[4] * W /\ power[6] = power[5] * W
      /\ power[7] = power[6] * W /\ power[8] = power[7] * W
      /\ power[9] = power[8] * W /\ power[10] = power[9] * W
      /\ power[11] = power[10] * W /\ power[12] = power[11] * W
  BY DEF IsPowers
<1>2. /\ power[13] = power[12] * W /\ power[14] = power[13] * W
      /\ power[15] = power[14] * W /\ power[16] = power[15] * W
      /\ power[17] = power[16] * W /\ power[18] = power[17] * W
      /\ power[19] = power[18] * W /\ power[20] = power[19] * W
      /\ power[21] = power[20] * W /\ power[22] = power[21] * W
      /\ power[23] = power[22] * W /\ power[24] = power[23] * W
  BY DEF IsPowers
<1>3. power[12] = Base12(W)
  BY <1>1 DEF Base12
<1>4. power[24] = power[12] * W * W * W * W * W * W * W * W * W * W * W * W
  BY <1>2, Zenon
<1>5. \A y \in Nat : y * W * W * W * W * W * W * W * W * W * W * W * W = y * Base12(W)
  BY SMTT(30) DEF Base12
<1>6. power[12] \in Nat
  OBVIOUS
<1>. QED
  BY <1>3, <1>4, <1>5, <1>6, Zenon

LEMMA ProductBelow ==
  ASSUME NEW p \in Nat, NEW R \in Nat, p <= R, NEW a \in 0 .. p - 1, NEW b \in 0 .. p - 1
  PROVE  a * b \in Nat /\ a * b < R * R
<1>1. a * b \in Nat /\ R * b \in Nat /\ R * R \in Nat /\ a \in Nat /\ b \in Nat
  OBVIOUS
<1>2. a * b <= R * b
  <2>1. R * b = a * b + (R - a) * b /\ (R - a) * b >= 0 /\ (R - a) * b \in Int
    OBVIOUS
  <2>. QED
    BY <1>1, <2>1
<1>3. R * b < R * R
  <2>1. R * R = R * b + R * (R - b) /\ R * (R - b) >= 1 /\ R * (R - b) \in Int
    OBVIOUS
  <2>. QED
    BY <1>1, <2>1
<1>. QED
  BY <1>1, <1>2, <1>3

\* fe256_mul, for words of any size from 8 on: nothing is left over after the second pass
\* over the overflow, so that none is lost where it is not kept, and the conditional
\* subtractions end with the remainder of the product.
LEMMA P256Product ==
  ASSUME NEW W \in Nat, W >= 8,
         NEW a \in 0 .. Field!P256Prime(W) - 1, NEW b \in 0 .. Field!P256Prime(W) - 1
  PROVE  LET p == Field!P256Prime(W)
             c == Field!P256Solinas(W, Field!Words(W, 16, a * b))
         IN  c.over = 0 /\ Field!SubtractFour(W, p, c) = (a * b) % p
<1> DEFINE p == Field!P256Prime(W)
           x == a * b
           words == Field!Words(W, 16, x)
           c == Field!P256Solinas(W, words)
           m == Field!Remainder(W, p, words)
<1>1. p \in Nat /\ p >= 1 /\ Base8(W) \in Nat /\ p <= Base8(W) /\ W \in Int /\ W >= 2
  BY Prime256
<1>2. PICK power \in [0 .. 16 -> Nat] : IsPowers(W, 16, power)
  <2>1. 16 \in Nat
    OBVIOUS
  <2>. QED
    BY <2>1, PowersRun, Zenon
<1>3. x \in Nat /\ x < power[16]
  <2>1. power[16] = Base8(W) * Base8(W)
    BY <1>2, PowerOfEight, Zenon
  <2> HIDE DEF p
  <2>2. a * b \in Nat /\ a * b < Base8(W) * Base8(W)
    BY <1>1, ProductBelow, Zenon DEF p
  <2>. QED
    BY <2>1, <2>2
<1> HIDE DEF p, x
<1>4. words \in [1 .. 16 -> 0 .. W - 1] /\ Len(words) = 16 /\ Field!Value(W, words) = x
  <2>1. 16 \in Nat /\ 16 >= 1
    OBVIOUS
  <2>. QED
    BY <1>1, <1>2, <1>3, <2>1, WordsHold, Zenon
<1> HIDE DEF words
<1>5. Field!ReducesTo(W, p, words, c)
  BY <1>4, P256Reduces DEF p
<1>6. c.over = 0 /\ Field!SubtractFour(W, p, c) = m
  BY <1>5, Zenon DEF Field!ReducesTo
<1>7. m \in 0 .. p - 1 /\ \E q \in Int : x = m + q * p
  <2>1. 16 \in Nat /\ words \in [1 .. 16 -> Int]
    BY <1>4
  <2>. QED
    BY <1>1, <1>4, <2>1, RemainderIs, ZenonT(60)
<1>8. m = x % p
  <2>1. x \in Int
    BY <1>3
  <2> HIDE DEF m
  <2>. QED
    BY <1>1, <1>7, <2>1, RemainderOf, Zenon
<1>. QED
  BY <1>6, <1>8, Zenon DEF p, x, words

\* fe384_mul likewise, whose sums have no factor below zero.
LEMMA P384Product ==
  ASSUME NEW W \in Nat, W >= 8,
         NEW a \in 0 .. Field!P384Prime(W) - 1, NEW b \in 0 .. Field!P384Prime(W) - 1
  PROVE  LET p == Field!P384Prime(W)
             c == Field!P384Solinas(W, Field!Words(W, 24, a * b))
         IN  c.over = 0 /\ Field!SubtractFour(W, p, c) = (a * b) % p
<1> DEFINE p == Field!P384Prime(W)
           x == a * b
           words == Field!Words(W, 24, x)
           c == Field!P384Solinas(W, words)
           m == Field!Remainder(W, p, words)
<1>1. p \in Nat /\ p >= 1 /\ Base12(W) \in Nat /\ p <= Base12(W) /\ W \in Int /\ W >= 2
  BY Prime384
<1>2. PICK power \in [0 .. 24 -> Nat] : IsPowers(W, 24, power)
  <2>1. 24 \in Nat
    OBVIOUS
  <2>. QED
    BY <2>1, PowersRun, Zenon
<1>3. x \in Nat /\ x < power[24]
  <2>1. power[24] = Base12(W) * Base12(W)
    BY <1>2, PowerOfTwelve, Zenon
  <2> HIDE DEF p
  <2>2. a * b \in Nat /\ a * b < Base12(W) * Base12(W)
    BY <1>1, ProductBelow, Zenon DEF p
  <2>. QED
    BY <2>1, <2>2
<1> HIDE DEF p, x
<1>4. words \in [1 .. 24 -> 0 .. W - 1] /\ Len(words) = 24 /\ Field!Value(W, words) = x
  <2>1. 24 \in Nat /\ 24 >= 1
    OBVIOUS
  <2>. QED
    BY <1>1, <1>2, <1>3, <2>1, WordsHold, Zenon
<1> HIDE DEF words
<1>5. Field!ReducesTo(W, p, words, c)
  BY <1>4, P384Reduces DEF p
<1>6. c.over = 0 /\ Field!SubtractFour(W, p, c) = m
  BY <1>5, Zenon DEF Field!ReducesTo
<1>7. m \in 0 .. p - 1 /\ \E q \in Int : x = m + q * p
  <2>1. 24 \in Nat /\ words \in [1 .. 24 -> Int]
    BY <1>4
  <2>. QED
    BY <1>1, <1>4, <2>1, RemainderIs, ZenonT(60)
<1>8. m = x % p
  <2>1. x \in Int
    BY <1>3
  <2> HIDE DEF m
  <2>. QED
    BY <1>1, <1>7, <2>1, RemainderOf, Zenon
<1>. QED
  BY <1>6, <1>8, Zenon DEF p, x, words

-----------------------------------------------------------------------------
(* Sums, differences and negatives, and P-521. *)

\* What is in range, or one prime above or below it, is reduced by one step.
LEMMA RemainderOnce ==
  ASSUME NEW p \in Nat, p >= 1, NEW x \in Int
  PROVE  /\ x \in 0 .. p - 1 => x % p = x
         /\ x \in p .. 2 * p - 1 => x % p = x - p
         /\ x \in 0 - p .. -1 => x % p = x + p
<1>1. ASSUME x \in 0 .. p - 1 PROVE x % p = x
  <2>1. x = x + 0 * p /\ 0 \in Int
    OBVIOUS
  <2>. QED
    BY <1>1, <2>1, RemainderOf
<1>2. ASSUME x \in p .. 2 * p - 1 PROVE x % p = x - p
  <2>1. x = (x - p) + 1 * p /\ 1 \in Int /\ x - p \in 0 .. p - 1
    BY <1>2
  <2>. QED
    BY <2>1, RemainderOf
<1>3. ASSUME x \in 0 - p .. -1 PROVE x % p = x + p
  <2>1. x = (x + p) + (-1) * p /\ -1 \in Int /\ x + p \in 0 .. p - 1
    BY <1>3
  <2>. QED
    BY <2>1, RemainderOf
<1>. QED
  BY <1>1, <1>2, <1>3

\* Sums, differences and negatives, in one addition and one subtraction over the limbs.
THEOREM SumsReduced ==
  ASSUME NEW f, Field!FieldShape(f), NEW a \in 0 .. f.p - 1, NEW b \in 0 .. f.p - 1
  PROVE  /\ Field!FieldAdd(f, a, b) = (a + b) % f.p
         /\ Field!FieldSub(f, a, b) = (a - b) % f.p
         /\ Field!FieldNeg(f, a) = (0 - a) % f.p
<1> DEFINE p == f.p
           R == f.radix
<1>0. p \in Nat /\ R \in Nat /\ 3 < p /\ p < R /\ a \in 0 .. p - 1 /\ b \in 0 .. p - 1
  BY DEF Field!FieldShape
<1> HIDE DEF p, R
<1>1. \A z, o : /\ o => Field!ReduceOnce(f, z, o) = Field!Wrap(f, z - p)
                /\ ~o /\ z < p => Field!ReduceOnce(f, z, o) = z
                /\ ~o /\ ~(z < p) => Field!ReduceOnce(f, z, o) = Field!Wrap(f, z - p)
  <2>1. \A z : Field!SubP(f, z).out = Field!Wrap(f, z - p) /\ Field!SubP(f, z).borrow = (z < p)
    BY Zenon DEF Field!SubP, p
  <2>. QED
    BY <2>1, Zenon DEF Field!ReduceOnce
<1>2. \A z \in Int : /\ z \in 0 .. R - 1 => Field!Wrap(f, z) = z
                     /\ z < 0 => Field!Wrap(f, z) = z + R
                     /\ z >= R => Field!Wrap(f, z) = z - R
  BY <1>0 DEF Field!Wrap, R
<1>3. Field!FieldAdd(f, a, b) = IF a + b < p THEN a + b ELSE (a + b) - p
  <2> DEFINE z == Field!Wrap(f, a + b)
  <2>1. /\ a + b \in 0 .. 2 * p /\ a + b - p = (a + b) - p
        /\ Field!FieldAdd(f, a, b) = Field!ReduceOnce(f, z, a + b >= R)
    BY <1>0 DEF Field!FieldAdd, R
  <2>2. CASE a + b >= R
    <3>1. z = (a + b) - R /\ z \in Int /\ z - p < 0
      BY <1>0, <1>2, <2>1, <2>2
    <3> HIDE DEF z
    <3>2. Field!Wrap(f, z - p) = (z - p) + R
      BY <1>0, <1>2, <3>1
    <3>3. Field!FieldAdd(f, a, b) = (z - p) + R
      BY <1>1, <2>1, <2>2, <3>2, Zenon
    <3>. QED
      BY <1>0, <2>2, <3>1, <3>3
  <2>3. CASE a + b < R
    <3>1. z = a + b /\ z \in 0 .. R - 1
      BY <1>0, <1>2, <2>1, <2>3
    <3> HIDE DEF z
    <3>2. ~(z < p) => Field!Wrap(f, z - p) = z - p
      BY <1>0, <1>2, <3>1
    <3>3. ~(a + b >= R)
      BY <1>0, <2>3
    <3>4. Field!FieldAdd(f, a, b) = IF z < p THEN z ELSE z - p
      BY <1>1, <2>1, <3>2, <3>3, Zenon
    <3>. QED
      BY <1>0, <3>1, <3>4
  <2>. QED
    BY <1>0, <2>2, <2>3
<1>4. Field!FieldSub(f, a, b) = IF a < b THEN (a - b) + p ELSE a - b
  <2>1. CASE a < b
    <3>1. Field!FieldSub(f, a, b) = Field!Wrap(f, Field!Wrap(f, a - b) + p)
      BY <2>1 DEF Field!FieldSub, p
    <3>2. Field!Wrap(f, a - b) = (a - b) + R
      BY <1>0, <1>2, <2>1
    <3>3. Field!Wrap(f, ((a - b) + R) + p) = (((a - b) + R) + p) - R
      BY <1>0, <1>2, <2>1
    <3>. QED
      BY <1>0, <2>1, <3>1, <3>2, <3>3
  <2>2. CASE ~(a < b)
    BY <2>2 DEF Field!FieldSub
  <2>. QED
    BY <2>1, <2>2
<1>5. Field!FieldNeg(f, a) = IF a = 0 THEN 0 ELSE p - a
  <2>1. Field!FieldNeg(f, a) = Field!ReduceOnce(f, Field!Wrap(f, p - a), FALSE)
    BY DEF Field!FieldNeg, p
  <2>2. Field!Wrap(f, p - a) = p - a /\ p - a \in Int
    BY <1>0, <1>2
  <2>3. CASE a = 0
    <3>1. Field!Wrap(f, (p - a) - p) = 0 /\ ~(p - a < p)
      BY <1>0, <1>2, <2>3
    <3>2. Field!FieldNeg(f, a) = 0
      BY <1>1, <2>1, <2>2, <3>1, Zenon
    <3>. QED
      BY <2>3, <3>2
  <2>4. CASE a # 0
    <3>1. p - a < p
      BY <1>0, <2>4
    <3>2. Field!FieldNeg(f, a) = p - a
      BY <1>1, <2>1, <2>2, <3>1, Zenon
    <3>. QED
      BY <2>4, <3>2
  <2>. QED
    BY <2>3, <2>4
<1>6. (a + b) % p = IF a + b < p THEN a + b ELSE (a + b) - p
  <2>1. CASE a + b < p
    <3>1. a + b \in Int /\ a + b \in 0 .. p - 1 /\ p >= 1
      BY <1>0, <2>1
    <3>2. (a + b) % p = a + b
      BY <1>0, <3>1, RemainderOnce
    <3>. QED
      BY <2>1, <3>2
  <2>2. CASE a + b >= p
    <3>1. a + b \in Int /\ a + b \in p .. 2 * p - 1 /\ p >= 1
      BY <1>0, <2>2
    <3>2. (a + b) % p = (a + b) - p
      BY <1>0, <3>1, RemainderOnce
    <3>. QED
      BY <1>0, <2>2, <3>2
  <2>. QED
    BY <1>0, <2>1, <2>2
<1>7. (a - b) % p = IF a < b THEN (a - b) + p ELSE a - b
  <2>1. CASE a < b
    <3>1. a - b \in Int /\ a - b \in 0 - p .. -1 /\ p >= 1
      BY <1>0, <2>1
    <3>2. (a - b) % p = (a - b) + p
      BY <1>0, <3>1, RemainderOnce
    <3>. QED
      BY <2>1, <3>2
  <2>2. CASE ~(a < b)
    <3>1. a - b \in Int /\ a - b \in 0 .. p - 1 /\ p >= 1
      BY <1>0, <2>2
    <3>2. (a - b) % p = a - b
      BY <1>0, <3>1, RemainderOnce
    <3>. QED
      BY <2>2, <3>2
  <2>. QED
    BY <2>1, <2>2
<1>8. (0 - a) % p = IF a = 0 THEN 0 ELSE p - a
  <2>1. CASE a = 0
    <3>1. 0 \in Int /\ 0 \in 0 .. p - 1 /\ p >= 1 /\ 0 - a = 0
      BY <1>0, <2>1
    <3>2. 0 % p = 0
      BY <1>0, <3>1, RemainderOnce
    <3>. QED
      BY <2>1, <3>1, <3>2
  <2>2. CASE a # 0
    <3>1. 0 - a \in Int /\ 0 - a \in 0 - p .. -1 /\ p >= 1
      BY <1>0, <2>2
    <3>2. (0 - a) % p = (0 - a) + p
      BY <1>0, <3>1, RemainderOnce
    <3>. QED
      BY <1>0, <2>2, <3>2
  <2>. QED
    BY <2>1, <2>2
<1>. QED
  BY <1>3, <1>4, <1>5, <1>6, <1>7, <1>8 DEF p

\* fe521_mul: one addition of the halves and one subtraction are enough, and the bit
\* that is carried out of the top is put back without another carry.
LEMMA P521Product ==
  ASSUME NEW R \in Nat, R >= 4, NEW a \in 0 .. R - 2, NEW b \in 0 .. R - 2
  PROVE  Field!Mersenne(R, a * b) = (a * b) % (R - 1)
<1> DEFINE x == a * b
           lo == x % R
           hi == x \div R
           sum == lo + hi
           top == sum \div R
           low == sum % R
           wrapped == low + top
<1>1. x \in Nat /\ x <= (R - 2) * (R - 2)
  <2>1. a * b <= (R - 2) * b /\ (R - 2) * b <= (R - 2) * (R - 2)
    OBVIOUS
  <2>2. a * b \in Nat /\ (R - 2) * b \in Int /\ (R - 2) * (R - 2) \in Int
    OBVIOUS
  <2>. QED
    BY <2>1, <2>2
<1>2. lo \in 0 .. R - 1 /\ hi \in Nat /\ x = lo + hi * R
  <2>1. x \in Nat
    BY <1>1
  <2> HIDE DEF x
  <2>. QED
    BY <2>1
<1>3. hi <= R - 3
  <2> SUFFICES ASSUME hi >= R - 2 PROVE FALSE
    BY <1>2
  <2>1. hi * R >= (R - 2) * R
    <3> HIDE DEF hi
    <3>. QED
      BY <1>2
  <2>2. (R - 2) * R = (R - 2) * (R - 2) + 2 * (R - 2) /\ (R - 2) * (R - 2) \in Int
    OBVIOUS
  <2>3. hi * R \in Int
    BY <1>2
  <2> DEFINE u == hi * R
             v == (R - 2) * (R - 2)
             w == (R - 2) * R
  <2>4. u \in Int /\ v \in Int /\ w = v + 2 * (R - 2) /\ u >= w /\ x <= v /\ x = lo + u
    BY <1>1, <1>2, <2>1, <2>2, <2>3
  <2> HIDE DEF u, v, w, x, lo, hi
  <2>. QED
    BY <1>2, <2>4
<1>4. sum \in 0 .. 2 * R - 4
  <2> HIDE DEF lo, hi
  <2>. QED
    BY <1>2, <1>3
<1>5. /\ top \in {0, 1} /\ low \in 0 .. R - 1 /\ sum = low + top * R
      /\ top = 1 => low <= R - 4
  <2> HIDE DEF sum
  <2>1. low \in 0 .. R - 1 /\ top \in Int /\ sum = low + top * R
    BY <1>4
  <2> HIDE DEF low, top
  <2>2. top \in {0, 1}
    <3>1. CASE top >= 2
      <4>1. top * R >= 2 * R
        BY <2>1, <3>1
      <4>. QED
        BY <1>4, <2>1, <4>1
    <3>2. CASE top <= -1
      <4>1. top * R <= 0 - R
        BY <2>1, <3>2
      <4>. QED
        BY <1>4, <2>1, <4>1
    <3>. QED
      BY <2>1, <3>1, <3>2
  <2>. QED
    BY <1>4, <2>1, <2>2
<1> DEFINE s == IF wrapped >= R - 1 THEN wrapped - (R - 1) ELSE wrapped
           k == IF wrapped >= R - 1 THEN 1 ELSE 0
<1>6. s \in 0 .. R - 2 /\ wrapped = s + k * (R - 1) /\ k \in Int
  <2> HIDE DEF low, top
  <2>. QED
    BY <1>5
<1>7. x = s + (hi + top + k) * (R - 1)
  <2>1. x = (lo + hi) + hi * (R - 1)
    <3> HIDE DEF x, lo, hi
    <3>. QED
      BY <1>2
  <2>2. sum = wrapped + top * (R - 1)
    <3> HIDE DEF sum, low, top
    <3>. QED
      BY <1>5
  <2>3. hi \in Int /\ top \in Int /\ k \in Int /\ s \in Int /\ wrapped \in Int /\ sum \in Int
    BY <1>2, <1>4, <1>5, <1>6
  <2>4. x = sum + hi * (R - 1)
    BY <2>1
  <2> HIDE DEF x, sum, wrapped, s, k, hi, top
  <2>5. hi * (R - 1) \in Int /\ top * (R - 1) \in Int /\ k * (R - 1) \in Int
    BY <2>3
  <2>6. (hi + top + k) * (R - 1) = hi * (R - 1) + top * (R - 1) + k * (R - 1)
    BY <2>3
  <2>. QED
    BY <1>6, <2>2, <2>3, <2>4, <2>5, <2>6
<1>8. Field!Mersenne(R, x) = s
  BY DEF Field!Mersenne, s, wrapped, low, top, sum, lo, hi
<1>9. s = x % (R - 1)
  <2>1. x \in Int /\ R - 1 \in Nat /\ R - 1 >= 1 /\ hi + top + k \in Int /\ s \in 0 .. (R - 1) - 1
    BY <1>1, <1>2, <1>5, <1>6
  <2> HIDE DEF x, s, k, hi, top
  <2>. QED
    BY <1>7, <2>1, RemainderOf
<1>. QED
  BY <1>8, <1>9

\* What fe256_mul, fe384_mul and fe521_mul return is the remainder of the product: for
\* words of any size from 8 on, and for every number of bits from two on.  In the first
\* two nothing is left over after the second pass, so that none is lost where it is not
\* kept.
THEOREM ProductsReduced ==
  /\ \A W \in Nat : W >= 8 =>
       /\ \A a, b \in 0 .. Field!P256Prime(W) - 1 :
            LET p == Field!P256Prime(W)
                c == Field!P256Solinas(W, Field!Words(W, 16, a * b))
            IN  c.over = 0 /\ Field!SubtractFour(W, p, c) = (a * b) % p
       /\ \A a, b \in 0 .. Field!P384Prime(W) - 1 :
            LET p == Field!P384Prime(W)
                c == Field!P384Solinas(W, Field!Words(W, 24, a * b))
            IN  c.over = 0 /\ Field!SubtractFour(W, p, c) = (a * b) % p
  /\ \A R \in Nat : R >= 4 =>
       \A a, b \in 0 .. R - 2 : Field!Mersenne(R, a * b) = (a * b) % (R - 1)
<1>1. ASSUME NEW W \in Nat, W >= 8,
             NEW a \in 0 .. Field!P256Prime(W) - 1, NEW b \in 0 .. Field!P256Prime(W) - 1
      PROVE  LET p == Field!P256Prime(W)
                 c == Field!P256Solinas(W, Field!Words(W, 16, a * b))
             IN  c.over = 0 /\ Field!SubtractFour(W, p, c) = (a * b) % p
  BY <1>1, P256Product, Zenon
<1>2. ASSUME NEW W \in Nat, W >= 8,
             NEW a \in 0 .. Field!P384Prime(W) - 1, NEW b \in 0 .. Field!P384Prime(W) - 1
      PROVE  LET p == Field!P384Prime(W)
                 c == Field!P384Solinas(W, Field!Words(W, 24, a * b))
             IN  c.over = 0 /\ Field!SubtractFour(W, p, c) = (a * b) % p
  BY <1>2, P384Product, Zenon
<1>3. ASSUME NEW R \in Nat, R >= 4, NEW a \in 0 .. R - 2, NEW b \in 0 .. R - 2
      PROVE  Field!Mersenne(R, a * b) = (a * b) % (R - 1)
  BY <1>3, P521Product, Zenon
<1>. QED
  BY <1>1, <1>2, <1>3, Zenon
=============================================================================
