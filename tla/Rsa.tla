------------------------------- MODULE Rsa -------------------------------
(***************************************************************************)
(* RSA of the assembly providers: making a key pair, the public and the    *)
(* private operation by Montgomery products and the two primes, the DER a  *)
(* key is kept in, and the two paddings.  Numbers are the values their     *)
(* limbs hold; a limb and a byte of DER are the same few bits here.        *)
(***************************************************************************)
EXTENDS Integers, Sequences, FiniteSets, Bitwise

CONSTANTS
  LimbBits,        \* how many bits a limb has
  PrimeLimbs,      \* how many limbs a prime has
  PublicExponent,  \* rsa_public_exponent, a prime
  SmallPrime,      \* the primes candidates are sieved with
  Draw,            \* the random bytes of a candidate, as numbers
  Witness,         \* the random bytes of a round of the primality test
  LastTested,      \* the last number the primality test is checked on
  Message,         \* the messages a key is used on
  MaxIntBytes      \* rsa_max_int_bytes: the longest INTEGER that is read

\* What the constants are: at least one bit, one limb, and an exponent of one limb.
RsaShape ==
  /\ LimbBits \in Nat \ {0} /\ PrimeLimbs \in Nat \ {0}
  /\ PublicExponent \in 3 .. 2 ^ LimbBits - 1

VARIABLES
  rsaStage,  \* "p" or "q": which prime is looked for; "pair": both found; "key"
  primes,    \* those found
  rsaKey,    \* the numbers of the key pair
  message    \* what it is used on

rsaVars == <<rsaStage, primes, rsaKey, message>>

LimbBase == 2 ^ LimbBits
Radix(nw) == LimbBase ^ nw
Limb(x, i) == (x \div LimbBase ^ i) % LimbBase

\* What is left of a number in nw limbs.
Kept(nw, x) == x % Radix(nw)

NW == 2 * PrimeLimbs

-----------------------------------------------------------------------------
(* Big integers *)

bigint_reduce_once(nw, a, m) == IF a < m THEN a ELSE Kept(nw, a - m)

\* Newton's iteration for 1 / m0: it starts right to three bits, and each of the five
\* steps doubles them.
mont_neg_inv(m0) ==
  LET inv[i \in 0 .. 5] ==
        IF i = 0 THEN m0 ELSE LET x == inv[i - 1] IN (x * (2 - m0 * x)) % LimbBase
  IN  (-inv[5]) % LimbBase

\* a * b / R modulo m: a limb of a times b, in an accumulator of one limb more than m has,
\* then the multiple of m that clears the lowest limb; at the end m is taken off once.
mont_mul(nw, a, b, m, m0inv) ==
  LET t[i \in 0 .. nw] ==
        IF i = 0 THEN 0
        ELSE LET s == Kept(nw + 1, t[i - 1] + Limb(a, i - 1) * b)
                 q == ((s % LimbBase) * m0inv) % LimbBase
             IN  (s + q * m) \div LimbBase
      sum == t[nw]
  IN  IF sum >= m THEN Kept(nw, sum - m) ELSE sum

\* R^2 modulo m by doubling 1.
mont_r2(nw, m) ==
  LET Twice(r) == IF 2 * r >= Radix(nw) THEN Kept(nw, 2 * r - m)
                  ELSE bigint_reduce_once(nw, 2 * r, m)
      doubled[left \in 0 .. 2 * LimbBits * nw, r \in 0 .. Radix(nw) - 1] ==
        IF left = 0 THEN r ELSE doubled[left - 1, Twice(r)]
  IN  doubled[2 * LimbBits * nw, 1]

\* base^exp modulo m, all bits of exp from the top.
bigint_powmod_ct(nw, base, exp, m) ==
  LET m0inv == mont_neg_inv(Limb(m, 0))
      Times(x, y) == mont_mul(nw, x, y, m, m0inv)
      r2 == mont_r2(nw, m)
      power[left \in 0 .. nw * LimbBits, x \in 0 .. Radix(nw) - 1, b \in 0 .. Radix(nw) - 1] ==
        IF left = 0 THEN x
        ELSE power[left - 1,
                   IF (exp \div 2 ^ (left - 1)) % 2 = 1 THEN Times(Times(x, x), b) ELSE Times(x, x),
                   b]
  IN  Times(power[nw * LimbBits, Times(1, r2), Times(base, r2)], 1)

\* Schoolbook, a row for each limb of a; what does not fit into nw limbs is lost.
Product(nw, a, b) ==
  LET row[i \in 0 .. nw] ==
        IF i = 0 THEN 0 ELSE Kept(nw, row[i - 1] + Limb(a, i - 1) * b * LimbBase ^ (i - 1))
  IN  row[nw]

\* From the residues modulo p and q: m_q + q * ((m_p - m_q) * qinv mod p).  A negative
\* difference gets p once.
rsa_crt_combine(m_p, m_q, p, q, qinv) ==
  LET diff == IF m_p < m_q THEN Kept(NW, Kept(NW, m_p - m_q) + p) ELSE m_p - m_q
      reduced == bigint_reduce_once(NW, diff, p)
      m0inv == mont_neg_inv(Limb(p, 0))
      Times(x, y) == mont_mul(NW, x, y, p, m0inv)
      r2 == mont_r2(NW, p)
      h == Times(Times(Times(reduced, r2), Times(qinv, r2)), 1)
  IN  Kept(NW, Product(NW, q, h) + m_q)

rsa_private_op(c, k) ==
  rsa_crt_combine(bigint_powmod_ct(NW, c, k.dp, k.p), bigint_powmod_ct(NW, c, k.dq, k.q),
                  k.p, k.q, k.qinv)

rsa_public_op(x, k) == bigint_powmod_ct(NW, x, k.e, k.n)

-----------------------------------------------------------------------------
(* Key generation *)

\* a^(p - 2) modulo a small prime p.
small_modinv(a, p) ==
  LET power[i \in 0 .. p - 2] == IF i = 0 THEN 1 ELSE (power[i - 1] * a) % p
  IN  power[p - 2]

\* 1 / e modulo m: k * m + 1 is a multiple of e for one k below e; zero if e divides m.
small_e_modinv(nw, m) ==
  LET e == PublicExponent
      r == m % e
      k == (e - small_modinv(r, e)) % e
  IN  IF r = 0 THEN 0 ELSE Kept(nw, (k * m + 1) \div e)

\* The random base of a round: cut to the bits of n, n taken off once, kept within 2 .. n - 2.
Base(n, random) ==
  LET top == CHOOSE b \in 1 .. PrimeLimbs * LimbBits : 2 ^ (b - 1) <= n /\ n < 2 ^ b
      cut == random % 2 ^ top
      below == IF cut < n THEN cut ELSE cut - n
  IN  IF below < 2 THEN 2 ELSE IF below = n - 1 THEN n - 2 ELSE below

\* One round: n passes if a^d is 1, or if one of a^d, a^2d, a^4d, ... before a^(n - 1)
\* is n - 1, where n - 1 = 2^s * d and d is odd.
miller_rabin_is_prime(n, random) ==
  LET s == CHOOSE i \in 0 .. PrimeLimbs * LimbBits :
             (n - 1) % 2 ^ i = 0 /\ (n - 1) % 2 ^ (i + 1) # 0
      d == (n - 1) \div 2 ^ s
      Power(x, exp) == bigint_powmod_ct(PrimeLimbs, x, exp, n)
      x[r \in 0 .. s] == IF r = 0 THEN Power(Base(n, random), d) ELSE Power(x[r - 1], 2)
  IN  s > 0 /\ (x[0] = 1 \/ \E r \in 0 .. s - 1 : x[r] = n - 1)

\* Deviation: only the top bit is set.
CandidateTopBit(bytes) ==
  LET half == Radix(PrimeLimbs) \div 2
      low == bytes % half
  IN  half + low + 1 - (low % 2)

\* The drawn bytes with the top two bits and the lowest one set.
Candidate(bytes) ==
  LET quarter == Radix(PrimeLimbs) \div 4
      low == bytes % quarter
  IN  3 * quarter + low + 1 - (low % 2)

Accepted(candidate, random) ==
  /\ \A sp \in SmallPrime : candidate % sp # 0
  /\ miller_rabin_is_prime(candidate, random)

-----------------------------------------------------------------------------
(* DER.  Bytes are as small as limbs, so the three forms of a length all occur; a *)
(* reader answers the set of what it read, empty when it refuses.                 *)

ByteBase == LimbBase
der_msb_flag == ByteBase \div 2
INTEGER == 2
BIT_STRING == 3
SEQUENCE == 4
Oid == <<6, 1, 7>>
NullValue == <<5, 0>>

der_write_length(len) ==
  IF len < der_msb_flag THEN <<len>>
  ELSE IF len < ByteBase THEN <<der_msb_flag + 1, len>>
  ELSE <<der_msb_flag + 2, len \div ByteBase, len % ByteBase>>

Tlv(tag, body) == <<tag>> \o der_write_length(Len(body)) \o body

\* An INTEGER of big-endian bytes, with a zero before a top bit.
Integer(bytes) == Tlv(INTEGER, IF bytes[1] >= der_msb_flag THEN <<0>> \o bytes ELSE bytes)

\* Its bytes without the leading zeros, but never none.
Bytes(x, count) ==
  LET be == [i \in 1 .. count |-> Limb(x, count - i)]
      start == CHOOSE i \in 1 .. count :
                 /\ \A j \in 1 .. i - 1 : be[j] = 0
                 /\ be[i] # 0 \/ i = count
  IN  SubSeq(be, start, count)

der_encode_integer(x, count) == Integer(Bytes(x, count))

\* PKCS#1 RSAPrivateKey.
PrivateDer(k) ==
  Tlv(SEQUENCE,
    Integer(<<0>>) \o der_encode_integer(k.n, NW) \o der_encode_integer(k.e, 1)
    \o der_encode_integer(k.d, NW) \o der_encode_integer(k.p, PrimeLimbs)
    \o der_encode_integer(k.q, PrimeLimbs) \o der_encode_integer(k.dp, PrimeLimbs)
    \o der_encode_integer(k.dq, PrimeLimbs) \o der_encode_integer(k.qinv, PrimeLimbs))

rsa_encode_pkcs1_pubkey_der(n, e) == Tlv(SEQUENCE, Integer(n) \o Integer(e))

\* SubjectPublicKeyInfo.
rsa_encode_public_key_der(n, e) ==
  Tlv(SEQUENCE, Tlv(SEQUENCE, Oid \o NullValue)
                \o Tlv(BIT_STRING, <<0>> \o rsa_encode_pkcs1_pubkey_der(n, e)))

\* A length of at most four bytes that what is left can hold: the content and the rest.
read_length(s) ==
  IF s = << >> THEN {}
  ELSE LET long == s[1] >= der_msb_flag
           count == IF long THEN s[1] - der_msb_flag ELSE 0
           value[i \in 0 .. count] == IF i = 0 THEN 0 ELSE value[i - 1] * ByteBase + s[i + 1]
           rest == SubSeq(s, count + 2, Len(s))
       IN  IF long /\ (count = 0 \/ count > 4 \/ Len(s) - 1 < count) THEN {}
           ELSE LET len == IF long THEN value[count] ELSE s[1]
                IN  IF len > Len(rest) THEN {}
                    ELSE {[body |-> SubSeq(rest, 1, len), rest |-> SubSeq(rest, len + 1, Len(rest))]}

Read(s, tag) == IF s = << >> \/ s[1] # tag THEN {} ELSE read_length(Tail(s))

\* One leading zero is dropped.
read_integer(s) ==
  {[value |-> IF Len(t.body) > 1 /\ t.body[1] = 0 THEN Tail(t.body) ELSE t.body, rest |-> t.rest] :
     t \in {x \in Read(s, INTEGER) : Len(x.body) \in 1 .. MaxIntBytes}}

RECURSIVE Integers(_, _)
Integers(s, count) ==
  IF count = 0 THEN {<< >>}
  ELSE UNION {{<<i.value>> \o others : others \in Integers(i.rest, count - 1)} : i \in read_integer(s)}

rsa_parse_private_key_der(s) ==
  UNION {UNION {Integers(version.rest, 8) :
                  version \in {v \in read_integer(outer.body) : v.value = <<0>>}} :
         outer \in Read(s, SEQUENCE)}

\* The OID and, if there is more, any one element.
AlgorithmIdentifier(body) ==
  \E oid \in Read(body, Oid[1]) :
    oid.rest # << >> => Len(oid.rest) > 1 /\ read_length(Tail(oid.rest)) # {}

\* SubjectPublicKeyInfo or PKCS#1, told apart by the first tag.
rsa_parse_public_key_der(s) ==
  UNION {
    IF outer.body = << >> THEN {}
    ELSE IF outer.body[1] = INTEGER THEN Integers(outer.body, 2)
    ELSE UNION {UNION {UNION {Integers(inner.body, 2) : inner \in Read(Tail(bits.body), SEQUENCE)} :
                  bits \in {b \in Read(alg.rest, BIT_STRING) : b.body # << >> /\ b.body[1] = 0}} :
                alg \in {a \in Read(outer.body, SEQUENCE) : AlgorithmIdentifier(a.body)}} :
    outer \in Read(s, SEQUENCE)}

rsa_derive_public_key_der(s) ==
  {rsa_encode_public_key_der(k[1], k[2]) : k \in rsa_parse_private_key_der(s)}

-----------------------------------------------------------------------------
(* Paddings.  A mask covers something until it is made again from the same input. *)

Masked(x, by) == [of |-> x, by |-> by]
Unmasked(m, by) == IF m.by = by THEN m.of ELSE [hash |-> "garbage", rest |-> << >>]

\* The scan of oaep_decode over what follows the label's hash: the message starts after
\* the first one, and nothing but zeros may come before.
Separated(db) ==
  LET scan[i \in 0 .. Len(db)] ==
        IF i = 0 THEN [found |-> FALSE, err |-> FALSE, start |-> Len(db) + 1]
        ELSE LET was == scan[i - 1]
                 isOne == db[i] = 1 /\ ~was.found
             IN  [found |-> was.found \/ isOne,
                  err |-> was.err \/ (~was.found /\ db[i] # 0 /\ ~isOne),
                  start |-> IF isOne THEN i + 1 ELSE was.start]
      end == scan[Len(db)]
  IN  IF end.err \/ ~end.found THEN {} ELSE {SubSeq(db, end.start, Len(db))}

\* room: what a modulus leaves for padding and message, k - hLen - 1 - hLen bytes.
oaep_encode(pt, label, seed, room) ==
  IF Len(pt) > room - 1 THEN {}
  ELSE LET db == [hash |-> label,
                  rest |-> [i \in 1 .. room - 1 - Len(pt) |-> 0] \o <<1>> \o pt]
           maskedDb == Masked(db, seed)
       IN  {[y |-> 0, seed |-> Masked(seed, maskedDb), db |-> maskedDb]}

oaep_decode(em, label, most) ==
  LET db == Unmasked(em.db, Unmasked(em.seed, em.db))
  IN  IF em.y # 0 \/ db.hash # label THEN {}
      ELSE {m \in Separated(db.rest) : Len(m) <= most}

\* The padding and the salt behind their separator, masked, the top bit cleared.  mask is
\* what the generator makes of the hash.
pss_encode(digest, salt, padding, mask) ==
  LET db == [i \in 1 .. padding |-> 0] \o <<1>> \o salt
      masked == [i \in 1 .. Len(db) |-> db[i] ^^ mask[i]]
  IN  [db |-> [masked EXCEPT ![1] = @ % der_msb_flag], h |-> <<digest, salt>>, trailer |-> "0xBC"]

pss_verify(digest, em, padding, mask) ==
  LET db == [[i \in 1 .. Len(em.db) |-> em.db[i] ^^ mask[i]] EXCEPT ![1] = @ % der_msb_flag]
  IN  /\ em.trailer = "0xBC"
      /\ em.db[1] < der_msb_flag
      /\ \A i \in 1 .. padding : db[i] = 0
      /\ db[padding + 1] = 1
      /\ em.h = <<digest, SubSeq(db, padding + 2, Len(db))>>

-----------------------------------------------------------------------------
NoKey == [n |-> 0]

Init ==
  /\ rsaStage = "p"
  /\ primes = << >>
  /\ rsaKey = NoKey
  /\ message = 0

\* generate_prime: a draw that is accepted; after any other it draws again.
generate_prime ==
  /\ rsaStage \in {"p", "q"}
  /\ \E bytes \in Draw, random \in Witness :
       /\ Accepted(Candidate(bytes), random)
       /\ primes' = Append(primes, Candidate(bytes))
  /\ rsaStage' = IF rsaStage = "p" THEN "q" ELSE "pair"
  /\ UNCHANGED <<rsaKey, message>>

\* The numbers of a key from two primes.
KeyOf(p, q) ==
  [n |-> Product(NW, p, q), e |-> PublicExponent,
   d |-> small_e_modinv(NW, Product(NW, p - 1, q - 1)),
   p |-> p, q |-> q,
   dp |-> small_e_modinv(PrimeLimbs, p - 1), dq |-> small_e_modinv(PrimeLimbs, q - 1),
   qinv |-> bigint_powmod_ct(PrimeLimbs, q, p - 2, p)]

\* Equal primes, or one that leaves e without an inverse, are both drawn again.
Suited(p, q) ==
  /\ p # q
  /\ (p - 1) % PublicExponent # 0 /\ (q - 1) % PublicExponent # 0
  /\ LET k == KeyOf(p, q) IN k.d # 0 /\ k.dp # 0 /\ k.dq # 0 /\ k.qinv # 0

\* rsa_generate_key_der.
rsa_generate_key ==
  /\ rsaStage = "pair"
  /\ IF Suited(primes[1], primes[2])
       THEN /\ rsaKey' = KeyOf(primes[1], primes[2])
            /\ rsaStage' = "key"
            /\ UNCHANGED primes
       ELSE /\ rsaStage' = "p"
            /\ primes' = << >>
            /\ UNCHANGED rsaKey
  /\ UNCHANGED message

\* The key is used on a message, in either direction.
Use ==
  /\ rsaStage = "key"
  /\ \E m \in Message : m < rsaKey.n /\ message' = m
  /\ UNCHANGED <<rsaStage, primes, rsaKey>>

Next == generate_prime \/ rsa_generate_key \/ Use

Spec == Init /\ [][Next]_rsaVars
-----------------------------------------------------------------------------
(* Properties *)

IsPrime(n) == \A x \in 2 .. n - 1 : n % x # 0

Inverse(a, b, m) == (a * b) % m = 1

\* What RSA asks of the numbers of a key, whose modulus has all its bits: an encoded
\* message is below it, and who is told its size finds it so.
KeyExact(k) ==
  /\ k.n = k.p * k.q /\ 2 * k.n >= Radix(NW)
  /\ Inverse(k.e, k.d, (k.p - 1) * (k.q - 1))
  /\ Inverse(k.e, k.dp, k.p - 1) /\ Inverse(k.e, k.dq, k.q - 1)
  /\ Inverse(k.q, k.qinv, k.p)

Inverts(k, m) == rsa_private_op(rsa_public_op(m, k), k) = m

\* The difference of the residues is brought back above zero by p once.
OnceIsEnough(k, m) == m % k.q <= (m % k.p) + k.p

\* A round passes every prime, and a composite for at most a quarter of the bases, 1 and
\* n - 1 among them: what the number of rounds is calculated from.
PrimesPass ==
  \A n \in {x \in 5 .. LastTested : x % 2 = 1} :
    IF IsPrime(n) THEN \A random \in Witness : miller_rabin_is_prime(n, random)
    ELSE 4 * (2 + Cardinality({a \in 2 .. n - 2 : miller_rabin_is_prime(n, a)})) <= n - 1

\* A key that is written is read back, whole or not at all, and its public half in
\* either format, at every length.
DerExact(k) ==
  LET halves == <<Bytes(k.n, NW), Bytes(k.e, 1)>>
      der == PrivateDer(k)
  IN  /\ rsa_parse_private_key_der(der) =
           {halves \o <<Bytes(k.d, NW), Bytes(k.p, NW), Bytes(k.q, NW), Bytes(k.dp, NW),
                        Bytes(k.dq, NW), Bytes(k.qinv, NW)>>}
      /\ \A i \in 0 .. Len(der) - 1 : rsa_parse_private_key_der(SubSeq(der, 1, i)) = {}
      /\ \A public \in rsa_derive_public_key_der(der) :
           /\ rsa_parse_public_key_der(public) = {halves}
           /\ \A i \in 0 .. Len(public) - 1 : rsa_parse_public_key_der(SubSeq(public, 1, i)) = {}

LengthsExact ==
  \A len \in 1 .. MaxIntBytes - 1, first \in {1, ByteBase - 1}, e \in {<<3>>, <<ByteBase - 1, 1>>} :
    LET n == [i \in 1 .. len |-> IF i = 1 THEN first ELSE 0]
    IN  /\ rsa_parse_public_key_der(rsa_encode_public_key_der(n, e)) = {<<n, e>>}
        /\ rsa_parse_public_key_der(rsa_encode_pkcs1_pubkey_der(n, e)) = {<<n, e>>}

Short(S, most) == UNION {[1 .. i -> S] : i \in 0 .. most}

\* What was padded is unpadded to itself under the same label and within the room of the
\* caller, and nothing else is; a separator is the first byte that is not zero.
OaepExact ==
  /\ \A pt \in Short({0, 1, 2}, 4), room \in 1 .. 4, most \in 0 .. 4 :
       LET ems == oaep_encode(pt, "label", "seed", room)
       IN  /\ ems = {} <=> Len(pt) >= room
           /\ \A em \in ems :
                /\ oaep_decode(em, "label", most) = IF Len(pt) <= most THEN {pt} ELSE {}
                /\ oaep_decode(em, "other", most) = {}
                /\ oaep_decode([em EXCEPT !.y = 1], "label", most) = {}
                /\ oaep_decode([em EXCEPT !.seed.of = "other"], "label", most) = {}
  /\ \A db \in Short({0, 1, 2}, 5) :
       Separated(db) = {SubSeq(db, i + 1, Len(db)) :
                          i \in {j \in 1 .. Len(db) : db[j] = 1 /\ \A l \in 1 .. j - 1 : db[l] = 0}}

\* Under every mask a signature's padding verifies for its digest and stays below the
\* modulus, and changed in any byte it does not.
PssExact ==
  \A padding \in 1 .. 2, mask \in [1 .. 4 -> {0, 1, der_msb_flag, ByteBase - 1}] :
    LET em == pss_encode("digest", [i \in 1 .. 3 - padding |-> 5], padding, mask)
        Fails(other) == ~pss_verify("digest", other, padding, mask)
    IN  /\ pss_verify("digest", em, padding, mask)
        /\ ~pss_verify("other", em, padding, mask)
        /\ em.db[1] < der_msb_flag
        /\ \A i \in DOMAIN em.db, bit \in {1, der_msb_flag} :
             Fails([em EXCEPT !.db[i] = @ ^^ bit])
        /\ Fails([em EXCEPT !.trailer = "other"])
        /\ Fails([em EXCEPT !.h = <<"other", em.h[2]>>])
=============================================================================
