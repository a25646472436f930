------------------------- MODULE LibraryCallsProofs -------------------------
(***************************************************************************)
(* Proofs about LibraryCalls for every set of threads, every subset of the *)
(* library's functions and every capacity of the key stores.  IInv is the  *)
(* inductive invariant: a call in progress holds exactly the key it        *)
(* acquired, and every slot in use is held by a call in progress.          *)
(***************************************************************************)
EXTENDS LibraryCalls, FiniteSetTheorems, TLAPS

-----------------------------------------------------------------------------
(* The templates of the library.                                             *)

ProviderStatuses == {"err_invalid_arg", "err_invalid_sig"}

\* What a template must be for a call made from it to find its key: it keeps a
\* kind that each of its provider calls accepts.  One call or two; of two, the
\* first judges no input and the second cannot end the process.
WellFormed(T) ==
  /\ T.family \in Family
  /\ T.acquire \in {"import", "generate"}
  /\ T.kind \in Kinds
  /\ Len(T.ops) \in {1, 2}
  /\ \A k \in 1 .. Len(T.ops) :
       /\ T.kind \in Accepts(T.family, T.ops[k].op)
       /\ T.ops[k].error \notin {"none", "output", "true", "false", "bad_alloc"}
  /\ Len(T.ops) = 2 => T.ops[1].op \notin Judges /\ T.ops[2].op \notin NoExcept
  /\ T.lenient \subseteq ProviderStatuses

\* The three shapes of template.
LEMMA UsesFacts ==
  ASSUME NEW family, NEW kind, NEW checks, NEW op, NEW error,
         family \in Family, kind \in Kinds, kind \in Accepts(family, op),
         error \notin {"none", "output", "true", "false", "bad_alloc"}
  PROVE  WellFormed(Uses(family, kind, checks, op, error))
BY DEF WellFormed, Uses

LEMMA VerifiesFacts ==
  ASSUME NEW family, NEW kind, NEW checks, NEW op, NEW lenient,
         family \in Family, kind \in Kinds, kind \in Accepts(family, op),
         lenient \subseteq ProviderStatuses
  PROVE  WellFormed(Verifies(family, kind, checks, op, lenient))
BY DEF WellFormed, Verifies, Uses

LEMMA GeneratesFacts ==
  ASSUME NEW family, NEW kind, family \in Family, kind \in Kinds,
         kind \in Accepts(family, "export_key"), kind \in Accepts(family, "export_public_key")
  PROVE  WellFormed(Generates(family, kind))
<1> DEFINE T == Generates(family, kind)
<1>1. /\ T.family = family /\ T.kind = kind /\ T.acquire = "generate" /\ T.lenient = {}
      /\ T.ops = <<[op |-> "export_key", error |-> "KeyExportFailed"],
                   [op |-> "export_public_key", error |-> "KeyExportFailed"]>>
  BY DEF Generates
<1>2. /\ Len(T.ops) = 2
      /\ T.ops[1] = [op |-> "export_key", error |-> "KeyExportFailed"]
      /\ T.ops[2] = [op |-> "export_public_key", error |-> "KeyExportFailed"]
  BY <1>1
<1> HIDE DEF T
<1>3. /\ T.ops[1].op = "export_key" /\ T.ops[2].op = "export_public_key"
      /\ T.ops[1].error = "KeyExportFailed" /\ T.ops[2].error = "KeyExportFailed"
  BY <1>2
<1>4. \A k \in 1 .. Len(T.ops) : k = 1 \/ k = 2
  BY <1>2
<1>5. WellFormed(T)
  BY <1>1, <1>2, <1>3, <1>4 DEF WellFormed, Judges, NoExcept
<1>. QED
  BY <1>5 DEF T

\* Every function of the library.
LEMMA SymTemplates ==
  /\ WellFormed(hmac_generate)
  /\ WellFormed(hmac_verify)
  /\ WellFormed(aes256_gcm_encrypt)
  /\ WellFormed(aes256_gcm_decrypt)
  /\ WellFormed(chacha20_poly1305_encrypt)
  /\ WellFormed(chacha20_poly1305_decrypt)
BY UsesFacts, VerifiesFacts
   DEF Family, Kinds, Accepts, ProviderStatuses, BadSignature, hmac_generate, hmac_verify,
       aes256_gcm_encrypt, aes256_gcm_decrypt, chacha20_poly1305_encrypt, chacha20_poly1305_decrypt

LEMMA EcTemplates ==
  /\ WellFormed(ecdh_generate_key)
  /\ WellFormed(ecdh_compute_shared_secret)
  /\ WellFormed(ecdsa_generate_key)
  /\ WellFormed(ecdsa_sign)
  /\ WellFormed(ecdsa_verify)
BY UsesFacts, VerifiesFacts, GeneratesFacts
   DEF Family, Kinds, Accepts, ProviderStatuses, BadInput, ecdh_generate_key,
       ecdh_compute_shared_secret, ecdsa_generate_key, ecdsa_sign, ecdsa_verify

LEMMA RsaTemplates ==
  /\ WellFormed(generate_rsa_key)
  /\ WellFormed(rsa_oaep_encrypt)
  /\ WellFormed(rsa_oaep_decrypt)
  /\ WellFormed(rsa_pss_sign)
  /\ WellFormed(rsa_pss_verify)
BY UsesFacts, VerifiesFacts, GeneratesFacts
   DEF Family, Kinds, Accepts, ProviderStatuses, BadInput, generate_rsa_key, rsa_oaep_encrypt,
       rsa_oaep_decrypt, rsa_pss_sign, rsa_pss_verify

LEMMA PqcTemplates ==
  /\ WellFormed(ml_dsa_generate_key)
  /\ WellFormed(ml_dsa_sign)
  /\ WellFormed(ml_dsa_verify)
  /\ WellFormed(ml_kem_generate_key)
  /\ WellFormed(ml_kem_encapsulate)
  /\ WellFormed(ml_kem_decapsulate)
BY UsesFacts, VerifiesFacts, GeneratesFacts
   DEF Family, Kinds, Accepts, ProviderStatuses, BadSignature, ml_dsa_generate_key, ml_dsa_sign,
       ml_dsa_verify, ml_kem_generate_key, ml_kem_encapsulate, ml_kem_decapsulate

LEMMA Templates == \A f \in DOMAIN Library : WellFormed(Library[f])
BY SymTemplates, EcTemplates, RsaTemplates, PqcTemplates DEF Library

-----------------------------------------------------------------------------
(* The inductive invariant.                                                  *)

Working(t) == pc[t] \in {"running", "unwinding"}
FamilyOf(t) == Template(request[t]).family

\* Every variable has its type, and a thread in a call has a request.
Typed ==
  /\ process \in {"up", "terminated"}
  /\ table = [f \in Family |-> [id \in Ids(f) |-> table[f][id]]]
  /\ pc \in [Thread -> {"idle", "checks", "running", "unwinding"}]
  /\ request \in [Thread -> Requests(Fn) \cup {NoRequest}]
  /\ handle \in [Thread -> Int]
  /\ step \in [Thread -> Int]
  /\ answer = [t \in Thread |-> answer[t]]
  /\ \A t \in Thread : pc[t] # "idle" => request[t] \in Requests(Fn)

\* A call past its acquisition holds the key it acquired, as it acquired it.
Held ==
  \A t \in Thread :
    Working(t) =>
      /\ handle[t] \in Ids(FamilyOf(t))
      /\ table[FamilyOf(t)][handle[t]] = [owner |-> t, kind |-> Template(request[t]).kind]

\* Every slot in use is under the handle of a call in progress, of its family.
Claimed ==
  \A f \in Family : \A id \in Ids(f) :
    table[f][id] # NoEntry =>
      /\ table[f][id].owner \in Thread
      /\ Working(table[f][id].owner)
      /\ FamilyOf(table[f][id].owner) = f
      /\ handle[table[f][id].owner] = id

\* The answers that the key and the arguments of a call explain (KeyLeases).
Explained(r, a) ==
  \/ a = Success(r) /\ (Checks(r) => r.genuine)
  \/ /\ a = "false"
     /\ Template(r).lenient # {}
     /\ ~r.genuine \/ "err_invalid_arg" \in Template(r).lenient
  \/ a \in Errors(r)
  \/ a = "bad_alloc"

\* A call is at one of its provider calls, and what it will answer is explained by its
\* own key and arguments.
Answering ==
  \A t \in Thread :
    /\ pc[t] = "checks" => step[t] = 1
    /\ pc[t] = "running" => step[t] \in 1 .. Len(Ops(request[t]))
    /\ pc[t] = "unwinding" => Explained(request[t], answer[t])

IInv == Typed /\ Held /\ Claimed /\ Answering

LEMMA IdFacts == \A f \in Family : \A id \in Ids(f) : id \in Int /\ StoreOf(id) = f
<1> SUFFICES ASSUME NEW f \in Family, NEW id \in Ids(f) PROVE id \in Int /\ StoreOf(id) = f
  OBVIOUS
<1>1. \A g \in {"sym", "ec", "rsa", "pqc"} : Cap[g] \in 1 .. 16
  BY LibraryAssumption DEF Family
<1>2. Base["sym"] = 1 /\ Base["ec"] = 32768 /\ Base["rsa"] = 49152 /\ Base["pqc"] = 57344
  BY DEF Base
<1>. QED
  BY <1>1, <1>2 DEF Ids, StoreOf, Family

\* The request of a thread in a call, and its template.
LEMMA RequestFacts ==
  ASSUME NEW r \in Requests(Fn)
  PROVE  WellFormed(Template(r))
BY Templates, LibraryAssumption DEF Requests, Template

LEMMA InitIInv == Init => IInv
BY DEF Init, IInv, Typed, Held, Claimed, Answering, Working

\* No step of one thread touches what another one has of its own.
OthersKeep(t) ==
  \A u \in Thread \ {t} :
    /\ pc'[u] = pc[u] /\ request'[u] = request[u] /\ handle'[u] = handle[u]
    /\ step'[u] = step[u] /\ answer'[u] = answer[u]

LEMMA Frame ==
  ASSUME Typed, NEW t \in Thread, Call(t) \/ Step(t)
  PROVE  OthersKeep(t)
<1> USE DEF Typed, OthersKeep, Goto, Answer
<1>1. CASE Call(t)
  BY <1>1 DEF Call
<1>2. CASE CheckFails(t) \/ AcquireFails(t)
  BY <1>2 DEF CheckFails, AcquireFails
<1>3. CASE Acquire(t)
  BY <1>3 DEF Acquire
<1>4. CASE OpSucceeds(t)
  BY <1>4 DEF OpSucceeds
<1>5. CASE OpFails(t)
  BY <1>5 DEF OpFails
<1>6. CASE OpThrows(t)
  BY <1>6 DEF OpThrows
<1>7. CASE Destruct(t)
  BY <1>7 DEF Destruct
<1>. QED
  BY <1>1, <1>2, <1>3, <1>4, <1>5, <1>6, <1>7 DEF Step

\* Before a call has its key, and after, it neither holds nor claims anything.
LEMMA KeylessStep ==
  ASSUME IInv, NEW t \in Thread, OthersKeep(t), Typed', UNCHANGED table,
         ~Working(t), pc'[t] = "idle" \/ (pc'[t] = "checks" /\ step'[t] = 1)
  PROVE  IInv'
<1> USE DEF IInv, Working, FamilyOf, OthersKeep
<1>1. Held'
  BY DEF Held
<1>2. Claimed'
  BY DEF Claimed
<1>3. Answering'
  BY DEF Answering
<1>. QED
  BY <1>1, <1>2, <1>3

LEMMA TypedStep == ASSUME Typed, Held, NEW t \in Thread, Call(t) \/ Step(t) PROVE Typed'
<1> USE DEF Typed, Goto, Answer
<1>1. CASE Call(t)
  <2>1. PICK r \in Requests(Fn) : request' = [request EXCEPT ![t] = r]
    BY <1>1 DEF Call
  <2>2. step' \in [Thread -> Int] /\ request' \in [Thread -> Requests(Fn) \cup {NoRequest}]
    BY <1>1, <2>1 DEF Call
  <2>3. \A u \in Thread : pc'[u] # "idle" => request'[u] \in Requests(Fn)
    BY <1>1, <2>1 DEF Call
  <2>4. answer' = [u \in Thread |-> answer'[u]]
    BY <1>1 DEF Call
  <2>. QED
    BY <1>1, <2>2, <2>3, <2>4 DEF Call
<1>2. CASE CheckFails(t)
  BY <1>2 DEF CheckFails
<1>3. CASE Acquire(t)
  <2>1. PICK id \in Free(FamilyOf(t)) :
          /\ table' = [table EXCEPT ![FamilyOf(t)][id] = [owner |-> t, kind |-> Kept(request[t])]]
          /\ handle' = [handle EXCEPT ![t] = id]
    BY <1>3 DEF Acquire, FamilyOf
  <2>2. request[t] \in Requests(Fn) /\ FamilyOf(t) \in Family
    BY <1>3, RequestFacts DEF Acquire, FamilyOf, WellFormed
  <2>3. id \in Ids(FamilyOf(t)) /\ id \in Int
    BY <2>2, IdFacts DEF Free
  <2>4. table' = [f \in Family |-> [i \in Ids(f) |-> table'[f][i]]]
    BY <2>1, <2>2, <2>3
  <2>. QED
    BY <1>3, <2>1, <2>3, <2>4 DEF Acquire
<1>4. CASE AcquireFails(t)
  BY <1>4 DEF AcquireFails
<1>5. CASE OpSucceeds(t)
  <2>1. CASE step[t] < Len(Ops(request[t]))
    <3>1. step' = [step EXCEPT ![t] = step[t] + 1] /\ UNCHANGED <<pc, answer>>
      BY <1>5, <2>1 DEF OpSucceeds
    <3>2. step' \in [Thread -> Int]
      BY <3>1
    <3>. QED
      BY <1>5, <3>1, <3>2 DEF OpSucceeds
  <2>2. CASE ~(step[t] < Len(Ops(request[t])))
    BY <1>5, <2>2 DEF OpSucceeds
  <2>. QED
    BY <2>1, <2>2
<1>6. CASE OpFails(t)
  BY <1>6 DEF OpFails
<1>7. CASE OpThrows(t)
  BY <1>7 DEF OpThrows
<1>8. CASE Destruct(t)
  <2>1. request[t] \in Requests(Fn) /\ FamilyOf(t) \in Family
    BY <1>8, RequestFacts DEF Destruct, FamilyOf, WellFormed
  <2>2. StoreOf(handle[t]) = FamilyOf(t) /\ handle[t] \in Ids(FamilyOf(t))
    BY <1>8, <2>1, IdFacts DEF Destruct, Held, Working
  <2>3. table' = [table EXCEPT ![FamilyOf(t)][handle[t]] = NoEntry]
    BY <1>8, <2>2 DEF Destruct
  <2>4. table' = [f \in Family |-> [i \in Ids(f) |-> table'[f][i]]]
    BY <2>1, <2>2, <2>3
  <2>. QED
    BY <1>8, <2>4 DEF Destruct
<1>. QED
  BY <1>1, <1>2, <1>3, <1>4, <1>5, <1>6, <1>7, <1>8 DEF Step

\* The key that a call acquires was in nobody's hands.
LEMMA AcquireStep ==
  ASSUME IInv, NEW t \in Thread, Acquire(t), OthersKeep(t), Typed' PROVE IInv'
<1> DEFINE f == FamilyOf(t)
<1> USE DEF IInv, Working, FamilyOf
<1>1. PICK id \in Free(f) :
        /\ table' = [table EXCEPT ![f][id] = [owner |-> t, kind |-> Kept(request[t])]]
        /\ handle' = [handle EXCEPT ![t] = id]
  BY DEF Acquire
<1>2. /\ pc[t] = "checks" /\ pc'[t] = "running" /\ UNCHANGED <<request, step, answer>>
      /\ request[t] \in Requests(Fn) /\ f \in Family
  BY RequestFacts DEF Acquire, Goto, Typed, WellFormed
<1>3. id \in Ids(f) /\ table[f][id] = NoEntry /\ handle'[t] = id
  BY <1>1, <1>2 DEF Free, Typed
<1>4. table'[f][id] = [owner |-> t, kind |-> Template(request[t]).kind]
  BY <1>1, <1>2, <1>3 DEF Typed, Kept
<1>5. \A g \in Family : \A i \in Ids(g) : <<g, i>> # <<f, id>> => table'[g][i] = table[g][i]
  BY <1>1, <1>2, <1>3 DEF Typed
<1>6. [owner |-> t, kind |-> Template(request[t]).kind] # NoEntry
  BY LibraryAssumption DEF NoEntry
<1> HIDE DEF f
<1>7. Held'
  <2>1. ASSUME NEW u \in Thread, u # t, Working(u)
        PROVE  /\ handle[u] \in Ids(FamilyOf(u))
               /\ table'[FamilyOf(u)][handle[u]] = [owner |-> u, kind |-> Template(request[u]).kind]
    <3>1. /\ request[u] \in Requests(Fn) /\ FamilyOf(u) \in Family
          /\ handle[u] \in Ids(FamilyOf(u))
          /\ table[FamilyOf(u)][handle[u]] = [owner |-> u, kind |-> Template(request[u]).kind]
      BY <2>1, RequestFacts DEF Held, Typed, WellFormed
    <3>2. table[FamilyOf(u)][handle[u]] # NoEntry
      BY <3>1, LibraryAssumption DEF NoEntry
    <3>. QED
      BY <3>1, <3>2, <1>3, <1>5
  <2>. QED
    BY <2>1, <1>2, <1>3, <1>4 DEF Held, OthersKeep, f
<1>8. Claimed'
  BY <1>2, <1>3, <1>4, <1>5, <1>6 DEF Claimed, OthersKeep, f
<1>9. Answering'
  <2>1. step'[t] = 1
    BY <1>2 DEF Answering
  <2>2. Len(Ops(request[t])) \in {1, 2}
    BY <1>2, RequestFacts DEF WellFormed, Ops
  <2>. QED
    BY <1>2, <2>1, <2>2 DEF Answering, OthersKeep
<1>. QED
  BY <1>7, <1>8, <1>9

\* While a call uses its key it goes on holding it.
LEMMA OpStep ==
  ASSUME IInv, NEW t \in Thread, OpSucceeds(t) \/ OpFails(t) \/ OpThrows(t), OthersKeep(t), Typed'
  PROVE  IInv'
<1> USE DEF IInv
<1> DEFINE r == request[t]
<1>1. /\ pc[t] = "running" /\ pc'[t] \in {"running", "unwinding"}
      /\ UNCHANGED <<table, request, handle>>
  BY DEF OpSucceeds, OpFails, OpThrows, Goto, Typed
<1>2. Held' /\ Claimed'
  <2>1. \A u \in Thread : (Working(u) <=> Working(u)') /\ FamilyOf(u)' = FamilyOf(u)
    BY <1>1 DEF Working, FamilyOf, OthersKeep
  <2>2. Held'
    BY <1>1, <2>1 DEF Held
  <2>3. Claimed'
    BY <1>1, <2>1 DEF Claimed
  <2>. QED
    BY <2>2, <2>3
<1>3. r \in Requests(Fn) /\ WellFormed(Template(r))
  BY <1>1, RequestFacts DEF Typed
<1>4. /\ Len(Ops(r)) \in {1, 2} /\ step[t] \in 1 .. Len(Ops(r))
      /\ Op(t) = Ops(r)[step[t]]
      /\ Op(t).error \in Errors(r)
  BY <1>1, <1>3 DEF WellFormed, Ops, Answering, Op, Errors
<1>5. /\ pc'[t] = "running" => step'[t] \in 1 .. Len(Ops(r))
      /\ pc'[t] = "unwinding" => Explained(r, answer'[t])
  <2>1. CASE OpSucceeds(t)
    <3>1. CASE step[t] < Len(Ops(r))
      BY <2>1, <3>1, <1>1, <1>4 DEF OpSucceeds, Typed
    <3>2. CASE ~(step[t] < Len(Ops(r)))
      <4>1. pc'[t] = "unwinding" /\ answer'[t] = Success(r)
        BY <2>1, <3>2 DEF OpSucceeds, Goto, Answer, Typed
      <4>2. Op(t).op \in Judges => r.genuine
        BY <2>1 DEF OpSucceeds, Statuses
      <4>3. Checks(r) => r.genuine
        BY <3>2, <4>2, <1>3, <1>4 DEF Checks, WellFormed, Ops
      <4>. QED
        BY <4>1, <4>3 DEF Explained
    <3>. QED
      BY <3>1, <3>2
  <2>2. CASE OpFails(t)
    <3>1. PICK s \in Statuses(t) \ {"ok"} : answer' = [answer EXCEPT ![t] = Verdict(t, s)]
      BY <2>2 DEF OpFails, Answer
    <3>2. s = "err_invalid_arg" \/ (s = "err_invalid_sig" /\ ~r.genuine)
      BY <3>1 DEF Statuses
    <3>3. pc'[t] = "unwinding" /\ answer'[t] = Verdict(t, s)
      BY <2>2, <3>1 DEF OpFails, Goto, Typed
    <3>. QED
      BY <3>2, <3>3, <1>4 DEF Verdict, Explained
  <2>3. CASE OpThrows(t)
    BY <2>3, <1>1, <1>4 DEF OpThrows, Goto, Answer, Explained, Typed
  <2>. QED
    BY <2>1, <2>2, <2>3
<1>6. Answering'
  BY <1>1, <1>5 DEF Answering, OthersKeep
<1>. QED
  BY <1>2, <1>6

\* The slot that a call empties is its own.
LEMMA DestructStep ==
  ASSUME IInv, NEW t \in Thread, Destruct(t), OthersKeep(t), Typed' PROVE IInv'
<1> DEFINE f == FamilyOf(t)
<1> USE DEF IInv, Working, FamilyOf
<1>1. /\ pc[t] = "unwinding" /\ pc'[t] = "idle"
      /\ request[t] \in Requests(Fn) /\ f \in Family
  BY RequestFacts DEF Destruct, Goto, Typed, WellFormed
<1>2. /\ handle[t] \in Ids(f) /\ StoreOf(handle[t]) = f
      /\ table[f][handle[t]] = [owner |-> t, kind |-> Template(request[t]).kind]
  BY <1>1, IdFacts DEF Held
<1>3. table' = [table EXCEPT ![f][handle[t]] = NoEntry]
  BY <1>2 DEF Destruct
<1>4. table'[f][handle[t]] = NoEntry
  BY <1>1, <1>2, <1>3 DEF Typed
<1>5. \A g \in Family : \A i \in Ids(g) : <<g, i>> # <<f, handle[t]>> => table'[g][i] = table[g][i]
  BY <1>1, <1>2, <1>3 DEF Typed
<1> HIDE DEF f
<1>6. Held'
  <2>1. ASSUME NEW u \in Thread, u # t, Working(u)
        PROVE  /\ handle[u] \in Ids(FamilyOf(u))
               /\ table'[FamilyOf(u)][handle[u]] = [owner |-> u, kind |-> Template(request[u]).kind]
    <3>1. /\ request[u] \in Requests(Fn) /\ FamilyOf(u) \in Family
          /\ handle[u] \in Ids(FamilyOf(u))
          /\ table[FamilyOf(u)][handle[u]] = [owner |-> u, kind |-> Template(request[u]).kind]
      BY <2>1, RequestFacts DEF Held, Typed, WellFormed
    <3>2. <<FamilyOf(u), handle[u]>> # <<f, handle[t]>>
      BY <2>1, <3>1, <1>2
    <3>. QED
      BY <3>1, <3>2, <1>5
  <2>. QED
    BY <2>1, <1>1 DEF Held, OthersKeep
<1>7. Claimed'
  <2> SUFFICES ASSUME NEW g \in Family, NEW i \in Ids(g), table'[g][i] # NoEntry
      PROVE  /\ table'[g][i].owner \in Thread
             /\ pc'[table'[g][i].owner] \in {"running", "unwinding"}
             /\ Template(request'[table'[g][i].owner]).family = g
             /\ handle'[table'[g][i].owner] = i
    BY DEF Claimed
  <2>1. <<g, i>> # <<f, handle[t]>> /\ table'[g][i] = table[g][i]
    BY <1>4, <1>5
  <2> DEFINE u == table[g][i].owner
  <2>2. u \in Thread /\ Working(u) /\ FamilyOf(u) = g /\ handle[u] = i
    BY <2>1 DEF Claimed
  <2>3. u # t
    BY <2>1, <2>2 DEF f
  <2>. QED
    BY <2>1, <2>2, <2>3 DEF OthersKeep
<1>8. Answering'
  BY <1>1 DEF Answering, OthersKeep
<1>. QED
  BY <1>6, <1>7, <1>8

\* The invariant is inductive.
LEMMA StepIInv == IInv /\ [Next]_vars => IInv'
<1> SUFFICES ASSUME IInv, [Next]_vars PROVE IInv'
  OBVIOUS
<1>1. ASSUME NEW t \in Thread, Call(t) \/ Step(t) PROVE IInv'
  <2>1. OthersKeep(t) /\ Typed'
    BY <1>1, Frame, TypedStep DEF IInv
  <2>2. CASE Call(t) \/ CheckFails(t) \/ AcquireFails(t)
    <3>1. UNCHANGED table /\ ~Working(t) /\ (pc'[t] = "idle" \/ (pc'[t] = "checks" /\ step'[t] = 1))
      BY <2>2 DEF Call, CheckFails, AcquireFails, Goto, Working, IInv, Typed
    <3>. QED
      BY <2>1, <3>1, KeylessStep
  <2>. QED
    BY <1>1, <2>1, <2>2, AcquireStep, OpStep, DestructStep DEF Step
<1>2. CASE UNCHANGED vars
  <2> USE <1>2 DEF vars, Working, FamilyOf
  <2>1. Typed'
    BY DEF IInv, Typed
  <2>2. Held' /\ Claimed'
    BY DEF IInv, Held, Claimed
  <2>3. Answering'
    BY DEF IInv, Answering
  <2>. QED
    BY <2>1, <2>2, <2>3 DEF IInv
<1>. QED
  BY <1>1, <1>2 DEF Next

LEMMA Invariance == Spec => []IInv
BY InitIInv, StepIInv, PTL DEF Spec

\* A call in progress finds its own key, in a form that each of its provider calls
\* accepts, for any number of threads and any capacity of the stores.
THEOREM KeysResolve == Spec => []HandleResolves
<1>1. IInv => HandleResolves
  <2> SUFFICES ASSUME IInv, NEW t \in Thread, Working(t)
      PROVE  LET f == StoreOf(handle[t]) IN
             /\ handle[t] \in Ids(f)
             /\ f = Template(request[t]).family
             /\ table[f][handle[t]].owner = t
             /\ \A k \in 1 .. Len(Ops(request[t])) :
                  table[f][handle[t]].kind \in Accepts(f, Ops(request[t])[k].op)
    BY DEF HandleResolves, Working
  <2>1. WellFormed(Template(request[t]))
    BY RequestFacts DEF IInv, Typed, Working
  <2>2. /\ handle[t] \in Ids(FamilyOf(t))
        /\ table[FamilyOf(t)][handle[t]] = [owner |-> t, kind |-> Template(request[t]).kind]
    BY DEF IInv, Held
  <2>3. StoreOf(handle[t]) = FamilyOf(t)
    BY <2>1, <2>2, IdFacts DEF WellFormed, FamilyOf
  <2>. QED
    BY <2>1, <2>2, <2>3 DEF WellFormed, FamilyOf, Ops
<1>. QED
  BY <1>1, Invariance, PTL

\* No slot outlives the call that took it, however the calls end.
THEOREM NothingLeaks == Spec => []NoLeak
<1>1. IInv => NoLeak
  BY DEF IInv, Claimed, NoLeak, Working
<1>. QED
  BY <1>1, Invariance, PTL

\* False means a bad signature where the library says that it does.
THEOREM VerdictsTruthful == Spec => []VerdictTruthful
<1>1. IInv => VerdictTruthful
  <2> SUFFICES ASSUME IInv, NEW t \in Thread, pc[t] = "unwinding", answer[t] = "false",
                      request[t].fn \in {"hmac_verify", "ml_dsa_verify"}
      PROVE  ~request[t].genuine
    BY DEF VerdictTruthful
  <2>1. Explained(request[t], "false")
    BY DEF IInv, Answering
  <2>2. "false" # Success(request[t]) /\ "false" \notin Errors(request[t])
    BY RequestFacts DEF IInv, Typed, WellFormed, Success, Errors, Ops
  <2>3. Template(request[t]).lenient = {"err_invalid_sig"}
    BY DEF Template, Library, hmac_verify, ml_dsa_verify, Verifies, Uses, BadSignature
  <2>. QED
    BY <2>1, <2>2, <2>3 DEF Explained
<1>. QED
  BY <1>1, Invariance, PTL

-----------------------------------------------------------------------------
(* LibraryCalls implements KeyLeases.                                        *)

\* Shapes, functions and vocabulary are the same in KeyLeases and here.
LEMMA SameShapes ==
  /\ \A family, kind, checks, op, error :
       Leases!Uses(family, kind, checks, op, error) = Uses(family, kind, checks, op, error)
  /\ \A family, kind, checks, op, lenient :
       Leases!Verifies(family, kind, checks, op, lenient)
         = Verifies(family, kind, checks, op, lenient)
  /\ \A family, kind : Leases!Generates(family, kind) = Generates(family, kind)
BY DEF Uses, Leases!Uses, Verifies, Leases!Verifies, Generates, Leases!Generates

LEMMA SameLibrary == Leases!Library = Library
BY SameShapes
   DEF Library, Leases!Library, WrongSize, Leases!WrongSize, NoRandom, Leases!NoRandom,
       BadSignature, Leases!BadSignature, BadInput, Leases!BadInput, hmac_generate,
       Leases!hmac_generate, hmac_verify, Leases!hmac_verify, aes256_gcm_encrypt,
       Leases!aes256_gcm_encrypt, aes256_gcm_decrypt, Leases!aes256_gcm_decrypt,
       chacha20_poly1305_encrypt, Leases!chacha20_poly1305_encrypt,
       chacha20_poly1305_decrypt, Leases!chacha20_poly1305_decrypt, ecdh_generate_key,
       Leases!ecdh_generate_key, ecdh_compute_shared_secret,
       Leases!ecdh_compute_shared_secret, ecdsa_generate_key, Leases!ecdsa_generate_key,
       ecdsa_sign, Leases!ecdsa_sign, ecdsa_verify, Leases!ecdsa_verify,
       generate_rsa_key, Leases!generate_rsa_key, rsa_oaep_encrypt,
       Leases!rsa_oaep_encrypt, rsa_oaep_decrypt, Leases!rsa_oaep_decrypt, rsa_pss_sign,
       Leases!rsa_pss_sign, rsa_pss_verify, Leases!rsa_pss_verify, ml_dsa_generate_key,
       Leases!ml_dsa_generate_key, ml_dsa_sign, Leases!ml_dsa_sign, ml_dsa_verify,
       Leases!ml_dsa_verify, ml_kem_generate_key, Leases!ml_kem_generate_key,
       ml_kem_encapsulate, Leases!ml_kem_encapsulate, ml_kem_decapsulate,
       Leases!ml_kem_decapsulate

LEMMA SameVocabulary ==
  /\ Leases!Family = Family
  /\ Leases!NoRequest = NoRequest
  /\ Leases!Requests(Fn) = Requests(Fn)
  /\ Leases!AcquireError = AcquireError
  /\ \A r : /\ Leases!Template(r) = Template(r)
            /\ Leases!Success(r) = Success(r)
            /\ Leases!Errors(r) = Errors(r)
            /\ Leases!MayTerminate(r) <=> MayTerminate(r)
  /\ \A r, a : Leases!Explains(r, a) <=> Explained(r, a)
BY SameLibrary
   DEF Family, Leases!Family, NoRequest, Leases!NoRequest, Requests, Leases!Requests,
       AcquireError, Leases!AcquireError, Template, Leases!Template, Success, Leases!Success,
       Errors, Leases!Errors, Ops, Leases!Ops, MayTerminate, Leases!MayTerminate, NoExcept,
       Leases!NoExcept, Checks, Leases!Checks, Judges, Leases!Judges, Explained, Leases!Explains

\* The state that KeyLeases sees.
AbsLease == [f \in Family |->
  {t \in Thread : pc[t] \in {"running", "unwinding"} /\ Template(request[t]).family = f}]
AbsPhase == [t \in Thread |-> CASE pc[t] = "idle" -> "idle"
                                [] pc[t] = "checks" -> "called"
                                [] OTHER -> "leased"]
AbsReply == [t \in Thread |-> IF pc[t] = "idle" THEN answer[t] ELSE "none"]

\* A store is full exactly when as many calls of its family as it has slots are in
\* progress: the handles of those calls are an injection into its ids.
LEMMA FullIsFull ==
  ASSUME IInv, NEW f \in Family
  PROVE  Free(f) = {} <=> Cardinality(AbsLease[f]) = Cap[f]
<1> DEFINE S == AbsLease[f]
           h == [t \in S |-> handle[t]]
<1>1. \A t \in S : /\ t \in Thread /\ handle[t] \in Ids(f)
                   /\ table[f][handle[t]].owner = t
                   /\ table[f][handle[t]] # NoEntry
  <2> SUFFICES ASSUME NEW t \in S
      PROVE  /\ t \in Thread /\ handle[t] \in Ids(f)
             /\ table[f][handle[t]].owner = t
             /\ table[f][handle[t]] # NoEntry
    OBVIOUS
  <2>1. t \in Thread /\ Working(t) /\ FamilyOf(t) = f
    BY DEF AbsLease, Working, FamilyOf
  <2>2. /\ handle[t] \in Ids(f)
        /\ table[f][handle[t]] = [owner |-> t, kind |-> Template(request[t]).kind]
    BY <2>1 DEF IInv, Held
  <2>. QED
    BY <2>1, <2>2, LibraryAssumption DEF NoEntry
<1>2. h \in Injection(S, Ids(f))
  BY <1>1 DEF Injection, IsInjective
<1>3. IsFiniteSet(Ids(f)) /\ Cardinality(Ids(f)) = Cap[f]
  <2> DEFINE last == Base[f] + Cap[f] - 1
  <2>1. Cap[f] \in 1 .. 16 /\ Base[f] \in Int
    BY LibraryAssumption DEF Base, Family
  <2>2. last \in Int /\ ~(Base[f] > last) /\ last - Base[f] + 1 = Cap[f]
    BY <2>1
  <2> HIDE DEF last
  <2>3. IsFiniteSet(Base[f] .. last) /\ Cardinality(Base[f] .. last) = Cap[f]
    BY <2>1, <2>2, FS_Interval
  <2>. QED
    BY <2>3 DEF Ids, last
<1>4. Cardinality(S) = Cap[f] <=> h \in Surjection(S, Ids(f))
  BY <1>2, <1>3, FS_Injection
<1>5. ASSUME Free(f) = {} PROVE h \in Surjection(S, Ids(f))
  <2> SUFFICES ASSUME NEW id \in Ids(f) PROVE \E t \in S : h[t] = id
    BY <1>2 DEF Injection, Surjection
  <2>1. table[f][id].owner \in S /\ handle[table[f][id].owner] = id
    BY <1>5 DEF Free, AbsLease, IInv, Claimed, Working, FamilyOf
  <2>. QED
    BY <2>1
<1>6. ASSUME h \in Surjection(S, Ids(f)) PROVE Free(f) = {}
  <2> SUFFICES ASSUME NEW id \in Ids(f) PROVE table[f][id] # NoEntry
    BY DEF Free
  <2>1. PICK t \in S : h[t] = id
    BY <1>6 DEF Surjection
  <2>. QED
    BY <1>1, <2>1
<1>. QED
  BY <1>4, <1>5, <1>6

\* What a step changes of it, by where it takes its thread.
LEMMA AbsStep ==
  ASSUME Typed, Typed', NEW t \in Thread, OthersKeep(t)
  PROVE  /\ pc'[t] \in {"idle", "checks"} /\ ~Working(t) => AbsLease' = AbsLease
         /\ AbsPhase' = [AbsPhase EXCEPT ![t] = CASE pc'[t] = "idle" -> "idle"
                                                  [] pc'[t] = "checks" -> "called"
                                                  [] OTHER -> "leased"]
         /\ AbsReply' = [AbsReply EXCEPT ![t] = IF pc'[t] = "idle" THEN answer'[t] ELSE "none"]
<1>1. ASSUME pc'[t] \in {"idle", "checks"}, ~Working(t) PROVE AbsLease' = AbsLease
  BY <1>1 DEF AbsLease, Working, OthersKeep
<1>2. \A u \in Thread \ {t} : AbsPhase'[u] = AbsPhase[u] /\ AbsReply'[u] = AbsReply[u]
  BY DEF AbsPhase, AbsReply, OthersKeep
<1>. QED
  BY <1>1, <1>2 DEF AbsPhase, AbsReply

\* The steps of KeyLeases, said of the state that it sees.
AbsFinish(t, a) ==
  /\ AbsReply' = [AbsReply EXCEPT ![t] = a]
  /\ AbsPhase' = [AbsPhase EXCEPT ![t] = "idle"]
  /\ request' = [request EXCEPT ![t] = NoRequest]
  /\ UNCHANGED process

AbsFull(t) == Cardinality(AbsLease[FamilyOf(t)]) = Cap[FamilyOf(t)]

LEMMA SameCardinality == \A S : Leases!Cardinality(S) = Cardinality(S)
BY DEF Cardinality, Leases!Cardinality

LEMMA AbsActions ==
  ASSUME NEW t \in Thread
  PROVE  /\ Leases!Ask(t) <=>
              /\ AbsPhase[t] = "idle"
              /\ \E r \in Requests(Fn) : request' = [request EXCEPT ![t] = r]
              /\ AbsPhase' = [AbsPhase EXCEPT ![t] = "called"]
              /\ AbsReply' = [AbsReply EXCEPT ![t] = "none"]
              /\ UNCHANGED <<process, AbsLease>>
         /\ Leases!Lease(t) <=>
              /\ AbsPhase[t] = "called" /\ request[t].fit /\ ~AbsFull(t)
              /\ AbsLease' = [AbsLease EXCEPT ![FamilyOf(t)] = @ \cup {t}]
              /\ AbsPhase' = [AbsPhase EXCEPT ![t] = "leased"]
              /\ UNCHANGED <<process, request, AbsReply>>
         /\ Leases!TurnAway(t) <=>
              /\ AbsPhase[t] = "called"
              /\ \/ \E e \in Template(request[t]).checks : AbsFinish(t, e)
                 \/ /\ ~request[t].fit \/ AbsFull(t)
                    /\ AbsFinish(t, AcquireError[Template(request[t]).acquire])
              /\ UNCHANGED AbsLease
         /\ Leases!Give(t) <=>
              /\ AbsPhase[t] = "leased"
              /\ AbsLease' = [AbsLease EXCEPT ![FamilyOf(t)] = @ \ {t}]
              /\ \E a \in {Success(request[t]), "false", "bad_alloc"} \cup Errors(request[t]) :
                   Explained(request[t], a) /\ AbsFinish(t, a)
         /\ Leases!Abort(t) <=>
              /\ AbsPhase[t] = "leased" /\ MayTerminate(request[t]) /\ process' = "terminated"
              /\ UNCHANGED <<AbsLease, AbsPhase, request, AbsReply>>
BY SameVocabulary, SameCardinality
   DEF AbsLease, AbsPhase, AbsReply, FamilyOf, AbsFinish, AbsFull, Leases!Ask, Leases!Finish,
       Leases!Full, Leases!Leased, Leases!Lease, Leases!TurnAway, Leases!Give, Leases!Abort

LEMMA CallSimulates ==
  ASSUME IInv, IInv', NEW t \in Thread, OthersKeep(t), Call(t)
  PROVE  Leases!Ask(t)
<1>1. pc[t] = "idle" /\ pc'[t] = "checks"
  BY DEF Call, Goto, IInv, Typed
<1>2. /\ AbsLease' = AbsLease
      /\ AbsPhase[t] = "idle" /\ AbsPhase' = [AbsPhase EXCEPT ![t] = "called"]
      /\ AbsReply' = [AbsReply EXCEPT ![t] = "none"]
  BY <1>1, AbsStep DEF Working, AbsPhase, IInv
<1>. QED
  BY <1>2, AbsActions DEF Call

LEMMA TurnAwaySimulates ==
  ASSUME IInv, IInv', NEW t \in Thread, OthersKeep(t), CheckFails(t) \/ AcquireFails(t)
  PROVE  Leases!TurnAway(t)
<1>1. /\ pc[t] = "checks" /\ pc'[t] = "idle" /\ UNCHANGED process
      /\ request' = [request EXCEPT ![t] = NoRequest]
  BY DEF CheckFails, AcquireFails, Goto, IInv, Typed
<1>2. /\ AbsLease' = AbsLease
      /\ AbsPhase[t] = "called" /\ AbsPhase' = [AbsPhase EXCEPT ![t] = "idle"]
      /\ AbsReply' = [AbsReply EXCEPT ![t] = answer'[t]]
  BY <1>1, AbsStep DEF Working, AbsPhase, IInv
<1>3. CASE CheckFails(t)
  <2>1. answer'[t] \in Template(request[t]).checks
    BY <1>3 DEF CheckFails, Answer, IInv, Typed
  <2>. QED
    BY <1>1, <1>2, <2>1, AbsActions DEF AbsFinish
<1>4. CASE AcquireFails(t)
  <2>1. answer'[t] = AcquireError[Template(request[t]).acquire]
    BY <1>4 DEF AcquireFails, Answer, IInv, Typed
  <2>2. request[t] \in Requests(Fn) /\ FamilyOf(t) \in Family
    BY <1>1, RequestFacts DEF IInv, Typed, FamilyOf, WellFormed
  <2>3. ~request[t].fit \/ AbsFull(t)
    BY <1>4, <2>2, FullIsFull DEF AcquireFails, AbsFull, FamilyOf
  <2>. QED
    BY <1>1, <1>2, <2>1, <2>3, AbsActions DEF AbsFinish
<1>. QED
  BY <1>3, <1>4

LEMMA AcquireSimulates ==
  ASSUME IInv, IInv', NEW t \in Thread, OthersKeep(t), Acquire(t)
  PROVE  Leases!Lease(t)
<1>1. /\ pc[t] = "checks" /\ pc'[t] = "running" /\ UNCHANGED <<process, request, answer>>
      /\ request[t].fit /\ Free(FamilyOf(t)) # {}
  BY DEF Acquire, Goto, IInv, Typed, FamilyOf
<1>2. FamilyOf(t) \in Family
  BY <1>1, RequestFacts DEF IInv, Typed, FamilyOf, WellFormed
<1>3. AbsLease' = [AbsLease EXCEPT ![FamilyOf(t)] = AbsLease[FamilyOf(t)] \cup {t}]
  <2> DEFINE G(f) == {u \in Thread : pc[u] \in {"running", "unwinding"} /\ Template(request[u]).family = f}
             H(f) == {u \in Thread : pc'[u] \in {"running", "unwinding"} /\ Template(request'[u]).family = f}
  <2>1. AbsLease = [f \in Family |-> G(f)] /\ AbsLease' = [f \in Family |-> H(f)]
    BY DEF AbsLease
  <2>2. ASSUME NEW f \in Family PROVE H(f) = IF f = FamilyOf(t) THEN G(f) \cup {t} ELSE G(f)
    <3>1. \A u \in Thread \ {t} : u \in H(f) <=> u \in G(f)
      BY DEF OthersKeep
    <3>2. t \notin G(f) /\ (t \in H(f) <=> f = FamilyOf(t))
      BY <1>1 DEF FamilyOf
    <3>. QED
      BY <3>1, <3>2
  <2> HIDE DEF G, H
  <2>. QED
    BY <1>2, <2>1, <2>2
<1>4. /\ AbsPhase[t] = "called" /\ AbsPhase' = [AbsPhase EXCEPT ![t] = "leased"]
      /\ AbsReply' = AbsReply
  BY <1>1, AbsStep DEF AbsPhase, AbsReply, IInv
<1>5. ~AbsFull(t)
  BY <1>1, <1>2, FullIsFull DEF AbsFull
<1>. QED
  BY <1>1, <1>3, <1>4, <1>5, AbsActions

LEMMA OpSimulates ==
  ASSUME IInv, IInv', NEW t \in Thread, OthersKeep(t), OpSucceeds(t) \/ OpFails(t) \/ OpThrows(t)
  PROVE  Leases!Abort(t) \/ UNCHANGED <<process, AbsLease, AbsPhase, request, AbsReply>>
<1>1. /\ pc[t] = "running" /\ pc'[t] \in {"running", "unwinding"}
      /\ UNCHANGED <<table, request, handle>>
  BY DEF OpSucceeds, OpFails, OpThrows, Goto, IInv, Typed
<1>2. AbsLease' = AbsLease
  BY <1>1 DEF AbsLease, OthersKeep
<1>3. AbsPhase[t] = "leased" /\ AbsPhase' = AbsPhase /\ AbsReply' = AbsReply
  <2>1. AbsPhase' = [AbsPhase EXCEPT ![t] = "leased"] /\ AbsReply' = [AbsReply EXCEPT ![t] = "none"]
    BY <1>1, AbsStep DEF IInv
  <2>. QED
    BY <1>1, <2>1 DEF AbsPhase, AbsReply
<1>4. CASE UNCHANGED process
  BY <1>1, <1>2, <1>3, <1>4
<1>5. CASE process' # process
  <2>1. process' = "terminated" /\ Op(t).op \in NoExcept
    BY <1>5 DEF OpSucceeds, OpFails, OpThrows
  <2>2. /\ Len(Ops(request[t])) \in {1, 2} /\ step[t] \in 1 .. Len(Ops(request[t]))
        /\ Len(Ops(request[t])) = 2 => Ops(request[t])[2].op \notin NoExcept
    BY <1>1, RequestFacts DEF IInv, Typed, Answering, WellFormed, Ops
  <2>3. MayTerminate(request[t])
    BY <2>1, <2>2 DEF Op, MayTerminate
  <2>. QED
    BY <1>1, <1>2, <1>3, <2>1, <2>3, AbsActions
<1>. QED
  BY <1>4, <1>5

LEMMA DestructSimulates ==
  ASSUME IInv, IInv', NEW t \in Thread, OthersKeep(t), Destruct(t)
  PROVE  Leases!Give(t)
<1>1. /\ pc[t] = "unwinding" /\ pc'[t] = "idle" /\ UNCHANGED <<process, answer>>
      /\ request' = [request EXCEPT ![t] = NoRequest]
      /\ request[t] \in Requests(Fn)
  BY DEF Destruct, Goto, IInv, Typed
<1>2. FamilyOf(t) \in Family
  BY <1>1, RequestFacts DEF FamilyOf, WellFormed
<1>3. AbsLease' = [AbsLease EXCEPT ![FamilyOf(t)] = AbsLease[FamilyOf(t)] \ {t}]
  BY <1>1, <1>2 DEF AbsLease, OthersKeep, FamilyOf
<1>4. /\ AbsPhase[t] = "leased" /\ AbsPhase' = [AbsPhase EXCEPT ![t] = "idle"]
      /\ AbsReply' = [AbsReply EXCEPT ![t] = answer[t]]
  BY <1>1, AbsStep DEF AbsPhase, AbsReply, IInv
<1>5. /\ Explained(request[t], answer[t])
      /\ answer[t] \in {Success(request[t]), "false", "bad_alloc"} \cup Errors(request[t])
  BY <1>1 DEF IInv, Answering, Explained
<1>. QED
  BY <1>1, <1>3, <1>4, <1>5, AbsActions DEF AbsFinish

\* Every step of a thread is a step of KeyLeases, or none.
LEMMA StepSimulates ==
  ASSUME IInv, IInv', NEW t \in Thread, process = "up", Call(t) \/ Step(t)
  PROVE  Leases!LNext \/ UNCHANGED <<process, AbsLease, AbsPhase, request, AbsReply>>
<1>1. OthersKeep(t)
  BY Frame DEF IInv
<1>. QED
  BY <1>1, CallSimulates, TurnAwaySimulates, AcquireSimulates, OpSimulates, DestructSimulates
  DEF Step, Leases!LNext

\* Seen from its callers the library is the leasing service of KeyLeases, for every
\* number of threads, choice of functions and capacity of the stores.
THEOREM Refinement == Spec => KeepsPromise
<1>1. Init => Leases!LInit
  <2> SUFFICES ASSUME Init PROVE Leases!LInit
    OBVIOUS
  <2>1. AbsLease = [f \in Family |-> {}]
    BY DEF Init, AbsLease
  <2>2. AbsPhase = [t \in Thread |-> "idle"] /\ AbsReply = [t \in Thread |-> "none"]
    BY DEF Init, AbsPhase, AbsReply
  <2>. QED
    BY <2>1, <2>2, SameVocabulary DEF Init, Leases!LInit, AbsLease, AbsPhase, AbsReply
<1>2. IInv /\ IInv' /\ [Next]_vars =>
        [Leases!LNext]_<<process, AbsLease, AbsPhase, request, AbsReply>>
  <2>1. CASE UNCHANGED vars
    BY <2>1 DEF vars, AbsLease, AbsPhase, AbsReply
  <2>2. CASE Next
    BY <2>2, StepSimulates DEF Next, Step
  <2>. QED
    BY <2>1, <2>2
<1>3. [Leases!LNext]_<<process, AbsLease, AbsPhase, request, AbsReply>> =>
        [Leases!LNext]_(Leases!lvars)
  BY DEF Leases!lvars, AbsLease, AbsPhase, AbsReply
<1>. QED
  BY <1>1, <1>2, <1>3, Invariance, PTL DEF Spec, KeepsPromise, Leases!LSpec
=============================================================================
