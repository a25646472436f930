# claude-crypto in TLA+

claude-crypto is a header-only C++26 library of cryptographic functions over
interchangeable *providers* (hand-written ARM and x86 assembly, OpenSSL, PSA /
Mbed TLS), with two authenticated key exchanges on top and a command line tool
beside it. This directory holds TLA+ models of its stateful parts and of the control
in its algorithms, the TLC configurations that check them on small instances, and TLAPS
proofs, for every value of the constants, about the three kinds of key store, what owns
keys and memory, the library's calls, the derivation of keys, digests and HMAC, AEAD
encryption, both key exchanges, the logging hook, and scli's logging and files.

Paths below are relative to `src/`.

## 1. The system

A library function that needs a key does not pass key bytes to the provider's
algorithms. It *imports* (or generates) the key into a store of the provider and
gets an integer id; it wraps the id in a `PsaKeyHandle`; it makes one or two
provider calls with the id; and the handle's destructor destroys the key on
every way out. Stores are global and guarded by a mutex, so this short-lived use
of sixteen slots is where all calls of all threads meet.

```
  command line tool ──► library functions ──► PsaKeyHandle ──► provider dispatch
     │                       │    ▲                               │  by id range
     │ wire_lib_hook         │    │ sigma*_begin/respond/finish   ▼
     └────► crypto_log ◄─────┘    │                     key stores (sym, EC, RSA, PQC;
            (one sink)       SIGMA, SIGMA-I             OpenSSL: asymmetric, raw)
```

### Inventory

| component | source | state | operations | what is hard | what must hold | module |
|---|---|---|---|---|---|---|
| symmetric key store | `providers/{arm,ia}_asm/key_store.hpp` | 16 slots (bytes, length, in_use), a mutex | import, get, destroy | a slot is written in several statements; ids are reused at once | no half-written slot is seen; import fails only when full; only destroy frees | `KeyStore` implements `KeyTable` |
| EC and RSA stores | `ec_key_store.hpp`, `rsa.hpp:63-145` | as above with curve, bits and kind | same | same | same | `KeyStore` |
| OpenSSL raw store | `openssl_key_store.hpp:162-258` | as above with a key kind | same | same | same | `KeyStore` |
| OpenSSL asymmetric store | `openssl_key_store.hpp:38-159`, `openssl_backend.hpp` | 64 slots pointing to reference-counted `EVP_PKEY`s | import, get (takes a reference), destroy | objects are used and freed outside the lock | a reference has one holder; nothing is used after its free; nothing leaks | `OsslAsymStore` implements `KeyTable` |
| PQC stores | `pqc_key_store.hpp` (ARM, PSA) | 16 slots pointing to heap blocks | import, get private, get public, destroy | blocks are allocated before, and deleted after, the critical section | one owner per block; no key bytes in freed memory; halves are cut where they were joined | `PqcStore` |
| key handle | `crypto_provider.hpp` | id, validity | construct, move, assign, self-assign, reset, destroy | moved-from objects, reused ids | each key has one owner and is destroyed once | `KeyHandle` |
| secure buffers | `secure_buffer.hpp` | owned bytes | construct, move, assign, resize, destroy | what a shrunk, moved or assigned-to vector no longer counts as its own | a secret is in the buffers that hold it and nowhere else | `SecureBuffer` |
| key derivation | `arm_asm/hkdf.hpp`, `ia_asm/hkdf.hpp` | phase, salt, key id, info | setup, inputs, output, abort | order of inputs, one-byte counter, a key destroyed meanwhile | the output is HKDF of the inputs accepted since the setup | `Hkdf` |
| digests, HMAC, callbacks | `sha256`, `sha512`, `sha3`, `keccak`, `hmac.hpp`, `arm_sha3_callbacks.hpp` | block buffer, position, heap contexts | init, update, finish; alloc, reset, clone, squeeze | lengths at block boundaries; contexts used again and again | same digest however the input is cut; each round gets its own word | `Hashing` |
| AEAD ciphers | `aes256*`, `ghash`, `chacha20*`, `poly1305*` | none | seal, open | counters, tails, tag before text, reflected products | opens only what was sealed, entirely; refusals leave nothing | `Aead` |
| EC arithmetic, ECDSA | `p*_field`, `p*_point`, `ecdsa.hpp` | none (a nonce loop) | field, point and scalar operations, sign, verify | carries, exceptional points, refused nonces, encodings | agree with the group law and with ECDSA | `PrimeField`, `ScalarField`, `Ecdsa`, `P256`, `P384`, `P521` against the curve law of `MCProviders` |
| RSA | `rsa*.hpp` | none (two draw loops) | key generation, private and public operation, DER, OAEP, PSS | primality, recombination, DER lengths | keys fit together, paddings and operations invert | `Rsa` |
| ML-DSA transforms | `dilithium_ntt_neon.cpp` | none | forward, inverse | sums that grow to the lane's limit, order of the factors | values at the roots of unity, and back | `DilithiumNtt` |
| ARM, x86, PSA, OpenSSL dispatch | `arm_asm_backend`, `ia_asm_backend`, `psa_mbedtls_backend`, `openssl_backend.hpp` | the stores | import, generate, export, each algorithm | four encodings of everything | builds over two providers understand each other, or refuse | `ArmProvider`, `IaProvider`, `PsaProvider`, `OpensslProvider` over `ProviderTerms` |
| library functions | `mac, aead, ecdh, ecc, asymmetric, pqc_dsa, pqc_kem, kdf, digests, random.hpp` | none of their own | 22 functions that hold a key, and those that hold none | any step fails; stores full; exceptions; other threads; which status becomes which error | no key outlives its call; answers are explained by the call's own arguments; alterations are told as such | `LibraryCalls` over `CallTemplates` implements `KeyLeases`; `LibraryFunctions`, `Exchange` |
| SIGMA | `sigma.hpp` | initiator and responder state | begin, respond, finish, finish | messages lost, repeated, misdelivered, damaged; provider faults | agreement; one key per pair; a bad Msg3 does not end a session | `Sigma` implements `Handshake`, proved in `SigmaProtocols` |
| SIGMA-I | `sigma_i.hpp` | as SIGMA | as SIGMA | as SIGMA, in encrypted bundles | as SIGMA | `SigmaI` implements `Handshake`, proved in `SigmaProtocols` |
| logging hook | `crypto_log.hpp` | sink, threshold, mutex | set sink, log | the threshold is read outside the mutex | a sink is alive while it runs; messages reach the sink that wants them | `CryptoLog` |
| CLI logging | `safe-crypto-cli/cli_logging.hpp`, `main.cpp` | logger, hook | start from options, environment, file | a file is refused half-way, or throws | one source in force, whole; hook and logger agree | `CliLogging` |
| CLI files and encodings | `cli_io.hpp`, `cli_base64.hpp`, `cmd_*.hpp` | output files | each command's reads and writes, in order | dying between two files; retries; two runs at once; padding | what a successful run wrote stays; what is written is read back | `CliCommands` |
| benchmarks, contracts, constants | `safe-crypto-lib-bench`, `contracts.hpp`, `defs.hpp` | none | – | – | – | not modelled |

`PROJECT.json` lists the same components with their files, and under `hazards`
each place in the code where something can go wrong that a test would hardly
reach, with the properties that watch it.

## 2. The modules

### Stores, handles, calls

`StoreInterface` — ids, calls and answers of a key store, shared by the next
three modules. Its constants are the threads, the keys that fit a slot, keys
that do not, the capacity, and the first id.

`KeyTable` — the abstract key store: a table on which import, get and destroy
take effect at one instant between call and return. An import takes some free
id and fails only when there is none.

`KeyStore` — the code of `key_store.hpp`, one action per statement of a critical
section that touches a slot: `Lock`, `ScanUsed`, `WriteData`, `WriteLen`,
`MarkUsed`, `StoreFull`, `Unlock` for import; `GetUnused`, `Allocate`, `CopyOut`,
`AllocationFails` for get; `Scrub`, `ClearLen`, `ClearUse` for destroy. The
critical sections are *not* atomic steps: that another thread cannot see between
two statements is what the mutex is for, and what the properties show. `slot`
holds the bytes and the length as the key they belong to, so a torn copy is a
record whose two fields differ. Keys that fit are compared by name; `Oversized`
stands for every key the checks before the lock refuse.

`OsslAsymStore` — the same interface with reference counts. A critical section
is one step here (its statements touch one slot under the same mutex, which
`KeyStore` treats at statement level); what happens *outside* the lock, the use
of the object and `EVP_PKEY_free`, is a step of its own. `ImportFull` models the
import and generate paths of the backend that free the object by hand when no
slot was free. Its proofs are at its end. `KeyStoreProofs` checks it beside `KeyStore`.

`PqcStore` — slots, heap blocks and the block a thread has in hand between its
critical section and the heap: `Allocate` before the lock, `Store` or `StoreFull`
under it; `Detach` under it, `Scrub` and `Delete` after it.

`KeyHandle` — any number of `PsaKeyHandle` objects over a provider in which a
destroyed id may come back. One action per member function; self move is its own
action because the code tests for it.

`SecureBuffer` — blocks of the heap behind vectors that grow, shrink, are moved and
assigned, and fixed buffers, whose move copies and zeroes. Growing past the
capacity is not an action: `resize` has the precondition that it does not.

`Hkdf` — the derivation as a state machine over a symmetric store in which keys come
and go, and `hkdf_expand` block by block with its one-byte counter. What is derived is
compared with HKDF of the inputs recorded in `given`. The state machine has no caller
in the repository; the backends call the expansion.

`KeyStoreProofs`, `ObjectsProofs` and `LibraryCallsProofs` hold the proofs about the
modules above. The first also says what the run and the theorems ask of OpenSSL's store,
and composes the two for the run `key_stores`;
the second puts the handles, the post-quantum store, the buffers and the derivation side
by side, with one set of constants, for the run `objects` and for the theorems alike.

`CallTemplates` — the 22 key-holding functions as data: store, kind of key, the
checks before a key is acquired, the provider calls with the error each maps to,
and the statuses a verification answers `false` for. `LibraryCalls` runs them:
`CheckFails`, `Acquire`, `AcquireFails`, `OpSucceeds`, `OpFails`, `OpThrows`
(`std::bad_alloc` from an output buffer) and `Destruct`, the handle's destructor.
It uses the stores at the level of `KeyTable`, whose promise `KeyStore` and
`OsslAsymStore` keep. `KeyLeases` is what the callers see: a call leases one
place in a store for as long as it runs.

### Providers and the library over them

`ProviderTerms` — key bytes told apart by what they are of and how they are encoded,
and symbolic results of operations. `ArmProvider`, `IaProvider` (the differences from
the former: with `ShaNi`, the default build, its SHA-256 is one of its own, and so are its
HMAC-SHA-256 and its signatures over P-256), `PsaProvider`, `OpensslProvider` — for each operation what it accepts,
makes and answers. The PSA core, EVP and liboqs are external. `LibraryFunctions` — what
every library function answers over a provider, given as parameters. `Exchange` —
three parties, each with a build over a provider of its own: one makes keys, one signs,
encrypts or derives, one checks; what goes between them may be altered or mixed up.

### Algorithms

`PrimeField` (the field, and the word-by-word reductions modulo the three primes),
`ScalarField` (Montgomery), `Ecdsa` (Jacobian formulas, both scalar multiplications,
signing with its nonce loop as a state machine, verifying);
`P256`, `P384`, `P521` give them the names and differences of each curve's file, for both
assembly providers. `MCProviders` has what they are measured against: chords and tangents on
affine points.

`Rsa` — drawing primes, making a key, the operations by limbs, DER in both
directions, OAEP and PSS. `Aead` — sealing and opening in both modes as a state machine,
then the products of GHASH and Poly1305, AES's key schedule, ChaCha20's choice of words.
`Hashing` — contexts of both providers and those liboqs is given as a state machine; the
way of each word to its round as operators. A loop over the data is a recursive function
of its turns (`Loop`), of which the repository's `while` is one turn, and so it is in
`Aead`. `HashingProofs` holds the proofs about the contexts, `ProviderProofs` those about
sealing and opening and about the three fields; `MCProviders` extends both, so that the run takes the constants that the
theorems speak of. `DilithiumNtt` — the transforms and the
real table of factors. In these, a byte that only moves and is XORed is the set of the
symbols in it, and what a cipher or compression computes is a symbol of its inputs.

### Protocols

`SigmaBase` — sessions, the network and symbolic cryptography; `Sigma` and
`SigmaI` — steps 2 to 4 of each protocol, with the checks in the code's order and
the answer of each failure; `Handshake` — the agreement both must reach. A
session is named by its ephemeral key. Terms (signatures, MACs, derived keys,
bundles) are equal exactly when their inputs are: the models say what the
*protocol* does with cryptography that works, not that it works. Derived keys are
slices of one output at the offsets of the code. The network
keeps every message and hands any to any session at any time; `Damage` puts a
copy with one altered field beside it. `Fault` is a provider call that fails.
`SigmaProtocols` runs one of the two, chosen at the start, and holds the proofs about both.

### Logging and the command line

`CryptoLog` — one thread registers sinks, any number log. The comment at
`crypto_log.hpp:17` asks for a single registering thread. Loads and stores of
the threshold are taken as sequentially consistent. Sinks are assumed not to log.
(The comment at `crypto_log.hpp:87`, that a thread which sees a threshold below Off
will always find a sink, does not cover taking a sink away: the sink is cleared before
the threshold is raised, and the code's own null check is what saves the thread.)

`CliLogging` — from option, environment or configuration file to the logger and the
hook, with each way a configuration is refused or throws. `CliCommands` — each command
as the list of what it writes, run by several processes on the same paths and killed or
failing anywhere, then the readers, writers and base64 as operators over bytes and digits
of any width in the proportion of the code's (`Radix`). `LoggingProofs` holds
the proofs about the three and the properties of the run over them.

A definition called *Deviation* is not part of the specification: it is a form
of the definition beside it that a plausible mistake in the code would give, and
each property is known to fail under at least one of them.

## 3. The runs

A run takes components that do not interact one at a time, chosen in its initial
states: the MC module instantiates each, a variable names the one that runs, and the
others stay as they were built.

| run | instance | question |
|---|---|---|
| `key_stores` (`KeyStoreProofs`) | slot store: 2 threads, 2 keys and one too long, 2 slots, every id from 0 to one past the last; OpenSSL's: 3 objects | Does the mutex make slots whole whenever it is free (`SlotsWhole`), copies untorn (`CopyNotTorn`), used slots stable (`OnlyDestroyTouches`), the store an atomic table (`KeepsPromise`), and does every holder give the mutex back (`LockReleased`)? `IInv` is the inductive invariant of the proofs. Is every reference to an object held exactly once (`RefsExact`), OpenSSL's store a table (`ObjectsKeepPromise`), and every unreachable object freed in the end (`FreedInTheEnd`)? |
| `objects` (`MCObjects`) | 3 handles, 3 ids; post-quantum store: 2 threads, 2 keys in every combination of halves, 2 slots, 3 blocks; 2 vectors and 2 arrays with 2 secrets; derivation over a counter of 4 values | Are live keys and valid handles the same (`OneOwner`), does a key go only with its owner's claim (`OwnersKeep`)? Has each block one owner (`BlocksOwned`), are halves those the slot says and freed blocks zeroed (`KeysWhole`)? Is a secret only where it is held (`SecretsHeld`)? Is what is derived HKDF of what was given (`DerivesAsGiven`)? |
| `library_calls` (`LibraryCalls`) | 2 threads, 22 functions, 1 slot per store | Does a handle always lead to its own key (`HandleResolves`), does no key outlive its call (`NoLeak`), is `false` a verdict where the comments say so (`VerdictTruthful`), is the library `KeyLeases` (`KeepsPromise`), does every call return (`CallsReturn`)? |
| `providers` (`MCProviders`) | every scheme and parameter set, 3 parties over any 3 of 4 providers, with and without liboqs and SHA-NI; small copies of three curves; RSA with primes of 8 bits; AEAD with blocks of 2 and 3 bytes and a counter of 10 values; transforms of 16 coefficients; hash contexts: 2 on the heap, blocks of 3, messages of up to 4 bytes | Is nothing altered or mixed up accepted (`Sound`), do exactly those providers understand each other that agree on every encoding and digest (`Interop`), is an alteration told as one (`AlterationTold`)? Is the arithmetic of fields, scalars, hashes and transforms exact (`ArithmeticExact`), are points added and multiplied by the group law (`GroupExact`), does what is signed verify (`SignaturesVerify`) and exactly what is a signature (`VerifyIsEcdsa`)? Do RSA keys, encodings and paddings fit together (`RsaExact`)? Is only what was sealed opened, and completely, with no keystream used twice (`SealedOpens`)? Is a digest that of the message however it was cut, for streaming, HMAC and liboqs's contexts (`DigestsExact`), and does each round get its word (`RoundsExact`)? |
| `sigma` (`MCSigma`) | either protocol, 2 initiator and 2 responder sessions, one party in two of them, 1 damaged copy, 1 fault | Do sessions that succeed agree (`KeepsPromise`), having read exactly what the peer sent (`UntouchedInBoth`), with keys of their own for every purpose (`KeysPair`), and does a responder survive bad Msg3s (`ResponderRecovers`)? |
| `logging_and_files` (`MCLogging`) | 1 registering thread making 4 registrations (two sinks, two thresholds, none), 2 loggers, 3 levels; every start of scli with up to 2 sinks; 3 runs of one command on the same paths; byte strings of up to 6 and texts of up to 12 symbols, around a limit of 8 | Is no sink replaced while a thread is in it (`SinkAlive`), and does a message no registration overlaps reach exactly the sink that wants it (`Heard`)? Is one source of configuration in force, whole, at exactly the level it calls for, the same for logger and hook, and nothing of a refused one (`OneSource`)? Does what a successful run wrote stay (`SuccessStays`), and is what one command writes read back by another (`ReadsBack`)? |

Six runs show the code departing from its own words, and end in a
counterexample on purpose:

| run | statement | what happens |
|---|---|---|
| `nothing_to_catch` | README.md:37-39, "no exceptions … nothing to catch" | `std::bad_alloc` from a provider's output buffer passes through the library function |
| `sigma_fault` | sigma.hpp:346, "false on auth failure, error on fault" | `ecdsa_verify` maps `err_invalid_arg`, a provider failure, to `false`, and step 4 hands it on |
| `malformed_config` | README.md:885, a malformed file makes scli print an error and fall back to the default | a file that is JSON but no object (`[]`) ends the process with an exception nobody takes. (The sentence fails in another way too: after a refused file the level is that of `--log-level` or else of `SCLI_LOG_LEVEL`, main.cpp:59-65, and "warn" only without them; `OneSource` says so exactly. The run names no level, so its trace shows the first.) |
| `nonce_in_range` | ecdsa.hpp:36, "a deterministic per-message scalar k in [1, n-1] using RFC 6979" | for P-521 the nonce is compared with the order 48 bits too high, refused 100 times, and the last candidate used as it is |
| `sha_ni_schedule` | ia_asm_tests.hpp:381, known-answer test of the SHA-NI path | the first schedule step of `msg3` reads `msg0` half-updated; all rounds from 16 on get other words, so that no other provider takes what x86 makes with SHA-256 (`Interop`). A program built from the header with `-msha` hashes "abc" to f4a5740b… |
| `private_inverts` | rsa_bigint.hpp:365, "If m_p < m_q, add p first to keep it positive" | adding p once is not enough when q is the larger prime and the residues lie far apart, about one operation in 300 over generated keys |

### Bounds and why they are enough

* Two threads are what any race over one mutex needs: all steps are made by one
  thread on state that others see, and a third thread adds waiting but no new
  pair. Three keys over two slots let a store be full with a key left over, and
  an id be destroyed and given to another key while its first user still runs.
  For everything in section 4 the proofs remove the bound altogether: threads, slots,
  objects, blocks, sessions, sinks, runs and the values of a counter are any number there.
* The store's real capacity (16, 8 or 64) matters only as "full" and "not full",
  and its ids at their ends; both are reached with two slots. `library_calls` has
  one slot per store, which makes a full store the common case.
* SIGMA: two sessions on each side are the least that lets a message of one
  conversation reach another; one damaged copy covers each field of each message
  in turn, and one fault each provider call. `MaxDamage` and `MaxFaults` are the
  only counters, and both are bounds of the model, not of the code.
* `CryptoLog` registers a finite list because the threshold and sink, not the
  number of registrations, are its state; the list visits sink-to-sink,
  sink-to-none and none-to-sink.
* `Hashing`: blocks of three words let a message end before, at and after the place
  where marker and length still fit; `MaxFed`, `MaxSqueezed` and `MaxSession` bound the
  message, the output and the messages of one behaviour (a second message is what shows
  something left over from the first). `Hkdf`: `CounterRange` 4 lets the counter's last
  value be asked for and passed; info strings are at most 256 bytes, a named precondition.
* `SecureBuffer`: blocks of `MaxSize` bytes; two buffers of each kind are what a move
  needs, two secrets what tells the wrong one in the right place.
* The curves: everything is a function of field elements, and the formulas and
  reductions are identities in the prime and the word base, so that small primes of the
  same shape go through all of them *exhaustively*: each pair of elements and scalars,
  each multiple of the base point. P-256's copy, 199 = 2^8 - 2^7 + 2^6 + 2^3 - 1,
  keeps the form of the prime with words of one bit; the reductions are also run over other word
  bases at the extremes of their words, where the rare carries are. Windows, table,
  top bit and limbs are kept in number and role.
* `Rsa`: primes of two limbs of four bits (six draws, four of them leading to primes), e = 7, and two
  composites; every message of a residue class; lengths around each change of form in DER.
  The rounds of Miller-Rabin are one per draw, and `PrimesPass` checks their bound: at most
  a quarter of the bases vouch for a composite.
* `Aead`: blocks of 2 bytes (ChaCha20's keystream: 3), texts of 0, 1, 2, 3, 8 and 16 bytes and
  data of 0 to 3 reach the empty, partial, full, two- and four-at-once and remaining blocks; 16
  is the longest a counter of 10 values allows. The proofs take any sizes. GHASH has its full 128 bits, over
  basis vectors (it is linear). Poly1305's limbs of 8, 8 and 6 bits stand for 44, 44 and 42, with
  the prime 2^22 - 5. GCM's counter may not come round: `AeadShape` names the limit of
  the standard, which the code does not check.
* `DilithiumNtt`: sixteen coefficients are the fewest that meet all loops, and 16 · 2017
  fits half of 2^16 about as tightly as 256 · 8380417 half of 2^32.
* `CliCommands`: with `Radix` 2 bytes have four bits and digits three, which keeps the
  proportion of 8 to 6 that gives base64 its tails (the code's `Radix` is 4); `MaxEncoded` stands
  for the limit of input. The proof takes any `Radix`, limit, byte strings and texts.

### Fairness and why the code justifies it

* `KeyStore`, `OsslAsymStore`, `LibraryCalls`: weak fairness of the steps of each
  thread *inside* a call. The code has no loops that wait and no condition
  variables; a thread only waits for `std::mutex::lock`. Nothing is assumed about
  calls being made, and `LockReleased` does not need the mutex to be fair: it
  speaks of the holder, whose next step is always enabled.
* `Sigma`, `SigmaI`: weak fairness of accepting a Msg3 that would be accepted. It
  is an assumption about the *transport and the caller* (the message is repeated
  until it arrives and the responder's caller tries what it gets); the code's part,
  that step 4 does not use its state up when it fails, is what the property shows.
* `CHECK_DEADLOCK FALSE` is set where the system may stop: a finished handshake or
  exchange, a run of scli that ended,
  and a process ended by an exception in a `noexcept` provider call.

## 4. What is proved

The theorems hold for every value of the constants that satisfies the assumptions below,
which TLC evaluates on each run. No bound on the number of threads, keys, slots, handles,
blocks, sessions, messages, registrations or runs is used.

| theorems in | about | assumptions |
|---|---|---|
| `KeyStoreProofs` | `KeyStore`, and `OsslAsymStore` with the same constants | `StoreAssumption`: capacity and first id are positive, the zero key and the null thread are none of the others |
| `OsslAsymStore` | itself | the same, and `OneSize`: objects are stored by pointer, none is too long for a slot (`KeyStoreProofs` counts what is too long for a slot of the other stores among the keys here) |
| `ObjectsProofs` | `KeyHandle`, and `Hkdf` | `HandleAssumption`: the null id is not a key id; `HkdfAssumption`: a block has a byte, the counter a value |
| `ObjectsProofs` | `PqcStore`, `SecureBuffer` | `PqcAssumption`, `BufferAssumption`: what stands for "none" is none of the others, ids and sizes are numbers |
| `HashingProofs` | `Hashing` | `HashShape`: a block of SHA-2 has a byte besides the marker and the longest length field, one of SHA-3 is no shorter than a digest, liboqs does not hold a caller's context |
| `ProviderProofs` | `PrimeField` | for the reductions by words, a word holds at least 8 values (the program's hold 2^32); for sums, `FieldShape`: the limbs hold more than the prime, which is above 3 |
| `ProviderProofs` | `Aead` | `AeadShape`: a block is of an even number of bytes and not empty, one of ChaCha20's keystream is no shorter, and a message has a counter for each block besides the two GCM needs |
| `LibraryCallsProofs` | `LibraryCalls` over `CallTemplates`, for any subset of the 22 functions | `LibraryAssumption`: they are the library's functions, each store has 1 to 16 slots, nobody is not a thread |
| `SigmaProtocols` | `Sigma` and `SigmaI` | `SessionAssumption`: no session is on both sides; a damaged field is neither a public key nor a signature or MAC that is looked for |
| `LoggingProofs` | `CryptoLog`, `CliLogging`, `CliCommands` | `LogAssumption`: the null sink is neither a sink nor a thread, Off is above every level; `RunAssumption`: nobody is not a run; `EncodingAssumption`: `Radix` is above one, what is written are bytes, what is read symbols |

Each proof has the same outline: an inductive invariant, that the initial states satisfy
it, a lemma for each action (or for what an action is to the invariant), and the property
from it. What follows says what each invariant adds to its property, and why.

**Key stores.**

* `Invariance` — `Spec => []IInv` of `KeyStore`. `SlotsWhole` is not inductive: it is silent
  while the mutex is held. `IInv` says who holds it and what each statement of a
  critical section finds: a slot that is not whole is the one its holder works on
  (`Dirty`), between exactly which statements, with which fields written. The
  proof has a lemma for the types, one for what a step leaves alone
  (`StepFrame`: a step that changes a slot is made by the holder, on its own
  index), one for the other threads, one for the acting thread with a case for
  each action, and one for the slots. `WholeWhenFree`, `WholeCopies` and
  `UsedSlotsStable` are `SlotsWhole`, `CopyNotTorn` and `OnlyDestroyTouches` from it.
* `Refinement` — `Spec => KeepsPromise`: under the mapping that puts a key in the
  table from `MarkUsed` to `Scrub`, every statement is the one instant of its
  operation or a stutter. `MarkUsed` needs that the scan passed only used slots
  (`ThreadInv`) for a full store to be full in the table too.
* `ReferencesExact` (`RefsExact`) — the count of an `EVP_PKEY` is the number of its holders,
  slots and threads. `IInv` is `Counted` with `SlotInv` (a slot in use refers to a live
  object, and no other slot does) and `ThreadInv` (what a thread holds at each place of
  each call). That an object sits in one slot at most follows from what an import has in
  hand: an object nobody else refers to yet. A reference that changes hands is one lemma,
  `ExchangeKeeps`, for imports and destroys both.
* `ObjectsRefine` (`ObjectsKeepPromise`) — the slots, seen as a table, are `KeyTable`: the
  critical section of an import, get or destroy is the instant it takes effect.

**What owns keys and memory.**

* `Types`, `Ownership`, `OneAtATime` — the handles: the keys in the store are those of
  the valid handles, one each, and a key goes only with its owner's claim.
* `BlocksCounted`, `KeysUntorn` (`BlocksOwned`; `KeysWhole` with `FreedScrubbed`) — a block
  of the post-quantum store passes from a thread to a slot and back to the thread that
  detached it. `IInv` says that nothing else refers to it meanwhile (`SingleOwner`), and which
  halves it holds at each place of a call (`ThreadInv`), zeroed between `Scrub` and
  `Delete`. Deleting outside the lock is sound because detaching was inside it.
* `SecretsStay` (`SecretsHeld`) — storage is that of one vector, which exists (`Owned`); a
  byte that is not zero lies within a vector that counts it as its own, or in an array that
  exists (`Held`); a secret is in one place (`OnePlace`). `Held` is what a shrinking
  `resize` would break if it did not zero the tail: nothing could reach those bytes any
  more, and the destructor's size would not cover them.
* `DerivedAsGiven` (`DerivesAsGiven`) — the property speaks of the end of the loop; `Looping`
  says what is there at each turn: the blocks so far are T(1), T(2), … (`Chained`), all
  full, the counter is one ahead of them, and t is the last (`Halfway`). That the counter
  does not come round needs a product: n whole blocks are fewer bytes than asked for, and
  those at most `(CounterRange - 1) * HashLen`, so n is less than `CounterRange - 1`.
  `Remembers` says that the operation holds exactly what was accepted since its setup,
  which a setup that keeps an old salt would break.

**Digests.** `DigestsAreExact` (`DigestsExact`), for any length of block, key, message and
output, and any contexts of liboqs. A context *holds* a message (`Holding`) when the blocks it has compressed are the message's whole blocks and its buffer
begins with the rest; those of liboqs hold it XORed into a state whose other bytes are
zero (`Clear`). From there:

* the loops: one turn of update or absorb keeps what is held and takes what it says it
  takes (`Sha2Turn`, `Sha3Turn`, `OqsTurn`); `LoopEnds` carries that over the
  turns, by well-founded induction over a *set* of numbers (`SetInduction`), which needs no operator
  as a parameter; each turn takes a byte at least, so that as many turns as there are bytes
  are enough (`Sha2Fed`, `Sha3Fed`, `OqsFed`);
* the paddings: what finish compresses, with one block or two and with the two marks in one
  byte or not, are the blocks of the padded message (`Sha2Finished`, `Sha3Finished`,
  `OqsFinalized`), where the number of zeros is the remainder that FIPS 180-4 asks for;
* the squeeze: the bytes so far are those of the sponge, and the copy and the position
  in it are where the next one is (`CopyTurn`, `Squeezed`);
* HMAC is then two hashes by the same context, which `init` gives no message whatever it
  held before (`HmacSha2`, `HmacIsSha3`).

The inductive invariant `HashInv` says which of these holds of each context and, for
contexts that squeeze, how far they are; that a reset context has its position at zero, and that a
clone takes the record of the message along, are its cases.

**AEAD.** `OpensAsSealed` (`SealedOpens`), for both modes, any size of block, any message
the counter allows and any data beside it. `AeadInv` says that the wire carries what was
sealed (`Sealed`), that what arrives is made of bytes of the wire and of the data, zeros, and
such bytes altered (`Arrivals`), and that the caller's buffer is still zeros (`Room`). The property follows from
four facts about the code's loops and sums:

* the stream: after each turn of `gcm_ctr_crypt` or `chacha20_crypt` the output so far is the
  text XORed with the keystream byte by byte, and the counter is that of the next block, one
  block at a time or four (`CtrTurn`, `ChachaTurn`; `StreamGoesOn`). XORing twice gives the text back
  (`StreamTwice`). The limit on the length is what keeps the counter from coming round to a
  block already used, or to that of the tag (`CounterLow`, `KeystreamOnce`);
* the blocks under the tag: Poly1305's four, two, one or part of one at a time give the same
  blocks as one after the other (`GroupIs`, `FieldsAre`, `PolyBlocksAre`);
* the tag is of one pair of data and ciphertext only (`Unambiguous`): a polynomial in which zero
  blocks are no terms still has the block of lengths as its lowest, so that equal polynomials have equal lengths,
  hence equally many blocks in each field, and those are equal one by one (`SameTerms`,
  `SameLengths`, `SameFields`). Without the lengths, zeros in front or a moved border would not show;
* a tag that is found good carries, in its first byte, a symbol that only the first byte
  of the own tag has (`MarkGcm`, `MarkPoly`), whether or not it was altered; so nonce, data
  and ciphertext are those of the sender (`GoodGcm`, `GoodPoly`), and what arrived is what
  was sent (`GoodIsSent`).

That a tag is equal to another only when its inputs are is what the symbols take for granted:
the theorem is about what the code does around a cipher and a hash that work.

**Fields.** `ProductsReduced` and `SumsReduced`: what the field operations of P-256, P-384
and P-521 return is the sum, difference, negative or product modulo the prime, for words of every
size and so for the program's. The argument for a product:

* the words of the product stand for it (`WordsHold`), and the sums made of them for a number
  that differs from it by a multiple of the prime (`Fold256`, `Fold384`): each is an
  identity of polynomials in the word base, with the multiple written out;
* passing carries on keeps the number when what the last one leaves over is counted
  (`CarriesKeep8`, `CarriesKeep12`), and bounds on the sums bound what is left over
  (`CarriesBounded`): -4 to 7 in P-256, 0 to 5 W in P-384;
* what is left over, times what the base is worth, is less than the base, so the first pass
  over it leaves -1, 0 or 1, and when it does not leave 0, the words it leaves are so near
  the end of their range that the second leaves nothing (`TwoPasses`): this is why two
  passes are enough and one is not, and why the code may drop the last carry;
* the rest is below twice the prime, which one subtraction reduces (`Subtracted`), and the only number
  below the prime of that remainder is the remainder (`SameRemainder`).

TLC runs the same operators at the extremes of the words for bases 2, 3, 4 and 8; the theorem
starts at 8, where the bounds on the sums suffice.

**The library's calls.** `KeysResolve`, `NothingLeaks`, `VerdictsTruthful` and `Refinement`
(`HandleResolves`, `NoLeak`, `VerdictTruthful`, `KeepsPromise`). The invariant is `Typed`,
`Held` (a call at work or unwinding holds the key it acquired, in the store of its
family), `Claimed` (a slot in use is held by exactly one call) and `Answering` (a call that
is about to answer has the error its failed step maps to). `Held` and `Claimed` need
each other: an id is destroyed and reused at once, so that a handle leads to its own key only
because no other call holds the id. What the 22 functions have in common is proved
of the templates one by one (`WellFormed`: one or two provider calls, each of which
accepts the kind of key the function acquires; of two, the first judges no input and the
second does not end the process). The refinement maps a call's key to the place it leases,
so that a full store is a cardinality (`FullIsFull`).

**SIGMA and SIGMA-I.** `Invariance`, `ReadUntouched`, `KeysOfAPair` and `Refinement`
(`UntouchedInBoth`, `KeysPair`, `KeepsPromise`), one argument for both protocols. `SigmaSteps`
and `SigmaISteps` show that each step of either is one of six events (`Event`), which
differ only in what the messages are and when one is authentic. The invariant has two
parts: every message in the network is a copy, perhaps with damaged fields, of one a
session sent (`Genuine`); and what a session has read determines its peer, which read
what the session sent (`InitiatorInv`, `ResponderInv`). The step that matters is from a
signature that verifies to the one who made it: a signature covers both ephemeral keys,
an ephemeral key names its session, and a copy whose signature is intact is of a message
of that session (`Authentic2Genuine`, `Authentic3Genuine`); each other field is compared
by the code, so that damage to any is noticed. The agreement of `Handshake` asks
that the responder of a finished initiator names it as its peer, which is
`InitiatorInv`. Any number of sessions, damaged copies and faults.

**Logging and the command line.**

* `AliveInside`, `HeardByAudience` — `SinkAlive` and `Heard`. The mutex protects the
  sink but not the threshold, so the invariant says what a logger may still rely on:
  while no registration has overlapped its call (`Undisturbed`), sink and threshold
  are those of the last registration (`InForce`), and past the first check its level
  is at or above that threshold. Without the first half the second test of a call,
  the null check under the mutex, could contradict the first.
* `SourceIsOne` (`OneSource`) — while sinks are made the logger is not built yet; the
  invariant says which of the sources the run is on and that the sinks so far are those of
  its list (`Following`), what was made of it at the end (`Followed`), and that logger and
  hook are untouched until a source is in force, which is why an exception leaves none. The level is the
  first one given (`FirstGiven`): the configuration's, `--log-level`, "warn"; or, without a
  configuration or after a refused one, `--log-level`, the environment, "warn".
* `SuccessKept` (`SuccessStays`) — a run may be stopped anywhere and others use its paths,
  so the property rests on exclusive creation: from the first secret file a command
  writes, each step is guarded by a file that was new (`Guarded`), and of two runs one gets
  past it (`OneGetsPast`). `Kept` says of every run and every file of its plan up to where
  it is that the file is its own, whole, or was there before.
* `WrittenReadsBack` (`ReadsBack`) — for strings of any length, in both directions. Three
  bytes and four digits are the same numbers, because `Bytes^3 = Digits^4` (`SameRange`), and a
  number has its places in one way (`OfThree`, `OfFour`). What is left over of one byte, or of two,
  fills two digits, or three, and the rest of the last is zero (`OneByte`, `TwoBytes`); from such
  digits the bytes come back, whatever that rest was (`OneBack`, `TwoBack`), which is why a text
  may lose it and nothing else. Group by group, an encoded text is quads of digits with padding
  in the last only (`EncodedShape`), which is what the decoder takes of each quad (`ShapeIs`) and what
  a well-formed text is (`WellFormedIs`); the bytes of every quad stand in their places
  (`DecodedIs`, `DecodeEncode`, `AgainIs`). The newline that is printed behind a text is taken off
  again and nothing else, since no quad ends in one (`NewlineOff`, `NoNewline`).

Only model-checked:

* The liveness properties (`LockReleased`, `FreedInTheEnd`, `CallsReturn`,
  `ResponderRecovers`): TLAPS as installed proves no `ENABLED` and so no fairness argument.
* `RsaExact`, `GroupExact`, `SignaturesVerify`, `VerifyIsEcdsa` and `ArithmeticExact` speak of what loops over bytes,
  limbs and bits compute, many as recursive operators, which the prover cannot see into, and
  all at parameters chosen beside them. Of `ArithmeticExact`, the sums and products of the
  fields are proved for every parameter; inversions, scalars, GHASH, Poly1305 and the
  transforms are not. The induction that `HashingProofs` and `ProviderProofs` make, over a
  set of numbers and with recursive functions, is open to them once they are rewritten (section 6).
* `RoundsExact`, `Sound`, `Interop` and `AlterationTold` have no parameters: the schedules,
  schemes, providers and harms they speak of are all there are, and TLC goes through every
  case, so that a proof would add nothing.

## 5. What is left out, and why

* Arithmetic at its real width is out of TLC's reach, and beyond the fields' sums and
  products, which are proved at every width, the repository's vectors test it. The models keep the algorithm and its control over small numbers of the same
  shape. What single instructions compute (AES rounds, carry-less products, SHA rounds) is
  taken from their manuals, and what a Boolean function of words or a quarter round computes
  is left out. The curves' conversions between bytes and limbs are left out,
  and so are constant time and the checks of buffer sizes inside RSA.
* `PqcStore`, `Hashing`, `Aead`, `Rsa` are one model for both assembly providers
  where the two files differ in spelling only; where they differ in substance (AES key
  schedule, GHASH, SHA-256, ChaCha20's lanes), each has its operator.
* ML-KEM and ML-DSA themselves are liboqs's. Not modelled: that `liboqs_pqc.hpp` keeps one
  instance per variant for the life of the process, so that an allocation that failed the first time
  is remembered. In `DilithiumNtt` the scalar `mont_reduce` wraps as the vector forms do; in the
  source it is a product of two `int32_t` whose overflow is undefined.
* `Rsa`: `mont_mul`'s accumulator keeps one limb more than the modulus, as in the code, and wraps
  there. That tells only for a modulus whose top limb is all ones (of the small ones 253 and 255,
  which are composite): for primes as they are drawn the case has a probability of about 2^-63.
* `Hashing`: a context that failed to allocate is null, and the next callback would follow the
  null pointer; the model excludes the failure. Installing the callbacks is not an action.
* `CliCommands`: parsing of options is CLI11's. A flush that fails when a public file is closed
  is not noticed by the code (`cli_io.hpp:163`), and encapsulation replaces the ciphertext
  before the secret beside it may be refused; both are named exceptions of `SuccessStays`. The limit of 64 MiB is the
  same for a plaintext and for a ciphertext, so the longest messages that can be sealed are 28
  bytes too long, once sealed, to be opened by the same tool.
* `CliLogging`: names of levels are not empty. An empty option or variable is the same as none; a
  configuration's empty level is to be read as one more unknown name. A configuration without
  a level takes that of `--log-level` or else "warn", never the environment's.
* `LibraryCalls`: functions that hold no key, which are in `LibraryFunctions`; the
  default-provider wrappers, which only log around the functions modelled.
* `CryptoLog`: the text of messages; sinks that log (they would wait for
  themselves); a message that reaches a new sink under the old threshold between
  the two stores of a registration is allowed, as the code allows it.
* Providers: the helpers for output sizes and the attribute getters compute constants.
  A digest is a term that equals its like and nothing else; what x86's SHA-256 by SHA-NI computes
  is one more such term, and whether two messages share it is not asked.
  `Interop` names where providers disagree: OpenSSL writes private scalars in host order
  (`openssl_backend.hpp:595`), and takes an RSA key whatever size was claimed. PSA's core
  takes keys of up to 8191 bytes, so the longest input to a derivation fails there.
* `SAFE_CRYPTO_PRE` is a contract only for a compiler that has them; the models name the
  preconditions they need. Benchmarks have no behaviour of their own.

## 6. Plan

The modules planned at the outset are written, and what they promise about keys, memory,
calls, digests, sealed messages, handshakes, logging, files and encodings is proved. What remains:

1. The Montgomery arithmetic of `ScalarField`, for every modulus.
2. The loops of `BigInt` and `Rsa` over limbs, which first need to be written by index as those of
   `Hashing`, `Aead` and base64 are.

Modelling that would add to it: the conversions between bytes and limbs, and the cached
instances of liboqs.
