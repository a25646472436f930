----------------------------- MODULE CliCommands -----------------------------
(***************************************************************************)
(* The commands of scli and the files they leave.  Runs of a command are   *)
(* given the same paths: they are retries, or run at the same time.  A     *)
(* secret goes to a file that must not exist yet and is written until it   *)
(* is whole or a write fails; anything else replaces what is there,        *)
(* through a buffer whose last flush, when the stream is closed, nobody    *)
(* checks.  Then the forms in which bytes leave a command and enter        *)
(* another, with base64 over bytes of Radix^4 values and digits of Radix^3 *)
(* (in the code 256 and 64).                                               *)
(***************************************************************************)
EXTENDS Naturals, Sequences

CONSTANTS
  Run,     \* processes that run the command
  Nobody,  \* the run that made a file that is not there
  MaxEncoded,  \* how much base64 is decoded at all
  Radix,   \* a byte is four of its digits, a digit of base64 three: in the code it is 4
  Data,    \* what commands write
  Text     \* what they are given as base64

\* What a command writes, in order: how, and to which of its paths.
Secret(path) == [secret |-> TRUE, path |-> path]
Public(path) == [secret |-> FALSE, path |-> path]

keygen == <<Secret("private"), Public("public")>>
derive == <<Secret("ikm"), Secret("output")>>
encapsulate == <<Public("ciphertext"), Secret("shared")>>
\* The commands that write one artefact: what nobody else may see, and all others.
compute == <<Secret("shared")>>
encrypt == <<Public("output")>>

Plans == [keygen |-> keygen, derive |-> derive, encapsulate |-> encapsulate,
          compute |-> compute, encrypt |-> encrypt]

Path == {"private", "public", "ikm", "output", "ciphertext", "shared"}

VARIABLES
  command,  \* the command all runs run
  file,     \* per path: the run that made the file, and whether all of it is there
  at,       \* per run: the artefact it is at
  step,     \* per run: "compute", "open", "write", or how it ended: "ok", "died", "killed"
  flushed   \* per run: whether no flush failed unnoticed

vars == <<command, file, at, step, flushed>>

NoFile == [by |-> Nobody, whole |-> FALSE]

Init ==
  /\ command \in DOMAIN Plans
  /\ file = [p \in Path |-> NoFile]
  /\ at = [r \in Run |-> 1]
  /\ step = [r \in Run |-> "compute"]
  /\ flushed = [r \in Run |-> TRUE]

Plan == Plans[command]
Item(r) == Plan[at[r]]
Goto(r, to) == step' = [step EXCEPT ![r] = to]
Exists(p) == file[p].by # Nobody

\* The bytes of a run go over those of another that has the file open as well.
Left(r, whole) == [file EXCEPT ![Item(r).path] = [by |-> r, whole |-> whole]]

\* The next artefact, or exit 0.
Proceed(r) ==
  IF at[r] < Len(Plan)
  THEN at' = [at EXCEPT ![r] = @ + 1] /\ Goto(r, "compute")
  ELSE Goto(r, "ok") /\ UNCHANGED at

-----------------------------------------------------------------------------

\* The computation up to the next artefact, with the inputs it reads.
Compute(r) ==
  /\ step[r] = "compute"
  /\ \/ Goto(r, "open")
     \/ Goto(r, "died")
  /\ UNCHANGED <<command, file, at, flushed>>

\* Deviation: an existing file is opened and replaced.
OpenSecretOver(r) ==
  /\ step[r] = "open" /\ Item(r).secret
  /\ \/ file' = Left(r, FALSE) /\ Goto(r, "write")
     \/ Goto(r, "died") /\ UNCHANGED file
  /\ UNCHANGED <<command, at, flushed>>

\* open with O_CREAT, O_EXCL and O_NOFOLLOW.
OpenSecret(r) ==
  /\ step[r] = "open" /\ Item(r).secret
  /\ \/ /\ ~Exists(Item(r).path)
        /\ file' = Left(r, FALSE)
        /\ Goto(r, "write")
     \/ Goto(r, "died") /\ UNCHANGED file
  /\ UNCHANGED <<command, at, flushed>>

\* std::ofstream truncates what was there.
OpenPublic(r) ==
  /\ step[r] = "open" /\ ~Item(r).secret
  /\ \/ file' = Left(r, FALSE) /\ Goto(r, "write")
     \/ Goto(r, "died") /\ UNCHANGED file
  /\ UNCHANGED <<command, at, flushed>>

\* A write that fails ends the run; the file stays as far as it was written.
WriteFails(r) ==
  /\ step[r] = "write"
  /\ Goto(r, "died")
  /\ file' \in {file, Left(r, FALSE)}
  /\ UNCHANGED <<command, at, flushed>>

WriteSecret(r) ==
  /\ step[r] = "write" /\ Item(r).secret
  /\ file' = Left(r, TRUE)
  /\ Proceed(r)
  /\ UNCHANGED <<command, flushed>>

WritePublic(r) ==
  /\ step[r] = "write" /\ ~Item(r).secret
  /\ \/ file' = Left(r, TRUE) /\ UNCHANGED flushed
     \/ flushed' = [flushed EXCEPT ![r] = FALSE] /\ file' \in {file, Left(r, FALSE)}
  /\ Proceed(r)
  /\ UNCHANGED command

Killed(r) ==
  /\ step[r] \in {"compute", "open", "write"}
  /\ Goto(r, "killed")
  /\ UNCHANGED <<command, file, at, flushed>>

Next == \E r \in Run :
  \/ Compute(r) \/ OpenSecret(r) \/ OpenPublic(r) \/ WriteFails(r)
  \/ WriteSecret(r) \/ WritePublic(r) \/ Killed(r)

Spec == Init /\ [][Next]_vars

-----------------------------------------------------------------------------
(* Bytes as they are printed and read.  A digit of base64 is its value. *)

Digits == Radix * Radix * Radix
Bytes == Radix * Digits

Byte == 0 .. Bytes - 1
Digit == 0 .. Digits - 1
Pad == Digits
Newline == Digits + 1
NoDigit == Digits + 2
Symbol == 0 .. NoDigit

EncodingShape ==
  /\ Radix \in Nat /\ Radix > 1 /\ MaxEncoded \in Nat
  /\ Data \subseteq Seq(Byte) /\ Text \subseteq Seq(Symbol)

\* The number three bytes, or four digits, are; and the digits, or bytes, of such a number.
Joined(b1, b2, b3) == (b1 * Bytes + b2) * Bytes + b3
Merged(d1, d2, d3, d4) == ((d1 * Digits + d2) * Digits + d3) * Digits + d4
Quad(v) ==
  <<v \div (Digits * Digits * Digits), (v \div (Digits * Digits)) % Digits,
    (v \div Digits) % Digits, v % Digits>>
Triple(v) == <<v \div (Bytes * Bytes), (v \div Bytes) % Bytes, v % Bytes>>

base64_encode(data) ==
  LET full == Len(data) \div 3
      At(i) == IF i <= Len(data) THEN data[i] ELSE 0
      Group(g) == Quad(Joined(At(3 * g + 1), At(3 * g + 2), At(3 * g + 3)))
  IN  [i \in 1 .. 4 * full |-> Group((i - 1) \div 4)[((i - 1) % 4) + 1]]
      \o CASE Len(data) % 3 = 0 -> <<>>
           [] Len(data) % 3 = 1 -> SubSeq(Group(full), 1, 2) \o <<Pad, Pad>>
           [] OTHER -> SubSeq(Group(full), 1, 3) \o <<Pad>>

Refused == [ok |-> FALSE, bytes |-> <<>>]
Got(bytes) == [ok |-> TRUE, bytes |-> bytes]

\* Without the newlines and spaces at its end.
Stripped(text) ==
  LET ends == {n \in 0 .. Len(text) : \A i \in n + 1 .. Len(text) : text[i] = Newline}
  IN  SubSeq(text, 1, CHOOSE n \in ends : \A m \in ends : n <= m)

\* Deviation: padding is looked for in the last place only.
ValidAnyPad(c, last) ==
  /\ \A i \in 1 .. 4 : c[i] \in Digit \cup {Pad}
  /\ c[1] # Pad /\ c[2] # Pad
  /\ c[4] = Pad => last

ValidQuad(c, last) ==
  /\ \A i \in 1 .. 4 : c[i] \in Digit \cup {Pad}
  /\ c[1] # Pad /\ c[2] # Pad
  /\ ~(c[3] = Pad /\ c[4] # Pad)
  /\ c[3] = Pad \/ c[4] = Pad => last

\* The bits of a padding are masked, and the bytes that would come of it left out.
QuadBytes(c) ==
  LET b == Triple(Merged(c[1] % Digits, c[2] % Digits, c[3] % Digits, c[4] % Digits))
  IN  <<b[1]>> \o (IF c[3] = Pad THEN <<>> ELSE <<b[2]>>) \o (IF c[4] = Pad THEN <<>> ELSE <<b[3]>>)

\* The bytes of one quad after the other: only the last, which is none of an empty text,
\* has fewer than three.
base64_decode(text) ==
  LET input == Stripped(text)
      count == Len(input) \div 4
      Quads(q) == SubSeq(input, 4 * q - 3, 4 * q)
  IN  IF /\ Len(input) <= MaxEncoded /\ Len(input) % 4 = 0
         /\ \A q \in 1 .. count : ValidQuad(Quads(q), q = count)
      THEN Got([i \in 1 .. 3 * (count - 1) |-> QuadBytes(Quads(((i - 1) \div 3) + 1))[((i - 1) % 3) + 1]]
               \o IF count = 0 THEN <<>> ELSE QuadBytes(Quads(count)))
      ELSE Refused

\* To standard output in base64, or as it is, there or into a file.
write_output(base64, data) == IF base64 THEN base64_encode(data) \o <<Newline>> ELSE data

read_input_bounded(base64, content, max_bytes) ==
  LET input == IF base64 THEN base64_decode(content) ELSE Got(content)
  IN  IF input.ok /\ Len(input.bytes) <= max_bytes THEN input ELSE Refused

-----------------------------------------------------------------------------
(* Properties *)

\* A run that exits 0 leaves its secrets and what it wrote after them, its own and
\* whole, and no retry or other run at the same paths takes them apart again, whatever
\* fails or is killed on the way.  A file that is written before any secret, like the
\* ciphertext of an encapsulation, is replaced, and a failed flush goes unnoticed.
SuccessStays ==
  \A r \in Run : step[r] = "ok" =>
    \A i \in DOMAIN Plan :
      LET f == file[Plan[i].path] IN
      (\E j \in 1 .. i : Plan[j].secret) =>
        f.by = r /\ (f.whole \/ (~Plan[i].secret /\ ~flushed[r]))

\* Digits, filled up with at most two paddings to a multiple of four.
WellFormed(text) ==
  /\ Len(text) % 4 = 0
  /\ \A i \in DOMAIN text :
       text[i] \in Digit \/ (text[i] = Pad /\ i >= Len(text) - 1 /\ text[Len(text)] = Pad)

\* What one command printed or wrote another reads back, unless it is longer than the
\* limit: with every number of bytes in the last group.  Of all other texts base64 takes
\* the well-formed ones alone, and all that they lose are bits no byte has room for.
ReadsBack ==
  /\ \A data \in Data, max \in 0 .. (MaxEncoded \div 4) * 3, base64 \in BOOLEAN :
       read_input_bounded(base64, write_output(base64, data), max)
         = IF Len(data) <= max THEN Got(data) ELSE Refused
  /\ \A text \in Text :
       LET input == Stripped(text)
           result == base64_decode(text)
           again == base64_encode(result.bytes)
           digits == {i \in DOMAIN input : input[i] \in Digit}
       IN  /\ result.ok = (WellFormed(input) /\ Len(input) <= MaxEncoded)
           /\ result.ok =>
                /\ Len(again) = Len(input)
                /\ \A i \in DOMAIN input :
                     i \notin digits \/ i + 1 \in digits \/ i = Len(input) => again[i] = input[i]
=============================================================================
