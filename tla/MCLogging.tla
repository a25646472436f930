------------------------------ MODULE MCLogging ------------------------------
(* The logging hook of the library, scli's configuration of it, and scli's     *)
(* output files, one at a time: the others stay as they were built.            *)
EXTENDS LoggingProofs, TLC

CONSTANTS journal, console

VARIABLE part

Debug == 0
Warn == 2
Error == 3

\* A sink for everything, another for errors only, then none, then the first again.
FourRegistrations == << [fn |-> journal, threshold |-> Debug], [fn |-> console, threshold |-> Error],
                        [fn |-> NoSink, threshold |-> Debug], [fn |-> journal, threshold |-> Warn] >>

\* A part that is not under check has one initial state.
MCInit ==
  /\ Init /\ Config!Init /\ Commands!Init
  /\ \/ part = "hook" /\ ~args.config /\ args.level = Config!NotGiven /\ args.env = Config!NotGiven /\ command = "keygen"
     \/ part = "config" /\ command = "keygen"
     \/ part = "commands" /\ ~args.config /\ args.level = Config!NotGiven /\ args.env = Config!NotGiven

MCNext ==
  /\ UNCHANGED part
  /\ \/ part = "hook" /\ Next /\ UNCHANGED <<configVars, commandVars>>
     \/ part = "config" /\ Config!Next /\ UNCHANGED <<vars, commandVars>>
     \/ part = "commands" /\ Commands!Next /\ UNCHANGED <<vars, configVars>>

MCSpec == MCInit /\ [][MCNext]_<<vars, part, configVars, commandVars>>

\* A malformed configuration is told of and replaced by the default.
MalformedFallsBack == Config!MalformedFallsBack

SeqsOf(set, lengths) == UNION {[1 .. n -> set] : n \in lengths}

\* With every number of bytes in the last group; texts with spaces at their end, some of
\* them longer than the limit.
SomeData == SeqsOf(0 .. 15, 0 .. 2) \cup SeqsOf({0, 7, 9, 15}, 3 .. 6)
SomeText == SeqsOf(0 .. 10, 0 .. 4) \cup SeqsOf({0, 5, 8}, 5 .. 8) \cup SeqsOf({5, 9}, 9 .. 12)

Symmetry == Permutations(Logger) \cup Permutations(Run)
=============================================================================
