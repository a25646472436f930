------------------------------ MODULE MCObjects ------------------------------
(* What owns keys, memory and inputs, one at a time: a behaviour is of the     *)
(* handles, the post-quantum store, the secure buffers or the derivation, and  *)
(* the others stay as they were built.                                         *)
EXTENDS ObjectsProofs, TLC

VARIABLE part

handleVars == <<live, exists, id_, valid_>>
pqcVars == <<heap, slot, pc, call, mine, res>>
hkdfVars == <<store, op, loop, out, given>>

MCInit ==
  /\ part \in {"handles", "pqc", "buffers", "derivation"}
  /\ Handles!Init /\ Pqc!Init /\ Init /\ Derivation!Init

MCNext ==
  /\ UNCHANGED part
  /\ \/ part = "handles" /\ Handles!Next /\ UNCHANGED <<pqcVars, vars, hkdfVars>>
     \/ part = "pqc" /\ Pqc!Next /\ UNCHANGED <<handleVars, vars, hkdfVars>>
     \/ part = "buffers" /\ Next /\ UNCHANGED <<handleVars, pqcVars, hkdfVars>>
     \/ part = "derivation" /\ Derivation!Next /\ UNCHANGED <<handleVars, pqcVars, vars>>

MCSpec == MCInit /\ [][MCNext]_<<part, handleVars, pqcVars, vars, hkdfVars>>

Symmetry == Permutations(Thread) \cup Permutations(Name) \cup Permutations(Block)
=============================================================================
