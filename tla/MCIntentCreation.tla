--------------------------- MODULE MCIntentCreation ---------------------------
(***************************************************************************)
(* Small instances of IntentCreation for TLC.                              *)
(***************************************************************************)
EXTENDS IntentCreation, TLC

Symmetry == Permutations(Callers) \cup Permutations(IdempotencyKeys) \cup Permutations(Bodies)
===============================================================================
