---------------------------- MODULE MCOrchestrator ----------------------------
(***************************************************************************)
(* Small instances of Orchestrator for TLC.                                *)
(***************************************************************************)
EXTENDS OrchestratorInvariant, TLC

\* Every intent pays from one account, with one payload.
SameAccount == [i \in Intents |-> "acct"]
SamePayload == [i \in Intents |-> "pay"]

Symmetry == Permutations(Callers)
==============================================================================
