----------------------------- MODULE IntentState -----------------------------
(***************************************************************************)
(* The intent state machine of src/intents/intent-state.ts: the statuses,  *)
(* the classes the services test them against, and the transition table    *)
(* every status change has to go through.                                  *)
(***************************************************************************)

IntentStatuses == {"CREATED", "PREPARED", "SIMULATED", "AWAITING_SIGNATURE", "SIGNED",
                   "SUBMITTED", "VALIDATED", "REJECTED", "EXPIRED", "FAILED"}

TerminalStatuses == {"VALIDATED", "REJECTED", "EXPIRED", "FAILED"}

\* Prepared but not signed: the finality worker expires these by ledger number.
UnsignedActive == {"PREPARED", "SIMULATED", "AWAITING_SIGNATURE"}

\* A signed artifact exists and may be on the network, submitted by anyone.
SignedActive == {"SIGNED", "SUBMITTED"}

\* The statuses that own the Sequence of the source account.
SequenceActive == UnsignedActive \cup SignedActive

Transitions ==
    [s \in IntentStatuses |->
        CASE s = "CREATED"            -> {"PREPARED"}
          [] s = "PREPARED"           -> {"SIMULATED", "EXPIRED", "FAILED"}
          [] s = "SIMULATED"          -> {"AWAITING_SIGNATURE", "REJECTED", "EXPIRED", "FAILED"}
          [] s = "AWAITING_SIGNATURE" -> {"SIGNED", "EXPIRED", "FAILED"}
          [] s = "SIGNED"             -> {"SUBMITTED", "VALIDATED", "REJECTED", "EXPIRED", "FAILED"}
          [] s = "SUBMITTED"          -> {"VALIDATED", "EXPIRED", "FAILED"}
          [] OTHER                    -> {}]

CanTransition(from, to) == to \in Transitions[from]

\* The failure codes a FAILED row can carry.
FailureCodes == {"SIMULATION_ARTIFACT_MISMATCH", "SEQUENCE_CONFLICT", "SEQUENCE_REGRESSION",
                 "FINALITY_INTEGRITY_ERROR", "UNEXPECTED_VALIDATED_RESULT"}
==============================================================================
