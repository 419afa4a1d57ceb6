----------------------------- MODULE IntentStore -----------------------------
(***************************************************************************)
(* The table transaction_intents of PostgreSQL as IntentsRepository        *)
(* (src/intents/intents.repository.ts) writes it.  A PostgreSQL            *)
(* transaction that locks the row it changes is one step.                  *)
(***************************************************************************)
EXTENDS IntentState, XrplNetwork

CONSTANTS
    AccountOf,    \* source_account of each intent
    PayloadOf     \* intent_payload of each intent

ASSUME StoreAssumption ==
    /\ 0 \notin Intents
    /\ AccountOf \in [Intents -> Accounts]
    /\ PayloadOf \in [Intents -> Payloads]

VARIABLE row      \* row[i]: the columns of intent i that decide something

\* 0 and NoTx stand for SQL null: ledger indexes and Sequences start at 1.
Row == [status   : IntentStatuses,
        seq      : Nat,                            \* sequence
        prep     : Nat,                            \* prepared_ledger_index
        lls      : Nat,                            \* last_ledger_sequence
        sim      : {"none", "tesSUCCESS", "other"},\* simulation_engine_result
        blob     : Tx \cup {NoTx},                 \* signed_tx_blob and transaction_hash
        baseline : Nat,                            \* submission_validated_ledger
        attempts : Nat,                            \* submission_attempt_count
        final    : Nat,                            \* final_ledger_index
        failure  : FailureCodes \cup {"none"}]     \* failure_code

NewRow == [status |-> "CREATED", seq |-> 0, prep |-> 0, lls |-> 0, sim |-> "none",
           blob |-> NoTx, baseline |-> 0, attempts |-> 0, final |-> 0, failure |-> "none"]

StoreInit == row = [i \in Intents |-> NewRow]

\* Mutant: the index leaves the unsigned statuses out.
AccountBusySigning(i) ==
    \E j \in Intents \ {i} : AccountOf[j] = AccountOf[i] /\ row[j].status \in SignedActive

\* The partial unique index: an intent of the account, not i, owns the Sequence.
AccountBusy(i) ==
    \E j \in Intents \ {i} : AccountOf[j] = AccountOf[i] /\ row[j].status \in SequenceActive

\* Mutant: no unique index on transaction_hash.
HashNeverTaken(i, t) == FALSE

HashTaken(i, t) == t # NoTx /\ \E j \in Intents \ {i} : row[j].blob = t

\* What transition() answers when new is the row with the patch applied:
\* undefined, an exception (an illegal transition or a unique violation of
\* either index), or the updated row.
TransitionResult(i, from, to, new) ==
    IF row[i].status \notin from THEN "undefined"
    ELSE IF ~CanTransition(row[i].status, to) THEN "illegal"
    ELSE IF to \in SequenceActive /\ AccountBusy(i) THEN "busy"
    ELSE IF HashTaken(i, new.blob) THEN "hash"
    ELSE "updated"

Updated(new, to) == [new EXCEPT !.status = to]

\* Mutant: the update does not look at the current status.
TransitionAnyway(i, from, to, new) == row' = [row EXCEPT ![i] = Updated(new, to)]

\* All or nothing: a result other than "updated" rolls back.
Transition(i, from, to, new) ==
    row' = IF TransitionResult(i, from, to, new) = "updated"
           THEN [row EXCEPT ![i] = Updated(new, to)]
           ELSE row

\* updateInStatus(): new differs from row[i] in non-status columns only.
UpdateInStatus(i, statuses, new) ==
    row' = IF row[i].status \in statuses THEN [row EXCEPT ![i] = new] ELSE row
==============================================================================
