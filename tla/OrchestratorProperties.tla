------------------------ MODULE OrchestratorProperties ------------------------
(***************************************************************************)
(* What the orchestrator promises, and what its documentation says of it.  *)
(***************************************************************************)
EXTENDS Orchestrator

\* The type of the state: every column, every local variable of a request and
\* every row the cycle holds stays in its domain.
TypeOK ==
    /\ NetworkTypeOK
    /\ row \in [Intents -> Row]
    /\ proc \in [Processes -> Local]
    /\ recovered \in BOOLEAN
    /\ batch \subseteq Snapshot
    /\ wire \in [Intents -> Wire]
    /\ crashes \in 0..MaxCrashes

-------------------------------------------------------------------------------
(* The table.                                                              *)

\* The prepared transaction of an intent is in a validated ledger, whoever
\* broadcast it and with whichever signature.
PreparedTxIncluded(i) ==
    \E e \in chain : /\ e.tx # NoTx
                     /\ row[i].seq # 0
                     /\ VerifiedFor(e.tx, i, row[i])

\* Two concurrent prepares, a worker that expires and a submit that settles
\* never leave an account with two intents that both own its Sequence.
OneSequenceOwner ==
    \A i, j \in Intents :
        /\ row[i].status \in SequenceActive
        /\ row[j].status \in SequenceActive
        /\ AccountOf[i] = AccountOf[j]
        => i = j

\* The columns a signer or a lookup relied on are written once: a slower
\* request working from an older row never replaces the prepared artifact or
\* the first accepted signature, and a settled intent keeps its outcome.
ArtifactStep ==
    \A i \in Intents :
        /\ row[i].seq # 0 =>
               /\ row'[i].seq = row[i].seq
               /\ row'[i].prep = row[i].prep
               /\ row'[i].lls = row[i].lls
        /\ row[i].blob # NoTx => row'[i].blob = row[i].blob
        /\ row[i].status \in TerminalStatuses => row'[i] = row[i]

ArtifactStable == [][ArtifactStep]_vars

\* The status changes a request or the cycle is about to ask transition() for.
PendingTransitions(p) ==
    LET pc == proc[p].pc
        to == proc[p].want.to
    IN  CASE pc = "prepare"   -> {<<{"CREATED"}, "PREPARED">>}
          [] pc = "expire"    -> {<<{"PREPARED"}, "EXPIRED">>}
          [] pc = "simulate"  -> {<<{"PREPARED"}, "FAILED">>, <<{"PREPARED"}, "SIMULATED">>}
          [] pc = "complete"  -> {<<{"SIMULATED"}, IF proc[p].snap.sim = "tesSUCCESS"
                                                   THEN "AWAITING_SIGNATURE" ELSE "REJECTED">>}
          [] pc = "sign"      -> {<<{"AWAITING_SIGNATURE"}, to>>}
          [] pc = "record" /\ proc[p].snap.status = "SIGNED" -> {<<{"SIGNED"}, to>>}
          [] pc = "expireRow" -> {<<UnsignedActive, "EXPIRED">>}
          [] pc = "outcome"   -> {<<SignedActive, to>>}
          [] OTHER            -> {}

\* No request ever meets the "illegal transition" exception of transition():
\* from whatever status a concurrent change has left, the service either finds
\* the row outside its `from` or makes a change the state machine allows.
NoIllegalTransition ==
    \A p \in Processes : \A t \in PendingTransitions(p) :
        row[proc[p].id].status \in t[1] => CanTransition(row[proc[p].id].status, t[2])

-------------------------------------------------------------------------------
(* Outcomes against the ledger.                                            *)

\* An intent is only ever EXPIRED once its window is over, whichever of prepare,
\* attach, submit and the cycle decides it and however old the ledger index it
\* decided from: what has not been included by then never can be.
ExpiredIsPast ==
    \A i \in Intents : row[i].status = "EXPIRED" => closed > row[i].lls

\* VALIDATED is never reported for a transaction that is not in the validated
\* ledger the row names, inside the window of the prepared transaction.
ValidatedIsTrue ==
    \A i \in Intents :
        row[i].status = "VALIDATED" =>
            /\ \E e \in chain : e.tx = row[i].blob /\ e.at = row[i].final
            /\ row[i].prep < row[i].final
            /\ row[i].final <= row[i].lls

\* A stored blob whose intent is settled in any way but VALIDATED is in no
\* validated ledger and never enters one afterwards: the caller may pay again.
\* (Replies that contradict the stored artifact settle nothing about the ledger.)
SettledNeverLands ==
    \A i \in Intents :
        /\ row[i].blob # NoTx
        /\ row[i].status \in TerminalStatuses \ {"VALIDATED"}
        /\ row[i].failure \notin {"FINALITY_INTEGRITY_ERROR", "UNEXPECTED_VALIDATED_RESULT"}
        => ~Included(row[i].blob)

\* SEQUENCE_CONFLICT is only reported when the prepared Sequence is really
\* consumed (or the account gone), and while the endpoints report truthfully a
\* signed intent fails for no other reason: the window check never refuses a
\* transaction the ledger included, and a lagging account read beyond the window
\* never makes the Sequence go backwards.
FailuresAreReal ==
    \A i \in Intents :
        LET a == AccountOf[i] IN
        /\ row[i].failure = "SEQUENCE_CONFLICT" =>
               SeqAt(a, closed) > row[i].seq \/ ~ExistsAt(a, closed)
        /\ row[i].status = "FAILED" /\ row[i].blob # NoTx /\ ~FaultyReplies =>
               row[i].failure = "SEQUENCE_CONFLICT"

-------------------------------------------------------------------------------
(* Answers, attempts, loops.                                               *)

\* A caller told that its signature was accepted reads its own blob in the row
\* from then on, and one told that its intent is prepared has one that passed
\* simulation, whatever ran in between.
AnswerIsStored ==
    \A c \in Callers :
        LET r == row[proc[c].id] IN
        proc[c].pc = "done" /\ proc[c].result = "ok" =>
            /\ proc[c].op = "attach" => r.blob = proc[c].blob
            /\ proc[c].op = "prepare" => r.seq # 0 /\ r.sim = "tesSUCCESS"

\* INTENT_EXPIRED is answered from whatever row and ledger index the request holds,
\* and also when the transition it asked for found the row changed by someone else:
\* the window of the intent is over all the same, so a prepared transaction that no
\* ledger includes by then is never included (signing.service.ts:51-58,
\* preparation.service.ts:161-168).
ExpiredAnswerIsPast ==
    \A c \in Callers :
        proc[c].result = "expired" =>
            row[proc[c].id].seq # 0 /\ closed > row[proc[c].id].lls

\* However the other requests and the cycle interleave, the step loop of prepare
\* never runs out ("did not settle"), and the one of submit never falls through
\* to returning a row nobody settled or submitted.
LoopsSettle == \A c \in Callers : proc[c].result # "unsettled"

\* Whatever crashes, an intent whose blob may have been sent has its baseline stored:
\* the write before the call is never lost or left out (SubmissionService.submit;
\* the search of the recovery itself begins after the prepared ledger).
BaselineBeforeCall ==
    \A i \in Intents :
        row[i].status \in SignedActive /\ wire[i].first # 0 => row[i].baseline # 0

\* The attempt count never exceeds the submit calls a server answered.
AttemptsNeverOvercounted == \A i \in Intents : row[i].attempts <= wire[i].answered

\* After a start or a restart, until the first cycle has completed, no request sends a
\* blob, and none changes an intent that recovery may still have to settle: the only
\* write is prepare() finishing a simulation whose result is already stored.
RecoveryGateStep ==
    ~recovered =>
        /\ wire' = wire
        /\ \A c \in Callers, i \in Intents :
              proc'[c] # proc[c] =>
                  \/ row'[i] = row[i]
                  \/ row[i].status = "SIMULATED" /\ row'[i].status \in {"AWAITING_SIGNATURE", "REJECTED"}

RecoveryGate == [][RecoveryGateStep]_vars

-------------------------------------------------------------------------------
(* The lifecycle every intent follows.                                     *)

Owner(a) ==
    IF \E i \in Intents : AccountOf[i] = a /\ row[i].status \in SequenceActive
    THEN CHOOSE i \in Intents : AccountOf[i] = a /\ row[i].status \in SequenceActive
    ELSE 0

Lifecycle == INSTANCE IntentLifecycle WITH
    Artifacts  <- Tx,
    NoArtifact <- NoTx,
    status     <- [i \in Intents |-> row[i].status],
    owner      <- [a \in Accounts |-> Owner(a)],
    artifact   <- [i \in Intents |-> row[i].blob]

\* Seen through its statuses, owners and blobs the service implements the
\* lifecycle of an intent.
ImplementsLifecycle == Lifecycle!LifecycleSpec

-------------------------------------------------------------------------------
(* Progress.  Ledgers keep closing.  The timer of FinalityScheduler starts *)
(* a cycle every ten seconds and every call of a cycle is answered or      *)
(* fails within its timeout (weak fairness of the worker).  Any call may   *)
(* fail, but an outage ends: the deciding answers, offered again and       *)
(* again, are eventually given (strong fairness).  No request has to       *)
(* arrive.                                                                 *)

WorkerStep == CycleStep \/ ResolveStep(Worker) \/ FailStep(Worker)

Fairness ==
    /\ WF_vars(NetworkStep)
    /\ WF_vars(WorkerStep)
    /\ SF_vars(ReadRows /\ CycleStep)
    /\ SF_vars(ExpireRow /\ CycleStep)
    /\ SF_vars(LookupFound(Worker) /\ ResolveStep(Worker))
    /\ SF_vars(LookupNotFound(Worker) /\ proc'[Worker].pc = "provenAccount" /\ ResolveStep(Worker))
    /\ SF_vars(ReadProvenAccount(Worker) /\ proc'[Worker].pc = "outcome" /\ ResolveStep(Worker))
    /\ SF_vars(WriteOutcome(Worker) /\ ResolveStep(Worker))

FairSpec == Spec /\ Fairness

\* An intent that owns a Sequence is settled, without another request and after
\* any restart, once its window is over.
OwnersSettle ==
    \A i \in Intents :
        /\ row[i].status \in SequenceActive
        /\ row[i].lls < MaxLedger
        ~> row[i].status \in TerminalStatuses

-------------------------------------------------------------------------------
(* What the documentation says and the code does not do.                   *)

\* Behaviours in which nothing fails and nothing crashes.
CalmNext ==
    \/ NetworkStep
    \/ SignerStep
    \/ CycleStep
    \/ \E c \in Callers : CallerStep(c)
    \/ \E p \in Processes : ResolveStep(p)

CalmSpec == Init /\ [][CalmNext]_vars

\* ARCHITECTURE.md:19: only a validated ledger, or proven absence, decides the
\* outcome; README.md:58 and 239 say of EXPIRED: proven not included, and of
\* SEQUENCE_CONFLICT: consumed elsewhere.  So an intent that ends for its window
\* or its Sequence has no transaction in a validated ledger, with whichever
\* signature and whoever broadcast it.
OutcomeIsProven ==
    \A i \in Intents :
        \/ row[i].status = "EXPIRED"
        \/ row[i].failure \in {"SEQUENCE_CONFLICT", "SEQUENCE_REGRESSION"}
        => ~PreparedTxIncluded(i)

\* ARCHITECTURE.md:115: submission_attempt_count counts the submissions a server
\* answered, and concurrent calls do not lose an increment.
AttemptsAreCounted ==
    \A i \in Intents :
        /\ \A c \in Callers : ~(At(c, "record") /\ proc[c].id = i)
        /\ \A c \in Callers : ~(At(c, "reloadSubmit") /\ proc[c].id = i)
        /\ row[i].status = "SUBMITTED"
        => row[i].attempts = wire[i].answered
==============================================================================
