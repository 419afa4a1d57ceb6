------------------------ MODULE OrchestratorInvariant ------------------------
(***************************************************************************)
(* The inductive invariant behind the safety properties of                 *)
(* OrchestratorProperties.  Its core is what a request may still rely on   *)
(* after an await: the row it read (`snap`) may be stale, but the columns  *)
(* it decides from are those of the row it will write.                     *)
(***************************************************************************)
EXTENDS OrchestratorProperties

\* What a request knows of row i from an older version s of it.
StillHolds(s, i) ==
    /\ s.status # "CREATED" =>
           /\ row[i].status # "CREATED"
           /\ row[i].seq = s.seq
           /\ row[i].prep = s.prep
           /\ row[i].lls = s.lls
    /\ s.blob # NoTx => row[i].blob = s.blob
    /\ s.baseline # 0 => row[i].baseline # 0
    /\ s.status \in SignedActive =>
           /\ row[i].status \in SignedActive \cup TerminalStatuses
           /\ s.blob \in minted

\* A validated ledger of the window of r includes the artifact of r.
IncludedWithin(r, at) ==
    /\ \E e \in chain : e.tx = r.blob /\ e.at = at
    /\ InWindow(at, r)

RowFine(i) ==
    LET r == row[i]
    IN  /\ r.status = "CREATED" => r.seq = 0
        /\ r.status \in UnsignedActive \cup {"CREATED"} => r.blob = NoTx /\ wire[i].first = 0
        /\ r.status \in SignedActive => r.blob \in minted
        /\ r.status = "SUBMITTED" => r.baseline # 0
        /\ r.status = "EXPIRED" => WindowOver(closed, r)
        /\ r.status = "VALIDATED" => IncludedWithin(r, r.final)
        /\ r.status \in SignedActive /\ wire[i].first # 0 => r.baseline # 0

Resolving == {"lookup", "searchAgain", "provenAccount", "outcome"}
Submitting == {"submitLedger", "baseline", "submit", "record"}

\* What holds of the local variables l of a request or of the cycle.
LocalFine(l) ==
    /\ l.pc \in Awaits \ {"rows"} => l.id \in Intents
    /\ l.blob \in minted \cup {NoTx}
    /\ l.led <= closed
    /\ l.id \in Intents => StillHolds(l.snap, l.id)
    /\ l.pc \in {"simLedger", "expire"} => l.snap.status = "PREPARED"
    /\ l.pc \in {"signAccount", "sign"} =>
           l.snap.status = "AWAITING_SIGNATURE" /\ l.blob # NoTx
    /\ l.pc = "expireRow" => l.snap.status \in UnsignedActive
    /\ l.pc \in Resolving \cup Submitting => l.snap.status \in SignedActive
    /\ \/ l.pc \in {"expire", "expireRow"}
       \/ l.pc \in {"sign", "outcome"} /\ l.want.to = "EXPIRED"
       => WindowOver(closed, l.snap)
    /\ l.pc = "sign" => l.want.to \in {"SIGNED", "EXPIRED", "FAILED"}
    /\ l.pc = "outcome" => l.want.to \in {"VALIDATED", "EXPIRED", "FAILED"}
    /\ l.pc = "record" => l.want.to \in {"SUBMITTED", "REJECTED"}
    /\ l.pc = "outcome" /\ l.want.to = "VALIDATED" => IncludedWithin(l.snap, l.want.final)
    /\ l.pc = "baseline" => l.led # 0
    /\ l.pc \in {"submit", "record"} =>
           row[l.id].status \in TerminalStatuses \/ row[l.id].baseline # 0

\* A row the cycle has yet to process.
PendingFine(e) ==
    /\ StillHolds(e.snap, e.id)
    /\ e.snap.status \in SequenceActive
    /\ e.snap.status \in UnsignedActive => WindowOver(closed, e.snap)

\* The inductive invariant: every row, every request and every row the cycle
\* still holds is as the code that reads it next expects.
Inductive ==
    /\ TypeOK
    /\ IsFiniteSet(chain)
    /\ \A i \in Intents : RowFine(i)
    /\ \A p \in Processes : LocalFine(proc[p])
    /\ \A e \in batch : PendingFine(e)
    /\ OneSequenceOwner

-------------------------------------------------------------------------------
(* On top of Inductive: what the answers of requests rest on.              *)

\* Prepared means a Sequence; a simulation result is written once, and only a
\* success leads to a signature.
RowInformed(i) ==
    LET r == row[i]
    IN  /\ r.status # "CREATED" => r.seq # 0
        /\ r.status \in {"CREATED", "PREPARED"} => r.sim = "none"
        /\ r.status \in {"AWAITING_SIGNATURE", "SIGNED", "SUBMITTED", "VALIDATED"} =>
               r.sim = "tesSUCCESS"

Preparing == {"account", "current", "ledger", "prepare", "simLedger", "expire", "simulate",
              "complete", "reload"}
Attaching == {"signAccount", "sign", "reloadSigned"}

\* What a request has been answered, or is about to be, holds of the row.
Informed(l) ==
    LET r == row[l.id]
    IN  /\ l.pc \in Preparing => l.op = "prepare"
        /\ l.pc \in Attaching => l.op = "attach" /\ l.blob # NoTx
        /\ l.pc \in Submitting \cup {"reloadSubmit"} => l.op = "submit"
        /\ l.pc \in {"current", "ledger", "prepare"} => l.seq # 0
        /\ l.pc = "complete" => r.sim = l.snap.sim
        /\ l.pc = "done" => l.id \in Intents /\ r.status # "CREATED"
        /\ l.pc # "done" => l.result = "none"
        /\ l.result = "ok" /\ l.op = "attach" => l.blob # NoTx /\ r.blob = l.blob
        /\ l.result = "ok" /\ l.op = "prepare" => r.status # "PREPARED" /\ r.sim = "tesSUCCESS"
        /\ l.result = "expired" => WindowOver(closed, r)

AnswersFine ==
    /\ \A i \in Intents : RowInformed(i)
    /\ \A p \in Processes : Informed(proc[p])

-------------------------------------------------------------------------------
(* The step loops: every further iteration finds the row further on.       *)

PastStep(n, status) ==
    /\ n >= 1 => status # "CREATED"
    /\ n >= 2 => status # "PREPARED"
    /\ n >= 3 => status # "SIMULATED"
    /\ n <= 3

PastSubmit(n, status) ==
    /\ n >= 1 => status # "SIGNED"
    /\ n >= 2 => status # "SUBMITTED"
    /\ n <= 2

Looping(l) ==
    LET now == row[l.id].status
    IN  /\ l.pc \in {"account", "current", "ledger", "prepare"} => l.snap.status = "CREATED"
        /\ l.pc = "simulate" => l.snap.status = "PREPARED"
        /\ l.pc = "complete" => l.snap.status = "SIMULATED" /\ now \notin {"CREATED", "PREPARED"}
        /\ l.pc \in Submitting /\ l.snap.status = "SUBMITTED" => now # "SIGNED"
        /\ l.pc = "reloadSubmit" => now \in SignedActive \cup TerminalStatuses
        /\ l.pc \in Preparing =>
               PastStep(l.steps, IF l.pc = "reload" THEN now ELSE l.snap.status)
        /\ l.pc \in Resolving \cup Submitting \cup {"reloadSubmit"} =>
               PastSubmit(l.steps, IF l.pc = "reloadSubmit" THEN now ELSE l.snap.status)
        /\ l.result # "unsettled"

\* The unique index on transaction_hash: an outcome a request may write is never
\* refused because another row holds the blob.
HashesUnique ==
    \A i, j \in Intents : row[i].blob # NoTx /\ row[i].blob = row[j].blob => i = j

LoopsFine ==
    /\ \A p \in Processes : Looping(proc[p])
    /\ HashesUnique

-------------------------------------------------------------------------------
(* The gate: what a request can be at before the first cycle completed.    *)

Gated == {"idle", "done", "complete", "reload"}

GateFine == ~recovered => \A c \in Callers : proc[c].pc \in Gated

-------------------------------------------------------------------------------
(* Attempts: a call that was answered is counted once at most.             *)

Recording(i) == {c \in Callers : proc[c].pc = "record" /\ proc[c].id = i}

AttemptsFine ==
    \A i \in Intents :
        /\ IsFiniteSet(Recording(i))
        /\ row[i].attempts + Cardinality(Recording(i)) <= wire[i].answered

-------------------------------------------------------------------------------
(* Outcomes: absence, once proven, is for ever.                            *)

IntegrityFailures == {"FINALITY_INTEGRITY_ERROR", "UNEXPECTED_VALIDATED_RESULT"}

\* No ledger includes t and none ever will.
Dead(t) == ~Included(t) /\ (closed >= t.lls \/ t \in banned)

\* A ledger only includes signed transactions, inside their window, and a
\* transaction is signed once it is prepared.
LedgerFine ==
    /\ \A e \in chain :
           /\ e.at <= closed
           /\ e.tx # NoTx => /\ e.tx \in minted
                             /\ e.at <= e.tx.lls /\ e.tx.lls < e.at + LastLedgerOffset
    /\ \A t \in minted : t.lls <= closed + LastLedgerOffset

\* The Sequence of the account is beyond the one prepared for r, or the account is gone.
Consumed(i, r) == SeqAt(AccountOf[i], closed) > r.seq \/ ~ExistsAt(AccountOf[i], closed)

\* While endpoints report truthfully a signed intent fails for its Sequence only.
OnlyConflict(failure) == ~FaultyReplies => failure = "SEQUENCE_CONFLICT"

\* The Sequence prepared for r was the account's before the window of r ended.
ReachedInWindow(i, r) == r.seq <= SeqAt(AccountOf[i], r.lls)

RowSettled(i) ==
    LET r == row[i]
    IN  /\ r.status # "CREATED" => r.lls = r.prep + LastLedgerOffset /\ r.prep <= closed
        /\ r.blob # NoTx => r.blob.lls = r.lls /\ ReachedInWindow(i, r)
        /\ /\ r.blob # NoTx
           /\ r.status \in TerminalStatuses \ {"VALIDATED"}
           /\ r.failure \notin IntegrityFailures
           => Dead(r.blob)
        /\ r.failure = "SEQUENCE_CONFLICT" => r.status = "FAILED" /\ Consumed(i, r)
        /\ r.status = "FAILED" /\ r.blob # NoTx => OnlyConflict(r.failure)
        /\ r.status \notin TerminalStatuses => r.failure = "none"

Settling(l) ==
    /\ l.pc \in {"signAccount", "sign"} => l.blob.lls = l.snap.lls
    /\ l.pc = "sign" /\ l.want.to = "SIGNED" => ReachedInWindow(l.id, l.snap)
    /\ \/ l.pc = "provenAccount"
       \/ l.pc = "outcome" /\ l.want.to # "VALIDATED" /\ l.want.failure \notin IntegrityFailures
       \/ l.pc = "record" /\ l.want.to = "REJECTED"
       => Dead(l.snap.blob)
    /\ l.pc \in {"sign", "outcome"} =>
           /\ l.want.to # "FAILED" => l.want.failure = "none"
           /\ l.want.failure = "SEQUENCE_CONFLICT" => Consumed(l.id, l.snap)
    /\ l.pc = "outcome" /\ l.want.to = "FAILED" => OnlyConflict(l.want.failure)

OutcomesFine ==
    /\ LedgerFine
    /\ \A i \in Intents : RowSettled(i)
    /\ \A p \in Processes : Settling(proc[p])
==============================================================================
