# A TLA+ model of the XRPL transaction orchestrator

The orchestrator takes payment intents over HTTP, prepares an XRP Ledger
transaction for each, hands it to an external signer, accepts the signed blob,
submits it and finds out what became of it. Its promise is about money: a caller
that is told `EXPIRED` or `FAILED` may pay again, a caller that is told
`VALIDATED` has paid, and neither answer may be wrong because two requests met,
an endpoint lagged, a reply was lost or the process died between two statements.

The modules in this directory model the code under `src/src/` of the repository.
Paths below are relative to that directory unless they start with `src/`.

## 1. Inventory

| Part | State it keeps | Operations | Talks to |
|---|---|---|---|
| Intent state machine `intents/intent-state.ts` | none (a table) | `canTransition`, status classes | used by every service |
| Intents repository `intents/intents.repository.ts` | `transaction_intents`, `intent_transitions` in PostgreSQL | `createIdempotent`, `list`, `transition`, `updateInStatus`, `findByStatuses` | row lock, three unique constraints |
| Intents service `intents/intents.service.ts` | none | `create`, `list` | repository |
| Preparation `preparation/` | none but the row | `prepare`: a bounded loop over build, simulate, complete | ledger reads, simulation, repository |
| Signing `signing/` | none but the row | `attachSignature` | account read, blob verification, repository |
| Submission `submission/` | none but the row | `submit`: baseline, call, record, or settle past the window | ledger, submit call, finality |
| Finality service `finality/finality.service.ts` | `recovered`, `health`, the running cycle, the coalesced trigger | `runCycle`, `resolveSigned`, `expireUnsigned`, `idle` | lookups, account reads, `switchEndpoint`, repository |
| Finality scheduler `finality/finality.scheduler.ts` | a timer, a listener | triggers, `onModuleDestroy` | finality service |
| Connection manager `xrpl/connection-manager.service.ts` | active client, `switching` promise, preferred endpoint, reconnection timer, `destroyed` | `request`, `switchEndpoint`, shutdown | two endpoints |
| Ledger client and service `xrpl/xrpl-ledger.client.ts`, `xrpl/ledger.service.ts` | one web socket | account, ledger, tx, simulate, submit | SDK |
| Capability checks `xrpl/capability.service.ts` | none | accept or refuse an endpoint | called while connecting |
| Builders and codec `preparation/*.builder.ts`, `xrpl/codec.ts` | none | build, canonical form, encode | preparation, simulation |
| Health `health/health.service.ts` | none | `readiness`, `status` | finality, connection |
| Controllers, DTOs, presenter, errors, configuration, migrations | none that changes at run time | validate, format, report | all of the above |
| External: the ledger and the signer | validated ledgers, signed blobs | ledgers close, blobs are made and broadcast | endpoints, `attach` |

How the parts meet: three HTTP operations and one background cycle change the
same row. Node runs each of them without interruption from one `await` to the
next, so everything read before an await may be stale after it; the only
serialisation is the row lock inside `transition` and the unique indexes.

What is hard:

* stale rows: every service decides from a row it read several awaits earlier;
* endpoints: two reads in a row may be answered by two servers at different
  ledgers, in either order, with different parts of the history;
* the outside: a blob may be broadcast by anyone who holds it, before it is
  attached or after the intent is settled;
* failure: any call may time out although it took effect, and the process may
  die at any await; only the table survives;
* scheduling: triggers are coalesced, one endpoint switch is shared by all the
  rows of a cycle, connects are shared by all callers, and shutdown meets all of
  it.

What makes each part correct: one intent owns the Sequence of an account;
outcomes agree with the validated ledgers; the artifact a signer saw and the one
a lookup uses never change; answers describe the row; recovery has what it needs
before the blob leaves; every owned Sequence is released in the end; no trigger
is lost; one connection serves and is brought back after every failure; one
Idempotency-Key stands for one intent. `PROJECT.json` lists the hazards one by
one, each at its line.

## 2. Modules

```
IntentState   XrplNetwork
     \          /
     IntentStore
         |
      Requests
     /    |     \
Preparation Signing Finality
     |      |      |
     |      |   Submission
      \     |     /
      Orchestrator -- OrchestratorProperties -- OrchestratorInvariant -- MCOrchestrator
                          | INSTANCE                    |
                     IntentLifecycle             OrchestratorProofs
                                                 OutcomeProofs
                                                 LifecycleProofs

ConnectionManager -- MCConnectionManager      ConnectionManagerProofs
FinalityTracker   -- MCFinalityTracker        FinalityTrackerProofs
IntentCreation    -- MCIntentCreation         IntentCreationProofs
IntentTransitions -- MCIntentTransitions      IntentTransitionsProofs
        | INSTANCE
   IntentStore

LedgerReplies -- Artifact -- ArtifactIntegrity -- MCArtifactIntegrity
                                    |
                          ArtifactIntegrityProofs
```

**IntentState** is the transition table with its status classes and failure codes.

**XrplNetwork** (external) is what can be observed of the ledger. `closed` is the
last validated ledger, `chain` the transactions in the ledgers so far, `minted`
the blobs the signer has made, `banned` blobs a server called malformed. A read
is answered from any view in `Views`, at most `MaxLag` behind `closed`, chosen
anew for every read. A ledger may include any minted blob the protocol allows,
whether or not the service submitted it, and transactions that come from no
intent (`MaxExternal` of them, which may delete the account).

**IntentStore** is the table. `row[i]` has the columns that decide something;
`Transition` is `transition()` in full: status outside `from` answers undefined,
an illegal change or a violated index throws and rolls back. One PostgreSQL
transaction is one step; IntentTransitions shows that it may be.

**Requests** has the local variables of each request and of the cycle, with a
program counter named after the call the code awaits. A step is the answer of
that call and the code up to the next await.

**Preparation, Signing, Submission, Finality** have one action per await:

| Code | Actions |
|---|---|
| `prepare`, its loop of 8 steps | `StartPrepare`, `ReloadPrepare`, `ReadValidatedAccount`, `ReadCurrentAccount`, `ReadPreparedLedger`, `WritePrepared`, `ReadSimulationLedger`, `ExpirePrepared`, `FailMismatch`, `WriteSimulated`, `CompleteSimulation` |
| `attachSignature` | `StartAttach`, `ReadSigningAccount`, `WriteSigning`, `ReloadSigning`; `Sign` is the signer |
| `submit`, its loop of 3 steps | `StartSubmit`, `ReloadSubmit`, `ReadSubmitLedger`, `WriteBaseline`, `SubmitAnswered`, `SubmitUnanswered`, `RecordSubmit` |
| `runCycle`, `expireUnsigned` | `StartCycle`, `ReadRows`, `ExpireRow` |
| `resolveSigned`, shared by submit and the cycle | `LookupFound`, `LookupMisreported`, `LookupUnvalidated`, `LookupNotFound`, `ReadProvenAccount`, `WriteOutcome` |

`SubmitUnanswered` covers a call whose answer is lost, delivered or not. The
variable `wire` is a history variable: the ledger of the first call for an intent
and the number of calls a server answered. `LookupMisreported` is only enabled
with `FaultyReplies`: a `tx` reply that contradicts the stored artifact, which
the code answers with `FINALITY_INTEGRITY_ERROR` or `UNEXPECTED_VALIDATED_RESULT`.

**Orchestrator** puts them together with ledgers that close, calls that fail at
any await (`FailStep`) and crashes (`Crash` forgets everything but the table).

**IntentLifecycle** is the abstract specification: an intent takes the Sequence
of its account, keeps it until it is settled, receives one artifact that no other
intent has, and stays as it is once settled. There is no request, no worker and
no network in it. `OrchestratorProperties!ImplementsLifecycle` is the refinement,
with the owner of an account computed from the statuses.

**ConnectionManager** is the connection alone. A step is one turn of the event
loop: an I/O completion or a timer, and every continuation it resumes. `work` is
the promise `switching`, with the endpoints it has still to try.

**FinalityTracker** is the cycle seen from its scheduler: triggers, the
single-flight loop with its pending flag, the switch budget, health and
`onModuleDestroy`, over rows whose history each endpoint holds or does not. What
a lookup concludes is left to Finality.

**IntentCreation** is `create` and `list` statement by statement under READ
COMMITTED: insert, audit, commit, select of the existing row, a commit whose
answer is lost, and a client that follows `nextCursor` with a filter on a fixed
column or on the status, which `StatusChanges` changes while the client reads.

**IntentTransitions** is `transition` statement by statement under READ COMMITTED.
`lock` is the row lock of `SELECT ... FOR UPDATE`, `txn` the open transaction of
each caller, `audit` the audit rows of each intent, which carry the `bigserial` id
that orders them and the transaction that has not committed them yet; `Trail` is
what a reader gets. The `UPDATE` enters the new row version into the two
partial unique indexes one after the other, and waits at each for the open
transactions its answer depends on. Any statement may fail (`Fail`), and `Commit`
may take effect without its answer arriving. `Store` is IntentStore over the
committed rows, and `ImplementsTransition` the refinement.

**LedgerReplies** has the parsers of `xrpl/types.ts`, the commands of
`xrpl/ledger.service.ts` and the capability checks, on raw replies: a record of
fields, each of which may be `Absent` or `Bad` (of another type). A command that
throws answers `Bad`.

**Artifact** has the transaction in its forms: the JSON of the builders (a
function on field names), the canonical form, the unsigned and the signed blob,
what the presenter shows and what `src/examples/testnet-signer` makes of it. The
binary codec is external and modelled by what the service relies on: it knows some
fields, refuses `DeliverMax` and amounts it cannot hold, and gives two spellings of
a value one encoding.

**ArtifactIntegrity** takes one intent from its payload to its outcome through
these functions: one action per await, its argument the raw reply. `basis` is a
history variable with the raw replies the signature and the outcome rest on, so
that the properties can be stated about what servers said, not about what the
parsers made of it. Requests do not overlap here; that is Orchestrator's subject.

Comments starting with `Mutant:` mark variants of the definition below them, each
a bug that code could plausibly have. They are used by no specification;
`PROJECT.json` names the property that refutes each of them.

## 3. Runs

| Run | Checks | The instance |
|---|---|---|
| LaggingEndpoints | `ExpiredIsPast`, `ValidatedIsTrue`, `SettledNeverLands`, `FailuresAreReal`, `ExpiredAnswerIsPast` | one intent, reads one ledger behind, one foreign transaction that consumes the Sequence or deletes the account, a signer with an unauthorized key |
| CrashRecovery | `TypeOK`, `BaselineBeforeCall`, `OwnersSettle`, `RecoveryGate` | one crash at any await, fairness of section 4 |
| RacingSigners | `AnswerIsStored`, `ArtifactStable` | two requests, two authorized keys, `tx` replies that contradict the artifact |
| RacingSubmits | `LoopsSettle`, `AttemptsNeverOvercounted` | two requests and three sends |
| SharedAccount | `OneSequenceOwner`, `ImplementsLifecycle` | two intents with one account and one payload, so that one blob fits both |
| Creation | `AnswersMatchTable`, `AuditMatchesTable`, `WalkSeesAll` | two creators, three keys, two bodies, three ids, pages of one row |
| OneConnection | `ConnectionTypeOK`, `OneServing`, `ShutdownCloses`, `NeverStranded`, `RequestsEnd` | two callers, four client objects |
| Tracker | `TrackerTypeOK`, `TriggersAreHonoured`, `NoCycleAfterDestroy`, `ReadyIsEarned`, `ProvableRowsSettle`, `RowsInFrontSettle` | three rows: the oldest needs the secondary, the next nobody can prove, the one behind it needs the primary |
| Transitions | `TransitionsTypeOK`, `TrailIsHistory`, `ImplementsTransition`, `TrailIsAppendOnly`, `TransitionsEnd` | two callers, two intents of one account, one blob that fits both, eight kinds of request, one of them illegal |
| ArtifactIntegrity | `ArtifactTypeOK`, `SentIsIntended`, `ShownIsSignable`, `SimulatedIsPrepared`, `SignerIsEntitled`, `OutcomeIsStated` | four payloads, networks 1024 and 1025, a master and a regular key, replies with every read field right, at a boundary, missing and mistyped |
| Doc_OutcomeIsProven, Doc_AttemptsAreCounted | one documented statement each | violated, see section 6 |

What the passing runs show, in words:

* Whichever of four pieces of code expires an intent, and from however old a
  ledger index, its window is over; a stored blob whose intent is settled as
  anything but `VALIDATED` is in no ledger and never will be; `VALIDATED` names a
  ledger of the window that holds the blob; `SEQUENCE_CONFLICT` on a row means the
  Sequence is consumed or the account gone.
* After any crash the cycle alone, without another request, settles every intent
  that owns a Sequence; the baseline is stored before the first call.
* `INTENT_EXPIRED` is only answered once the window of the prepared transaction is
  over, although the answer ignores what its own write found.
* A second valid signature never replaces the first, and its caller is not told
  that it did.
* The step loops of `prepare` and `submit` never run out, however two requests
  and the cycle interleave.
* No endpoint failure leaves the manager without a connection, a connect in
  flight or a timer; nothing stays connected after shutdown; a request ends even
  when both endpoints keep failing.
* A trigger that arrives during the very last step of a cycle starts another, and
  readiness is never reported before a cycle has completed or after one that left
  a row unproven.
* While both endpoints are reachable every row that one of them can prove is settled,
  also behind a row that nobody can prove and that spends the one switch of every
  cycle; while one endpoint is gone, a switch that fails delays only the rows behind
  the one it was for.
* Until the first cycle after a start has completed no request sends a blob, and
  none changes an intent except by finishing a simulation that is already stored.
* A `transition` that runs as four statements among others answers and commits
  what it would in one step; the audit trail of an intent is its history, with no
  entry missing, invented or out of order, and readers only ever see it grow.
* What reaches the network is the prepared transaction with one signature of a key
  that a validated account entitled, with the amount, parties and destination tag of
  the intent and the id of the configured network; the transaction the API shows can
  always be signed into a blob the service accepts; neither `VALIDATED` nor the
  `EXPIRED` of a signed intent rests on a field a server left out or mistyped. `FAILED`
  may: a validated `tx` reply without hash or ledger index ends in
  `FINALITY_INTEGRITY_ERROR` (`finality/finality.service.ts:191-202`).

### Bounds

Every bound is a constant of the module it limits and appears in its guards.

* `MaxLedger` 3 or 4 (2 where only races within one window are asked about) and
  `LastLedgerOffset` 1 (the service's default is 20). A window of one ledger,
  prepared at ledger 1 or 2, can be open, be used in its last ledger, and be past;
  nothing in the code counts the ledgers of a window,
  it only compares with its ends.
* `MaxLag` 1: a read is answered before or after the ledger that closes the
  window, and two reads in either order. A lag of more ledgers differs only in
  being stale for longer, and the proofs of section 5 hold for every lag.
* `MaxExternal` 1: one foreign transaction consumes the one Sequence an intent
  is prepared for.
* `MaxSends` 0 to 3: none where only signing is asked about, three where two
  submits race and one is repeated. `MaxCrashes` 1: a crash forgets all memory, so
  a second one starts again from a state the first could leave.
* Callers: two where a race is asked about, one (beside the cycle) elsewhere.
  The callers are symmetric and `Symmetry` is used where no liveness is checked.
* `Clients` 4 with two callers: one serving, one closing, and one closed client
  still held by each caller. A closed client nobody holds is used again, so the
  number is not a number of connects.
* `Rows` 3 with `MixedHistory`: row 1 is held by the secondary, row 2 by nobody, row 3
  by the primary. Rows are read oldest first, so in every cycle row 2 takes the switch
  before row 3 is looked up, and row 3 is reached at the endpoint that cycle ends at.
* `Ids` 3, `Limit` 1, `MaxTime` 1: a listing of three pages with two rows in one
  millisecond and one in another. Keys, bodies and callers are symmetric.
* Transitions: two transactions are what can meet at one lock or one index entry;
  the status of an intent moves from `CREATED` to the terminal ones along the
  requests of `MCIntentTransitions`, so the state space is finite without a bound.
  The theorem of section 5 holds for any number.
* ArtifactIntegrity: a prepared ledger of 1 and the real offset of 20 give the
  window 2..21, and indexes 1, 2, 21 and 22 its two edges from both sides; fees 0,
  1, `MaxFeeDrops` and one more; ages `MaxAge - 1` and `MaxAge`. At each reply
  fields vary one at a time or with those they are compared with. The run may stop
  at a terminal status, so deadlock is not checked.

`RacingSigners` bounds the sends to zero to stay small; sending is covered by the
other runs of the same module.

## 4. Fairness

`FairSpec` of OrchestratorProperties assumes of the code only what its scheduling
gives: the ten-second timer of `FinalityScheduler` starts a cycle and every call
of a cycle is answered or fails within its timeout, so the worker is weakly fair,
where failing counts as a step. Of the outside it assumes that ledgers keep
closing and that an outage ends: an answer that is offered again and again is
eventually given (strong fairness of the deciding answers). No request has to
arrive, and no request has to go on: `OwnersSettle` is about the worker.

`ConnectionManager!FairSpec`: a connect succeeds or fails, a disconnect ends, a
request is answered or fails. It never assumes that an endpoint comes back.
`FinalityTracker!FairSpec`: the timer keeps triggering, calls end, and each endpoint
catches up with the network: a row it is asked about again and again does not stay
`PENDING` there for ever, whatever the other endpoint says in between (strong fairness
per row and endpoint; `PENDING` comes only of ledgers the
endpoint has not seen or validated yet). `ProvableRowsSettle` states as its hypothesis that
both endpoints stay reachable from some time on, `RowsInFrontSettle` only that one
does, and both that the module is not destroyed.
`IntentTransitions!TransitionsSpec`: PostgreSQL serves a lock in the order of its
queue, so a statement that can proceed again and again does (strong fairness of
each caller's steps), and no statement has to fail.

## 5. Proofs

All theorems hold for every value of the constants that satisfies the named
`ASSUME`s of the modules that declare them: bounds are natural numbers,
authorized keys are keys, accounts are finitely many (a ledger holds finitely
many transactions), ids are positive numbers, null is not a transaction, the
worker is not a caller, network ids are natural numbers and only payments have a
destination tag. `undefined` (`Absent`) and a value of another type (`Bad`) are
different from each other and from the numbers, booleans, keys, failure codes and
engine results. Nothing else is assumed, but for one hypothesis, `NullsHaveNoFields`,
of three theorems about ArtifactIntegrity; it is stated with them.

Every safety property of section 3 is proved: each invariant, action property and
refinement of a passing run is the statement of a theorem below. One theorem more,
`TransitionsAreLegal`, has no run: that `transition()` never throws for an illegal
change (`intents/intents.repository.ts:116`) follows from the `from` sets of its callers.

### The service

Three modules, each extending the one before, for any number of intents,
accounts, keys, concurrent requests, ledgers, sends and crashes, any lag and any
window.

| Module | Theorem | States |
|---|---|---|
| OrchestratorProofs | `Invariance` | `Spec => []Inductive` |
| | `TypeCorrect` | `Spec => []TypeOK` |
| | `OwnersAreUnique` | `Spec => []OneSequenceOwner` |
| | `ExpiryIsSafe` | `Spec => []ExpiredIsPast` |
| | `ValidationIsTrue` | `Spec => []ValidatedIsTrue` |
| | `BaselineIsStored` | `Spec => []BaselineBeforeCall` |
| | `TransitionsAreLegal` | `Spec => []NoIllegalTransition` |
| | `ArtifactsAreStable` | `Spec => ArtifactStable` |
| OutcomeProofs | `FurtherInvariance` | `Spec => []Further` |
| | `SettledIsFinal` | `Spec => []SettledNeverLands` |
| | `FailuresAreTrue` | `Spec => []FailuresAreReal` |
| | `AnswersAreStored` | `Spec => []AnswerIsStored` |
| | `ExpiredAnswersAreTrue` | `Spec => []ExpiredAnswerIsPast` |
| | `LoopsTerminate` | `Spec => []LoopsSettle` |
| LifecycleProofs | `LifecycleImplemented` | `Spec => ImplementsLifecycle` |
| | `AttemptsAreEarned` | `Spec => []AttemptsNeverOvercounted` |
| | `RecoveryComesFirst` | `Spec => RecoveryGate` |

**The first layer.** None of the properties is inductive. `ExpiredIsPast`, for
instance, is kept only if a request that is about to write `EXPIRED` compared
with the window of the row it is going to change, although it read that row
before several awaits. So `OrchestratorInvariant!Inductive` says what may still
be relied on after an await:

* `StillHolds(s, i)`: once prepared, the Sequence and the window a request read
  are those of the row now; once signed, the blob is; a signed row is signed or
  settled; a stored baseline stays;
* `LocalFine`: at every program counter, the status the request believed the row
  to have and what it has decided to write are justified by the ledgers closed so
  far (a ledger index it holds is never beyond `closed`, so a window it saw pass
  has passed);
* `PendingFine`: the same for the rows a cycle has read and not yet reached;
* `RowFine`: what each status says of the columns and of the ledger.

`OrchestratorProofs` has the lemmas every action uses (what `Transition` and
`UpdateInStatus` leave alone, that `StillHolds` survives a change of another
column), then preparation and signing, submission, the cycle and the outside. There
is one lemma per action, each concluding `Preserved`: the invariant holds again and no row shrinks
(`RowGrows`), from which `ArtifactStable` follows.

**The second layer.** What a caller is told, and whether an outcome is final,
rests on more. `Further` is added on top of `Inductive`, in three parts.

* `AnswersFine`: what a request has been answered holds of the row. A request that
  reaches `done` keeps its answer while others go on writing, so this needs that a
  blob and a simulation result are written once (`RowInformed`).
* `LoopsFine`: an iteration that repeats finds the row further on (`PastStep`,
  `PastSubmit`). With a `SIGNED` or `SUBMITTED` row the write of an outcome is
  never refused, because no other row has the blob (`HashesUnique`).
* `OutcomesFine`: `Dead(t)` says that no ledger includes `t` and that its window is
  over or a server called it malformed. It is stable as ledgers close, since a
  ledger only includes minted transactions inside their window (`LedgerFine`) and
  the same window is in the blob, in the row and in the row a request read earlier
  (`RowSettled`, `Settling`). A consumed Sequence stays consumed, since `SeqAt`
  never decreases from one ledger to the next (`CountGrows`). `ReachedInWindow`,
  that the account had reached the Sequence of a signed intent before its window
  ended, excludes `SEQUENCE_REGRESSION`: `SEQUENCE_CONFLICT` is then the only way a
  signed intent fails while endpoints report truthfully.

**The lifecycle.** `LifecycleImplemented` is the refinement of section 2. From
`Inductive` and `Further` every action changes at most one row, from one status
to a successor, with the columns it may set (`NextAdvances`, `RowChangeStep`);
`OwnerOf` computes the owner of an account from `OneSequenceOwner`, so such a
change is a step of `IntentLifecycle` or a stutter. `AttemptsAreEarned` needs
that a call not yet recorded is not counted yet: the attempts of a row and the
requests at `record` together (`Recording`) are no more than the calls that were
answered. `RecoveryComesFirst` needs `GateFine`: before recovery every request is
at a program counter in `Gated`, since each of the others is only reached through
`assertRecovered`.

### transition()

`IntentTransitionsProofs` proves, for any number of callers, intents, accounts and
blobs, the refinement that lets the other proofs take `transition` for one step:

| Theorem | States |
|---|---|
| `TransitionsAreSound` | `TransitionsSpec => []Sound` |
| `TransitionIsAtomic` | `TransitionsSpec => ImplementsTransition` |
| `TransitionsTyped` | `TransitionsSpec => []TransitionsTypeOK` |
| `TrailsAreHistories` | `TransitionsSpec => []TrailIsHistory` |
| `TrailsOnlyGrow` | `TransitionsSpec => TrailIsAppendOnly` |

The argument is the one a reader of `intents.repository.ts` makes. A transaction
past its `SELECT` holds the lock of its row (`LocksHeld`), nobody else writes a
locked row, so what the `SELECT` decided still holds at `COMMIT`
(`DecisionsStand`). The lock says nothing of other rows: there the unique indexes
do the work, and they look at versions nobody has committed. `AccountIndexSound`
and `HashIndexSound` say that a transaction in an index has no rival, neither a
committed row nor another open transaction. With them every answer, and every
commit, is that of the one-step transition in the state where it happens.

The audit trail needs `AuditSound` beside it. The trail is a set of rows ordered by
their ids, so that "a history" is said without a sequence: one first row, one last
row whose `to` is the status, and for every other row one that follows it and goes on
from its `to`. An uncommitted row is the only one of its intent (the row lock), its id
is beyond every other's, and its `from` is the committed status, which is where the
trail ends. `COMMIT` therefore adds one row behind all the others, and a rollback
leaves the trail as it was.

### Creation, connection, scheduling

| Module | Theorem | States |
|---|---|---|
| IntentCreationProofs | `CreationIsIdempotent` | `Spec => []AnswersMatchTable` |
| | `CreationIsAudited` | `Spec => []AuditMatchesTable` |
| | `WalksSeeAll` | `Spec => []WalkSeesAll` |
| ConnectionManagerProofs | `ConnectionTypes` | `Spec => []ConnectionTypeOK` |
| | `OneClientServes` | `Spec => []OneServing` |
| | `ShutdownIsClean` | `Spec => []ShutdownCloses` |
| | `AlwaysRecovers` | `Spec => NeverStranded` |
| FinalityTrackerProofs | `TrackerTypes` | `Spec => []TrackerTypeOK` |
| | `TriggersHonoured` | `Spec => []TriggersAreHonoured` |
| | `DestroyedIsQuiet` | `Spec => []NoCycleAfterDestroy` |
| | `ReadinessEarned` | `Spec => []ReadyIsEarned` |

* `CreationInv`: the key of an uncommitted row is nobody else's
  (`UncommittedKeysFree`), so a commit keeps `KeysUnique`; and `SelectsFind`: a
  caller whose `INSERT` met `ON CONFLICT DO NOTHING` waited until the other row was
  committed, so its `SELECT` finds one, and the code's `conflict without an
  existing row` is never thrown.
* `WalkInv`: of the rows of the table, none that the cursor leaves unread has been
  seen, and every row that is still due has been seen or is unread. Underneath, ids are
  the table's own (`IdsInv`), so `created_at` and `id` order it totally; the number of
  newer rows is then an injection into as many places, hence every place is taken
  (`PlacesTaken`). From this follow the two facts a page rests on: a page with no row
  after it holds them all (`LastPage`), and the row the cursor names parts the page
  from the rest (`CursorParts`), whatever the page size. A row committed under the
  walk may be on either side of the cursor; it was not there from the start.
* `ConnectionInv`: while the promise `switching` is pending no client is active,
  and its client is in the state of its phase (`WorkFine`); a client that is
  connected or connecting is the active one or the promise's (`ClientsFine`);
  shutdown waits for the promise and clears the timer (`ShutdownFine`); a client
  that a caller releases outside the promise is nobody else's (`RequestsFine`).
  Each lemma about an action also concludes `Recovering => Recovering'`.
* `TrackerInv`: a trigger that arrives during a cycle is still pending and no cycle
  stops with one (`TriggersPending`); whatever a cycle has gone past is settled or
  `PENDING`, or has degraded it (`GoneThrough`), and the last completed cycle left
  a health that says so (`HealthIsReported`).

### The artifact

`ArtifactIntegrityProofs` takes the replies and the posted texts as any sets at all:
whatever fields a server leaves out or mistypes, in whatever combination.

| Theorem | States |
|---|---|
| `SentBlobsAreIntended` | `ArtifactSpec => []SentIsIntended` |
| `SimulationsAreOfPrepared` | `ArtifactSpec => []SimulatedIsPrepared` |
| `SignersAreEntitled` | `ArtifactSpec => []SignerIsEntitled` |
| `ShownTransactionsAreSignable` | `NullsHaveNoFields => (ArtifactSpec => []ShownIsSignable)` |
| `ArtifactTyped` | `NullsHaveNoFields => (ArtifactSpec => []ArtifactTypeOK)` |
| `OutcomesAreStated` | `NullsHaveNoFields => (ArtifactSpec => []OutcomeIsStated)` |

A transaction is a function on field names, so the first lemmas say when two forms
of one transaction are the same function: what the builders make of a payload field
by field (`BuildTransactionIs`), what the canonical form and the presenter make of
that (`CanonicalIs`, `OrderedIsSame`), and that signing what is shown passes `verify`
(`SignedVerifies`). `IntegrityInv` then says of a row what each check found, and keeps
saying it after the reply is gone: the columns are the builder's (`Prepared`), a
stored simulation is of the row's transaction exactly if the row has not failed for it
(`Simulations`), the stored blob was verified and its key entitled by the reply in
`basis` (`Signatures`), and an outcome rests on the replies in `basis` (`Outcomes`). At
an await (`AtAwait`) it says what was checked before it, such as that a search which
leads to the proof of absence was a complete one.

`NullsHaveNoFields` says that `Absent` and `Bad` have no fields, as `undefined` has
none. TLA+ does not say what the domain of a model value is, and TLC does not evaluate
it, so it is a hypothesis of the theorems which tell a record from the two and no
`ASSUME`.

### What is only model-checked

The liveness properties `OwnersSettle`, `RequestsEnd`, `ProvableRowsSettle`,
`RowsInFrontSettle` and `TransitionsEnd`: fairness and `ENABLED` are beyond the prover.

Induction over data and recursive operators are out of its reach too; no module
uses a recursive operator, and sets with an order on their elements (the audit trail,
a page of a listing) take the place of sequences where a proof needs them. Every
inductive invariant above was first checked with TLC on small instances.

## 6. Where the documentation and the code differ

Two statements of the documentation have a run that refutes them.

* `OutcomeIsProven` (`src/README.md:58`, `src/ARCHITECTURE.md:19`). An intent
  that was never signed through the service is expired by ledger number alone,
  but from `PREPARED` on the API shows the transaction, so a signer can sign and
  broadcast it without attaching it. The run ends with the transaction in a
  validated ledger and the intent `EXPIRED`.
* `AttemptsAreCounted` (`src/ARCHITECTURE.md:115`). Two submits that both hold
  the `SIGNED` row are answered; the second finds the row `SUBMITTED`, and its
  increment is dropped with its transition.

Others were met while modelling. They have no run of their own:

* `src/ARCHITECTURE.md:147` has every write endpoint answer `SERVICE_NOT_READY`
  until the startup pass has completed. `completeSimulation`
  (`preparation/preparation.service.ts:200`) does not check, so `prepare` moves a
  `SIMULATED` intent on right after a restart. `RecoveryGate` allows exactly that
  write and no other.
* A cycle that fails leaves the health as the last completed one set it
  (`finality/finality.service.ts:136-139`), and a row that stays `PENDING` past its
  window, because the account is read from a lagging endpoint, does not degrade it
  (`:126`, `:242`). `ReadyIsEarned` is about the last completed cycle.
* `src/ARCHITECTURE.md:111` has the baseline written before the first call; of
  two concurrent first submits the slower one overwrites it with a later ledger
  (`submission/submission.service.ts:68-74`). It is still stored before either
  call, which is what `BaselineBeforeCall` states, and the search starts from the
  prepared ledger.
* `preparation/preparation.service.ts:174-184` and
  `signing/signing.service.ts:66-77` answer that the intent failed also when
  their transition found the row changed by someone else and wrote nothing.
* `signing/signing.service.ts:51-58` and `preparation/preparation.service.ts:161-168`
  answer `INTENT_EXPIRED` under the same conditions. There the answer is true all
  the same, as `ExpiredAnswerIsPast` shows, although the intent may be `SIGNED` or
  `FAILED` by then.
* `signing/signing.service.ts:63-72` reports `SEQUENCE_CONFLICT` when the intent's
  own transaction was broadcast before it was attached, and
  `SEQUENCE_REGRESSION` when the account is read from an endpoint behind the one
  `prepare` used, after which the transaction can still be included.
* `xrpl/connection-manager.service.ts:134-137` releases a failed client outside
  `switching`, so a new client may connect while the old one is disconnecting
  (`:55-57` and `src/ARCHITECTURE.md:42` speak of one connection). At most one of
  them serves: `OneServing`.
* `finality/finality.service.ts:105-112, 136-139`: a switch that fails aborts the
  cycle. While one endpoint stays down, an unprovable row in front keeps the rows
  behind it from being reached, on every cycle, although the endpoint that is up
  could prove them (`src/ARCHITECTURE.md:121`: each cycle "walks every
  sequence-active intent"). `RowsInFrontSettle` shows that no other rows suffer.
* `src/README.md:118` and `src/ARCHITECTURE.md:104` accept the master key only while
  it is enabled. A reply with neither `account_flags` nor `Flags` counts as enabled
  (`xrpl/types.ts:106-109`), and `SignerIsEntitled` allows it: an account in a ledger
  always has `Flags`.

## 7. What is left out

* In the composition (Orchestrator), fee and amount values and the form of the
  transaction: `VerifiedFor` is what an accepted blob guarantees, and
  ArtifactIntegrity shows how it comes about. Key rotation between reads and
  re-creation of a deleted account.
* In the composition, `account.ledgerIndex ?? validatedLedgerIndex()` always takes
  the index that comes with the account; ArtifactIntegrity has both.
* The hex syntax and the length limit of a posted blob, the cryptography, and the
  binary codec beyond what Artifact states of it.
* Backoff delays, `latestValidatedLedger`, `last_submit_attempt_at`: they decide
  no transition.
* HTTP controllers and DTO validation: one request, one call, no state. Regular
  expressions over strings are better tested than modelled.
* Configuration, errors, request ids, migrations, module wiring: nothing there
  changes at run time. `status()` of the health service and the views of the
  presenter other than `orderedTransaction` copy what the models hold.

## 8. Plan

Done: the core in the order of risk (rows and network, the four services, the
composition and its inductive proof), the two machines around it (connection,
scheduling), creation and listing, `transition` with its audit trail, and the way
of one artifact through parsers, builders, codec and checks. What is left of the
repository is listed in section 7 and has no state to model.

Proved: section 5, which leaves no safety property of a run without a theorem.

What a further step could add: the rotation of keys between two reads and the
re-creation of a deleted account in the composition, which would need an account's
keys in `XrplNetwork`; and a refinement from ArtifactIntegrity to one intent of
Orchestrator, so that `VerifiedFor` is derived rather than shown beside it.
