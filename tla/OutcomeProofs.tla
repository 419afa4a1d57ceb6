---------------------------- MODULE OutcomeProofs ----------------------------
(***************************************************************************)
(* What the answers, the step loops and the outcomes rest on, beyond       *)
(* Inductive: every step keeps AnswersFine, LoopsFine and OutcomesFine.    *)
(***************************************************************************)
EXTENDS OrchestratorProofs

Further == AnswersFine /\ LoopsFine /\ OutcomesFine

-------------------------------------------------------------------------------
(* The ledger only grows, and never past what is proven absent.            *)

\* The ledgers of the next state: those of this one and perhaps one more, which
\* includes nothing that is malformed or past its last ledger.
LedgerGrows ==
    /\ closed \in Nat /\ closed' \in Nat /\ closed <= closed'
    /\ chain \subseteq chain' /\ chain' \subseteq Entry /\ IsFiniteSet(chain')
    /\ banned \subseteq banned'
    /\ \A e \in chain' \ chain : e.tx \notin banned /\ (e.tx # NoTx => closed < e.tx.lls)

Held(C, a, v) == {e \in C : e.acct = a /\ e.at <= v}

\* Later and larger chains hold more transactions of an account.
LEMMA CountGrows ==
    ASSUME NEW C, NEW D, D \subseteq Entry, C \subseteq D, IsFiniteSet(D),
           NEW a, NEW v \in Nat, NEW w \in Nat, v <= w
    PROVE  /\ Cardinality(Held(C, a, v)) \in Nat
           /\ Cardinality(Held(D, a, w)) \in Nat
           /\ Cardinality(Held(C, a, v)) <= Cardinality(Held(D, a, w))
<1>1. Held(C, a, v) \subseteq Held(D, a, w)
  BY DEF Held, Entry
<1>2. IsFiniteSet(Held(D, a, w))
  BY FS_Subset DEF Held
<1>3. /\ IsFiniteSet(Held(C, a, v))
      /\ Cardinality(Held(C, a, v)) <= Cardinality(Held(D, a, w))
  BY <1>1, <1>2, FS_Subset
<1>4. Cardinality(Held(C, a, v)) \in Nat /\ Cardinality(Held(D, a, w)) \in Nat
  BY <1>2, <1>3, FS_CardinalityType
<1>5. QED
  BY <1>3, <1>4

\* The Sequence of an account never goes back, in a later ledger ...
LEMMA SeqMonotone ==
    ASSUME Inductive, NEW a, NEW v \in Nat, NEW w \in Nat, v <= w
    PROVE  SeqAt(a, v) \in Nat /\ SeqAt(a, w) \in Nat /\ SeqAt(a, v) <= SeqAt(a, w)
<1>1. chain \subseteq Entry /\ IsFiniteSet(chain) /\ chain \subseteq chain
  BY DEF Inductive, TypeOK, NetworkTypeOK
<1>2. /\ Cardinality(Held(chain, a, v)) \in Nat /\ Cardinality(Held(chain, a, w)) \in Nat
      /\ Cardinality(Held(chain, a, v)) <= Cardinality(Held(chain, a, w))
  BY <1>1, CountGrows
<1>3. SeqAt(a, v) = 1 + Cardinality(Held(chain, a, v)) /\ SeqAt(a, w) = 1 + Cardinality(Held(chain, a, w))
  BY DEF SeqAt, Held
<1>4. QED
  BY <1>2, <1>3

\* ... and as ledgers close.
LEMMA SeqGrows ==
    ASSUME LedgerGrows, NEW a, NEW v \in Nat, NEW w \in Nat, v <= w
    PROVE  SeqAt(a, v) \in Nat /\ SeqAt(a, w)' \in Nat /\ SeqAt(a, v) <= SeqAt(a, w)'
<1>1. chain \subseteq chain' /\ chain' \subseteq Entry /\ IsFiniteSet(chain')
  BY DEF LedgerGrows
<1>2. /\ Cardinality(Held(chain, a, v)) \in Nat /\ Cardinality(Held(chain', a, w)) \in Nat
      /\ Cardinality(Held(chain, a, v)) <= Cardinality(Held(chain', a, w))
  BY <1>1, CountGrows
<1>3. /\ SeqAt(a, v) = 1 + Cardinality(Held(chain, a, v))
      /\ SeqAt(a, w)' = 1 + Cardinality(Held(chain', a, w))
  BY DEF SeqAt, Held
<1>4. QED
  BY <1>2, <1>3

\* What is dead stays dead: proven absence is for ever.
LEMMA DeadStays ==
    ASSUME LedgerGrows, NEW t \in Tx, Dead(t)
    PROVE  Dead(t)'
<1>1. t.lls \in Nat /\ t # NoTx
  BY NoTxAssumption DEF Tx
<1>2. ~Included(t)'
  BY <1>1 DEF Dead, Included, LedgerGrows
<1>3. (closed >= t.lls \/ t \in banned)'
  BY <1>1 DEF Dead, LedgerGrows
<1>4. QED
  BY <1>2, <1>3 DEF Dead

\* A consumed Sequence stays consumed, a deleted account deleted.
LEMMA ConsumedStays ==
    ASSUME LedgerGrows, NEW i \in Intents, NEW r \in Row, Consumed(i, r)
    PROVE  Consumed(i, r)'
<1>1. r.seq \in Nat
  BY DEF Row
<1>2. SeqAt(AccountOf[i], closed) \in Nat /\ SeqAt(AccountOf[i], closed)' \in Nat
      /\ SeqAt(AccountOf[i], closed) <= SeqAt(AccountOf[i], closed)'
  <2>1. PICK v \in Nat, w \in Nat : v = closed /\ w = closed' /\ v <= w
    BY DEF LedgerGrows
  <2>2. SeqAt(AccountOf[i], v) <= SeqAt(AccountOf[i], w)' /\ SeqAt(AccountOf[i], v) \in Nat
        /\ SeqAt(AccountOf[i], w)' \in Nat
    BY <2>1, SeqGrows
  <2>3. SeqAt(AccountOf[i], closed)' = SeqAt(AccountOf[i], w)'
    BY <2>1 DEF SeqAt
  <2>4. QED
    BY <2>1, <2>2, <2>3
<1>3. ~ExistsAt(AccountOf[i], closed) => ~ExistsAt(AccountOf[i], closed)'
  BY DEF ExistsAt, LedgerGrows, Entry
<1>4. QED
  BY <1>1, <1>2, <1>3 DEF Consumed

\* A Sequence the account had by some ledger it had by that ledger for ever.
LEMMA ReachedStays ==
    ASSUME LedgerGrows, NEW i \in Intents, NEW r \in Row, ReachedInWindow(i, r)
    PROVE  ReachedInWindow(i, r)'
<1>1. r.seq \in Nat /\ r.lls \in Nat /\ r.lls <= r.lls
  BY DEF Row
<1>2. /\ SeqAt(AccountOf[i], r.lls) \in Nat /\ SeqAt(AccountOf[i], r.lls)' \in Nat
      /\ SeqAt(AccountOf[i], r.lls) <= SeqAt(AccountOf[i], r.lls)'
  BY <1>1, SeqGrows
<1>3. QED
  BY <1>1, <1>2 DEF ReachedInWindow

-------------------------------------------------------------------------------
(* Rows and requests a step does not touch.                                *)

\* What a write makes of row i: a legal transition that respects both unique
\* indexes, in which the blob comes with SIGNED and the simulation result with
\* SIMULATED, or an update of a signed row that touches neither.
RowChange(i) ==
    LET r == row[i]
        s == row'[i]
    IN  \/ /\ CanTransition(r.status, s.status)
           /\ s.status \in SequenceActive => ~AccountBusy(i)
           /\ ~HashTaken(i, s.blob)
           /\ IF s.status = "SIGNED" THEN s.blob \in minted ELSE s.blob = r.blob
           /\ s.status # "SIMULATED" => s.sim = r.sim
        \/ /\ r.status \in SignedActive
           /\ s.status = r.status
           /\ s.blob = r.blob
           /\ s.sim = r.sim

RowsMove == \A i \in Intents : row'[i] = row[i] \/ RowChange(i)

\* The statuses only go forward.
LEMMA StatusMoves ==
    ASSUME Inductive, RowsMove, NEW i \in Intents
    PROVE  LET r == row[i]
               s == row'[i]
           IN  /\ r.status # "CREATED" => s.status # "CREATED"
               /\ r.status \notin {"CREATED", "PREPARED"} => s.status \notin {"CREATED", "PREPARED"} /\ s.sim = r.sim
               /\ r.status \notin {"CREATED", "PREPARED", "SIMULATED"} =>
                      s.status \notin {"CREATED", "PREPARED", "SIMULATED"}
               /\ r.status \in SignedActive \cup TerminalStatuses =>
                      /\ s.status \in SignedActive \cup TerminalStatuses
                      /\ s.blob = r.blob
                      /\ r.status # "SIGNED" => s.status # "SIGNED"
                      /\ r.status \in TerminalStatuses => s.status \in TerminalStatuses
<1>1. row[i].status \in IntentStatuses
  BY DEF Inductive, TypeOK, Row
<1>2. row'[i] = row[i] \/ RowChange(i)
  BY DEF RowsMove
<1>3. CASE row'[i] = row[i]
  BY <1>3
<1>4. CASE RowChange(i)
  BY <1>1, <1>4 DEF RowChange, CanTransition, Transitions, IntentStatuses, SignedActive, TerminalStatuses
<1>5. QED
  BY <1>2, <1>3, <1>4

\* What a request was answered stays true.
LEMMA InformedStays ==
    ASSUME Inductive, LedgerGrows, RowsMove, \A i \in Intents : RowGrows(i),
           NEW l \in Local, LocalFine(l), Looping(l), Informed(l)
    PROVE  Informed(l)'
<1>1. CASE l.id \in Intents
  <2>1. /\ row[l.id].status # "CREATED" => row'[l.id].status # "CREATED"
        /\ row[l.id].status \notin {"CREATED", "PREPARED"} =>
               row'[l.id].status \notin {"CREATED", "PREPARED"} /\ row'[l.id].sim = row[l.id].sim
    BY <1>1, StatusMoves
  <2>2. /\ row[l.id].blob # NoTx => row'[l.id].blob = row[l.id].blob
        /\ row[l.id].status # "CREATED" => row'[l.id].lls = row[l.id].lls
    BY <1>1 DEF RowGrows
  <2>3. row[l.id].lls \in Nat
    BY <1>1 DEF Inductive, TypeOK, Row
  <2>4. l.pc = "complete" => row'[l.id].sim = l.snap.sim
    BY <2>1 DEF Informed, Looping
  <2>5. l.result = "ok" /\ l.op = "prepare" => row'[l.id].status # "PREPARED" /\ row'[l.id].sim = "tesSUCCESS"
    BY <2>1 DEF Informed
  <2>6. l.result = "expired" => WindowOver(closed, row[l.id])'
    <3>1. l.result = "expired" => closed > row[l.id].lls /\ row[l.id].status # "CREATED"
      BY DEF Informed, WindowOver
    <3>2. l.result = "expired" => closed' > row'[l.id].lls
      BY <2>2, <2>3, <3>1 DEF LedgerGrows
    <3>3. QED
      BY <3>2 DEF WindowOver
  <2>7. QED
    BY <1>1, <2>1, <2>2, <2>4, <2>5, <2>6 DEF Informed
<1>2. CASE l.id \notin Intents
  BY <1>2 DEF Informed, LocalFine, Awaits
<1>3. QED
  BY <1>1, <1>2

\* A loop that waits is never set back.
LEMMA LoopingStays ==
    ASSUME Inductive, RowsMove, NEW l \in Local, LocalFine(l), Looping(l)
    PROVE  Looping(l)'
<1>1. CASE l.id \in Intents
  <2> DEFINE r == row[l.id].status
             s == row'[l.id].status
  <2>1. /\ r # "CREATED" => s # "CREATED"
        /\ r \notin {"CREATED", "PREPARED"} => s \notin {"CREATED", "PREPARED"}
        /\ r \notin {"CREATED", "PREPARED", "SIMULATED"} => s \notin {"CREATED", "PREPARED", "SIMULATED"}
        /\ r \in SignedActive \cup TerminalStatuses =>
               /\ s \in SignedActive \cup TerminalStatuses
               /\ r # "SIGNED" => s # "SIGNED"
               /\ r \in TerminalStatuses => s \in TerminalStatuses
    BY <1>1, StatusMoves
  <2>2. l.pc \in Submitting => r \in SignedActive \cup TerminalStatuses
    BY <1>1 DEF LocalFine, StillHolds
  <2>3. l.steps \in Nat
    BY DEF Local
  <2>4. l.pc = "reload" => PastStep(l.steps, s)
    <3>1. l.pc = "reload" => PastStep(l.steps, r)
      BY DEF Looping, Preparing
    <3>2. QED
      BY <2>1, <2>3, <3>1 DEF PastStep
  <2>5. l.pc = "reloadSubmit" => PastSubmit(l.steps, s)
    <3>1. l.pc = "reloadSubmit" => PastSubmit(l.steps, r) /\ r \in SignedActive \cup TerminalStatuses
      BY DEF Looping
    <3>2. r = "SUBMITTED" => r \notin TerminalStatuses
      BY DEF TerminalStatuses
    <3>3. s \in TerminalStatuses => s # "SUBMITTED" /\ s # "SIGNED"
      BY DEF TerminalStatuses
    <3>4. r \in SignedActive \cup TerminalStatuses /\ r # "SIGNED" /\ r # "SUBMITTED" => r \in TerminalStatuses
      BY DEF SignedActive
    <3>5. QED
      BY <2>1, <2>3, <3>1, <3>3, <3>4 DEF PastSubmit
  <2>6. /\ l.pc = "complete" => s \notin {"CREATED", "PREPARED"}
        /\ l.pc \in Submitting /\ l.snap.status = "SUBMITTED" => s # "SIGNED"
        /\ l.pc = "reloadSubmit" => s \in SignedActive \cup TerminalStatuses
    BY <2>1, <2>2 DEF Looping
  <2> HIDE DEF r, s
  <2>7. QED
    BY <2>4, <2>5, <2>6 DEF Looping, s
<1>2. CASE l.id \notin Intents
  <2>1. l.pc \notin Awaits \ {"rows"}
    BY <1>2 DEF LocalFine
  <2>2. QED
    BY <2>1 DEF Looping, Awaits, Preparing, Resolving, Submitting
<1>3. QED
  BY <1>1, <1>2

\* A decision that waits to be written stays right.
LEMMA SettlingStays ==
    ASSUME Inductive, LedgerGrows, NEW l \in Local, LocalFine(l), Settling(l)
    PROVE  Settling(l)'
<1>1. l.snap \in Row /\ (l.pc \in Awaits \ {"rows"} => l.id \in Intents)
  BY DEF Local, LocalFine
<1>2. l.pc \in Resolving \cup Submitting => l.snap.blob \in Tx
  BY <1>1 DEF LocalFine, StillHolds, Inductive, TypeOK, NetworkTypeOK, Awaits, Resolving, Submitting
<1>3. l.pc \in Resolving \cup Submitting /\ Dead(l.snap.blob) => Dead(l.snap.blob)'
  BY <1>2, DeadStays
<1>4. l.pc \in {"sign", "outcome"} /\ Consumed(l.id, l.snap) => Consumed(l.id, l.snap)'
  BY <1>1, ConsumedStays DEF Awaits
<1>5. l.pc = "sign" /\ ReachedInWindow(l.id, l.snap) => ReachedInWindow(l.id, l.snap)'
  BY <1>1, ReachedStays DEF Awaits
<1>6. QED
  BY <1>3, <1>4, <1>5 DEF Settling, Resolving, Submitting

\* So does what the row of a settled intent says.
LEMMA RowStays ==
    ASSUME Inductive, LedgerGrows, NEW i \in Intents, row'[i] = row[i], RowInformed(i), RowSettled(i)
    PROVE  RowInformed(i)' /\ RowSettled(i)'
<1>1. row[i] \in Row /\ row[i].prep \in Nat /\ row[i].lls \in Nat
  BY DEF Inductive, TypeOK, Row
<1>2. RowInformed(i)'
  BY DEF RowInformed
<1>3. PICK r \in Row : r = row[i]
  BY <1>1
<1>4. r.blob # NoTx /\ Dead(r.blob) => Dead(r.blob)'
  BY DeadStays DEF Row
<1>5. /\ Consumed(i, r) => Consumed(i, r)'
      /\ ReachedInWindow(i, r) => ReachedInWindow(i, r)'
  BY ConsumedStays, ReachedStays
<1>6. r.prep <= closed => r.prep <= closed'
  BY <1>1, <1>3 DEF LedgerGrows
<1>7. RowSettled(i)'
  BY <1>3, <1>4, <1>5, <1>6 DEF RowSettled
<1>8. QED
  BY <1>2, <1>7

-------------------------------------------------------------------------------
(* A step of one request or of the cycle.                                  *)

Known(l) == Informed(l) /\ Looping(l) /\ Settling(l)

\* What a step of p has to establish: for itself, and for the row it writes.
Advance(p) ==
    /\ \A q \in Processes \ {p} : proc'[q] = proc[q]
    /\ \A i \in Intents :
          row'[i] = row[i] \/ (i = proc[p].id /\ RowChange(i) /\ RowInformed(i)' /\ RowSettled(i)')
    /\ Known(proc[p])'

\* Every row and request but those the step touches keep what they had.
LEMMA AdvanceKeeps ==
    ASSUME Inductive, Preserved, Further, LedgerGrows, LedgerFine', NEW p \in Processes, Advance(p)
    PROVE  Further'
<1>1. RowsMove /\ \A i \in Intents : RowGrows(i)
  BY DEF Advance, RowsMove, Preserved
<1>2. \A i \in Intents : RowInformed(i)' /\ RowSettled(i)'
  BY RowStays DEF Advance, Further, AnswersFine, OutcomesFine
<1>3. ASSUME NEW q \in Processes
      PROVE  Known(proc[q])'
  <2>1. CASE q = p
    BY <2>1 DEF Advance
  <2>2. CASE q # p
    <3>1. PICK l \in Local : l = proc[q] /\ LocalFine(l) /\ Informed(l) /\ Looping(l) /\ Settling(l)
      BY DEF Inductive, TypeOK, Further, AnswersFine, LoopsFine, OutcomesFine
    <3>2. Informed(l)' /\ Looping(l)' /\ Settling(l)'
      BY <1>1, <3>1, InformedStays, LoopingStays, SettlingStays
    <3>3. proc'[q] = l
      BY <2>2, <3>1 DEF Advance
    <3>4. QED
      BY <3>2, <3>3 DEF Known
  <2>3. QED
    BY <2>1, <2>2
<1>4. HashesUnique'
  <2> SUFFICES ASSUME NEW i \in Intents, NEW j \in Intents, row'[i].blob # NoTx, row'[i].blob = row'[j].blob, i # j
               PROVE  FALSE
    BY DEF HashesUnique
  <2>1. \A k \in Intents : row'[k].blob = row[k].blob \/ (k = proc[p].id /\ ~HashTaken(k, row'[k].blob))
    BY DEF Advance, RowChange
  <2>2. \A k \in Intents : \A m \in Intents \ {k} : ~HashTaken(k, row'[k].blob) /\ row'[k].blob # NoTx => row[m].blob # row'[k].blob
    BY DEF HashTaken
  <2>3. row[i].blob # NoTx => row'[i].blob = row[i].blob
    BY <1>1 DEF RowGrows
  <2>4. QED
    BY <2>1, <2>2, <2>3 DEF Further, LoopsFine, HashesUnique
<1>5. QED
  BY <1>2, <1>3, <1>4 DEF Further, AnswersFine, LoopsFine, OutcomesFine, Known

\* A step of a request or of the cycle leaves the ledgers alone.
LEMMA QuietLedger ==
    ASSUME Inductive, Further, UNCHANGED <<closed, chain, minted>>, banned \subseteq banned'
    PROVE  LedgerGrows /\ LedgerFine'
<1>1. LedgerGrows
  BY DEF LedgerGrows, Inductive, TypeOK, NetworkTypeOK
<1>2. LedgerFine'
  BY DEF LedgerFine, Further, OutcomesFine
<1>3. QED
  BY <1>1, <1>2

-------------------------------------------------------------------------------
(* What a request may be left with.                                        *)

\* An answer that is true of the row.
LEMMA AnsweredKnown ==
    ASSUME NEW p, NEW local \in Local, NEW result \in Results \ {"unsettled"},
           proc'[p] = Answered(local, result),
           result # "error" => local.id \in Intents /\ row'[local.id].status # "CREATED",
           result = "ok" /\ local.op = "attach" => local.blob # NoTx /\ row'[local.id].blob = local.blob,
           result = "ok" /\ local.op = "prepare" =>
               row'[local.id].status # "PREPARED" /\ row'[local.id].sim = "tesSUCCESS",
           result = "expired" => closed' > row'[local.id].lls
    PROVE  Known(proc[p])'
<1>1. CASE result = "error"
  <2>1. proc'[p] = Idle
    BY <1>1 DEF Answered
  <2>2. proc'[p].pc = "idle" /\ proc'[p].result = "none"
    BY <2>1 DEF Idle
  <2>3. QED
    BY <2>2 DEF Known, Informed, Looping, Settling, Preparing, Attaching, Submitting, Resolving
<1>2. CASE result # "error"
  <2>1. proc'[p] = [Idle EXCEPT !.op = local.op, !.id = local.id, !.pc = "done",
                                !.blob = local.blob, !.result = result]
    BY <1>2 DEF Answered
  <2>2. /\ proc'[p].op = local.op /\ proc'[p].id = local.id /\ proc'[p].pc = "done"
        /\ proc'[p].blob = local.blob /\ proc'[p].result = result
    BY <2>1 DEF Idle
  <2>3. Informed(proc[p])'
    BY <1>2, <2>2 DEF Informed, WindowOver, Preparing, Attaching, Submitting
  <2>4. Looping(proc[p])' /\ Settling(proc[p])'
    BY <2>2 DEF Looping, Settling, Preparing, Submitting, Resolving
  <2>5. QED
    BY <2>3, <2>4 DEF Known
<1>3. QED
  BY <1>1, <1>2

\* An error, or no answer at all, says nothing.
LEMMA IdleKnown == ASSUME NEW p, proc'[p] = Idle PROVE Known(proc[p])'
<1>1. proc'[p].pc = "idle" /\ proc'[p].result = "none"
  BY DEF Idle
<1>2. QED
  BY <1>1 DEF Known, Informed, Looping, Settling, Preparing, Attaching, Submitting, Resolving

\* The next iteration of prepare, begun with the row as it is.
LEMMA PrepareStepKnown ==
    ASSUME Inductive', NEW p, NEW local \in Local, local.op = "prepare", local.id \in Intents,
           NEW n \in Nat, PastStep(n, row'[local.id].status), RowInformed(local.id)',
           proc'[p] = PrepareStep(local, row'[local.id], n)
    PROVE  Known(proc[p])'
<1> DEFINE r == row'[local.id]
           await(pc) == [Idle EXCEPT !.op = "prepare", !.id = local.id, !.pc = pc,
                                     !.snap = r, !.steps = n]
<1>1. n # MaxPrepareSteps /\ r.status \in IntentStatuses
  BY DEF PastStep, MaxPrepareSteps, Inductive, TypeOK, Row
<1>2. \/ proc'[p] = Answered(local, "error")
      \/ r.status = "EXPIRED" /\ proc'[p] = Answered(local, "expired")
      \/ /\ r.status \in {"AWAITING_SIGNATURE", "SIGNED", "SUBMITTED", "VALIDATED"}
         /\ proc'[p] = Answered(local, "ok")
      \/ \E pc \in {"account", "simLedger", "complete"} :
             /\ pc = "account" => r.status = "CREATED"
             /\ pc = "simLedger" => r.status = "PREPARED"
             /\ pc = "complete" => r.status = "SIMULATED"
             /\ proc'[p] = await(pc)
  BY <1>1 DEF PrepareStep, IntentStatuses
<1>3. CASE proc'[p] = Answered(local, "error")
  BY <1>3, AnsweredKnown DEF Results
<1>4. CASE r.status = "EXPIRED" /\ proc'[p] = Answered(local, "expired")
  <2>1. closed' > r.lls
    BY <1>4 DEF Inductive, RowFine, WindowOver
  <2>2. QED
    BY <1>4, <2>1, AnsweredKnown DEF Results
<1>5. CASE /\ r.status \in {"AWAITING_SIGNATURE", "SIGNED", "SUBMITTED", "VALIDATED"}
           /\ proc'[p] = Answered(local, "ok")
  <2>1. r.sim = "tesSUCCESS" /\ r.status # "CREATED" /\ r.status # "PREPARED"
    BY <1>5 DEF RowInformed
  <2>2. QED
    BY <1>5, <2>1, AnsweredKnown DEF Results
<1>6. ASSUME NEW pc \in {"account", "simLedger", "complete"},
             pc = "account" => r.status = "CREATED",
             pc = "simLedger" => r.status = "PREPARED",
             pc = "complete" => r.status = "SIMULATED",
             proc'[p] = await(pc)
      PROVE  Known(proc[p])'
  <2>1. /\ proc'[p].pc = pc /\ proc'[p].id = local.id /\ proc'[p].snap = r /\ proc'[p].op = "prepare"
        /\ proc'[p].steps = n /\ proc'[p].result = "none"
    BY <1>6 DEF Idle
  <2>2. Informed(proc[p])'
    BY <2>1 DEF Informed, Preparing, Attaching, Submitting
  <2>3. Looping(proc[p])'
    BY <1>6, <2>1 DEF Looping, Submitting, Resolving
  <2>4. Settling(proc[p])'
    BY <2>1 DEF Settling
  <2>5. QED
    BY <2>2, <2>3, <2>4 DEF Known
<1>7. QED
  BY <1>2, <1>3, <1>4, <1>5, <1>6

\* prepare about to read the row again, which is further than the one it held.
LEMMA RereadKnown ==
    ASSUME NEW p, NEW local \in Local, local.id \in Intents,
           PastStep(local.steps + 1, row'[local.id].status), proc'[p] = Reread(local)
    PROVE  Known(proc[p])'
<1>1. /\ proc'[p].pc = "reload" /\ proc'[p].id = local.id /\ proc'[p].op = "prepare"
      /\ proc'[p].steps = local.steps + 1 /\ proc'[p].result = "none"
  BY DEF Reread, Idle
<1>2. QED
  BY <1>1 DEF Known, Informed, Looping, Settling, Preparing, Attaching, Submitting, Resolving

\* submit about to read the row again.
LEMMA ResumeKnown ==
    ASSUME NEW p, NEW i \in Intents, NEW n \in Nat,
           row'[i].status \in SignedActive \cup TerminalStatuses, PastSubmit(n, row'[i].status),
           proc'[p] = [Idle EXCEPT !.op = "submit", !.id = i, !.pc = "reloadSubmit", !.steps = n]
    PROVE  Known(proc[p])'
<1>1. /\ proc'[p].pc = "reloadSubmit" /\ proc'[p].id = i /\ proc'[p].op = "submit"
      /\ proc'[p].steps = n /\ proc'[p].result = "none"
  BY DEF Idle
<1>2. QED
  BY <1>1 DEF Known, Informed, Looping, Settling, Preparing, Attaching, Submitting, Resolving

\* The next iteration of submit, begun with the row as it is.
LEMMA SubmitStepKnown ==
    ASSUME NEW p, NEW local \in Local, local.op = "submit", local.id \in Intents,
           NEW n \in Nat, PastSubmit(n, row'[local.id].status),
           proc'[p] = SubmitStep(local, row'[local.id], n)
    PROVE  Known(proc[p])'
<1> DEFINE r == row'[local.id]
<1>1. n # MaxSubmitSteps
  BY DEF PastSubmit, MaxSubmitSteps
<1>2. \/ proc'[p] = Answered(local, "error")
      \/ r.status = "VALIDATED" /\ proc'[p] = Answered(local, "ok")
      \/ r.status \in SignedActive /\
         proc'[p] = [Idle EXCEPT !.op = "submit", !.id = local.id, !.pc = "submitLedger",
                                 !.snap = r, !.steps = n]
  BY <1>1 DEF SubmitStep
<1>3. CASE proc'[p] = Answered(local, "error")
  BY <1>3, AnsweredKnown DEF Results
<1>4. CASE r.status = "VALIDATED" /\ proc'[p] = Answered(local, "ok")
  BY <1>4, AnsweredKnown DEF Results
<1>5. CASE proc'[p] = [Idle EXCEPT !.op = "submit", !.id = local.id, !.pc = "submitLedger",
                                   !.snap = r, !.steps = n]
  <2>1. /\ proc'[p].pc = "submitLedger" /\ proc'[p].id = local.id /\ proc'[p].snap = r
        /\ proc'[p].op = "submit" /\ proc'[p].steps = n /\ proc'[p].result = "none"
    BY <1>5 DEF Idle
  <2>2. QED
    BY <2>1 DEF Known, Informed, Looping, Settling, Preparing, Attaching, Submitting, Resolving
<1>6. QED
  BY <1>2, <1>3, <1>4, <1>5

\* The cycle with its next row, or at its end.
LEMMA NextRowKnown ==
    ASSUME Inductive, NEW rows, NextRow(rows)
    PROVE  Known(proc[Worker])'
<1>1. Worker \in Processes
  BY DEF Processes
<1>2. CASE Goto(Worker, Idle)
  <2>1. proc'[Worker] = Idle
    BY <1>1, <1>2 DEF Goto, Inductive, TypeOK
  <2>2. QED
    BY <2>1, IdleKnown
<1>3. ASSUME NEW e \in rows,
             Goto(Worker,
                  [Idle EXCEPT !.op = "cycle", !.id = e.id, !.snap = e.snap,
                               !.led = proc[Worker].led, !.budget = proc[Worker].budget,
                               !.pc = IF e.snap.status \in UnsignedActive
                                      THEN "expireRow" ELSE "lookup"])
      PROVE  Known(proc[Worker])'
  <2>1. proc'[Worker].pc \in {"expireRow", "lookup"} /\ proc'[Worker].result = "none" /\ proc'[Worker].steps = 0
    BY <1>1, <1>3 DEF Goto, Inductive, TypeOK, Idle
  <2>2. QED
    BY <2>1 DEF Known, Informed, Looping, Settling, Preparing, Attaching, Submitting, Resolving, PastSubmit
<1>4. QED
  BY <1>2, <1>3 DEF NextRow

-------------------------------------------------------------------------------
(* Steps in general.                                                       *)

\* What the step of p may use.
LEMMA Standing ==
    ASSUME Inductive, Further, NEW p \in Processes
    PROVE  /\ proc[p] \in Local /\ LocalFine(proc[p]) /\ Known(proc[p])
           /\ proc[p].snap \in Row /\ proc[p].steps \in Nat
           /\ proc[p].pc \in Awaits \ {"rows"} =>
                  /\ proc[p].id \in Intents
                  /\ row[proc[p].id] \in Row
                  /\ StillHolds(proc[p].snap, proc[p].id)
                  /\ RowFine(proc[p].id) /\ RowInformed(proc[p].id) /\ RowSettled(proc[p].id)
<1>1. Known(proc[p])
  BY DEF Further, AnswersFine, LoopsFine, OutcomesFine, Known
<1>2. proc[p].pc \in Awaits \ {"rows"} =>
          RowFine(proc[p].id) /\ RowInformed(proc[p].id) /\ RowSettled(proc[p].id)
  BY AwaitingCaller DEF Further, AnswersFine, OutcomesFine, Inductive
<1>3. QED
  BY <1>1, <1>2, AwaitingCaller

\* A step that writes no row.
LEMMA ReadAdvances ==
    ASSUME Inductive, NEW p \in Processes, NEW l, Goto(p, l), row' = row,
           proc'[p] = l => Known(proc[p])'
    PROVE  Advance(p)
  BY DEF Advance, Goto, Inductive, TypeOK

\* What a transition to `to` may put in the columns of row i.
CarriesOver(i, to, new) ==
    /\ to = "SIGNED" => new.blob \in minted
    /\ to # "SIGNED" => new.blob = row[i].blob
    /\ to # "SIMULATED" => new.sim = row[i].sim

\* A transition either changes nothing or moves the row on.
TransitionStep(i, from, to, new) ==
    /\ \A j \in Intents \ {i} : row'[j] = row[j]
    /\ \/ row'[i] = row[i] /\ TransitionResult(i, from, to, new) # "updated"
       \/ /\ TransitionResult(i, from, to, new) = "updated"
          /\ row'[i] = [new EXCEPT !.status = to]
          /\ row[i].status \in from
          /\ RowChange(i)

\* The store's transition() does that.
LEMMA TransitionChanges ==
    ASSUME Inductive, NEW i \in Intents, NEW from, NEW to \in IntentStatuses, NEW new \in Row,
           Transition(i, from, to, new),
           row[i].status \in from => CarriesOver(i, to, new)
    PROVE  TransitionStep(i, from, to, new)
<1>1. CASE TransitionResult(i, from, to, new) # "updated"
  BY <1>1 DEF Transition, TransitionStep
<1>2. CASE TransitionResult(i, from, to, new) = "updated"
  <2>1. /\ row[i].status \in from /\ CanTransition(row[i].status, to)
        /\ to \in SequenceActive => ~AccountBusy(i)
        /\ ~HashTaken(i, new.blob)
    BY <1>2 DEF TransitionResult
  <2>2. row' = [row EXCEPT ![i] = Updated(new, to)]
    BY <1>2 DEF Transition
  <2>3. row'[i] = [new EXCEPT !.status = to] /\ \A j \in Intents \ {i} : row'[j] = row[j]
    BY <2>2 DEF Updated, Inductive, TypeOK
  <2>4. row'[i].status = to /\ row'[i].blob = new.blob /\ row'[i].sim = new.sim
    BY <2>3 DEF Row
  <2>5. RowChange(i)
    BY <2>1, <2>4 DEF RowChange, CarriesOver
  <2>6. QED
    BY <1>2, <2>1, <2>3, <2>5 DEF TransitionStep
<1>3. QED
  BY <1>1, <1>2

\* A step that writes the row of p with transition().
LEMMA WriteAdvances ==
    ASSUME Inductive, NEW p \in Processes, NEW l, Goto(p, l),
           NEW i \in Intents, i = proc[p].id,
           NEW from, NEW to \in IntentStatuses, NEW new \in Row,
           Transition(i, from, to, new),
           row[i].status \in from => CarriesOver(i, to, new),
           /\ row'[i] = [new EXCEPT !.status = to]
           /\ row[i].status \in from
           => RowInformed(i)' /\ RowSettled(i)',
           Known(proc[p])'
    PROVE  Advance(p)
<1>1. TransitionStep(i, from, to, new)
  BY TransitionChanges
<1>2. \A q \in Processes \ {p} : proc'[q] = proc[q]
  BY DEF Goto, Inductive, TypeOK
<1>3. QED
  BY <1>1, <1>2 DEF Advance, TransitionStep

\* An answer of an error.
LEMMA ErrorAdvances ==
    ASSUME Inductive, NEW p \in Processes, Reply(p, "error"), row' = row
    PROVE  Advance(p)
<1>1. Goto(p, Idle)
  BY DEF Reply, Answered
<1>2. QED
  BY <1>1, ReadAdvances, IdleKnown

\* How a request moves from one await of a row to the next.
MovesOn(l, m) ==
    /\ m.id = l.id /\ m.op = l.op /\ m.snap = l.snap /\ m.steps = l.steps
    /\ m.result = l.result /\ m.blob = l.blob
    /\ \/ /\ l.pc \in {"account", "current", "ledger"} /\ m.pc \in {"current", "ledger", "prepare"}
          /\ m.seq # 0
       \/ l.pc = "simLedger" /\ m.pc \in {"expire", "simulate"}
       \/ l.pc = "signAccount" /\ m.pc = "sign"
       \/ l.pc \in Submitting /\ m.pc \in Submitting \cup {"lookup"}
       \/ l.pc \in Resolving /\ m.pc \in Resolving

\* Such a move keeps what the request knew.
LEMMA MoveAdvances ==
    ASSUME Inductive, Further, NEW p \in Processes, NEW l \in Local, l = proc[p],
           NEW m \in Local, Goto(p, m), row' = row, UNCHANGED <<closed, chain>>,
           l.pc \in Awaits \ {"rows"}, MovesOn(l, m), Settling(m)'
    PROVE  Advance(p)
<1>1. Known(l) /\ LocalFine(l)
  BY Standing
<1>2. l.result = "none" /\ m.pc # "done"
  BY <1>1 DEF Known, Informed, Awaits, MovesOn, Submitting, Resolving
<1>3. Informed(m)'
  BY <1>1, <1>2 DEF Known, Informed, Preparing, Attaching, Submitting, Resolving, MovesOn
<1>4. Looping(m)'
  BY <1>1, <1>2 DEF Known, Looping, Preparing, Attaching, Submitting, Resolving, LocalFine, MovesOn
<1>5. proc'[p] = m => Known(proc[p])'
  BY <1>3, <1>4 DEF Known
<1>6. QED
  BY <1>5, ReadAdvances

-------------------------------------------------------------------------------
(* POST prepare.                                                           *)

\* After any outcome of its transition prepare is one iteration further, with a
\* row that is further too.
LEMMA AfterPrepareKnown ==
    ASSUME Inductive, Inductive', Further, NEW c \in Callers, proc[c].pc \in Preparing,
           NEW i \in Intents, i = proc[c].id, NEW outcome,
           AfterTransition(c, outcome,
               PrepareStep(proc[c], row'[i], proc[c].steps + 1), Reread(proc[c])),
           outcome \in {"updated", "undefined"} => PastStep(proc[c].steps + 1, row'[i].status),
           RowInformed(i)'
    PROVE  Known(proc[c])'
<1>1. PICK l \in Local : l = proc[c] /\ l.op = "prepare" /\ l.id = i /\ l.steps + 1 \in Nat
  BY Standing DEF Processes, Preparing, Awaits, Known, Informed
<1>2. \/ outcome = "updated" /\ proc'[c] = PrepareStep(l, row'[i], l.steps + 1)
      \/ outcome = "undefined" /\ proc'[c] = Reread(l)
      \/ proc'[c] = Answered(l, "error")
  BY <1>1 DEF AfterTransition, Goto, Inductive, TypeOK, Processes
<1>3. CASE outcome = "updated" /\ proc'[c] = PrepareStep(l, row'[i], l.steps + 1)
  <2>1. PastStep(l.steps + 1, row'[l.id].status) /\ RowInformed(l.id)'
    BY <1>1, <1>3
  <2>2. QED
    BY <1>1, <1>3, <2>1, PrepareStepKnown
<1>4. CASE outcome = "undefined" /\ proc'[c] = Reread(l)
  BY <1>1, <1>4, RereadKnown
<1>5. CASE proc'[c] = Answered(l, "error")
  BY <1>5, IdleKnown DEF Answered
<1>6. QED
  BY <1>2, <1>3, <1>4, <1>5

\* prepare reads the row.
LEMMA StartPrepareAdvances ==
    ASSUME Inductive, Inductive', Further, NEW c \in Callers, StartPrepare(c)
    PROVE  Advance(c)
<1>1. PICK i \in Intents :
          Goto(c, PrepareStep([Idle EXCEPT !.op = "prepare", !.id = i], row[i], 0))
  BY DEF StartPrepare
<1>2. PICK local \in Local : local = [Idle EXCEPT !.op = "prepare", !.id = i]
  BY IdleFine DEF Local
<1>3. local.op = "prepare" /\ local.id = i
  BY <1>2 DEF Idle
<1>4. RowInformed(i)' /\ row' = row /\ PastStep(0, row'[i].status)
  BY DEF StartPrepare, Further, AnswersFine, RowInformed, PastStep
<1>5. Goto(c, PrepareStep(local, row'[local.id], 0))
  BY <1>1, <1>2, <1>3, <1>4
<1>6. proc'[c] = PrepareStep(local, row'[local.id], 0) => Known(proc[c])'
  BY <1>3, <1>4, PrepareStepKnown
<1>7. QED
  BY <1>4, <1>5, <1>6, ReadAdvances DEF Processes

\* prepare reads the row again after a lost race.
LEMMA ReloadPrepareAdvances ==
    ASSUME Inductive, Inductive', Further, NEW c \in Callers, ReloadPrepare(c)
    PROVE  Advance(c)
<1>1. PICK l \in Local : l = proc[c] /\ l.op = "prepare" /\ l.id \in Intents /\ l.steps \in Nat
                         /\ PastStep(l.steps, row[l.id].status) /\ RowInformed(l.id)
  BY Standing DEF ReloadPrepare, At, Processes, Preparing, Awaits, Known, Informed, Looping
<1>2. row' = row /\ Goto(c, PrepareStep(l, row'[l.id], l.steps)) /\ PastStep(l.steps, row'[l.id].status)
  BY <1>1 DEF ReloadPrepare
<1>3. RowInformed(l.id)'
  BY <1>1, <1>2 DEF RowInformed
<1>4. proc'[c] = PrepareStep(l, row'[l.id], l.steps) => Known(proc[c])'
  BY <1>1, <1>2, <1>3, PrepareStepKnown
<1>5. QED
  BY <1>2, <1>4, ReadAdvances DEF Processes

\* Sequences start at 1.
LEMMA SeqPositive == ASSUME Inductive, NEW a, NEW v PROVE SeqAt(a, v) \in Nat \ {0}
<1>1. IsFiniteSet({e \in chain : e.acct = a /\ e.at <= v})
  BY FS_Subset DEF Inductive
<1>2. Cardinality({e \in chain : e.acct = a /\ e.at <= v}) \in Nat
  BY <1>1, FS_CardinalityType
<1>3. QED
  BY <1>2 DEF SeqAt

\* prepare reads the validated account.
LEMMA ReadValidatedAccountAdvances ==
    ASSUME Inductive, Further, NEW c \in Callers, ReadValidatedAccount(c), UNCHANGED <<closed, chain>>
    PROVE  Advance(c)
<1>1. PICK l \in Local : l = proc[c] /\ l.pc = "account"
  BY Standing DEF Processes, ReadValidatedAccount, At
<1>2. PICK v \in Views, s \in Nat \ {0} :
          \/ Goto(c, [l EXCEPT !.pc = "current", !.seq = s])
          \/ Reply(c, "error")
  BY <1>1, SeqPositive DEF ReadValidatedAccount
<1>3. CASE Reply(c, "error")
  BY <1>3, ErrorAdvances DEF ReadValidatedAccount, Processes
<1>4. CASE Goto(c, [l EXCEPT !.pc = "current", !.seq = s])
  <2>1. PICK m \in Local : m = [l EXCEPT !.pc = "current", !.seq = s]
    BY DEF Local, Awaits
  <2>2. MovesOn(l, m) /\ Settling(m)'
    BY <1>1, <2>1 DEF Local, MovesOn, Settling
  <2>3. QED
    BY <1>1, <1>4, <2>1, <2>2, MoveAdvances DEF ReadValidatedAccount, Processes, Awaits
<1>5. QED
  BY <1>2, <1>3, <1>4

\* prepare compares the open ledger's account.
LEMMA ReadCurrentAccountAdvances ==
    ASSUME Inductive, Further, NEW c \in Callers, ReadCurrentAccount(c), UNCHANGED <<closed, chain>>
    PROVE  Advance(c)
<1>1. PICK l \in Local : l = proc[c] /\ l.pc = "current" /\ l.seq # 0
  BY Standing DEF Processes, ReadCurrentAccount, At, Known, Informed
<1>2. CASE Reply(c, "error")
  BY <1>2, ErrorAdvances DEF ReadCurrentAccount, Processes
<1>3. CASE Goto(c, [l EXCEPT !.pc = "ledger"])
  <2>1. PICK m \in Local : m = [l EXCEPT !.pc = "ledger"]
    BY DEF Local, Awaits
  <2>2. MovesOn(l, m) /\ Settling(m)'
    BY <1>1, <2>1 DEF Local, MovesOn, Settling
  <2>3. QED
    BY <1>1, <1>3, <2>1, <2>2, MoveAdvances DEF ReadCurrentAccount, Processes, Awaits
<1>4. QED
  BY <1>1, <1>2, <1>3 DEF ReadCurrentAccount

\* prepare reads the ledger its window starts from.
LEMMA ReadPreparedLedgerAdvances ==
    ASSUME Inductive, Further, NEW c \in Callers, ReadPreparedLedger(c), UNCHANGED <<closed, chain>>
    PROVE  Advance(c)
<1>1. PICK l \in Local : l = proc[c] /\ l.pc = "ledger" /\ l.seq # 0
  BY Standing DEF Processes, ReadPreparedLedger, At, Known, Informed
<1>2. PICK v \in Nat : Goto(c, [l EXCEPT !.pc = "prepare", !.led = v])
  BY <1>1, ViewsAreClosed DEF ReadPreparedLedger
<1>3. PICK m \in Local : m = [l EXCEPT !.pc = "prepare", !.led = v]
  BY DEF Local, Awaits
<1>4. MovesOn(l, m) /\ Settling(m)'
  BY <1>1, <1>3 DEF Local, MovesOn, Settling
<1>5. QED
  BY <1>1, <1>2, <1>3, <1>4, MoveAdvances DEF ReadPreparedLedger, Processes, Awaits

\* prepare compares the window of the row with a validated ledger.
LEMMA ReadSimulationLedgerAdvances ==
    ASSUME Inductive, Further, NEW c \in Callers, ReadSimulationLedger(c), UNCHANGED <<closed, chain>>
    PROVE  Advance(c)
<1>1. PICK l \in Local : l = proc[c] /\ l.pc = "simLedger"
  BY Standing DEF Processes, ReadSimulationLedger, At
<1>2. PICK pc \in {"expire", "simulate"} : Goto(c, [l EXCEPT !.pc = pc])
  BY <1>1 DEF ReadSimulationLedger
<1>3. PICK m \in Local : m = [l EXCEPT !.pc = pc]
  BY DEF Local, Awaits
<1>4. MovesOn(l, m) /\ Settling(m)'
  BY <1>1, <1>3 DEF Local, MovesOn, Settling
<1>5. QED
  BY <1>1, <1>2, <1>3, <1>4, MoveAdvances DEF ReadSimulationLedger, Processes, Awaits

\* What a caller that writes may use: its local variables and the row.
LEMMA Writing ==
    ASSUME Inductive, Further, NEW p \in Processes, proc[p].pc \in Awaits \ {"rows"}
    PROVE  \E l \in Local, i \in Intents :
              /\ l = proc[p] /\ i = l.id /\ row[i] \in Row /\ LocalFine(l) /\ Known(l)
              /\ l.snap \in Row /\ StillHolds(l.snap, i)
              /\ RowFine(i) /\ RowInformed(i) /\ RowSettled(i)
  BY Standing

\* PREPARED is written with a Sequence, a window and nothing else.
LEMMA WritePreparedAdvances ==
    ASSUME Inductive, Inductive', Further, NEW c \in Callers, WritePrepared(c), UNCHANGED <<closed, chain>>
    PROVE  Advance(c)
<1>1. PICK l \in Local, i \in Intents :
          /\ l = proc[c] /\ i = l.id /\ row[i] \in Row /\ LocalFine(l) /\ Known(l)
          /\ RowFine(i) /\ RowInformed(i) /\ RowSettled(i) /\ l.pc = "prepare"
  BY Writing DEF WritePrepared, At, Awaits, Processes
<1>2. /\ l.led \in Nat /\ l.led <= closed /\ l.seq \in Nat \ {0} /\ l.steps = 0
  BY <1>1 DEF Local, LocalFine, Known, Informed, Looping, Preparing, PastStep
<1>3. PICK new \in Row :
          new = [row[i] EXCEPT !.seq = l.seq, !.prep = l.led, !.lls = LastLedgerSequenceFor(l.led)]
  <2>1. LastLedgerSequenceFor(l.led) \in Nat
    BY <1>2, PreparationAssumption DEF LastLedgerSequenceFor
  <2>2. QED
    BY <1>1, <1>2, <2>1 DEF Row
<1> DEFINE result == TransitionResult(i, {"CREATED"}, "PREPARED", new)
<1>4. /\ Transition(i, {"CREATED"}, "PREPARED", new)
      /\ AfterTransition(c, result, PrepareStep(l, Updated(new, "PREPARED"), l.steps + 1), Reread(l))
      /\ "PREPARED" \in IntentStatuses
  BY <1>1, <1>3 DEF WritePrepared, IntentStatuses
<1>5. /\ new.seq = l.seq /\ new.prep = l.led /\ new.lls = l.led + LastLedgerOffset
      /\ new.blob = row[i].blob /\ new.sim = row[i].sim /\ new.failure = row[i].failure
  BY <1>1, <1>3 DEF Row, LastLedgerSequenceFor
<1>6. CarriesOver(i, "PREPARED", new)
  BY <1>5 DEF CarriesOver
<1>7. TransitionStep(i, {"CREATED"}, "PREPARED", new)
  BY <1>4, <1>6, TransitionChanges
<1>8. ASSUME row'[i] = [new EXCEPT !.status = "PREPARED"], row[i].status \in {"CREATED"}
      PROVE  RowInformed(i)' /\ RowSettled(i)'
  <2>1. /\ row'[i].status = "PREPARED" /\ row'[i].seq = l.seq /\ row'[i].prep = l.led
        /\ row'[i].lls = l.led + LastLedgerOffset /\ row'[i].blob = row[i].blob
        /\ row'[i].sim = row[i].sim /\ row'[i].failure = row[i].failure
    BY <1>5, <1>8 DEF Row
  <2>2. row[i].blob = NoTx /\ row[i].failure = "none" /\ row[i].sim = "none"
    BY <1>1, <1>8 DEF RowFine, RowSettled, RowInformed, TerminalStatuses
  <2>3. RowInformed(i)'
    BY <1>2, <2>1, <2>2 DEF RowInformed
  <2>4. RowSettled(i)'
    BY <1>2, <2>1, <2>2 DEF RowSettled, TerminalStatuses
  <2>5. QED
    BY <2>3, <2>4
<1>9. RowInformed(i)'
  <2>1. CASE row'[i] = row[i]
    BY <1>1, <2>1 DEF RowInformed
  <2>2. CASE row'[i] # row[i]
    BY <1>7, <1>8, <2>2 DEF TransitionStep
  <2>3. QED
    BY <2>1, <2>2
<1>10. result \in {"updated", "undefined"} => PastStep(l.steps + 1, row'[i].status)
  <2>1. CASE result = "updated"
    <3>1. row'[i].status = "PREPARED"
      BY <1>7, <2>1 DEF TransitionStep, Row
    <3>2. QED
      BY <1>2, <3>1 DEF PastStep
  <2>2. CASE result = "undefined"
    <3>1. row[i].status # "CREATED" /\ row'[i] = row[i]
      BY <1>7, <2>2 DEF TransitionStep, TransitionResult
    <3>2. QED
      BY <1>2, <3>1 DEF PastStep
  <2>3. QED
    BY <2>1, <2>2
<1>11. AfterTransition(c, result, PrepareStep(l, row'[i], l.steps + 1), Reread(l))
  <2>1. result = "updated" => row'[i] = Updated(new, "PREPARED")
    BY <1>7 DEF TransitionStep, Updated
  <2>2. QED
    BY <1>4, <2>1 DEF AfterTransition
<1> HIDE DEF result
<1>12. Known(proc[c])'
  BY <1>1, <1>9, <1>10, <1>11, AfterPrepareKnown DEF Preparing
<1>13. PICK m : Goto(c, m)
  BY <1>11 DEF AfterTransition
<1>14. QED
  BY <1>1, <1>4, <1>6, <1>8, <1>12, <1>13, WriteAdvances DEF Processes

\* INTENT_EXPIRED is answered past the window, whoever settled the row.
LEMMA ExpirePreparedAdvances ==
    ASSUME Inductive, Preserved, Further, NEW c \in Callers, ExpirePrepared(c), UNCHANGED <<closed, chain>>
    PROVE  Advance(c)
<1>1. PICK l \in Local, i \in Intents :
          /\ l = proc[c] /\ i = l.id /\ row[i] \in Row /\ LocalFine(l) /\ Known(l)
          /\ l.snap \in Row /\ StillHolds(l.snap, i)
          /\ RowFine(i) /\ RowInformed(i) /\ RowSettled(i) /\ l.pc = "expire"
  BY Writing DEF ExpirePrepared, At, Awaits, Processes
<1>2. /\ Transition(i, {"PREPARED"}, "EXPIRED", row[i]) /\ Goto(c, Answered(l, "expired"))
      /\ "EXPIRED" \in IntentStatuses
  BY <1>1 DEF ExpirePrepared, Reply, IntentStatuses
<1>3. CarriesOver(i, "EXPIRED", row[i])
  BY DEF CarriesOver
<1>4. ASSUME row'[i] = [row[i] EXCEPT !.status = "EXPIRED"], row[i].status \in {"PREPARED"}
      PROVE  RowInformed(i)' /\ RowSettled(i)'
  <2>1. /\ row'[i].status = "EXPIRED" /\ row'[i].seq = row[i].seq /\ row'[i].prep = row[i].prep
        /\ row'[i].lls = row[i].lls /\ row'[i].blob = row[i].blob
        /\ row'[i].sim = row[i].sim /\ row'[i].failure = row[i].failure
    BY <1>1, <1>4 DEF Row
  <2>2. row[i].blob = NoTx /\ row[i].failure = "none"
    BY <1>1, <1>4 DEF RowFine, RowSettled, TerminalStatuses, UnsignedActive
  <2>3. RowInformed(i)'
    BY <1>1, <1>4, <2>1 DEF RowInformed
  <2>4. RowSettled(i)'
    BY <1>1, <1>4, <2>1, <2>2 DEF RowSettled
  <2>5. QED
    BY <2>3, <2>4
<1>5. Known(proc[c])'
  <2>1. proc'[c] = Answered(l, "expired") /\ l.op = "prepare"
    BY <1>1, <1>2 DEF Goto, Inductive, TypeOK, Processes, Known, Informed, Preparing
  <2>2. row'[i].status # "CREATED" /\ row'[i].lls = l.snap.lls
    BY <1>1 DEF LocalFine, StillHolds, Preserved, RowGrows
  <2>3. closed' > row'[i].lls
    BY <1>1, <2>2 DEF LocalFine, WindowOver
  <2>4. QED
    BY <1>1, <2>1, <2>2, <2>3, AnsweredKnown DEF Results
<1>6. QED
  BY <1>1, <1>2, <1>3, <1>4, <1>5, WriteAdvances DEF Processes

\* A simulation mismatch is no outcome of a signed transaction.
LEMMA FailMismatchAdvances ==
    ASSUME Inductive, Preserved, Further, NEW c \in Callers, FailMismatch(c), UNCHANGED <<closed, chain>>
    PROVE  Advance(c)
<1>1. PICK l \in Local, i \in Intents :
          /\ l = proc[c] /\ i = l.id /\ row[i] \in Row /\ LocalFine(l) /\ Known(l)
          /\ StillHolds(l.snap, i)
          /\ RowFine(i) /\ RowInformed(i) /\ RowSettled(i) /\ l.pc = "simulate"
  BY Writing DEF FailMismatch, At, Awaits, Processes
<1>2. PICK new \in Row : new = [row[i] EXCEPT !.failure = "SIMULATION_ARTIFACT_MISMATCH"]
  BY <1>1 DEF Row, FailureCodes
<1>3. /\ Transition(i, {"PREPARED"}, "FAILED", new) /\ Goto(c, Answered(l, "failed"))
      /\ "FAILED" \in IntentStatuses
  BY <1>1, <1>2 DEF FailMismatch, Reply, IntentStatuses
<1>4. /\ new.seq = row[i].seq /\ new.prep = row[i].prep /\ new.lls = row[i].lls
      /\ new.blob = row[i].blob /\ new.sim = row[i].sim
      /\ new.failure = "SIMULATION_ARTIFACT_MISMATCH"
  BY <1>1, <1>2 DEF Row
<1>5. CarriesOver(i, "FAILED", new)
  BY <1>4 DEF CarriesOver
<1>6. ASSUME row'[i] = [new EXCEPT !.status = "FAILED"], row[i].status \in {"PREPARED"}
      PROVE  RowInformed(i)' /\ RowSettled(i)'
  <2>1. /\ row'[i].status = "FAILED" /\ row'[i].seq = row[i].seq /\ row'[i].prep = row[i].prep
        /\ row'[i].lls = row[i].lls /\ row'[i].blob = row[i].blob
        /\ row'[i].sim = row[i].sim /\ row'[i].failure = "SIMULATION_ARTIFACT_MISMATCH"
    BY <1>4, <1>6 DEF Row
  <2>2. row[i].blob = NoTx
    BY <1>1, <1>6 DEF RowFine, UnsignedActive
  <2>3. RowInformed(i)'
    BY <1>1, <1>6, <2>1 DEF RowInformed
  <2>4. RowSettled(i)'
    BY <1>1, <1>6, <2>1, <2>2 DEF RowSettled, TerminalStatuses
  <2>5. QED
    BY <2>3, <2>4
<1>7. Known(proc[c])'
  <2>1. proc'[c] = Answered(l, "failed") /\ l.op = "prepare" /\ l.snap.status = "PREPARED"
    BY <1>1, <1>3 DEF Goto, Inductive, TypeOK, Processes, Known, Informed, Looping, Preparing
  <2>2. row'[i].status # "CREATED"
    BY <1>1, <2>1 DEF StillHolds, Preserved, RowGrows
  <2>3. QED
    BY <1>1, <2>1, <2>2, AnsweredKnown DEF Results
<1>8. QED
  BY <1>1, <1>3, <1>5, <1>6, <1>7, WriteAdvances DEF Processes

\* The simulation result is written with SIMULATED.
LEMMA WriteSimulatedAdvances ==
    ASSUME Inductive, Inductive', Further, NEW c \in Callers, WriteSimulated(c), UNCHANGED <<closed, chain>>
    PROVE  Advance(c)
<1>1. PICK l \in Local, i \in Intents :
          /\ l = proc[c] /\ i = l.id /\ row[i] \in Row /\ LocalFine(l) /\ Known(l)
          /\ StillHolds(l.snap, i)
          /\ RowFine(i) /\ RowInformed(i) /\ RowSettled(i) /\ l.pc = "simulate"
  BY Writing DEF WriteSimulated, At, Awaits, Processes
<1>2. l.steps \in Nat /\ l.steps <= 1 /\ row[i].status # "CREATED"
  BY <1>1 DEF Local, Known, Looping, Preparing, PastStep, StillHolds
<1>3. PICK engineResult \in {"tesSUCCESS", "other"}, new \in Row :
          /\ new = [row[i] EXCEPT !.sim = engineResult]
          /\ Transition(i, {"PREPARED"}, "SIMULATED", new)
          /\ AfterTransition(c, TransitionResult(i, {"PREPARED"}, "SIMULATED", new),
                 PrepareStep(l, Updated(new, "SIMULATED"), l.steps + 1), Reread(l))
  <2>1. ASSUME NEW engineResult \in {"tesSUCCESS", "other"}
        PROVE  [row[i] EXCEPT !.sim = engineResult] \in Row
    BY <1>1 DEF Row
  <2>2. QED
    BY <1>1, <2>1 DEF WriteSimulated
<1> DEFINE result == TransitionResult(i, {"PREPARED"}, "SIMULATED", new)
<1>4. /\ new.seq = row[i].seq /\ new.prep = row[i].prep /\ new.lls = row[i].lls
      /\ new.blob = row[i].blob /\ new.failure = row[i].failure /\ "SIMULATED" \in IntentStatuses
  BY <1>1, <1>3 DEF Row, IntentStatuses
<1>5. CarriesOver(i, "SIMULATED", new)
  BY <1>4 DEF CarriesOver
<1>6. TransitionStep(i, {"PREPARED"}, "SIMULATED", new)
  BY <1>3, <1>4, <1>5, TransitionChanges
<1>7. ASSUME row'[i] = [new EXCEPT !.status = "SIMULATED"], row[i].status \in {"PREPARED"}
      PROVE  RowInformed(i)' /\ RowSettled(i)'
  <2>1. /\ row'[i].status = "SIMULATED" /\ row'[i].seq = row[i].seq /\ row'[i].prep = row[i].prep
        /\ row'[i].lls = row[i].lls /\ row'[i].blob = row[i].blob /\ row'[i].failure = row[i].failure
    BY <1>4, <1>7 DEF Row
  <2>2. row[i].blob = NoTx /\ row[i].failure = "none"
    BY <1>1, <1>7 DEF RowFine, RowSettled, TerminalStatuses, UnsignedActive
  <2>3. RowInformed(i)'
    BY <1>1, <1>7, <2>1 DEF RowInformed
  <2>4. RowSettled(i)'
    BY <1>1, <1>7, <2>1, <2>2 DEF RowSettled, TerminalStatuses
  <2>5. QED
    BY <2>3, <2>4
<1>8. RowInformed(i)'
  <2>1. CASE row'[i] = row[i]
    BY <1>1, <2>1 DEF RowInformed
  <2>2. CASE row'[i] # row[i]
    BY <1>6, <1>7, <2>2 DEF TransitionStep
  <2>3. QED
    BY <2>1, <2>2
<1>9. result \in {"updated", "undefined"} => PastStep(l.steps + 1, row'[i].status)
  <2>1. CASE result = "updated"
    <3>1. row'[i].status = "SIMULATED"
      BY <1>6, <2>1 DEF TransitionStep, Row
    <3>2. QED
      BY <1>2, <3>1 DEF PastStep
  <2>2. CASE result = "undefined"
    <3>1. row[i].status # "PREPARED" /\ row'[i] = row[i]
      BY <1>6, <2>2 DEF TransitionStep, TransitionResult
    <3>2. QED
      BY <1>2, <3>1 DEF PastStep
  <2>3. QED
    BY <2>1, <2>2
<1>10. AfterTransition(c, result, PrepareStep(l, row'[i], l.steps + 1), Reread(l))
  <2>1. result = "updated" => row'[i] = Updated(new, "SIMULATED")
    BY <1>6 DEF TransitionStep, Updated
  <2>2. QED
    BY <1>3, <2>1 DEF AfterTransition
<1> HIDE DEF result
<1>11. Known(proc[c])'
  BY <1>1, <1>8, <1>9, <1>10, AfterPrepareKnown DEF Preparing
<1>12. PICK m : Goto(c, m)
  BY <1>10 DEF AfterTransition
<1>13. QED
  BY <1>1, <1>3, <1>4, <1>5, <1>7, <1>11, <1>12, WriteAdvances DEF Processes

\* Only a simulation that succeeded leads to a signature.
LEMMA CompleteSimulationAdvances ==
    ASSUME Inductive, Inductive', Further, NEW c \in Callers, CompleteSimulation(c), UNCHANGED <<closed, chain>>
    PROVE  Advance(c)
<1>1. PICK l \in Local, i \in Intents :
          /\ l = proc[c] /\ i = l.id /\ row[i] \in Row /\ LocalFine(l) /\ Known(l)
          /\ RowFine(i) /\ RowInformed(i) /\ RowSettled(i) /\ l.pc = "complete"
  BY Writing DEF CompleteSimulation, At, Awaits, Processes
<1>2. /\ l.steps \in Nat /\ l.steps <= 2 /\ row[i].status \notin {"CREATED", "PREPARED"}
      /\ row[i].sim = l.snap.sim
  BY <1>1 DEF Local, Known, Informed, Looping, Preparing, PastStep
<1>3. PICK to \in {"AWAITING_SIGNATURE", "REJECTED"} :
          to = IF l.snap.sim = "tesSUCCESS" THEN "AWAITING_SIGNATURE" ELSE "REJECTED"
  OBVIOUS
<1> DEFINE result == TransitionResult(i, {"SIMULATED"}, to, row[i])
<1>4. /\ Transition(i, {"SIMULATED"}, to, row[i])
      /\ AfterTransition(c, result,
             IF to = "REJECTED" THEN Answered(l, "error")
             ELSE PrepareStep(l, Updated(row[i], to), l.steps + 1), Reread(l))
      /\ to \in IntentStatuses
  BY <1>1, <1>3 DEF CompleteSimulation, IntentStatuses
<1>5. CarriesOver(i, to, row[i])
  BY <1>3 DEF CarriesOver
<1>6. TransitionStep(i, {"SIMULATED"}, to, row[i])
  BY <1>1, <1>4, <1>5, TransitionChanges
<1>7. ASSUME row'[i] = [row[i] EXCEPT !.status = to], row[i].status \in {"SIMULATED"}
      PROVE  RowInformed(i)' /\ RowSettled(i)'
  <2>1. /\ row'[i].status = to /\ row'[i].seq = row[i].seq /\ row'[i].prep = row[i].prep
        /\ row'[i].lls = row[i].lls /\ row'[i].blob = row[i].blob
        /\ row'[i].sim = row[i].sim /\ row'[i].failure = row[i].failure
    BY <1>1, <1>7 DEF Row
  <2>2. row[i].blob = NoTx /\ row[i].failure = "none"
    BY <1>1, <1>7 DEF RowFine, RowSettled, TerminalStatuses, UnsignedActive
  <2>3. RowInformed(i)'
    BY <1>1, <1>2, <1>3, <1>7, <2>1 DEF RowInformed
  <2>4. RowSettled(i)'
    BY <1>1, <1>7, <2>1, <2>2 DEF RowSettled, TerminalStatuses
  <2>5. QED
    BY <2>3, <2>4
<1>8. RowInformed(i)'
  <2>1. CASE row'[i] = row[i]
    BY <1>1, <2>1 DEF RowInformed
  <2>2. CASE row'[i] # row[i]
    BY <1>6, <1>7, <2>2 DEF TransitionStep
  <2>3. QED
    BY <2>1, <2>2
<1>9. result \in {"updated", "undefined"} => PastStep(l.steps + 1, row'[i].status)
  <2>1. CASE result = "updated"
    <3>1. row'[i].status = to
      BY <1>1, <1>6, <2>1 DEF TransitionStep, Row
    <3>2. QED
      BY <1>2, <1>3, <3>1 DEF PastStep
  <2>2. CASE result = "undefined"
    <3>1. row[i].status # "SIMULATED" /\ row'[i] = row[i]
      BY <1>6, <2>2 DEF TransitionStep, TransitionResult
    <3>2. QED
      BY <1>2, <3>1 DEF PastStep
  <2>3. QED
    BY <2>1, <2>2
<1>10. result = "updated" => row'[i] = Updated(row[i], to)
  BY <1>6 DEF TransitionStep, Updated
<1> HIDE DEF result
<1>11. Known(proc[c])'
  <2>1. CASE to = "REJECTED" /\ result = "updated"
    <3>1. proc'[c] = Idle
      BY <1>4, <2>1 DEF AfterTransition, Goto, Answered, Inductive, TypeOK, Processes
    <3>2. QED
      BY <3>1, IdleKnown
  <2>2. CASE ~(to = "REJECTED" /\ result = "updated")
    <3>1. AfterTransition(c, result, PrepareStep(l, row'[i], l.steps + 1), Reread(l))
      BY <1>4, <1>10, <2>2 DEF AfterTransition
    <3>2. QED
      BY <1>1, <1>8, <1>9, <3>1, AfterPrepareKnown DEF Preparing
  <2>3. QED
    BY <2>1, <2>2
<1>12. PICK m : Goto(c, m)
  BY <1>4 DEF AfterTransition
<1>13. QED
  BY <1>1, <1>4, <1>5, <1>7, <1>11, <1>12, WriteAdvances DEF Processes

\* Every step of prepare.
LEMMA PrepareAdvances ==
    ASSUME Inductive, Preserved, Further, NEW c \in Callers, Prepare(c), UNCHANGED <<closed, chain>>
    PROVE  Advance(c)
<1>1. Inductive'
  BY DEF Preserved
<1>2. QED
  BY <1>1, StartPrepareAdvances, ReloadPrepareAdvances, ReadValidatedAccountAdvances,
     ReadCurrentAccountAdvances, ReadPreparedLedgerAdvances, WritePreparedAdvances,
     ReadSimulationLedgerAdvances, ExpirePreparedAdvances, FailMismatchAdvances,
     WriteSimulatedAdvances, CompleteSimulationAdvances DEF Prepare

-------------------------------------------------------------------------------
(* POST signature.                                                         *)

\* The answer for a settled or signed row.
LEMMA SettledAnswerKnown ==
    ASSUME Inductive', NEW p, NEW local \in Local, local.op = "attach", local.id \in Intents,
           local.blob # NoTx, row'[local.id].status # "AWAITING_SIGNATURE",
           proc'[p] = SettledAnswer(local, row'[local.id])
    PROVE  Known(proc[p])'
<1> DEFINE r == row'[local.id]
<1>1. \/ proc'[p] = Answered(local, "error")
      \/ r.status = "EXPIRED" /\ proc'[p] = Answered(local, "expired")
      \/ /\ r.status \in {"SIGNED", "SUBMITTED", "VALIDATED"} /\ r.blob = local.blob
         /\ proc'[p] = Answered(local, "ok")
  BY DEF SettledAnswer
<1>2. CASE proc'[p] = Answered(local, "error")
  BY <1>2, IdleKnown DEF Answered
<1>3. CASE r.status = "EXPIRED" /\ proc'[p] = Answered(local, "expired")
  <2>1. closed' > r.lls
    BY <1>3 DEF Inductive, RowFine, WindowOver
  <2>2. QED
    BY <1>3, <2>1, AnsweredKnown DEF Results
<1>4. CASE /\ r.status \in {"SIGNED", "SUBMITTED", "VALIDATED"} /\ r.blob = local.blob
           /\ proc'[p] = Answered(local, "ok")
  BY <1>4, AnsweredKnown DEF Results
<1>5. QED
  BY <1>1, <1>2, <1>3, <1>4

\* attach reads the row.
LEMMA StartAttachAdvances ==
    ASSUME Inductive, Inductive', Further, NEW c \in Callers, StartAttach(c), UNCHANGED <<closed, chain>>
    PROVE  Advance(c)
<1>1. PICK i \in Intents, t \in minted :
          LET local == [Idle EXCEPT !.op = "attach", !.id = i, !.blob = t]
          IN  IF row[i].status # "AWAITING_SIGNATURE"
              THEN Goto(c, SettledAnswer(local, row[i]))
              ELSE IF ~AssertRecovered \/ ~VerifiedFor(t, i, row[i])
              THEN Goto(c, Answered(local, "error"))
              ELSE Goto(c, [local EXCEPT !.pc = "signAccount", !.snap = row[i]])
  BY DEF StartAttach
<1>2. t \in Tx /\ t # NoTx /\ row[i] \in Row /\ row' = row
  BY NoTxAssumption DEF StartAttach, Inductive, TypeOK, NetworkTypeOK
<1>3. PICK local \in Local : local = [Idle EXCEPT !.op = "attach", !.id = i, !.blob = t]
  BY <1>2, IdleFine DEF Local
<1>4. local.op = "attach" /\ local.id = i /\ local.blob = t /\ local.result = "none" /\ local.steps = 0
  BY <1>3 DEF Idle
<1>5. \/ row[i].status # "AWAITING_SIGNATURE" /\ Goto(c, SettledAnswer(local, row[i]))
      \/ Goto(c, Idle)
      \/ VerifiedFor(t, i, row[i]) /\ Goto(c, [local EXCEPT !.pc = "signAccount", !.snap = row[i]])
  BY <1>1, <1>3 DEF Answered
<1>6. CASE row[i].status # "AWAITING_SIGNATURE" /\ Goto(c, SettledAnswer(local, row[i]))
  <2>1. proc'[c] = SettledAnswer(local, row[i]) => Known(proc[c])'
    BY <1>2, <1>4, <1>6, SettledAnswerKnown
  <2>2. QED
    BY <1>2, <1>6, <2>1, ReadAdvances DEF Processes
<1>7. CASE Goto(c, Idle)
  BY <1>2, <1>7, ReadAdvances, IdleKnown DEF Processes
<1>8. CASE VerifiedFor(t, i, row[i]) /\ Goto(c, [local EXCEPT !.pc = "signAccount", !.snap = row[i]])
  <2>1. PICK m \in Local : m = [local EXCEPT !.pc = "signAccount", !.snap = row[i]]
    BY <1>2 DEF Local, Awaits
  <2>2. /\ m.pc = "signAccount" /\ m.op = "attach" /\ m.blob = t /\ m.snap = row[i]
        /\ m.result = "none"
    BY <1>2, <1>4, <2>1 DEF Local
  <2>3. Settling(m)'
    BY <1>8, <2>2 DEF Settling, VerifiedFor
  <2>4. Informed(m)' /\ Looping(m)'
    BY <1>2, <2>2 DEF Informed, Looping, Preparing, Attaching, Submitting, Resolving
  <2>5. proc'[c] = m => Known(proc[c])'
    BY <2>3, <2>4 DEF Known
  <2>6. QED
    BY <1>2, <1>8, <2>1, <2>5, ReadAdvances DEF Processes
<1>9. QED
  BY <1>5, <1>6, <1>7, <1>8

\* attach decides from one account_info: only an account that reached the prepared
\* Sequence inside the window leads to SIGNED, only one beyond it to a conflict.
LEMMA ReadSigningAccountAdvances ==
    ASSUME Inductive, Further, LedgerGrows, NEW c \in Callers, ReadSigningAccount(c), UNCHANGED <<closed, chain>>
    PROVE  Advance(c)
<1>1. PICK l \in Local, i \in Intents :
          /\ l = proc[c] /\ i = l.id /\ LocalFine(l) /\ Known(l) /\ l.snap \in Row
          /\ l.pc = "signAccount"
  BY Writing DEF ReadSigningAccount, At, Awaits, Processes
<1> DEFINE a == AccountOf[i]
           r == l.snap
<1>2. PICK v \in Views :
          IF ~ExistsAt(a, v) THEN Reply(c, "error")
          ELSE IF WindowOver(v, r) THEN Goto(c, [l EXCEPT !.pc = "sign", !.want = Decide("EXPIRED", "none", 0)])
          ELSE IF ~AssertAuthorized(l.blob.key) THEN Reply(c, "error")
          ELSE IF SeqAt(a, v) > r.seq
               THEN Goto(c, [l EXCEPT !.pc = "sign", !.want = Decide("FAILED", "SEQUENCE_CONFLICT", 0)])
          ELSE IF SeqAt(a, v) < r.seq
               THEN Goto(c, [l EXCEPT !.pc = "sign", !.want = Decide("FAILED", "SEQUENCE_REGRESSION", 0)])
          ELSE Goto(c, [l EXCEPT !.pc = "sign", !.want = Decide("SIGNED", "none", 0)])
  BY <1>1 DEF ReadSigningAccount
<1>3. /\ v \in Nat /\ v <= closed /\ closed \in Nat /\ r.seq \in Nat /\ r.lls \in Nat
  BY <1>1, ViewsAreClosed DEF Row, Inductive, TypeOK, NetworkTypeOK
<1>4. /\ SeqAt(a, v) \in Nat /\ SeqAt(a, closed) \in Nat /\ SeqAt(a, r.lls) \in Nat
      /\ SeqAt(a, v) <= SeqAt(a, closed)
      /\ v <= r.lls => SeqAt(a, v) <= SeqAt(a, r.lls)
  <2>1. SeqAt(a, v) \in Nat /\ SeqAt(a, closed) \in Nat /\ SeqAt(a, v) <= SeqAt(a, closed)
    BY <1>3, SeqMonotone
  <2>2. SeqAt(a, r.lls) \in Nat
    BY CountIsNat
  <2>3. v <= r.lls => SeqAt(a, v) <= SeqAt(a, r.lls)
    BY <1>3, SeqMonotone
  <2>4. QED
    BY <2>1, <2>2, <2>3
<1>5. \/ Reply(c, "error")
      \/ \E to \in {"SIGNED", "EXPIRED", "FAILED"}, failure \in FailureCodes \cup {"none"} :
            /\ Goto(c, [l EXCEPT !.pc = "sign", !.want = Decide(to, failure, 0)])
            /\ to # "FAILED" => failure = "none"
            /\ failure = "SEQUENCE_CONFLICT" => SeqAt(a, v) > r.seq
            /\ to = "SIGNED" => v <= r.lls /\ SeqAt(a, v) >= r.seq
  BY <1>2, <1>3, <1>4 DEF FailureCodes, WindowOver
<1>6. CASE Reply(c, "error")
  BY <1>6, ErrorAdvances DEF ReadSigningAccount, Processes
<1>7. ASSUME NEW to \in {"SIGNED", "EXPIRED", "FAILED"}, NEW failure \in FailureCodes \cup {"none"},
             Goto(c, [l EXCEPT !.pc = "sign", !.want = Decide(to, failure, 0)]),
             to # "FAILED" => failure = "none",
             failure = "SEQUENCE_CONFLICT" => SeqAt(a, v) > r.seq,
             to = "SIGNED" => v <= r.lls /\ SeqAt(a, v) >= r.seq
      PROVE  Advance(c)
  <2>1. /\ Decide(to, failure, 0) \in [to : IntentStatuses, failure : FailureCodes \cup {"none"}, final : Nat]
        /\ Decide(to, failure, 0).to = to /\ Decide(to, failure, 0).failure = failure
    BY DEF Decide, IntentStatuses
  <2>2. PICK m \in Local : m = [l EXCEPT !.pc = "sign", !.want = Decide(to, failure, 0)]
    BY <2>1 DEF Local, Awaits
  <2>3. /\ m.pc = "sign" /\ m.want.to = to /\ m.want.failure = failure /\ m.snap = r /\ m.id = i
        /\ m.blob = l.blob /\ MovesOn(l, m)
    BY <1>1, <2>1, <2>2 DEF Local, MovesOn
  <2>4. failure = "SEQUENCE_CONFLICT" => Consumed(i, r)'
    <3>1. failure = "SEQUENCE_CONFLICT" => Consumed(i, r)
      BY <1>3, <1>4, <1>7 DEF Consumed
    <3>2. QED
      BY <1>1, <3>1, ConsumedStays
  <2>5. to = "SIGNED" => ReachedInWindow(i, r)'
    <3>1. to = "SIGNED" => ReachedInWindow(i, r)
      BY <1>3, <1>4, <1>7 DEF ReachedInWindow
    <3>2. QED
      BY <1>1, <3>1, ReachedStays
  <2>6. Settling(m)'
    BY <1>1, <1>7, <2>3, <2>4, <2>5 DEF Settling, Known
  <2>7. QED
    BY <1>1, <1>7, <2>2, <2>3, <2>6, MoveAdvances DEF ReadSigningAccount, Processes, Awaits
<1>8. QED
  BY <1>5, <1>6, <1>7

\* The blob is stored with SIGNED, the failure with FAILED.
LEMMA WriteSigningAdvances ==
    ASSUME Inductive, Preserved, Further, LedgerGrows, NEW c \in Callers, WriteSigning(c), UNCHANGED <<closed, chain>>
    PROVE  Advance(c)
<1>1. PICK l \in Local, i \in Intents :
          /\ l = proc[c] /\ i = l.id /\ row[i] \in Row /\ LocalFine(l) /\ Known(l)
          /\ l.snap \in Row /\ StillHolds(l.snap, i)
          /\ RowFine(i) /\ RowInformed(i) /\ RowSettled(i) /\ l.pc = "sign"
  BY Writing DEF WriteSigning, At, Awaits, Processes
<1>2. PICK to \in {"SIGNED", "EXPIRED", "FAILED"} : to = l.want.to
  BY <1>1 DEF LocalFine
<1>3. /\ l.blob \in minted /\ l.blob \in Tx /\ l.want.failure \in FailureCodes \cup {"none"}
      /\ l.snap.status = "AWAITING_SIGNATURE" /\ l.blob # NoTx /\ l.op = "attach"
      /\ row[i].seq = l.snap.seq /\ row[i].lls = l.snap.lls /\ row[i].status # "CREATED"
  BY <1>1 DEF LocalFine, Local, StillHolds, Inductive, TypeOK, NetworkTypeOK, Known, Informed, Attaching
<1>4. PICK new \in Row :
          new = IF to = "SIGNED" THEN [row[i] EXCEPT !.blob = l.blob]
                ELSE [row[i] EXCEPT !.failure = l.want.failure]
  BY <1>1, <1>3 DEF Row
<1>5. PICK said \in {"ok", "expired", "failed"} :
          /\ said = CASE to = "SIGNED" -> "ok" [] to = "EXPIRED" -> "expired" [] OTHER -> "failed"
          /\ said = "ok" <=> to = "SIGNED"
          /\ said = "expired" => to = "EXPIRED"
  BY DEF WriteSigning
<1> DEFINE result == TransitionResult(i, {"AWAITING_SIGNATURE"}, to, new)
<1>6. /\ Transition(i, {"AWAITING_SIGNATURE"}, to, new)
      /\ AfterTransition(c, result, Answered(l, said),
             IF to = "SIGNED"
             THEN [Idle EXCEPT !.op = "attach", !.id = i, !.pc = "reloadSigned", !.blob = l.blob]
             ELSE Answered(l, said))
      /\ to \in IntentStatuses
  BY <1>1, <1>2, <1>4, <1>5 DEF WriteSigning, IntentStatuses
<1>7. /\ new.seq = row[i].seq /\ new.prep = row[i].prep /\ new.lls = row[i].lls /\ new.sim = row[i].sim
      /\ to = "SIGNED" => new.blob = l.blob /\ new.failure = row[i].failure
      /\ to # "SIGNED" => new.blob = row[i].blob /\ new.failure = l.want.failure
  BY <1>1, <1>4 DEF Row
<1>8. CarriesOver(i, to, new)
  BY <1>2, <1>3, <1>7 DEF CarriesOver
<1>9. TransitionStep(i, {"AWAITING_SIGNATURE"}, to, new)
  BY <1>6, <1>8, TransitionChanges
<1>10. ASSUME row'[i] = [new EXCEPT !.status = to], row[i].status \in {"AWAITING_SIGNATURE"}
       PROVE  RowInformed(i)' /\ RowSettled(i)'
  <2>1. PICK s \in Row : s = row'[i]
    BY DEF Preserved, Inductive, TypeOK
  <2>2. /\ s.status = to /\ s.seq = l.snap.seq /\ s.prep = row[i].prep
        /\ s.lls = l.snap.lls /\ s.blob = new.blob
        /\ s.sim = row[i].sim /\ s.failure = new.failure
    BY <1>3, <1>7, <1>10, <2>1 DEF Row
  <2>3. row[i].blob = NoTx /\ row[i].failure = "none"
    BY <1>1, <1>10 DEF RowFine, RowSettled, TerminalStatuses, UnsignedActive
  <2>4. RowInformed(i)'
    <3>1. row[i].seq # 0 /\ row[i].sim = "tesSUCCESS"
      BY <1>1, <1>10 DEF RowInformed
    <3>2. s.seq # 0 /\ s.sim = "tesSUCCESS" /\ s.status \notin {"CREATED", "PREPARED"}
      BY <1>3, <2>2, <3>1
    <3>3. QED
      BY <2>1, <3>2 DEF RowInformed
  <2>5. to = "SIGNED" => ReachedInWindow(i, s)'
    <3>1. to = "SIGNED" => ReachedInWindow(i, l.snap)'
      BY <1>1, <1>2, ReachedStays DEF Known, Settling
    <3>2. QED
      BY <2>2, <3>1 DEF ReachedInWindow
  <2>6. l.want.failure = "SEQUENCE_CONFLICT" => Consumed(i, s)'
    <3>1. l.want.failure = "SEQUENCE_CONFLICT" => Consumed(i, l.snap)'
      BY <1>1, ConsumedStays DEF Known, Settling
    <3>2. QED
      BY <2>2, <3>1 DEF Consumed
  <2>7. /\ to # "FAILED" => l.want.failure = "none"
        /\ l.blob.lls = l.snap.lls
    BY <1>1, <1>2 DEF Known, Settling
  <2>8. s.prep <= closed' /\ s.lls = s.prep + LastLedgerOffset
    BY <1>1, <1>3, <2>2 DEF RowSettled
  <2>9. ASSUME to = "SIGNED"
        PROVE  RowSettled(i)'
    <3>1. /\ s.status = "SIGNED" /\ s.failure = "none" /\ s.blob.lls = s.lls
      BY <1>7, <2>2, <2>3, <2>7, <2>9
    <3>2. QED
      BY <2>1, <2>5, <2>8, <2>9, <3>1 DEF RowSettled, TerminalStatuses
  <2>10. ASSUME to # "SIGNED"
         PROVE  RowSettled(i)'
    <3>1. s.blob = NoTx /\ s.failure = l.want.failure /\ s.status \in {"EXPIRED", "FAILED"}
      BY <1>2, <1>7, <2>2, <2>3, <2>10
    <3>2. s.failure = "SEQUENCE_CONFLICT" => s.status = "FAILED"
      BY <2>2, <2>7, <3>1
    <3>3. QED
      BY <2>1, <2>6, <2>8, <3>1, <3>2 DEF RowSettled, TerminalStatuses
  <2>11. QED
    BY <2>4, <2>9, <2>10
<1>11. Known(proc[c])'
  <2>1. \/ proc'[c] = Answered(l, "error")
        \/ to = "SIGNED" /\ result = "updated" /\ proc'[c] = Answered(l, "ok")
        \/ said # "ok" /\ proc'[c] = Answered(l, said)
        \/ proc'[c] = [Idle EXCEPT !.op = "attach", !.id = i, !.pc = "reloadSigned", !.blob = l.blob]
    <3>1. ASSUME NEW m, Goto(c, m)
          PROVE  proc'[c] = m
      BY <3>1 DEF Goto, Inductive, TypeOK, Processes
    <3>2. CASE result = "updated"
      <4>1. Goto(c, Answered(l, said))
        BY <1>6, <3>2 DEF AfterTransition
      <4>2. QED
        BY <1>5, <3>1, <3>2, <4>1
    <3>3. CASE result = "undefined" /\ to = "SIGNED"
      <4>1. Goto(c, [Idle EXCEPT !.op = "attach", !.id = i, !.pc = "reloadSigned", !.blob = l.blob])
        BY <1>6, <3>3 DEF AfterTransition
      <4>2. QED
        BY <3>1, <4>1
    <3>4. CASE result = "undefined" /\ to # "SIGNED"
      <4>1. Goto(c, Answered(l, said))
        BY <1>6, <3>4 DEF AfterTransition
      <4>2. QED
        BY <1>5, <3>1, <3>4, <4>1
    <3>5. CASE result \notin {"updated", "undefined"}
      <4>1. Goto(c, Answered(l, "error"))
        BY <1>1, <1>6, <3>5 DEF AfterTransition
      <4>2. QED
        BY <3>1, <4>1
    <3>6. QED
      BY <3>2, <3>3, <3>4, <3>5
  <2>2. row'[i].status # "CREATED" /\ row'[i].lls = l.snap.lls
    BY <1>1, <1>3 DEF Preserved, RowGrows
  <2>3. CASE proc'[c] = Answered(l, "error")
    BY <2>3, IdleKnown DEF Answered
  <2>4. CASE to = "SIGNED" /\ result = "updated" /\ proc'[c] = Answered(l, "ok")
    <3>1. row'[i].blob = l.blob
      BY <1>7, <1>9, <2>4 DEF TransitionStep, Row
    <3>2. QED
      BY <1>1, <1>3, <2>2, <2>4, <3>1, AnsweredKnown DEF Results
  <2>5. CASE said # "ok" /\ proc'[c] = Answered(l, said)
    <3>1. said = "expired" => closed' > row'[i].lls
      BY <1>1, <1>2, <1>5, <2>2 DEF LocalFine, WindowOver
    <3>2. QED
      BY <1>1, <1>3, <2>2, <2>5, <3>1, AnsweredKnown DEF Results
  <2>6. CASE proc'[c] = [Idle EXCEPT !.op = "attach", !.id = i, !.pc = "reloadSigned", !.blob = l.blob]
    <3>1. /\ proc'[c].pc = "reloadSigned" /\ proc'[c].op = "attach" /\ proc'[c].blob = l.blob
          /\ proc'[c].result = "none"
      BY <2>6 DEF Idle
    <3>2. QED
      BY <1>3, <3>1 DEF Known, Informed, Looping, Settling, Preparing, Attaching, Submitting, Resolving
  <2>7. QED
    BY <2>1, <2>3, <2>4, <2>5, <2>6
<1>12. PICK m : Goto(c, m)
  BY <1>6 DEF AfterTransition
<1>13. QED
  BY <1>1, <1>6, <1>8, <1>10, <1>11, <1>12, WriteAdvances DEF Processes

\* attach reads the row again.
LEMMA ReloadSigningAdvances ==
    ASSUME Inductive, Inductive', Further, NEW c \in Callers, ReloadSigning(c)
    PROVE  Advance(c)
<1>1. PICK l \in Local : l = proc[c] /\ l.id \in Intents /\ l.op = "attach" /\ l.blob # NoTx
  BY Standing DEF ReloadSigning, At, Processes, Attaching, Awaits, Known, Informed
<1>2. row' = row
  BY DEF ReloadSigning
<1>3. CASE row[l.id].status = "AWAITING_SIGNATURE"
  <2>1. Goto(c, Idle)
    BY <1>1, <1>3 DEF ReloadSigning, Answered
  <2>2. QED
    BY <1>2, <2>1, ReadAdvances, IdleKnown DEF Processes
<1>4. CASE row[l.id].status # "AWAITING_SIGNATURE"
  <2>1. Goto(c, SettledAnswer(l, row'[l.id]))
    BY <1>1, <1>2, <1>4 DEF ReloadSigning
  <2>2. proc'[c] = SettledAnswer(l, row'[l.id]) => Known(proc[c])'
    BY <1>1, <1>2, <1>4, SettledAnswerKnown
  <2>3. QED
    BY <1>2, <2>1, <2>2, ReadAdvances DEF Processes
<1>5. QED
  BY <1>3, <1>4

\* Every step of attach.
LEMMA AttachAdvances ==
    ASSUME Inductive, Preserved, Further, LedgerGrows, NEW c \in Callers, Attach(c), UNCHANGED <<closed, chain>>
    PROVE  Advance(c)
<1>1. Inductive'
  BY DEF Preserved
<1>2. QED
  BY <1>1, StartAttachAdvances, ReadSigningAccountAdvances, WriteSigningAdvances, ReloadSigningAdvances DEF Attach

-------------------------------------------------------------------------------
(* POST submit.                                                            *)

\* Two versions of a row an update outside the status column may tell apart in
\* its counters only.
SameColumns(r, s) ==
    /\ s.status = r.status /\ s.seq = r.seq /\ s.prep = r.prep /\ s.lls = r.lls
    /\ s.sim = r.sim /\ s.blob = r.blob /\ s.failure = r.failure

\* Counting an attempt or storing the baseline leaves what the row says.
LEMMA ColumnsStay ==
    ASSUME Inductive, LedgerGrows, NEW i \in Intents, NEW s \in Row, s = row'[i],
           SameColumns(row[i], s), RowInformed(i), RowSettled(i)
    PROVE  RowInformed(i)' /\ RowSettled(i)'
<1>1. PICK r \in Row : r = row[i] /\ SameColumns(r, s)
  BY DEF Inductive, TypeOK
<1>2. RowInformed(i)'
  BY <1>1 DEF RowInformed, SameColumns
<1>3. r.blob # NoTx /\ Dead(r.blob) => Dead(s.blob)'
  <2>1. r.blob # NoTx /\ Dead(r.blob) => Dead(r.blob)'
    BY DeadStays DEF Row
  <2>2. QED
    BY <1>1, <2>1 DEF SameColumns
<1>4. /\ Consumed(i, r) => Consumed(i, s)'
      /\ ReachedInWindow(i, r) => ReachedInWindow(i, s)'
  <2>1. /\ Consumed(i, r) => Consumed(i, r)'
        /\ ReachedInWindow(i, r) => ReachedInWindow(i, r)'
    BY ConsumedStays, ReachedStays
  <2>2. QED
    BY <1>1, <2>1 DEF SameColumns, Consumed, ReachedInWindow
<1>5. r.prep \in Nat /\ (r.prep <= closed => r.prep <= closed')
  BY DEF LedgerGrows, Row
<1>6. RowSettled(i)'
  BY <1>1, <1>3, <1>4, <1>5 DEF RowSettled, SameColumns
<1>7. QED
  BY <1>2, <1>6

\* A step that writes the row of p with updateInStatus().
LEMMA UpdateAdvances ==
    ASSUME Inductive, Further, LedgerGrows, NEW p \in Processes, NEW l, Goto(p, l),
           NEW i \in Intents, i = proc[p].id, NEW statuses \in SUBSET SignedActive, NEW new \in Row,
           UpdateInStatus(i, statuses, new), SameColumns(row[i], new),
           Known(proc[p])'
    PROVE  Advance(p)
<1>1. /\ \A j \in Intents \ {i} : row'[j] = row[j]
      /\ row'[i] = row[i] \/ (row[i].status \in SignedActive /\ row'[i] = new)
  <2>1. row' = row \/ (row[i].status \in statuses /\ row' = [row EXCEPT ![i] = new])
    BY DEF UpdateInStatus
  <2>2. row[i].status \in statuses => row[i].status \in SignedActive
    OBVIOUS
  <2>3. QED
    BY <2>1, <2>2 DEF Inductive, TypeOK
<1>2. CASE row'[i] = row[i]
  BY <1>1, <1>2 DEF Advance, Goto, Inductive, TypeOK
<1>3. CASE row[i].status \in SignedActive /\ row'[i] = new
  <2>1. RowChange(i)
    BY <1>3 DEF RowChange, SameColumns
  <2>2. RowInformed(i)' /\ RowSettled(i)'
    BY <1>3, ColumnsStay DEF Further, AnswersFine, OutcomesFine
  <2>3. \A q \in Processes \ {p} : proc'[q] = proc[q]
    BY DEF Goto, Inductive, TypeOK
  <2>4. QED
    BY <1>1, <2>1, <2>2, <2>3 DEF Advance
<1>4. QED
  BY <1>1, <1>2, <1>3

\* submit reads the row.
LEMMA StartSubmitAdvances ==
    ASSUME Inductive, NEW c \in Callers, StartSubmit(c)
    PROVE  Advance(c)
<1>1. PICK i \in Intents :
          Goto(c, SubmitStep([Idle EXCEPT !.op = "submit", !.id = i], row[i], 0)) /\ row' = row
  BY DEF StartSubmit
<1>2. PICK local \in Local : local = [Idle EXCEPT !.op = "submit", !.id = i]
  BY IdleFine DEF Local
<1>3. local.op = "submit" /\ local.id = i /\ PastSubmit(0, row'[i].status)
  BY <1>2 DEF Idle, PastSubmit
<1>4. Goto(c, SubmitStep(local, row'[local.id], 0))
  BY <1>1, <1>2, <1>3
<1>5. proc'[c] = SubmitStep(local, row'[local.id], 0) => Known(proc[c])'
  BY <1>3, SubmitStepKnown
<1>6. QED
  BY <1>1, <1>4, <1>5, ReadAdvances DEF Processes

\* submit reads the row again.
LEMMA ReloadSubmitAdvances ==
    ASSUME Inductive, Further, NEW c \in Callers, ReloadSubmit(c)
    PROVE  Advance(c)
<1>1. PICK l \in Local : /\ l = proc[c] /\ l.op = "submit" /\ l.id \in Intents /\ l.steps \in Nat
                         /\ PastSubmit(l.steps, row[l.id].status)
  BY Standing DEF ReloadSubmit, At, Processes, Awaits, Known, Informed, Looping
<1>2. /\ row' = row /\ Goto(c, SubmitStep(l, row'[l.id], l.steps))
      /\ PastSubmit(l.steps, row'[l.id].status)
  BY <1>1 DEF ReloadSubmit
<1>3. proc'[c] = SubmitStep(l, row'[l.id], l.steps) => Known(proc[c])'
  BY <1>1, <1>2, SubmitStepKnown
<1>4. QED
  BY <1>2, <1>3, ReadAdvances DEF Processes

\* What a submit request that waits may use.
LEMMA Sending ==
    ASSUME Inductive, Further, NEW c \in Callers, proc[c].pc \in Submitting
    PROVE  \E l \in Local, i \in Intents :
              /\ l = proc[c] /\ i = l.id /\ LocalFine(l) /\ Known(l) /\ l.snap \in Row
              /\ l.op = "submit" /\ l.result = "none" /\ l.steps \in Nat
              /\ row[i] \in Row /\ StillHolds(l.snap, i) /\ RowFine(i) /\ RowInformed(i) /\ RowSettled(i)
              /\ l.snap.status \in SignedActive /\ l.snap.blob \in Tx
              /\ row[i].status \in SignedActive \cup TerminalStatuses
              /\ row[i].blob = l.snap.blob
<1>1. proc[c].pc \in Awaits \ {"rows"} /\ proc[c].pc # "done"
  BY DEF Awaits, Submitting
<1>2. PICK l \in Local, i \in Intents :
          /\ l = proc[c] /\ i = l.id /\ LocalFine(l) /\ Known(l) /\ l.snap \in Row /\ l.steps \in Nat
          /\ row[i] \in Row /\ StillHolds(l.snap, i) /\ RowFine(i) /\ RowInformed(i) /\ RowSettled(i)
  BY <1>1, Standing DEF Processes
<1>3. l.op = "submit" /\ l.result = "none" /\ l.snap.status \in SignedActive
  BY <1>1, <1>2 DEF Known, Informed, LocalFine
<1>4. l.snap.blob \in Tx /\ row[i].status \in SignedActive \cup TerminalStatuses
  BY <1>2, <1>3 DEF StillHolds, Inductive, TypeOK, NetworkTypeOK
<1>5. row[i].blob = l.snap.blob
  BY <1>2, <1>4, NoTxAssumption DEF StillHolds
<1>6. QED
  BY <1>2, <1>3, <1>4, <1>5

\* submit reads the validated ledger.
LEMMA ReadSubmitLedgerAdvances ==
    ASSUME Inductive, Further, NEW c \in Callers, ReadSubmitLedger(c), UNCHANGED <<closed, chain>>
    PROVE  Advance(c)
<1>1. PICK l \in Local : l = proc[c] /\ l.pc = "submitLedger" /\ l.pc \in Submitting
                         /\ l.pc \in Awaits \ {"rows"}
  BY Standing DEF ReadSubmitLedger, At, Processes, Submitting, Awaits
<1>2. PICK v \in Views, pc \in {"lookup", "baseline", "submit"} :
          Goto(c, [l EXCEPT !.led = v, !.pc = pc]) /\ row' = row
  BY <1>1 DEF ReadSubmitLedger
<1>3. PICK m \in Local : m = [l EXCEPT !.led = v, !.pc = pc]
  <2>1. v \in Nat /\ pc \in Awaits \cup {"idle", "done"}
    BY ViewsAreClosed DEF Awaits
  <2>2. QED
    BY <2>1 DEF Local
<1>4. MovesOn(l, m) /\ m.pc = pc
  BY <1>1, <1>3 DEF MovesOn, Local, Submitting
<1>5. Settling(m)'
  BY <1>4 DEF Settling
<1>6. QED
  BY <1>1, <1>2, <1>3, <1>4, <1>5, MoveAdvances DEF Processes

\* submit stores the baseline.
LEMMA WriteBaselineAdvances ==
    ASSUME Inductive, Further, LedgerGrows, NEW c \in Callers, WriteBaseline(c)
    PROVE  Advance(c)
<1>1. PICK l \in Local, i \in Intents :
          /\ l = proc[c] /\ i = l.id /\ LocalFine(l) /\ Known(l) /\ l.snap \in Row
          /\ l.op = "submit" /\ l.result = "none" /\ row[i] \in Row /\ l.pc = "baseline"
  BY Sending DEF WriteBaseline, At, Submitting
<1>2. PICK new \in Row : new = [row[i] EXCEPT !.baseline = l.led]
  BY <1>1 DEF Row, Local
<1>3. UpdateInStatus(i, {"SIGNED"}, new) /\ Goto(c, [l EXCEPT !.pc = "submit"])
  BY <1>1, <1>2 DEF WriteBaseline
<1>4. SameColumns(row[i], new)
  BY <1>1, <1>2 DEF SameColumns, Row
<1>5. row'[i].status = row[i].status
  BY <1>3, <1>4 DEF UpdateInStatus, SameColumns, Inductive, TypeOK
<1>6. PICK m : m = proc'[c]
  OBVIOUS
<1>7. /\ m.pc = "submit" /\ m.op = "submit" /\ m.result = "none" /\ m.id = i /\ m.snap = l.snap
      /\ m.steps = l.steps
  BY <1>1, <1>3, <1>6 DEF Goto, Inductive, TypeOK, Processes, Local
<1>8. /\ l.snap.status = "SUBMITTED" => row[i].status # "SIGNED"
      /\ PastSubmit(l.steps, l.snap.status)
  BY <1>1 DEF Known, Looping, Submitting
<1>9. Informed(m)' /\ Looping(m)' /\ Settling(m)'
  BY <1>5, <1>7, <1>8 DEF Informed, Looping, Settling, Preparing, Attaching, Submitting, Resolving
<1>10. Known(proc[c])'
  BY <1>6, <1>9 DEF Known
<1>11. QED
  BY <1>1, <1>3, <1>4, <1>10, UpdateAdvances DEF Processes, SignedActive

\* The submit call is answered: a malformed transaction is dead.
LEMMA SubmitAnsweredAdvances ==
    ASSUME Inductive, Further, NEW c \in Callers, SubmitAnswered(c), UNCHANGED <<closed, chain>>
    PROVE  Advance(c)
<1>1. PICK l \in Local, i \in Intents :
          /\ l = proc[c] /\ i = l.id /\ l.snap \in Row /\ l.pc = "submit" /\ l.snap.blob \in Tx
          /\ l.pc \in Awaits \ {"rows"}
  BY Sending DEF SubmitAnswered, At, Submitting, Awaits
<1>2. PICK to \in {"SUBMITTED", "REJECTED"} :
          /\ to = "REJECTED" => ~Included(l.snap.blob)
          /\ banned' = IF to = "REJECTED" THEN banned \cup {l.snap.blob} ELSE banned
          /\ Goto(c, [l EXCEPT !.pc = "record", !.want = Decide(to, "none", 0)])
          /\ row' = row
  BY <1>1 DEF SubmitAnswered
<1>3. /\ Decide(to, "none", 0) \in [to : IntentStatuses, failure : FailureCodes \cup {"none"}, final : Nat]
      /\ Decide(to, "none", 0).to = to
  BY DEF Decide, IntentStatuses
<1>4. PICK m \in Local : m = [l EXCEPT !.pc = "record", !.want = Decide(to, "none", 0)]
  BY <1>3 DEF Local, Awaits
<1>5. MovesOn(l, m) /\ m.pc = "record" /\ m.want.to = to /\ m.snap = l.snap
  BY <1>1, <1>3, <1>4 DEF MovesOn, Local, Submitting
<1>6. to = "REJECTED" => Dead(l.snap.blob)'
  BY <1>2 DEF Dead, Included
<1>7. Settling(m)'
  BY <1>5, <1>6 DEF Settling
<1>8. QED
  BY <1>1, <1>2, <1>4, <1>5, <1>7, MoveAdvances DEF Processes

\* What settles a signed row, or counts its first submission.
LEMMA SettlesRow ==
    ASSUME Inductive, LedgerGrows, NEW i \in Intents, NEW s \in Row, s = row'[i],
           row[i].status \in SignedActive, RowInformed(i), RowSettled(i),
           s.status \in {"SUBMITTED"} \cup TerminalStatuses,
           s.seq = row[i].seq, s.prep = row[i].prep, s.lls = row[i].lls, s.sim = row[i].sim,
           s.blob = row[i].blob,
           s.status \in TerminalStatuses \ {"VALIDATED"} /\ s.failure \notin IntegrityFailures =>
               Dead(s.blob)',
           s.failure = "SEQUENCE_CONFLICT" => s.status = "FAILED" /\ Consumed(i, s)',
           s.status = "FAILED" => OnlyConflict(s.failure),
           s.status = "SUBMITTED" => s.failure = "none"
    PROVE  RowInformed(i)' /\ RowSettled(i)'
<1>1. PICK r \in Row : r = row[i]
  BY DEF Inductive, TypeOK
<1>2. r.seq # 0 /\ r.sim = "tesSUCCESS"
  BY <1>1 DEF RowInformed, SignedActive
<1>3. RowInformed(i)'
  BY <1>1, <1>2 DEF RowInformed, TerminalStatuses
<1>4. s.blob # NoTx => s.blob.lls = s.lls /\ ReachedInWindow(i, s)'
  <2>1. r.blob # NoTx => r.blob.lls = r.lls /\ ReachedInWindow(i, r)
    BY <1>1 DEF RowSettled
  <2>2. r.blob # NoTx => ReachedInWindow(i, r)'
    BY <2>1, ReachedStays
  <2>3. QED
    BY <1>1, <2>1, <2>2 DEF ReachedInWindow
<1>5. s.lls = s.prep + LastLedgerOffset /\ s.prep <= closed'
  <2>1. r.lls = r.prep + LastLedgerOffset /\ r.prep <= closed /\ r.prep \in Nat
    BY <1>1 DEF RowSettled, SignedActive, Row
  <2>2. QED
    BY <1>1, <2>1 DEF LedgerGrows
<1>6. RowSettled(i)'
  BY <1>4, <1>5 DEF RowSettled, TerminalStatuses, OnlyConflict
<1>7. QED
  BY <1>3, <1>6

\* The attempt is counted.
LEMMA RecordSubmitAdvances ==
    ASSUME Inductive, Preserved, Further, LedgerGrows, NEW c \in Callers, RecordSubmit(c)
    PROVE  Advance(c)
<1>1. PICK l \in Local, i \in Intents :
          /\ l = proc[c] /\ i = l.id /\ LocalFine(l) /\ Known(l) /\ l.snap \in Row /\ l.pc = "record"
          /\ l.op = "submit" /\ l.steps \in Nat /\ row[i] \in Row
          /\ RowInformed(i) /\ RowSettled(i) /\ l.snap.status \in SignedActive
          /\ row[i].status \in SignedActive \cup TerminalStatuses /\ row[i].blob = l.snap.blob
  BY Sending DEF RecordSubmit, At, Submitting
<1>2. PICK counted \in Row :
          counted = [row[i] EXCEPT !.attempts = row[i].attempts + 1] /\ SameColumns(row[i], counted)
  <2>1. PICK r \in Row, n \in Nat : r = row[i] /\ n = r.attempts + 1
    BY <1>1 DEF Row
  <2>2. [r EXCEPT !.attempts = n] \in Row /\ SameColumns(r, [r EXCEPT !.attempts = n])
    BY DEF Row, SameColumns
  <2>3. QED
    BY <2>1, <2>2
<1>3. PICK again, done :
          /\ again = [Idle EXCEPT !.op = "submit", !.id = i, !.pc = "reloadSubmit", !.steps = l.steps + 1]
          /\ done = Answered(l, "ok")
  OBVIOUS
<1>4. /\ row'[i].status \in SignedActive \cup TerminalStatuses
      /\ row'[i].status # "CREATED"
  BY <1>1 DEF Preserved, RowGrows, SignedActive, TerminalStatuses
<1>5. ASSUME Goto(c, again), row'[i].status # "SIGNED",
             l.snap.status = "SUBMITTED" => row'[i].status # "SUBMITTED"
      PROVE  Known(proc[c])'
  <2>1. PastSubmit(l.steps, l.snap.status)
    BY <1>1 DEF Known, Looping, Submitting
  <2>2. PastSubmit(l.steps + 1, row'[i].status) /\ l.steps + 1 \in Nat
    BY <1>1, <1>5, <2>1 DEF PastSubmit, SignedActive
  <2>3. proc'[c] = again
    BY <1>5 DEF Goto, Inductive, TypeOK, Processes
  <2>4. QED
    BY <1>3, <1>4, <2>2, <2>3, ResumeKnown
<1>6. ASSUME Goto(c, done)
      PROVE  Known(proc[c])'
  <2>1. proc'[c] = Answered(l, "ok")
    BY <1>3, <1>6 DEF Goto, Inductive, TypeOK, Processes
  <2>2. QED
    BY <1>1, <1>4, <2>1, AnsweredKnown DEF Results
<1>7. ASSUME l.snap.status = "SIGNED"
      PROVE  Advance(c)
  <2>1. PICK to \in {"SUBMITTED", "REJECTED"} : to = l.want.to
    BY <1>1 DEF LocalFine
  <2>2. /\ Transition(i, {"SIGNED"}, to, counted)
        /\ AfterTransition(c, TransitionResult(i, {"SIGNED"}, to, counted), done, again)
    BY <1>1, <1>2, <1>3, <1>7, <2>1 DEF RecordSubmit
  <2>3. to \in IntentStatuses /\ CarriesOver(i, to, counted)
    BY <1>2 DEF IntentStatuses, CarriesOver, SameColumns
  <2>4. ASSUME row'[i] = [counted EXCEPT !.status = to], row[i].status \in {"SIGNED"}
        PROVE  RowInformed(i)' /\ RowSettled(i)'
    <3>1. PICK s \in Row : s = row'[i]
      BY DEF Preserved, Inductive, TypeOK
    <3>2. /\ s.status = to /\ s.seq = row[i].seq /\ s.prep = row[i].prep /\ s.lls = row[i].lls
          /\ s.sim = row[i].sim /\ s.blob = row[i].blob /\ s.failure = row[i].failure
      BY <1>2, <2>4, <3>1 DEF Row, SameColumns
    <3>3. s.failure = "none"
      BY <1>1, <2>4, <3>2 DEF RowSettled, TerminalStatuses
    <3>4. to = "REJECTED" => Dead(s.blob)'
      <4>1. Settling(l)'
        BY <1>1, SettlingStays DEF Known
      <4>2. to = "REJECTED" => Dead(l.snap.blob)'
        BY <1>1, <2>1, <4>1 DEF Settling
      <4>3. QED
        BY <1>1, <3>2, <4>2 DEF Dead, Included
    <3>5. QED
      BY <1>1, <2>4, <3>1, <3>2, <3>3, <3>4, SettlesRow DEF SignedActive, TerminalStatuses
  <2>5. Known(proc[c])'
    <3> DEFINE result == TransitionResult(i, {"SIGNED"}, to, counted)
    <3>1. CASE result = "updated"
      BY <1>6, <2>2, <3>1 DEF AfterTransition
    <3>2. CASE result = "undefined"
      <4>1. row[i].status # "SIGNED" /\ row' = row
        BY <2>2, <3>2 DEF Transition, TransitionResult
      <4>2. QED
        BY <1>5, <1>7, <2>2, <3>2, <4>1 DEF AfterTransition
    <3>3. CASE result \notin {"updated", "undefined"}
      <4>1. Goto(c, Idle)
        BY <2>2, <3>3 DEF AfterTransition, Answered
      <4>2. proc'[c] = Idle
        BY <4>1 DEF Goto, Inductive, TypeOK, Processes
      <4>3. QED
        BY <4>2, IdleKnown
    <3>4. QED
      BY <3>1, <3>2, <3>3
  <2>6. PICK m : Goto(c, m)
    BY <2>2 DEF AfterTransition
  <2>7. QED
    BY <1>1, <2>2, <2>3, <2>4, <2>5, <2>6, WriteAdvances DEF Processes
<1>8. ASSUME l.snap.status # "SIGNED"
      PROVE  Advance(c)
  <2>1. l.snap.status = "SUBMITTED" /\ row[i].status # "SIGNED"
    BY <1>1, <1>8 DEF SignedActive, Known, Looping, Submitting
  <2>2. /\ UpdateInStatus(i, {"SUBMITTED"}, counted)
        /\ Goto(c, IF row[i].status = "SUBMITTED" THEN done ELSE again)
    BY <1>1, <1>2, <1>3, <1>8 DEF RecordSubmit
  <2>3. Known(proc[c])'
    <3>1. CASE row[i].status = "SUBMITTED"
      BY <1>6, <2>2, <3>1
    <3>2. CASE row[i].status # "SUBMITTED"
      <4>1. row' = row
        BY <2>2, <3>2 DEF UpdateInStatus
      <4>2. QED
        BY <1>5, <2>1, <2>2, <3>2, <4>1
    <3>3. QED
      BY <3>1, <3>2
  <2>4. PICK m : Goto(c, m)
    BY <2>2
  <2>5. QED
    BY <1>1, <1>2, <2>2, <2>3, <2>4, UpdateAdvances DEF Processes, SignedActive
<1>9. QED
  BY <1>7, <1>8

\* Every step of submit that is its own.
LEMMA SubmitAdvances ==
    ASSUME Inductive, Preserved, Further, LedgerGrows, NEW c \in Callers, Submit(c), UNCHANGED <<closed, chain>>
    PROVE  Advance(c)
<1>1. CASE SubmitUnanswered(c)
  BY <1>1, ErrorAdvances DEF SubmitUnanswered, Processes
<1>2. QED
  BY <1>1, StartSubmitAdvances, ReloadSubmitAdvances, ReadSubmitLedgerAdvances, WriteBaselineAdvances,
     SubmitAnsweredAdvances, RecordSubmitAdvances DEF Submit

-------------------------------------------------------------------------------
(* resolveSigned, in the cycle or in submit.                               *)

\* What a step of resolveSigned may use: its blob is the one of the row, and the
\* account had the prepared Sequence before the window was over.
LEMMA Deciding ==
    ASSUME Inductive, Further, NEW p \in Processes, proc[p].pc \in Resolving
    PROVE  \E l \in Local, i \in Intents, r \in Row, t \in Tx :
              /\ l = proc[p] /\ i = l.id /\ LocalFine(l) /\ Known(l) /\ l.pc \in Awaits \ {"rows"}
              /\ row[i] \in Row /\ RowFine(i) /\ RowInformed(i) /\ RowSettled(i)
              /\ r = l.snap /\ r.status \in SignedActive /\ t = r.blob /\ row[i].blob = t
              /\ row[i].status \in SignedActive \cup TerminalStatuses
              /\ row[i].seq = r.seq /\ row[i].lls = r.lls
              /\ t.lls = r.lls /\ r.lls = r.prep + LastLedgerOffset
              /\ ReachedInWindow(i, r)
<1>1. proc[p].pc \in Awaits \ {"rows"}
  BY DEF Awaits, Resolving
<1>2. PICK l \in Local, i \in Intents, r \in Row :
          /\ l = proc[p] /\ i = l.id /\ LocalFine(l) /\ Known(l) /\ r = l.snap /\ l.pc \in Resolving
          /\ row[i] \in Row /\ StillHolds(r, i) /\ RowFine(i) /\ RowInformed(i) /\ RowSettled(i)
  BY <1>1, Standing
<1>3. r.status \in SignedActive
  BY <1>2 DEF LocalFine
<1>4. PICK t \in Tx : t = r.blob
  BY <1>2, <1>3 DEF StillHolds, Inductive, TypeOK, NetworkTypeOK
<1>5. /\ row[i].status \in SignedActive \cup TerminalStatuses /\ row[i].blob = t
      /\ row[i].seq = r.seq /\ row[i].prep = r.prep /\ row[i].lls = r.lls
      /\ row[i].blob # NoTx /\ row[i].status # "CREATED"
  BY <1>2, <1>3, <1>4, NoTxAssumption DEF StillHolds, SignedActive
<1>6. t.lls = r.lls /\ r.lls = r.prep + LastLedgerOffset
  BY <1>2, <1>5 DEF RowSettled
<1>7. ReachedInWindow(i, r)
  <2>1. ReachedInWindow(i, row[i])
    BY <1>2, <1>5 DEF RowSettled
  <2>2. QED
    BY <1>5, <2>1 DEF ReachedInWindow
<1>8. QED
  BY <1>1, <1>2, <1>3, <1>4, <1>5, <1>6, <1>7

\* A lookup that settles nothing ends the request, or leads the cycle to its next row.
LEMMA StillOpenAdvances ==
    ASSUME Inductive, NEW p \in Processes, StillOpen(p), row' = row
    PROVE  Advance(p)
<1>1. CASE p = Worker
  <2>1. NextRow(batch)
    BY <1>1 DEF StillOpen
  <2>2. PICK l : Goto(Worker, l)
    BY <2>1 DEF NextRow
  <2>3. Known(proc[Worker])'
    BY <2>1, NextRowKnown
  <2>4. QED
    BY <1>1, <2>2, <2>3, ReadAdvances
<1>2. CASE p # Worker
  BY <1>2, ErrorAdvances DEF StillOpen
<1>3. QED
  BY <1>1, <1>2

\* A step that decides what resolveSigned will write.
LEMMA OutcomeAdvances ==
    ASSUME Inductive, Further, LedgerGrows, NEW p \in Processes, proc[p].pc \in Resolving,
           NEW i \in Intents, i = proc[p].id, NEW r \in Row, r = proc[p].snap, r.blob \in Tx,
           NEW to \in {"VALIDATED", "EXPIRED", "FAILED"}, NEW failure \in FailureCodes \cup {"none"},
           NEW final \in Nat, Outcome(p, to, failure, final), row' = row, UNCHANGED <<closed, chain>>,
           to # "VALIDATED" /\ failure \notin IntegrityFailures => Dead(r.blob),
           to # "FAILED" => failure = "none",
           failure = "SEQUENCE_CONFLICT" => Consumed(i, r),
           to = "FAILED" => OnlyConflict(failure)
    PROVE  Advance(p)
<1>1. PICK l \in Local : l = proc[p] /\ l.pc \in Resolving /\ l.pc \in Awaits \ {"rows"}
  BY Standing DEF Resolving, Awaits
<1>2. /\ Decide(to, failure, final) \in [to : IntentStatuses, failure : FailureCodes \cup {"none"}, final : Nat]
      /\ Decide(to, failure, final).to = to /\ Decide(to, failure, final).failure = failure
  BY DEF Decide, IntentStatuses
<1>3. PICK m \in Local : m = [l EXCEPT !.pc = "outcome", !.want = Decide(to, failure, final)]
  BY <1>2 DEF Local, Awaits
<1>4. /\ m.pc = "outcome" /\ m.want.to = to /\ m.want.failure = failure /\ m.snap = r /\ m.id = i
      /\ MovesOn(l, m)
  BY <1>1, <1>2, <1>3 DEF Local, MovesOn, Resolving
<1>5. Goto(p, m)
  BY <1>1, <1>3 DEF Outcome, Continue
<1>6. Dead(r.blob) => Dead(r.blob)'
  BY DeadStays
<1>7. Consumed(i, r) => Consumed(i, r)'
  BY ConsumedStays
<1>8. Settling(m)'
  BY <1>4, <1>6, <1>7 DEF Settling, OnlyConflict
<1>9. QED
  BY <1>1, <1>4, <1>5, <1>8, MoveAdvances

\* The ledger a lookup finds the transaction in is one of its window: the ledger
\* enforces the last one, and the transaction was not signed before the first one.
LEMMA LookupFoundAdvances ==
    ASSUME Inductive, Further, LedgerGrows, NEW p \in Processes, LookupFound(p), UNCHANGED <<closed, chain>>
    PROVE  Advance(p)
<1>1. proc[p].pc \in Resolving /\ row' = row
  BY DEF LookupFound, Looking, Resolving
<1>2. PICK i \in Intents, r \in Row, t \in Tx :
          /\ i = proc[p].id /\ r = proc[p].snap /\ t = r.blob /\ t.lls = r.lls
          /\ r.lls = r.prep + LastLedgerOffset
  BY <1>1, Deciding
<1>3. PICK v, e :
          /\ v \in Views /\ e \in FoundAt(t, v)
          /\ IF InWindow(e.at, r) THEN Outcome(p, "VALIDATED", "none", e.at)
             ELSE Outcome(p, "FAILED", "FINALITY_INTEGRITY_ERROR", 0)
  BY <1>2 DEF LookupFound
<1>4. e \in Entry /\ e.at \in Nat /\ e \in chain /\ e.tx = t
  BY <1>3 DEF FoundAt, Entry, Inductive, TypeOK, NetworkTypeOK
<1>5. e.at <= t.lls /\ t.lls < e.at + LastLedgerOffset
  BY <1>4, NoTxAssumption DEF Further, OutcomesFine, LedgerFine
<1>6. InWindow(e.at, r)
  BY <1>2, <1>4, <1>5, PreparationAssumption DEF InWindow, Row, Tx
<1>7. Outcome(p, "VALIDATED", "none", e.at)
  BY <1>3, <1>6
<1>8. QED
  BY <1>1, <1>2, <1>4, <1>7, OutcomeAdvances DEF FailureCodes

\* A reply that contradicts the stored artifact.
LEMMA LookupMisreportedAdvances ==
    ASSUME Inductive, Further, LedgerGrows, NEW p \in Processes, LookupMisreported(p), UNCHANGED <<closed, chain>>
    PROVE  Advance(p)
<1>1. proc[p].pc \in Resolving /\ row' = row /\ FaultyReplies
  BY DEF LookupMisreported, Looking, Resolving
<1>2. PICK i \in Intents, r \in Row : i = proc[p].id /\ r = proc[p].snap /\ r.blob \in Tx
  BY <1>1, Deciding
<1>3. PICK failure \in IntegrityFailures : Outcome(p, "FAILED", failure, 0)
  BY DEF LookupMisreported, IntegrityFailures
<1>4. failure \in FailureCodes \cup {"none"} /\ failure # "SEQUENCE_CONFLICT" /\ OnlyConflict(failure)
  BY <1>1 DEF IntegrityFailures, FailureCodes, OnlyConflict
<1>5. QED
  BY <1>1, <1>2, <1>3, <1>4, OutcomeAdvances

\* searched_all with the window over is absence for ever.
LEMMA LookupNotFoundAdvances ==
    ASSUME Inductive, Further, LedgerGrows, NEW p \in Processes, LookupNotFound(p), UNCHANGED <<closed, chain>>
    PROVE  Advance(p)
<1>1. proc[p].pc \in Resolving /\ row' = row
  BY DEF LookupNotFound, Looking, Resolving
<1>2. PICK l \in Local, r \in Row, t \in Tx :
          /\ l = proc[p] /\ r = l.snap /\ t = r.blob /\ t.lls = r.lls
          /\ l.pc \in Resolving /\ l.pc \in Awaits \ {"rows"}
  BY <1>1, Deciding
<1>3. PICK v \in Views, searchedAll \in BOOLEAN :
          /\ searchedAll => v >= r.lls /\ FoundAt(t, v) = {}
          /\ \/ /\ searchedAll
                /\ Continue(p, [l EXCEPT !.pc = "provenAccount"])
             \/ /\ l.budget > 0
                /\ Continue(p, [l EXCEPT !.pc = "searchAgain", !.budget = l.budget - 1])
             \/ StillOpen(p)
  BY <1>2 DEF LookupNotFound, ProvenAbsent, MaySwitch
<1>4. CASE StillOpen(p)
  BY <1>1, <1>4, StillOpenAdvances
<1>5. CASE l.budget > 0 /\ Continue(p, [l EXCEPT !.pc = "searchAgain", !.budget = l.budget - 1])
  <2>1. PICK m \in Local : m = [l EXCEPT !.pc = "searchAgain", !.budget = l.budget - 1]
    <3>1. l.budget - 1 \in 0..1
      BY <1>5 DEF Local
    <3>2. QED
      BY <3>1 DEF Local, Awaits
  <2>2. MovesOn(l, m) /\ m.pc = "searchAgain"
    BY <1>2, <2>1 DEF MovesOn, Local, Resolving
  <2>3. Settling(m)'
    BY <2>2 DEF Settling
  <2>4. QED
    BY <1>1, <1>2, <1>5, <2>1, <2>2, <2>3, MoveAdvances DEF Continue
<1>6. CASE searchedAll /\ Continue(p, [l EXCEPT !.pc = "provenAccount"])
  <2>1. PICK m \in Local : m = [l EXCEPT !.pc = "provenAccount"]
    BY DEF Local, Awaits
  <2>2. MovesOn(l, m) /\ m.pc = "provenAccount" /\ m.snap = r
    BY <1>2, <2>1 DEF MovesOn, Local, Resolving
  <2>3. v \in Nat /\ v <= closed /\ closed \in Nat /\ t.lls \in Nat
    BY ViewsAreClosed DEF Tx, Inductive, TypeOK, NetworkTypeOK
  <2>4. v >= t.lls /\ FoundAt(t, v) = {}
    BY <1>2, <1>3, <1>6
  <2>5. ~Included(t)
    <3> SUFFICES ASSUME NEW e \in chain, e.tx = t PROVE FALSE
      BY DEF Included
    <3>1. e.at <= t.lls /\ e.at \in Nat
      BY NoTxAssumption DEF Further, OutcomesFine, LedgerFine, Inductive, TypeOK, NetworkTypeOK, Entry
    <3>2. e.at <= v
      BY <2>3, <2>4, <3>1
    <3>3. e \in FoundAt(t, v)
      BY <3>2 DEF FoundAt
    <3>4. QED
      BY <2>4, <3>3
  <2>6. Dead(t)
    BY <2>3, <2>4, <2>5 DEF Dead
  <2>7. Dead(t)'
    BY <2>6, DeadStays
  <2>8. Settling(m)'
    BY <1>2, <2>2, <2>7 DEF Settling
  <2>9. QED
    BY <1>1, <1>2, <1>6, <2>1, <2>2, <2>8, MoveAdvances DEF Continue
<1>7. QED
  BY <1>3, <1>4, <1>5, <1>6

\* Proven absence is EXPIRED or, with the Sequence consumed, SEQUENCE_CONFLICT: an
\* account that had the prepared Sequence inside the window still has it beyond.
LEMMA ReadProvenAccountAdvances ==
    ASSUME Inductive, Further, LedgerGrows, NEW p \in Processes, ReadProvenAccount(p), UNCHANGED <<closed, chain>>
    PROVE  Advance(p)
<1>1. proc[p].pc = "provenAccount" /\ proc[p].pc \in Resolving /\ row' = row
  BY DEF ReadProvenAccount, At, Resolving
<1>2. PICK l \in Local, i \in Intents, r \in Row, t \in Tx :
          /\ l = proc[p] /\ i = l.id /\ Known(l) /\ r = l.snap /\ t = r.blob
          /\ ReachedInWindow(i, r)
  BY <1>1, Deciding
<1> DEFINE a == AccountOf[i]
<1>3. PICK v \in Views :
          IF ~ExistsAt(a, v) THEN Outcome(p, "FAILED", "SEQUENCE_CONFLICT", 0)
          ELSE IF ~WindowOver(v, r) THEN StillOpen(p)
          ELSE IF SeqAt(a, v) = r.seq THEN Outcome(p, "EXPIRED", "none", 0)
          ELSE IF SeqAt(a, v) > r.seq THEN Outcome(p, "FAILED", "SEQUENCE_CONFLICT", 0)
          ELSE Outcome(p, "FAILED", "SEQUENCE_REGRESSION", 0)
  BY <1>2 DEF ReadProvenAccount
<1>4. /\ v \in Nat /\ v <= closed /\ closed \in Nat /\ r.seq \in Nat /\ r.lls \in Nat
  BY ViewsAreClosed DEF Row, Inductive, TypeOK, NetworkTypeOK
<1>5. SeqAt(a, v) \in Nat /\ SeqAt(a, closed) \in Nat /\ SeqAt(a, v) <= SeqAt(a, closed)
  BY <1>4, SeqMonotone
<1>6. WindowOver(v, r) => r.seq <= SeqAt(a, v)
  <2>1. ASSUME v > r.lls
        PROVE  r.seq <= SeqAt(a, v)
    <3>1. r.lls <= v
      BY <1>4, <2>1
    <3>2. SeqAt(a, r.lls) \in Nat /\ SeqAt(a, r.lls) <= SeqAt(a, v)
      BY <1>4, <3>1, SeqMonotone
    <3>3. r.seq <= SeqAt(a, r.lls)
      BY <1>2 DEF ReachedInWindow
    <3>4. QED
      BY <1>4, <1>5, <3>2, <3>3
  <2>2. QED
    BY <2>1 DEF WindowOver
<1>7. Dead(r.blob)
  BY <1>1, <1>2 DEF Known, Settling
<1>8. ~ExistsAt(a, v) => ~ExistsAt(a, closed)
  BY <1>4 DEF ExistsAt, Inductive, TypeOK, NetworkTypeOK, Entry
<1>9. \/ StillOpen(p)
      \/ Outcome(p, "EXPIRED", "none", 0)
      \/ Outcome(p, "FAILED", "SEQUENCE_CONFLICT", 0) /\ Consumed(i, r)
  <2>1. CASE ~ExistsAt(a, v)
    BY <1>3, <1>8, <2>1 DEF Consumed
  <2>2. CASE ExistsAt(a, v) /\ WindowOver(v, r) /\ SeqAt(a, v) > r.seq
    <3>1. Consumed(i, r)
      BY <1>4, <1>5, <2>2 DEF Consumed
    <3>2. QED
      BY <1>3, <1>4, <1>5, <2>2, <3>1
  <2>3. CASE ExistsAt(a, v) /\ (~WindowOver(v, r) \/ ~(SeqAt(a, v) > r.seq))
    BY <1>3, <1>4, <1>5, <1>6, <2>3
  <2>4. QED
    BY <2>1, <2>2, <2>3
<1>10. CASE StillOpen(p)
  BY <1>1, <1>10, StillOpenAdvances
<1>11. CASE Outcome(p, "EXPIRED", "none", 0)
  BY <1>1, <1>2, <1>7, <1>11, OutcomeAdvances DEF FailureCodes
<1>12. CASE Outcome(p, "FAILED", "SEQUENCE_CONFLICT", 0) /\ Consumed(i, r)
  BY <1>1, <1>2, <1>7, <1>12, OutcomeAdvances DEF FailureCodes, OnlyConflict
<1>13. QED
  BY <1>9, <1>10, <1>11, <1>12

\* The outcome is stored, by this request or by the one that was first: no other
\* row can refuse it.
LEMMA WriteOutcomeAdvances ==
    ASSUME Inductive, Preserved, Further, LedgerGrows, NEW p \in Processes, WriteOutcome(p)
    PROVE  Advance(p)
<1>1. proc[p].pc = "outcome" /\ proc[p].pc \in Resolving
  BY DEF WriteOutcome, At, Resolving
<1>2. PICK l \in Local, i \in Intents, r \in Row, t \in Tx :
          /\ l = proc[p] /\ i = l.id /\ LocalFine(l) /\ Known(l) /\ r = l.snap /\ t = r.blob
          /\ row[i] \in Row /\ RowInformed(i) /\ RowSettled(i)
          /\ row[i].blob = t /\ row[i].seq = r.seq /\ row[i].lls = r.lls
          /\ r.status \in SignedActive /\ row[i].status \in SignedActive \cup TerminalStatuses
  BY <1>1, Deciding
<1>3. PICK to \in {"VALIDATED", "EXPIRED", "FAILED"} : to = l.want.to
  BY <1>1, <1>2 DEF LocalFine
<1>4. /\ l.want \in [to : IntentStatuses, failure : FailureCodes \cup {"none"}, final : Nat]
      /\ l.want.failure \in FailureCodes \cup {"none"} /\ l.want.final \in Nat
  BY DEF Local
<1>5. PICK new \in Row : /\ new = [row[i] EXCEPT !.failure = l.want.failure, !.final = l.want.final]
                         /\ new.seq = row[i].seq /\ new.prep = row[i].prep /\ new.lls = row[i].lls
                         /\ new.sim = row[i].sim /\ new.blob = row[i].blob
                         /\ new.failure = l.want.failure
  <2>1. PICK s \in Row : s = row[i]
    BY <1>2
  <2>2. PICK new \in Row : new = [s EXCEPT !.failure = l.want.failure, !.final = l.want.final]
    BY <1>4 DEF Row
  <2>3. /\ new.seq = s.seq /\ new.prep = s.prep /\ new.lls = s.lls
        /\ new.sim = s.sim /\ new.blob = s.blob /\ new.failure = l.want.failure
    BY <2>2 DEF Row
  <2>4. QED
    BY <2>1, <2>2, <2>3
<1>6. Transition(i, SignedActive, to, new) /\ Concluded(p)
  BY <1>2, <1>3, <1>5 DEF WriteOutcome
<1>7. to \in IntentStatuses /\ CarriesOver(i, to, new)
  BY <1>5 DEF IntentStatuses, CarriesOver
<1>8. ASSUME row'[i] = [new EXCEPT !.status = to], row[i].status \in SignedActive
      PROVE  RowInformed(i)' /\ RowSettled(i)'
  <2>1. PICK s \in Row : s = row'[i]
    BY DEF Preserved, Inductive, TypeOK
  <2>2. /\ s.status = to /\ s.seq = row[i].seq /\ s.prep = row[i].prep /\ s.lls = row[i].lls
        /\ s.sim = row[i].sim /\ s.blob = row[i].blob /\ s.failure = l.want.failure
    BY <1>5, <1>8, <2>1 DEF Row
  <2>3. Settling(l)'
    BY <1>2, SettlingStays DEF Known
  <2>4. /\ to # "VALIDATED" /\ l.want.failure \notin IntegrityFailures => Dead(t)'
        /\ to # "FAILED" => l.want.failure = "none"
        /\ l.want.failure = "SEQUENCE_CONFLICT" => Consumed(i, r)'
        /\ to = "FAILED" => OnlyConflict(l.want.failure)
    BY <1>1, <1>2, <1>3, <2>3 DEF Settling, OnlyConflict
  <2>5. Consumed(i, r)' => Consumed(i, s)'
    BY <1>2, <2>2 DEF Consumed
  <2>6. /\ s.status \in TerminalStatuses \ {"VALIDATED"} /\ s.failure \notin IntegrityFailures =>
               Dead(s.blob)'
        /\ s.failure = "SEQUENCE_CONFLICT" => s.status = "FAILED" /\ Consumed(i, s)'
        /\ s.status = "FAILED" => OnlyConflict(s.failure)
        /\ s.status \in {"SUBMITTED"} \cup TerminalStatuses /\ s.status # "SUBMITTED"
    <3>1. s.blob = t => (Dead(t)' => Dead(s.blob)')
      BY DEF Dead, Included
    <3>2. QED
      BY <1>2, <2>2, <2>4, <2>5, <3>1 DEF TerminalStatuses
  <2>7. QED
    BY <1>2, <1>8, <2>1, <2>2, <2>6, SettlesRow
<1>9. Known(proc[p])'
  <2>1. CASE p = Worker
    <3>1. NextRow(batch)
      BY <1>6, <2>1 DEF Concluded
    <3>2. QED
      BY <2>1, <3>1, NextRowKnown
  <2>2. CASE p # Worker
    <3>1. proc'[p] = [Idle EXCEPT !.op = "submit", !.id = i, !.pc = "reloadSubmit", !.steps = l.steps + 1]
      BY <1>2, <1>6, <2>2 DEF Concluded, Goto, Inductive, TypeOK
    <3>2. row'[i].status \in TerminalStatuses
      <4>1. CASE row[i].status \notin SignedActive
        <5>1. row[i].status \in TerminalStatuses
          BY <1>2, <4>1
        <5>2. row'[i] = row[i]
          BY <1>6, <4>1 DEF Transition, TransitionResult
        <5>3. QED
          BY <5>1, <5>2
      <4>2. CASE row[i].status \in SignedActive
        <5>1. CanTransition(row[i].status, to)
          BY <4>2 DEF CanTransition, Transitions, SignedActive, IntentStatuses
        <5>2. to \notin SequenceActive
          BY DEF SequenceActive, SignedActive, UnsignedActive
        <5>3. ~HashTaken(i, new.blob)
          <6>1. new.blob = row[i].blob
            BY <1>5
          <6>2. \A j \in Intents : row[i].blob # NoTx /\ row[i].blob = row[j].blob => i = j
            BY DEF Further, LoopsFine, HashesUnique
          <6>3. QED
            BY <6>1, <6>2 DEF HashTaken
        <5>4. TransitionResult(i, SignedActive, to, new) = "updated"
          BY <4>2, <5>1, <5>2, <5>3 DEF TransitionResult
        <5>5. row'[i] = Updated(new, to)
          BY <1>6, <1>7, <5>4, UpdatedRow
        <5>6. row'[i].status = to
          BY <5>5 DEF Updated, Row
        <5>7. QED
          BY <5>6 DEF TerminalStatuses
      <4>3. QED
        BY <4>1, <4>2
    <3>3. PastSubmit(l.steps, r.status) /\ l.steps \in Nat
      BY <1>1, <1>2 DEF Known, Looping, Local
    <3>4. PastSubmit(l.steps + 1, row'[i].status) /\ l.steps + 1 \in Nat
      BY <1>2, <3>2, <3>3 DEF PastSubmit, SignedActive, TerminalStatuses
    <3>5. QED
      BY <3>1, <3>2, <3>4, ResumeKnown
  <2>3. QED
    BY <2>1, <2>2
<1>10. PICK m : Goto(p, m)
  BY <1>6 DEF Concluded, NextRow
<1>11. QED
  BY <1>2, <1>6, <1>7, <1>8, <1>9, <1>10, WriteAdvances

\* Every step of resolveSigned.
LEMMA ResolveAdvances ==
    ASSUME Inductive, Preserved, Further, LedgerGrows, NEW p \in Processes, ResolveSigned(p), UNCHANGED <<closed, chain>>
    PROVE  Advance(p)
<1>1. CASE LookupUnvalidated(p)
  BY <1>1, StillOpenAdvances DEF LookupUnvalidated
<1>2. QED
  BY <1>1, LookupFoundAdvances, LookupMisreportedAdvances, LookupNotFoundAdvances,
     ReadProvenAccountAdvances, WriteOutcomeAdvances DEF ResolveSigned

-------------------------------------------------------------------------------
(* The cycle, the network, signers, failures and restarts.                 *)

\* The cycle expires an unsigned row, or finds it changed.
LEMMA ExpireRowAdvances ==
    ASSUME Inductive, Preserved, Further, LedgerGrows, ExpireRow
    PROVE  Advance(Worker)
<1>1. Worker \in Processes /\ proc[Worker].pc = "expireRow" /\ proc[Worker].pc \in Awaits \ {"rows"}
  BY DEF ExpireRow, At, Awaits, Processes
<1>2. PICK i \in Intents :
          i = proc[Worker].id /\ row[i] \in Row /\ RowFine(i) /\ RowInformed(i) /\ RowSettled(i)
  BY <1>1, Standing
<1>3. PICK r \in Row : r = row[i]
  BY <1>2
<1>4. Transition(i, UnsignedActive, "EXPIRED", r) /\ NextRow(batch)
  BY <1>2, <1>3 DEF ExpireRow
<1>5. "EXPIRED" \in IntentStatuses /\ CarriesOver(i, "EXPIRED", r)
  BY <1>3 DEF IntentStatuses, CarriesOver
<1>6. ASSUME row'[i] = [r EXCEPT !.status = "EXPIRED"], row[i].status \in UnsignedActive
      PROVE  RowInformed(i)' /\ RowSettled(i)'
  <2>1. PICK s \in Row : s = row'[i]
    BY DEF Preserved, Inductive, TypeOK
  <2>2. /\ s.status = "EXPIRED" /\ s.seq = r.seq /\ s.prep = r.prep /\ s.lls = r.lls
        /\ s.blob = r.blob /\ s.failure = r.failure
    BY <1>6, <2>1 DEF Row
  <2>3. r.blob = NoTx /\ r.failure = "none" /\ r.status # "CREATED" /\ r.seq # 0
    BY <1>2, <1>3, <1>6 DEF RowFine, RowSettled, RowInformed, UnsignedActive, TerminalStatuses
  <2>4. RowInformed(i)'
    BY <2>1, <2>2, <2>3 DEF RowInformed
  <2>5. s.lls = s.prep + LastLedgerOffset /\ s.prep <= closed'
    <3>1. r.lls = r.prep + LastLedgerOffset /\ r.prep <= closed /\ r.prep \in Nat
      BY <1>2, <1>3, <2>3 DEF RowSettled, Row
    <3>2. QED
      BY <2>2, <3>1 DEF LedgerGrows
  <2>6. RowSettled(i)'
    BY <2>1, <2>2, <2>3, <2>5 DEF RowSettled, TerminalStatuses
  <2>7. QED
    BY <2>4, <2>6
<1>7. PICK l : Goto(Worker, l)
  BY <1>4 DEF NextRow
<1>8. Known(proc[Worker])'
  BY <1>4, NextRowKnown
<1>9. QED
  BY <1>1, <1>2, <1>4, <1>5, <1>6, <1>7, <1>8, WriteAdvances

\* Every step of the cycle that is its own.
LEMMA CycleAdvances ==
    ASSUME Inductive, Preserved, Further, LedgerGrows, Cycle
    PROVE  Advance(Worker)
<1>1. Worker \in Processes
  BY DEF Processes
<1>2. CASE StartCycle
  <2>1. PICK v \in Views : Goto(Worker, [Idle EXCEPT !.op = "cycle", !.pc = "rows", !.led = v])
    BY <1>2 DEF StartCycle
  <2>2. proc'[Worker].pc = "rows" /\ proc'[Worker].result = "none"
    BY <1>1, <2>1 DEF Goto, Inductive, TypeOK, Idle
  <2>3. Known(proc[Worker])'
    BY <2>2 DEF Known, Informed, Looping, Settling, Preparing, Attaching, Submitting, Resolving
  <2>4. QED
    BY <1>1, <1>2, <2>1, <2>3, ReadAdvances DEF StartCycle
<1>3. CASE ReadRows
  <2>1. PICK rows : NextRow(rows) /\ row' = row
    BY <1>3 DEF ReadRows
  <2>2. PICK l : Goto(Worker, l)
    BY <2>1 DEF NextRow
  <2>3. Known(proc[Worker])'
    BY <2>1, NextRowKnown
  <2>4. QED
    BY <1>1, <2>1, <2>2, <2>3, ReadAdvances
<1>4. QED
  BY <1>2, <1>3, ExpireRowAdvances DEF Cycle

\* A step that changes no row and moves no request, except to forget it.
LEMMA OutsideKeepsFurther ==
    ASSUME Inductive, Further, LedgerGrows, LedgerFine', row' = row,
           \A p \in Processes : proc'[p] = proc[p] \/ proc'[p] = Idle
    PROVE  Further'
<1>1. RowsMove /\ \A i \in Intents : RowGrows(i)
  BY DEF RowsMove, RowGrows, SignedActive
<1>2. \A i \in Intents : RowInformed(i)' /\ RowSettled(i)'
  BY RowStays DEF Further, AnswersFine, OutcomesFine
<1>3. ASSUME NEW p \in Processes
      PROVE  Known(proc[p])'
  <2>1. CASE proc'[p] = Idle
    BY <2>1, IdleKnown
  <2>2. CASE proc'[p] = proc[p]
    <3>1. PICK l \in Local : l = proc[p] /\ LocalFine(l) /\ Known(l)
      BY Standing
    <3>2. Informed(l)' /\ Looping(l)' /\ Settling(l)'
      BY <1>1, <3>1, InformedStays, LoopingStays, SettlingStays DEF Known
    <3>3. proc'[p] = l
      BY <2>2, <3>1
    <3>4. QED
      BY <3>2, <3>3 DEF Known
  <2>3. QED
    BY <2>1, <2>2
<1>4. HashesUnique'
  BY DEF Further, LoopsFine, HashesUnique
<1>5. QED
  BY <1>2, <1>3, <1>4 DEF Further, AnswersFine, LoopsFine, OutcomesFine, Known

\* What a closing ledger holds: a transaction in its window, not a malformed one.
LEMMA ClosingLedger ==
    ASSUME Inductive, Further, CloseLedger
    PROVE  LedgerGrows /\ LedgerFine'
<1>1. closed \in Nat /\ closed' = closed + 1 /\ UNCHANGED <<minted, banned>>
  BY DEF CloseLedger, Inductive, TypeOK, NetworkTypeOK
<1>2. /\ IsFiniteSet(chain') /\ chain' \subseteq Entry /\ chain \subseteq chain'
      /\ chain \subseteq Entry /\ minted \subseteq Tx
  BY CloseLedgerFine DEF NetworkTypeOK, Inductive, TypeOK
<1>3. PICK S \in SUBSET Candidates(closed + 1) : chain' = chain \cup S
  BY DEF CloseLedger
<1>4. ASSUME NEW e \in S
      PROVE  /\ e.at = closed + 1 /\ e.tx \notin banned
             /\ e.tx # NoTx => e.tx \in minted /\ closed + 1 <= e.tx.lls
  <2>1. \/ \E t \in minted \ banned : e.tx = t /\ e.at = closed + 1 /\ closed + 1 <= t.lls
        \/ e.tx = NoTx /\ e.at = closed + 1
    BY DEF Candidates
  <2>2. NoTx \notin banned
    BY <1>2, NoTxAssumption DEF Inductive, TypeOK, NetworkTypeOK
  <2>3. QED
    BY <2>1, <2>2
<1>5. LedgerGrows
  <2>1. \A t \in minted : t.lls \in Nat
    BY <1>2 DEF Tx
  <2>2. \A e \in chain' \ chain : e.tx \notin banned /\ (e.tx # NoTx => closed < e.tx.lls)
    BY <1>1, <1>3, <1>4, <2>1
  <2>3. QED
    BY <1>1, <1>2, <2>2 DEF LedgerGrows
<1>6. LedgerFine'
  <2>1. ASSUME NEW t \in minted'
        PROVE  t.lls <= closed' + LastLedgerOffset /\ t.lls \in Nat /\ t.lls < closed' + LastLedgerOffset
    <3>1. t \in minted /\ t.lls \in Nat /\ t.lls <= closed + LastLedgerOffset
      BY <1>1, <1>2 DEF Further, OutcomesFine, LedgerFine, Tx
    <3>2. QED
      BY <1>1, <3>1, PreparationAssumption
  <2>2. ASSUME NEW e \in chain'
        PROVE  /\ e.at <= closed'
               /\ e.tx # NoTx => /\ e.tx \in minted'
                                 /\ e.at <= e.tx.lls /\ e.tx.lls < e.at + LastLedgerOffset
    <3>1. CASE e \in chain
      <4>1. e.at \in Nat /\ e.at <= closed
        BY <1>2, <3>1 DEF Entry, Further, OutcomesFine, LedgerFine
      <4>2. e.tx # NoTx => /\ e.tx \in minted
                           /\ e.at <= e.tx.lls /\ e.tx.lls < e.at + LastLedgerOffset
        BY <3>1 DEF Further, OutcomesFine, LedgerFine
      <4>3. QED
        BY <1>1, <4>1, <4>2
    <3>2. CASE e \in S
      <4>1. e.at = closed' /\ (e.tx # NoTx => e.tx \in minted' /\ closed' <= e.tx.lls)
        BY <1>1, <1>4, <3>2
      <4>2. e.tx # NoTx => e.tx.lls < closed' + LastLedgerOffset
        BY <2>1, <4>1
      <4>3. QED
        BY <1>1, <4>1, <4>2
    <3>3. QED
      BY <1>3, <3>1, <3>2
  <2>3. QED
    BY <2>1, <2>2 DEF LedgerFine
<1>7. QED
  BY <1>5, <1>6

\* A transaction is signed once it is prepared, so not for a window that begins later.
LEMMA SigningLedger ==
    ASSUME Inductive, Further, Sign
    PROVE  LedgerGrows /\ LedgerFine'
<1>1. UNCHANGED <<closed, chain, banned>>
  BY DEF Sign
<1>2. LedgerGrows
  BY <1>1 DEF LedgerGrows, Inductive, TypeOK, NetworkTypeOK
<1>3. PICK i \in Intents, k \in Keys :
          /\ row[i].seq # 0
          /\ minted' = minted \cup {[acct |-> AccountOf[i], pay |-> PayloadOf[i],
                                     seq |-> row[i].seq, lls |-> row[i].lls, key |-> k]}
  BY DEF Sign
<1>4. row[i].lls <= closed + LastLedgerOffset
  <2>1. RowFine(i) /\ RowSettled(i) /\ row[i].prep \in Nat /\ closed \in Nat
    BY DEF Inductive, TypeOK, NetworkTypeOK, Row, Further, OutcomesFine
  <2>2. row[i].lls = row[i].prep + LastLedgerOffset /\ row[i].prep <= closed
    BY <1>3, <2>1 DEF RowFine, RowSettled
  <2>3. QED
    BY <2>1, <2>2, PreparationAssumption
<1>5. \A t \in minted' : t.lls <= closed + LastLedgerOffset
  BY <1>3, <1>4 DEF Further, OutcomesFine, LedgerFine
<1>6. LedgerFine'
  BY <1>1, <1>3, <1>5 DEF LedgerFine, Further, OutcomesFine
<1>7. QED
  BY <1>2, <1>6

-------------------------------------------------------------------------------
(* The theorems.                                                           *)

LEMMA InitFurther == Init => Further
<1> SUFFICES ASSUME Init PROVE Further
  OBVIOUS
<1>1. LedgerFine
  BY DEF Init, NetworkInit, LedgerFine
<1>2. ASSUME NEW i \in Intents
      PROVE  RowInformed(i) /\ RowSettled(i) /\ row[i].blob = NoTx
  BY DEF Init, StoreInit, NewRow, RowInformed, RowSettled
<1>3. ASSUME NEW p \in Processes
      PROVE  Informed(proc[p]) /\ Looping(proc[p]) /\ Settling(proc[p])
  <2>1. proc[p].pc = "idle" /\ proc[p].result = "none"
    BY DEF Init, Idle
  <2>2. QED
    BY <2>1 DEF Informed, Looping, Settling, Preparing, Attaching, Submitting, Resolving
<1>4. QED
  BY <1>1, <1>2, <1>3 DEF Further, AnswersFine, LoopsFine, HashesUnique, OutcomesFine

\* A step that changes no row and moves no request, except to forget it.
Outside ==
    /\ row' = row
    /\ \A p \in Processes : proc'[p] = proc[p] \/ proc'[p] = Idle

\* Every step of the service, of the network and of the signers is one of these.
LEMMA NextAdvances ==
    ASSUME Inductive, Further, Next
    PROVE  /\ Preserved /\ LedgerGrows /\ LedgerFine'
           /\ Outside \/ \E p \in Processes : Advance(p)
<1>1. Preserved
  BY NextKeeps
<1>2. CASE NetworkStep
  BY <1>1, <1>2, ClosingLedger DEF NetworkStep, Outside
<1>3. CASE SignerStep
  BY <1>1, <1>3, SigningLedger DEF SignerStep, Sign, Outside
<1>4. CASE Crash
  <2>1. LedgerGrows /\ LedgerFine'
    BY <1>4, QuietLedger DEF Crash, networkVars
  <2>2. Outside
    BY <1>4 DEF Crash, Outside
  <2>3. QED
    BY <1>1, <2>1, <2>2
<1>5. ASSUME NEW p \in Processes, FailStep(p)
      PROVE  LedgerGrows /\ LedgerFine' /\ Outside
  <2>1. LedgerGrows /\ LedgerFine'
    BY <1>5, QuietLedger DEF FailStep, networkVars
  <2>2. row' = row /\ Goto(p, Idle)
    BY <1>5 DEF FailStep, Fails, Answered
  <2>3. Outside
    BY <2>2 DEF Goto, Inductive, TypeOK, Outside
  <2>4. QED
    BY <2>1, <2>3
<1>6. CASE CycleStep
  <2>1. LedgerGrows /\ LedgerFine'
    BY <1>6, QuietLedger DEF CycleStep, networkVars
  <2>2. Advance(Worker) /\ Worker \in Processes
    BY <1>1, <1>6, <2>1, CycleAdvances DEF CycleStep, Processes
  <2>3. QED
    BY <1>1, <2>1, <2>2
<1>7. ASSUME NEW p \in Processes, ResolveStep(p)
      PROVE  LedgerGrows /\ LedgerFine' /\ Advance(p)
  <2>1. LedgerGrows /\ LedgerFine'
    BY <1>7, QuietLedger DEF ResolveStep, networkVars
  <2>2. Advance(p)
    BY <1>1, <1>7, <2>1, ResolveAdvances DEF ResolveStep, networkVars
  <2>3. QED
    BY <2>1, <2>2
<1>8. ASSUME NEW c \in Callers, CallerStep(c)
      PROVE  LedgerGrows /\ LedgerFine' /\ Advance(c)
  <2>1. UNCHANGED <<closed, chain, minted>> /\ banned \subseteq banned'
    BY <1>8 DEF CallerStep, networkVars, Submit, StartSubmit, ReloadSubmit, ReadSubmitLedger, WriteBaseline,
       SubmitAnswered, SubmitUnanswered, RecordSubmit
  <2>2. LedgerGrows /\ LedgerFine'
    BY <2>1, QuietLedger
  <2>3. Advance(c)
    BY <1>1, <1>8, <2>1, <2>2, PrepareAdvances, AttachAdvances, SubmitAdvances DEF CallerStep
  <2>4. QED
    BY <2>2, <2>3
<1>9. CASE \E c \in Callers : CallerStep(c)
  BY <1>1, <1>8, <1>9 DEF Processes
<1>10. CASE \E p \in Processes : ResolveStep(p) \/ FailStep(p)
  BY <1>1, <1>5, <1>7, <1>10
<1>11. QED
  BY <1>2, <1>3, <1>4, <1>6, <1>9, <1>10 DEF Next

\* So every step keeps what answers, loops and outcomes rest on.
LEMMA NextKeepsFurther == ASSUME Inductive, Further, Next PROVE Further'
  BY NextAdvances, AdvanceKeeps, OutsideKeepsFurther DEF Outside

\* Answers, loops and outcomes rest on what holds in every reachable state.
THEOREM FurtherInvariance == Spec => []Further
<1>1. Inductive /\ Further /\ [Next]_vars => Further'
  <2> SUFFICES ASSUME Inductive, Further, [Next]_vars PROVE Further'
    OBVIOUS
  <2>1. CASE Next
    BY <2>1, NextKeepsFurther
  <2>2. CASE UNCHANGED vars
    <3>1. LedgerGrows /\ LedgerFine'
      BY <2>2, QuietLedger DEF vars, networkVars
    <3>2. QED
      BY <2>2, <3>1, OutsideKeepsFurther DEF vars
  <2>3. QED
    BY <2>1, <2>2
<1>2. QED
  BY <1>1, InitFurther, Invariance, PTL DEF Spec

\* Proven absence is final: an intent settled in any way but VALIDATED has its
\* stored blob in no validated ledger, now or later, whoever broadcasts it, with
\* however lagging endpoints.
THEOREM SettledIsFinal == Spec => []SettledNeverLands
<1>1. Further => SettledNeverLands
  BY DEF Further, OutcomesFine, RowSettled, IntegrityFailures, Dead, SettledNeverLands
<1>2. QED
  BY <1>1, FurtherInvariance, PTL

\* SEQUENCE_CONFLICT means a Sequence that is consumed or an account that is gone;
\* a signed intent fails for nothing else while the endpoints report truthfully.
THEOREM FailuresAreTrue == Spec => []FailuresAreReal
<1>1. Further => FailuresAreReal
  <2> SUFFICES ASSUME Further, NEW i \in Intents
               PROVE  /\ row[i].failure = "SEQUENCE_CONFLICT" =>
                             \/ SeqAt(AccountOf[i], closed) > row[i].seq
                             \/ ~ExistsAt(AccountOf[i], closed)
                      /\ row[i].status = "FAILED" /\ row[i].blob # NoTx /\ ~FaultyReplies =>
                             row[i].failure = "SEQUENCE_CONFLICT"
    BY DEF FailuresAreReal
  <2>1. RowSettled(i)
    BY DEF Further, OutcomesFine
  <2>2. QED
    BY <2>1 DEF RowSettled, Consumed, OnlyConflict
<1>2. QED
  BY <1>1, FurtherInvariance, PTL

\* An accepted signature is the stored one and a prepared intent has passed its
\* simulation, whatever ran between the read and the answer, and after it.
THEOREM AnswersAreStored == Spec => []AnswerIsStored
<1>1. Further => AnswerIsStored
  <2> SUFFICES ASSUME Further, NEW c \in Callers, proc[c].pc = "done", proc[c].result = "ok"
               PROVE  /\ proc[c].op = "attach" => row[proc[c].id].blob = proc[c].blob
                      /\ proc[c].op = "prepare" =>
                             row[proc[c].id].seq # 0 /\ row[proc[c].id].sim = "tesSUCCESS"
    BY DEF AnswerIsStored
  <2>1. Informed(proc[c])
    BY DEF Further, AnswersFine, Processes
  <2>2. proc[c].id \in Intents /\ row[proc[c].id].status # "CREATED"
    BY <2>1 DEF Informed
  <2>3. row[proc[c].id].seq # 0
    BY <2>2 DEF Further, AnswersFine, RowInformed
  <2>4. QED
    BY <2>1, <2>3 DEF Informed
<1>2. QED
  BY <1>1, FurtherInvariance, PTL

\* INTENT_EXPIRED is true when it is answered and ever after.
THEOREM ExpiredAnswersAreTrue == Spec => []ExpiredAnswerIsPast
<1>1. Further => ExpiredAnswerIsPast
  <2> SUFFICES ASSUME Further, NEW c \in Callers, proc[c].result = "expired"
               PROVE  row[proc[c].id].seq # 0 /\ closed > row[proc[c].id].lls
    BY DEF ExpiredAnswerIsPast
  <2>1. Informed(proc[c])
    BY DEF Further, AnswersFine, Processes
  <2>2. proc[c].id \in Intents /\ row[proc[c].id].status # "CREATED"
    BY <2>1 DEF Informed
  <2>3. row[proc[c].id].seq # 0
    BY <2>2 DEF Further, AnswersFine, RowInformed
  <2>4. QED
    BY <2>1, <2>3 DEF Informed, WindowOver
<1>2. QED
  BY <1>1, FurtherInvariance, PTL

\* Neither step loop runs out of iterations: each one that repeats finds the row
\* further on, and a row has nowhere left to go before the last.
THEOREM LoopsTerminate == Spec => []LoopsSettle
<1>1. Further => LoopsSettle
  BY DEF Further, LoopsFine, Looping, LoopsSettle, Processes
<1>2. QED
  BY <1>1, FurtherInvariance, PTL
==============================================================================
