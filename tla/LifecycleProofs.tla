---------------------------- MODULE LifecycleProofs ----------------------------
(***************************************************************************)
(* The service implements the lifecycle of an intent: seen through its     *)
(* statuses, owners and blobs, each of its steps is a step of              *)
(* IntentLifecycle or none.  And two results about all its steps: attempts *)
(* are never overcounted, and recovery comes before any new transaction.   *)
(***************************************************************************)
EXTENDS OutcomeProofs

Owns(i, a) == AccountOf[i] = a /\ row[i].status \in SequenceActive

\* The intent that owns the Sequence of an account is the only one.
LEMMA OwnerOf ==
    ASSUME OneSequenceOwner, NEW a
    PROVE  /\ \A i \in Intents : Owns(i, a) => Owner(a) = i
           /\ (\A i \in Intents : ~Owns(i, a)) => Owner(a) = 0
<1>1. ASSUME NEW i \in Intents, Owns(i, a)
      PROVE  Owner(a) = i
  <2>1. Owner(a) = CHOOSE j \in Intents : Owns(j, a)
    BY <1>1 DEF Owner, Owns
  <2>2. \A j \in Intents : Owns(j, a) => j = i
    BY <1>1 DEF OneSequenceOwner, Owns
  <2>3. (CHOOSE j \in Intents : Owns(j, a)) = i
    <3>1. \E j \in Intents : Owns(j, a)
      BY <1>1
    <3>2. PICK k : k = CHOOSE j \in Intents : Owns(j, a)
      OBVIOUS
    <3>3. k \in Intents /\ Owns(k, a)
      BY <3>1, <3>2, Zenon
    <3>4. QED
      BY <2>2, <3>2, <3>3
  <2>4. QED
    BY <2>1, <2>3
<1>2. ASSUME \A i \in Intents : ~Owns(i, a)
      PROVE  Owner(a) = 0
  BY <1>2 DEF Owner, Owns
<1>3. QED
  BY <1>1, <1>2

\* The owner of an account changes only when one of its intents becomes active
\* or settles.
LEMMA OwnerStays ==
    ASSUME OneSequenceOwner, OneSequenceOwner', NEW a,
           \A i \in Intents : Owns(i, a) <=> Owns(i, a)'
    PROVE  Owner(a)' = Owner(a)
<1>1. CASE \E i \in Intents : Owns(i, a)
  <2>1. PICK i \in Intents : Owns(i, a) /\ Owns(i, a)'
    BY <1>1
  <2>2. Owner(a) = i
    BY <2>1, OwnerOf
  <2>3. Owner(a)' = i
    <3>1. PICK k : k = CHOOSE j \in Intents : Owns(j, a)'
      OBVIOUS
    <3>2. Owner(a)' = k
      BY <2>1, <3>1 DEF Owner, Owns
    <3>3. k \in Intents /\ Owns(k, a)'
      BY <2>1, <3>1, Zenon
    <3>4. k = i
      BY <2>1, <3>3 DEF OneSequenceOwner, Owns
    <3>5. QED
      BY <3>2, <3>4
  <2>4. QED
    BY <2>2, <2>3
<1>2. CASE \A i \in Intents : ~Owns(i, a)
  <2>1. Owner(a) = 0
    BY <1>2, OwnerOf
  <2>2. Owner(a)' = 0
    <3>1. \A i \in Intents : ~Owns(i, a)'
      BY <1>2
    <3>2. QED
      BY <3>1 DEF Owner, Owns
  <2>3. QED
    BY <2>1, <2>2
<1>3. QED
  BY <1>1, <1>2

-------------------------------------------------------------------------------
(* One row moves: the lifecycle moves with it.                             *)

Statuses  == [i \in Intents |-> row[i].status]
Owners    == [a \in Accounts |-> Owner(a)]
Blobs     == [i \in Intents |-> row[i].blob]

\* What the step of one row leaves of the others.
OthersStay(i) == \A j \in Intents \ {i} : row'[j] = row[j]

LEMMA OthersKeep ==
    ASSUME Inductive, Inductive', NEW i \in Intents, OthersStay(i)
    PROVE  /\ Statuses' = [Statuses EXCEPT ![i] = row'[i].status]
           /\ Blobs' = [Blobs EXCEPT ![i] = row'[i].blob]
           /\ \A a \in Accounts \ {AccountOf[i]} : Owners'[a] = Owners[a]
           /\ (row[i].status \in SequenceActive <=> row'[i].status \in SequenceActive) =>
                  Owners' = Owners
<1>1. Statuses' = [Statuses EXCEPT ![i] = row'[i].status]
  BY DEF Statuses, OthersStay
<1>2. Blobs' = [Blobs EXCEPT ![i] = row'[i].blob]
  BY DEF Blobs, OthersStay
<1>3. ASSUME NEW a \in Accounts,
             a # AccountOf[i] \/ (row[i].status \in SequenceActive <=> row'[i].status \in SequenceActive)
      PROVE  Owner(a)' = Owner(a)
  <2>1. \A j \in Intents : Owns(j, a) <=> Owns(j, a)'
    BY <1>3 DEF Owns, OthersStay
  <2>2. QED
    BY <2>1, OwnerStays DEF Inductive
<1>4. QED
  BY <1>1, <1>2, <1>3 DEF Owners

\* The lifecycle has the state machine of the service.
LEMMA SameTable ==
    /\ Lifecycle!Transitions = Transitions
    /\ Lifecycle!SequenceActive = SequenceActive
    /\ Lifecycle!UnsignedActive = UnsignedActive
    /\ Lifecycle!SignedActive = SignedActive
    /\ Lifecycle!TerminalStatuses = TerminalStatuses
<1>1. Lifecycle!IntentStatuses = IntentStatuses
  BY DEF Lifecycle!IntentStatuses, IntentStatuses
<1>2. Lifecycle!Transitions = Transitions
  BY <1>1 DEF Lifecycle!Transitions, Transitions
<1>3. Lifecycle!UnsignedActive = UnsignedActive /\ Lifecycle!SignedActive = SignedActive
  BY DEF Lifecycle!UnsignedActive, UnsignedActive, Lifecycle!SignedActive, SignedActive
<1>4. QED
  BY <1>2, <1>3 DEF Lifecycle!SequenceActive, SequenceActive, Lifecycle!TerminalStatuses, TerminalStatuses

LEMMA MovesOnce ==
    ASSUME NEW i \in Intents, NEW to \in Transitions[Statuses[i]],
           Statuses' = [Statuses EXCEPT ![i] = to],
           Lifecycle!Acquire(i, to) \/ Lifecycle!Advance(i, to) \/ Lifecycle!Settle(i, to)
    PROVE  Lifecycle!LifecycleNext
  BY SameTable DEF Lifecycle!LifecycleNext, Statuses

\* An intent becomes active while no other one of its account is, and its account
\* gets it as owner.
LEMMA AcquireStep ==
    ASSUME Inductive, Inductive', NEW i \in Intents, OthersStay(i), RowChange(i),
           row[i].status \notin SequenceActive, row'[i].status \in SequenceActive
    PROVE  Lifecycle!LifecycleNext
<1>1. /\ CanTransition(row[i].status, row'[i].status) /\ ~AccountBusy(i)
      /\ row'[i].status # "SIGNED" /\ row'[i].blob = row[i].blob
  <2>1. row[i].status \in IntentStatuses
    BY DEF Inductive, TypeOK, Row
  <2>2. row[i].status \notin SignedActive
    BY DEF SequenceActive
  <2>3. CanTransition(row[i].status, row'[i].status) /\ ~AccountBusy(i)
    BY <2>2 DEF RowChange
  <2>4. row'[i].status # "SIGNED"
    BY <2>1, <2>3 DEF CanTransition, Transitions, IntentStatuses, SequenceActive, UnsignedActive, SignedActive
  <2>5. QED
    BY <2>2, <2>3, <2>4 DEF RowChange
<1>2. AccountOf[i] \in Accounts
  BY StoreAssumption
<1>3. Owners[AccountOf[i]] = 0
  <2>1. \A j \in Intents : ~Owns(j, AccountOf[i])
    BY <1>1 DEF AccountBusy, Owns
  <2>2. QED
    BY <1>2, <2>1, OwnerOf DEF Owners, Inductive
<1>4. Owners' = [Owners EXCEPT ![AccountOf[i]] = i]
  <2>1. Owner(AccountOf[i])' = i
    <3>1. PICK k : k = CHOOSE j \in Intents : Owns(j, AccountOf[i])'
      OBVIOUS
    <3>2. Owns(i, AccountOf[i])'
      BY DEF Owns
    <3>3. Owner(AccountOf[i])' = k
      BY <3>1, <3>2 DEF Owner, Owns
    <3>4. k \in Intents /\ Owns(k, AccountOf[i])'
      BY <3>1, <3>2, Zenon
    <3>5. k = i
      BY <3>2, <3>4 DEF Inductive, OneSequenceOwner, Owns
    <3>6. QED
      BY <3>3, <3>5
  <2>2. \A a \in Accounts \ {AccountOf[i]} : Owners'[a] = Owners[a]
    BY OthersKeep
  <2>3. QED
    BY <1>2, <2>1, <2>2 DEF Owners
<1>5. Statuses' = [Statuses EXCEPT ![i] = row'[i].status] /\ Blobs' = Blobs
  BY <1>1, OthersKeep DEF Blobs
<1>6. Statuses[i] = row[i].status /\ row'[i].status \in Transitions[Statuses[i]]
  BY <1>1 DEF Statuses, CanTransition
<1>7. Lifecycle!Acquire(i, row'[i].status)
  BY <1>3, <1>4, <1>5, <1>6, SameTable DEF Lifecycle!Acquire, Statuses, Owners, Blobs
<1>8. QED
  BY <1>5, <1>6, <1>7, MovesOnce

\* The owner moves on: the blob comes with SIGNED, no other intent has it, and it
\* stays.
LEMMA AdvanceStep ==
    ASSUME Inductive, Inductive', NEW i \in Intents, OthersStay(i), RowChange(i),
           CanTransition(row[i].status, row'[i].status),
           row[i].status \in SequenceActive, row'[i].status \in SequenceActive
    PROVE  Lifecycle!LifecycleNext
<1>0. PICK to : to = row'[i].status
  OBVIOUS
<1>1. /\ row[i].status \in IntentStatuses /\ RowFine(i) /\ row'[i].status # row[i].status
  BY DEF Inductive, TypeOK, Row, CanTransition, Transitions, IntentStatuses, SequenceActive,
     UnsignedActive, SignedActive
<1>2. IF to = "SIGNED" THEN row'[i].blob \in minted ELSE row'[i].blob = row[i].blob
  BY <1>0, <1>1 DEF RowChange
<1>3. to = "SIGNED" <=> row[i].status \in UnsignedActive /\ to \in SignedActive
  BY <1>0, <1>1 DEF CanTransition, Transitions, IntentStatuses, SequenceActive, UnsignedActive, SignedActive
<1>4. AccountOf[i] \in Accounts /\ Owners[AccountOf[i]] = i
  BY OwnerOf, StoreAssumption DEF Owners, Inductive, Owns
<1>5. /\ Statuses' = [Statuses EXCEPT ![i] = to] /\ Blobs' = [Blobs EXCEPT ![i] = row'[i].blob]
      /\ Owners' = Owners
  BY <1>0, OthersKeep
<1>6. Statuses[i] = row[i].status /\ to \in Transitions[Statuses[i]] /\ Blobs'[i] = row'[i].blob
  BY <1>0 DEF Statuses, Blobs, CanTransition
<1>7. to = "SIGNED" => row'[i].blob \in Tx /\ \A j \in Intents : Blobs[j] # row'[i].blob
  <2> SUFFICES ASSUME to = "SIGNED"
               PROVE  row'[i].blob \in Tx /\ \A j \in Intents : Blobs[j] # row'[i].blob
    OBVIOUS
  <2>1. row'[i].blob \in Tx /\ row'[i].blob # NoTx
    BY <1>0, <1>2, NoTxAssumption DEF Inductive, TypeOK, NetworkTypeOK
  <2>2. ~HashTaken(i, row'[i].blob)
    BY <1>0, <1>1 DEF RowChange
  <2>3. row[i].blob = NoTx
    BY <1>1, <1>3 DEF RowFine
  <2>4. QED
    BY <2>1, <2>2, <2>3 DEF HashTaken, Blobs
<1>8. to # "SIGNED" => Blobs' = Blobs
  BY <1>2, <1>5 DEF Blobs
<1>9. Lifecycle!Advance(i, to)
  <2>1. CASE to = "SIGNED"
    <3>1. Statuses[i] \in UnsignedActive /\ to \in SignedActive /\ to \in SequenceActive
      BY <1>3, <1>6, <2>1 DEF SequenceActive
    <3>2. /\ Blobs'[i] \in Tx
          /\ \A j \in Intents : Blobs[j] # Blobs'[i]
          /\ Blobs' = [Blobs EXCEPT ![i] = Blobs'[i]]
      BY <1>5, <1>6, <1>7, <2>1
    <3>3. QED
      BY <1>4, <1>5, <3>1, <3>2, SameTable, Zenon DEF Lifecycle!Advance, Statuses, Owners, Blobs
  <2>2. CASE to # "SIGNED"
    BY <1>3, <1>4, <1>5, <1>6, <1>8, <2>2, SameTable DEF Lifecycle!Advance, Statuses, Owners, Blobs
  <2>3. QED
    BY <2>1, <2>2
<1>10. QED
  BY <1>5, <1>6, <1>9, MovesOnce

\* A settled intent gives the Sequence back.
LEMMA SettleStep ==
    ASSUME Inductive, Inductive', NEW i \in Intents, OthersStay(i), RowChange(i),
           row[i].status \in SequenceActive, row'[i].status \notin SequenceActive
    PROVE  Lifecycle!LifecycleNext
<1> DEFINE to == row'[i].status
<1>1. row[i].status \in IntentStatuses /\ CanTransition(row[i].status, to)
  BY DEF Inductive, TypeOK, Row, RowChange, SequenceActive
<1>2. to \in TerminalStatuses /\ to # "SIGNED"
  BY <1>1 DEF CanTransition, Transitions, IntentStatuses, SequenceActive, UnsignedActive, SignedActive,
     TerminalStatuses
<1>3. row'[i].blob = row[i].blob
  BY <1>2 DEF RowChange
<1>4. AccountOf[i] \in Accounts /\ Owners[AccountOf[i]] = i
  BY OwnerOf, StoreAssumption DEF Owners, Inductive, Owns
<1>5. Statuses' = [Statuses EXCEPT ![i] = to] /\ Blobs' = Blobs
  BY <1>3, OthersKeep DEF Blobs
<1>6. Owners' = [Owners EXCEPT ![AccountOf[i]] = 0]
  <2>1. \A j \in Intents : ~Owns(j, AccountOf[i])'
    <3>1. ASSUME NEW j \in Intents \ {i}
          PROVE  ~Owns(j, AccountOf[i])'
      BY DEF Inductive, OneSequenceOwner, Owns, OthersStay
    <3>2. ~Owns(i, AccountOf[i])'
      BY DEF Owns
    <3>3. QED
      BY <3>1, <3>2
  <2>2. Owner(AccountOf[i])' = 0
    BY <2>1 DEF Owner, Owns
  <2>3. \A a \in Accounts \ {AccountOf[i]} : Owners'[a] = Owners[a]
    BY OthersKeep
  <2>4. QED
    BY <1>4, <2>2, <2>3 DEF Owners
<1>7. Statuses[i] = row[i].status /\ to \in Transitions[Statuses[i]]
  BY <1>1 DEF Statuses, CanTransition
<1>8. Lifecycle!Settle(i, to)
  BY <1>2, <1>4, <1>5, <1>6, SameTable DEF Lifecycle!Settle, Owners, Blobs
<1>9. QED
  BY <1>5, <1>7, <1>8, MovesOnce

\* Every change of a row is one of these, or nothing the lifecycle sees.
LEMMA RowChangeStep ==
    ASSUME Inductive, Inductive', NEW i \in Intents, OthersStay(i), RowChange(i)
    PROVE  Lifecycle!LifecycleNext \/ UNCHANGED <<Statuses, Owners, Blobs>>
<1>1. CASE row[i].status \notin SequenceActive /\ row'[i].status \in SequenceActive
  BY <1>1, AcquireStep
<1>2. CASE row[i].status \in SequenceActive /\ row'[i].status \notin SequenceActive
  BY <1>2, SettleStep
<1>3. CASE /\ row[i].status \in SequenceActive /\ row'[i].status \in SequenceActive
           /\ CanTransition(row[i].status, row'[i].status)
  BY <1>3, AdvanceStep
<1>4. CASE ~CanTransition(row[i].status, row'[i].status)
  <2>1. row'[i].status = row[i].status /\ row'[i].blob = row[i].blob
    BY <1>4 DEF RowChange
  <2>2. Owners' = Owners
    BY <2>1, OthersKeep
  <2>3. QED
    BY <2>1, <2>2, OthersKeep DEF Statuses, Blobs
<1>5. CASE /\ row[i].status \notin SequenceActive /\ row'[i].status \notin SequenceActive
           /\ CanTransition(row[i].status, row'[i].status)
  <2>1. row[i].status \in IntentStatuses
    BY DEF Inductive, TypeOK, Row
  <2>2. QED
    BY <1>5, <2>1 DEF CanTransition, Transitions, IntentStatuses, SequenceActive, UnsignedActive, SignedActive
<1>6. QED
  BY <1>1, <1>2, <1>3, <1>4, <1>5

\* Whichever request, cycle, endpoint, signer or restart takes the next step, an
\* intent takes the Sequence of its account when it is prepared, keeps it until it
\* is settled, has one blob that no other intent has, and then stays as it is.
THEOREM LifecycleImplemented == Spec => ImplementsLifecycle
<1>1. Init => Lifecycle!LifecycleInit
  <2> SUFFICES ASSUME Init PROVE Lifecycle!LifecycleInit
    OBVIOUS
  <2>1. \A i \in Intents : row[i].status = "CREATED" /\ row[i].blob = NoTx
    BY DEF Init, StoreInit, NewRow
  <2>2. \A a \in Accounts : Owner(a) = 0
    BY <2>1 DEF Owner, SequenceActive, UnsignedActive, SignedActive
  <2>3. QED
    BY <2>1, <2>2 DEF Lifecycle!LifecycleInit
<1>2. Inductive /\ Further /\ [Next]_vars => [Lifecycle!LifecycleNext]_Lifecycle!lifecycleVars
  <2> SUFFICES ASSUME Inductive, Further, [Next]_vars
               PROVE  Lifecycle!LifecycleNext \/ UNCHANGED <<Statuses, Owners, Blobs>>
    BY DEF Lifecycle!lifecycleVars, Statuses, Owners, Blobs
  <2>1. CASE row' = row
    <3>1. \A a \in Accounts : Owner(a)' = Owner(a)
      BY <2>1 DEF Owner
    <3>2. QED
      BY <2>1, <3>1 DEF Statuses, Owners, Blobs
  <2>2. CASE Next
    <3>1. Inductive'
      BY <2>2, NextKeeps DEF Preserved
    <3>2. CASE Outside
      BY <2>1, <3>2 DEF Outside
    <3>3. ASSUME NEW p \in Processes, Advance(p)
          PROVE  Lifecycle!LifecycleNext \/ UNCHANGED <<Statuses, Owners, Blobs>>
      <4>1. CASE \A i \in Intents : row'[i] = row[i]
        <5>1. row' = row
          BY <3>1, <4>1 DEF Inductive, TypeOK
        <5>2. QED
          BY <2>1, <5>1
      <4>2. CASE \E i \in Intents : row'[i] # row[i]
        <5>1. PICK i \in Intents : i = proc[p].id /\ RowChange(i)
          BY <3>3, <4>2 DEF Advance
        <5>2. OthersStay(i)
          BY <3>3, <5>1 DEF Advance, OthersStay
        <5>3. QED
          BY <3>1, <5>1, <5>2, RowChangeStep
      <4>3. QED
        BY <4>1, <4>2
    <3>4. QED
      BY <2>2, <3>2, <3>3, NextAdvances
  <2>3. QED
    BY <2>1, <2>2 DEF vars
<1>3. QED
  BY <1>1, <1>2, Invariance, FurtherInvariance, PTL DEF Spec, ImplementsLifecycle, Lifecycle!LifecycleSpec

-------------------------------------------------------------------------------
(* Where a step leaves the request it moves, and what it counts.           *)

\* The loop body of prepare awaits nothing but the completion of a stored
\* simulation before recovery is over.
LEMMA PrepareStepPc ==
    ASSUME NEW local, NEW r, NEW n
    PROVE  \/ PrepareStep(local, r, n).pc \in {"idle", "done", "complete"}
           \/ recovered /\ PrepareStep(local, r, n).pc \in {"account", "simLedger"}
  BY DEF PrepareStep, Answered, Idle, AssertRecovered

LEMMA SubmitStepPc ==
    ASSUME NEW local, NEW r, NEW n
    PROVE  \/ SubmitStep(local, r, n).pc \in {"idle", "done"}
           \/ recovered /\ SubmitStep(local, r, n).pc = "submitLedger"
  BY DEF SubmitStep, Answered, Idle, AssertRecovered

LEMMA AnsweredPc ==
    ASSUME NEW local, NEW result, NEW r
    PROVE  /\ Answered(local, result).pc \in {"idle", "done"}
           /\ SettledAnswer(local, r).pc \in {"idle", "done"}
  BY DEF SettledAnswer, Answered, Idle

\* A step of p that counts no attempt and has none to record.
Undisturbed(p) ==
    /\ \A q \in Processes \ {p} : proc'[q] = proc[q]
    /\ proc'[p].pc # "record"
    /\ \A i \in Intents : row'[i].attempts = row[i].attempts

LEMMA MovedTo ==
    ASSUME Inductive, NEW p \in Processes, NEW l, Goto(p, l)
    PROVE  proc'[p] = l /\ \A q \in Processes \ {p} : proc'[q] = proc[q]
  BY DEF Goto, Inductive, TypeOK

LEMMA ReadUndisturbed ==
    ASSUME Inductive, NEW p \in Processes, NEW l, Goto(p, l), l.pc # "record", row' = row
    PROVE  Undisturbed(p)
  BY MovedTo DEF Undisturbed

LEMMA WriteUndisturbed ==
    ASSUME Inductive, NEW p \in Processes, NEW l, Goto(p, l), l.pc # "record",
           NEW i \in Intents, NEW from, NEW to, NEW new \in Row, new.attempts = row[i].attempts,
           Transition(i, from, to, new)
    PROVE  Undisturbed(p)
<1>1. \A j \in Intents : row'[j].attempts = row[j].attempts
  BY DEF Transition, Updated, Row, Inductive, TypeOK
<1>2. QED
  BY <1>1, MovedTo DEF Undisturbed

\* prepare counts nothing.
LEMMA PrepareUndisturbed ==
    ASSUME Inductive, NEW c \in Callers, Prepare(c)
    PROVE  Undisturbed(c)
<1> DEFINE i == proc[c].id
           l == proc[c]
<1>0. c \in Processes
  BY DEF Processes
<1>1. /\ c \in Processes /\ l \in Local
      /\ l.pc \in Awaits \ {"rows"} => i \in Intents /\ row[i] \in Row
      /\ l.seq \in Nat /\ l.led \in Nat
  BY <1>0, AwaitingCaller
<1>2. CASE StartPrepare(c)
  <2>1. PICK local, r : Goto(c, PrepareStep(local, r, 0)) /\ row' = row
    BY <1>2 DEF StartPrepare
  <2>2. PrepareStep(local, r, 0).pc # "record"
    BY PrepareStepPc
  <2>3. QED
    BY <1>1, <2>1, <2>2, ReadUndisturbed
<1>3. CASE ReloadPrepare(c)
  <2>1. Goto(c, PrepareStep(l, row[i], l.steps)) /\ row' = row
    BY <1>3 DEF ReloadPrepare
  <2>2. PrepareStep(l, row[i], l.steps).pc # "record"
    BY PrepareStepPc
  <2>3. QED
    BY <1>1, <2>1, <2>2, ReadUndisturbed
<1>4. CASE ReadValidatedAccount(c) \/ ReadCurrentAccount(c) \/ ReadPreparedLedger(c) \/ ReadSimulationLedger(c)
  <2> DEFINE to(pc, seq, led) == [l EXCEPT !.pc = pc, !.seq = seq, !.led = led]
  <2>1. \A pc, seq, led : to(pc, seq, led).pc = pc
    BY <1>1 DEF Local
  <2>2. \A v : /\ [l EXCEPT !.pc = "current", !.seq = v] = to("current", v, l.led)
               /\ [l EXCEPT !.pc = "prepare", !.led = v] = to("prepare", l.seq, v)
               /\ [l EXCEPT !.pc = v] = to(v, l.seq, l.led)
    BY <1>1 DEF Local
  <2>3. \/ \E pc \in {"current", "ledger", "prepare", "expire", "simulate"} : \E seq, led : Goto(c, to(pc, seq, led))
        \/ Goto(c, Answered(l, "error"))
    <3> HIDE DEF to
    <3>1. CASE ReadValidatedAccount(c)
      <4>1. PICK v : \/ Goto(c, [l EXCEPT !.pc = "current", !.seq = SeqAt(AccountOf[i], v)])
                     \/ Goto(c, Answered(l, "error"))
        BY <3>1 DEF ReadValidatedAccount, Reply
      <4>2. PICK n : n = SeqAt(AccountOf[i], v)
        OBVIOUS
      <4>3. [l EXCEPT !.pc = "current", !.seq = n] = to("current", n, l.led)
        BY <2>2
      <4>4. QED
        BY <4>1, <4>2, <4>3
    <3>2. CASE ReadCurrentAccount(c)
      <4>1. Goto(c, [l EXCEPT !.pc = "ledger"]) \/ Goto(c, Answered(l, "error"))
        BY <3>2 DEF ReadCurrentAccount, Reply
      <4>2. [l EXCEPT !.pc = "ledger"] = to("ledger", l.seq, l.led)
        BY <2>2
      <4>3. QED
        BY <4>1, <4>2
    <3>3. CASE ReadPreparedLedger(c)
      <4>1. PICK v : Goto(c, [l EXCEPT !.pc = "prepare", !.led = v])
        BY <3>3 DEF ReadPreparedLedger
      <4>2. [l EXCEPT !.pc = "prepare", !.led = v] = to("prepare", l.seq, v)
        BY <2>2
      <4>3. QED
        BY <4>1, <4>2
    <3>4. CASE ReadSimulationLedger(c)
      <4>1. PICK v : Goto(c, [l EXCEPT !.pc = IF WindowOver(v, l.snap) THEN "expire" ELSE "simulate"])
        BY <3>4 DEF ReadSimulationLedger
      <4>2. PICK pc \in {"expire", "simulate"} : pc = IF WindowOver(v, l.snap) THEN "expire" ELSE "simulate"
        OBVIOUS
      <4>3. [l EXCEPT !.pc = pc] = to(pc, l.seq, l.led)
        BY <2>2
      <4>4. Goto(c, [l EXCEPT !.pc = pc])
        BY <4>1, <4>2
      <4>5. QED
        BY <4>3, <4>4
    <3>5. QED
      BY <1>4, <3>1, <3>2, <3>3, <3>4
  <2>4. row' = row
    BY <1>4 DEF ReadValidatedAccount, ReadCurrentAccount, ReadPreparedLedger, ReadSimulationLedger
  <2> HIDE DEF to
  <2>5. QED
    BY <1>1, <2>1, <2>3, <2>4, AnsweredPc, ReadUndisturbed
<1>5. ASSUME NEW from, NEW to, NEW new \in Row, new.attempts = row[i].attempts, i \in Intents,
             Transition(i, from, to, new),
             NEW l1, Goto(c, l1), l1.pc # "record"
      PROVE  Undisturbed(c)
  BY <1>1, <1>5, WriteUndisturbed
<1>6. Reread(l).pc # "record"
  BY DEF Reread, Idle
<1>7. CASE WritePrepared(c)
  <2> DEFINE new == [row[i] EXCEPT !.seq = l.seq, !.prep = l.led, !.lls = LastLedgerSequenceFor(l.led)]
  <2>0. l.led + LastLedgerOffset \in Nat /\ i \in Intents /\ row[i] \in Row
    BY <1>1, <1>7, PreparationAssumption DEF WritePrepared, At, Awaits
  <2>1. i \in Intents /\ new \in Row /\ new.attempts = row[i].attempts
    BY <1>1, <2>0 DEF Row, LastLedgerSequenceFor
  <2>2. Transition(i, {"CREATED"}, "PREPARED", new)
    BY <1>7 DEF WritePrepared
  <2>3. PICK l1 : Goto(c, l1) /\ l1 \in {PrepareStep(l, Updated(new, "PREPARED"), l.steps + 1), Reread(l), Answered(l, "error")}
    BY <1>7 DEF WritePrepared, AfterTransition
  <2>4. l1.pc # "record"
    BY <2>3, <1>6, PrepareStepPc, AnsweredPc
  <2>5. QED
    BY <1>5, <2>1, <2>2, <2>3, <2>4
<1>8. CASE ExpirePrepared(c)
  <2>1. i \in Intents /\ Transition(i, {"PREPARED"}, "EXPIRED", row[i]) /\ Goto(c, Answered(l, "expired"))
    BY <1>1, <1>8 DEF ExpirePrepared, At, Awaits, Reply
  <2>2. row[i] \in Row /\ Answered(l, "expired").pc # "record"
    BY <1>1, <1>8, AnsweredPc DEF ExpirePrepared, At, Awaits
  <2>3. QED
    BY <1>5, <2>1, <2>2
<1>9. CASE FailMismatch(c)
  <2> DEFINE new == [row[i] EXCEPT !.failure = "SIMULATION_ARTIFACT_MISMATCH"]
  <2>1. i \in Intents /\ Transition(i, {"PREPARED"}, "FAILED", new) /\ Goto(c, Answered(l, "failed"))
    BY <1>1, <1>9 DEF FailMismatch, At, Awaits, Reply
  <2>2. new \in Row /\ new.attempts = row[i].attempts
    BY <1>1, <2>1 DEF Row, FailureCodes, Inductive, TypeOK
  <2>3. QED
    BY <1>5, <2>1, <2>2, AnsweredPc
<1>10. CASE WriteSimulated(c)
  <2>1. PICK engineResult \in {"tesSUCCESS", "other"} :
          LET new == [row[i] EXCEPT !.sim = engineResult]
          IN  /\ Transition(i, {"PREPARED"}, "SIMULATED", new)
              /\ AfterTransition(c, TransitionResult(i, {"PREPARED"}, "SIMULATED", new),
                     PrepareStep(l, Updated(new, "SIMULATED"), l.steps + 1), Reread(l))
    BY <1>10 DEF WriteSimulated
  <2> DEFINE new == [row[i] EXCEPT !.sim = engineResult]
  <2>2. i \in Intents /\ new \in Row /\ new.attempts = row[i].attempts
    BY <1>1, <1>10 DEF WriteSimulated, At, Awaits, Row
  <2>3. PICK l1 : Goto(c, l1) /\ l1 \in {PrepareStep(l, Updated(new, "SIMULATED"), l.steps + 1), Reread(l), Answered(l, "error")}
    BY <2>1 DEF AfterTransition
  <2>4. l1.pc # "record"
    BY <2>3, <1>6, PrepareStepPc, AnsweredPc
  <2>5. QED
    BY <1>5, <2>1, <2>2, <2>3, <2>4
<1>11. CASE CompleteSimulation(c)
  <2> DEFINE to == IF l.snap.sim = "tesSUCCESS" THEN "AWAITING_SIGNATURE" ELSE "REJECTED"
  <2>1. i \in Intents /\ row[i] \in Row /\ Transition(i, {"SIMULATED"}, to, row[i])
    BY <1>1, <1>11 DEF CompleteSimulation, At, Awaits
  <2>2. PICK l1 : /\ Goto(c, l1)
                  /\ l1 \in {PrepareStep(l, Updated(row[i], to), l.steps + 1), Reread(l), Answered(l, "error")}
    BY <1>11 DEF CompleteSimulation, AfterTransition
  <2>3. l1.pc # "record"
    BY <2>2, <1>6, PrepareStepPc, AnsweredPc
  <2>4. QED
    BY <1>5, <2>1, <2>2, <2>3
<1>12. QED
  BY <1>2, <1>3, <1>4, <1>7, <1>8, <1>9, <1>10, <1>11, Prepare(c) DEF Prepare

\* Neither does attach, which waits for the account, the write or the row it lost.
LEMMA AttachUndisturbed ==
    ASSUME Inductive, NEW c \in Callers, Attach(c)
    PROVE  Undisturbed(c)
<1> DEFINE i == proc[c].id
           l == proc[c]
<1>0. c \in Processes
  BY DEF Processes
<1>1. /\ l \in Local
      /\ l.pc \in Awaits \ {"rows"} => i \in Intents /\ row[i] \in Row
  BY <1>0, AwaitingCaller
<1>2. CASE StartAttach(c)
  <2>1. PICK k \in Intents, t \in minted :
          LET local == [Idle EXCEPT !.op = "attach", !.id = k, !.blob = t]
          IN  IF row[k].status # "AWAITING_SIGNATURE"
              THEN Goto(c, SettledAnswer(local, row[k]))
              ELSE IF ~AssertRecovered \/ ~VerifiedFor(t, k, row[k])
              THEN Goto(c, Answered(local, "error"))
              ELSE Goto(c, [local EXCEPT !.pc = "signAccount", !.snap = row[k]])
    BY <1>2 DEF StartAttach
  <2> DEFINE local == [Idle EXCEPT !.op = "attach", !.id = k, !.blob = t]
  <2>2. PICK l1 : /\ Goto(c, l1)
                  /\ l1 \in {SettledAnswer(local, row[k]), Answered(local, "error"),
                             [local EXCEPT !.pc = "signAccount", !.snap = row[k]]}
    BY <2>1
  <2>3. [local EXCEPT !.pc = "signAccount", !.snap = row[k]].pc = "signAccount"
    BY DEF Idle
  <2> HIDE DEF local
  <2>4. l1.pc # "record"
    BY <2>2, <2>3, AnsweredPc
  <2>5. row' = row
    BY <1>2 DEF StartAttach
  <2>6. QED
    BY <1>0, <2>2, <2>4, <2>5, ReadUndisturbed
<1>3. CASE ReadSigningAccount(c)
  <2> DEFINE sign(to, failure) == [l EXCEPT !.pc = "sign", !.want = Decide(to, failure, 0)]
  <2>1. \/ Goto(c, Answered(l, "error"))
        \/ Goto(c, sign("EXPIRED", "none"))
        \/ Goto(c, sign("FAILED", "SEQUENCE_CONFLICT"))
        \/ Goto(c, sign("FAILED", "SEQUENCE_REGRESSION"))
        \/ Goto(c, sign("SIGNED", "none"))
    BY <1>3 DEF ReadSigningAccount, Reply
  <2>2. \A to, failure : sign(to, failure).pc = "sign"
    BY <1>1 DEF Local
  <2>3. row' = row
    BY <1>3 DEF ReadSigningAccount
  <2> HIDE DEF sign
  <2>4. QED
    BY <1>0, <2>1, <2>2, <2>3, AnsweredPc, ReadUndisturbed
<1>4. CASE WriteSigning(c)
  <2> DEFINE to  == l.want.to
             new == IF to = "SIGNED" THEN [row[i] EXCEPT !.blob = l.blob]
                    ELSE [row[i] EXCEPT !.failure = l.want.failure]
             again == [Idle EXCEPT !.op = "attach", !.id = i, !.pc = "reloadSigned", !.blob = l.blob]
  <2>1. i \in Intents /\ row[i] \in Row /\ l.blob \in Tx \cup {NoTx}
        /\ l.want.failure \in FailureCodes \cup {"none"}
    BY <1>1, <1>4 DEF WriteSigning, At, Awaits, Local
  <2>2. new \in Row /\ new.attempts = row[i].attempts
    BY <2>1 DEF Row
  <2>3. Transition(i, {"AWAITING_SIGNATURE"}, to, new)
    BY <1>4 DEF WriteSigning
  <2>4. PICK l1 : /\ Goto(c, l1)
                  /\ \/ \E said \in {"ok", "expired", "failed", "error"} : l1 = Answered(l, said)
                     \/ l1 = again
    BY <1>4 DEF WriteSigning, AfterTransition
  <2>5. again.pc = "reloadSigned"
    BY DEF Idle
  <2> HIDE DEF again
  <2>6. l1.pc # "record"
    BY <2>4, <2>5, AnsweredPc
  <2> HIDE DEF to, new
  <2>7. QED
    BY <1>0, <2>1, <2>2, <2>3, <2>4, <2>6, WriteUndisturbed
<1>5. CASE ReloadSigning(c)
  <2>1. PICK l1 : Goto(c, l1) /\ l1 \in {Answered(l, "error"), SettledAnswer(l, row[i])}
    BY <1>5 DEF ReloadSigning
  <2>2. l1.pc # "record" /\ row' = row
    BY <1>5, <2>1, AnsweredPc DEF ReloadSigning
  <2>3. QED
    BY <1>0, <2>1, <2>2, ReadUndisturbed
<1>6. QED
  BY <1>2, <1>3, <1>4, <1>5, Attach(c) DEF Attach

\* The cycle takes another row or ends.
LEMMA NextRowPc ==
    ASSUME NEW rows, NextRow(rows)
    PROVE  \E l : Goto(Worker, l) /\ l.pc \in {"idle", "expireRow", "lookup"}
<1>1. CASE Goto(Worker, Idle)
  BY <1>1 DEF Idle
<1>2. CASE \E e \in rows : Goto(Worker,
                  [Idle EXCEPT !.op = "cycle", !.id = e.id, !.snap = e.snap,
                               !.led = proc[Worker].led, !.budget = proc[Worker].budget,
                               !.pc = IF e.snap.status \in UnsignedActive
                                      THEN "expireRow" ELSE "lookup"])
  <2>1. PICK e \in rows : Goto(Worker,
                  [Idle EXCEPT !.op = "cycle", !.id = e.id, !.snap = e.snap,
                               !.led = proc[Worker].led, !.budget = proc[Worker].budget,
                               !.pc = IF e.snap.status \in UnsignedActive
                                      THEN "expireRow" ELSE "lookup"])
    BY <1>2
  <2> DEFINE l == [Idle EXCEPT !.op = "cycle", !.id = e.id, !.snap = e.snap,
                               !.led = proc[Worker].led, !.budget = proc[Worker].budget,
                               !.pc = IF e.snap.status \in UnsignedActive
                                      THEN "expireRow" ELSE "lookup"]
  <2>2. l.pc \in {"expireRow", "lookup"}
    BY DEF Idle
  <2> HIDE DEF l
  <2>3. Goto(Worker, l)
    BY <2>1 DEF l
  <2>4. QED
    BY <2>2, <2>3
<1>3. QED
  BY <1>1, <1>2 DEF NextRow

LEMMA CycleUndisturbed ==
    ASSUME Inductive, Cycle
    PROVE  Undisturbed(Worker)
<1>0. Worker \in Processes
  BY DEF Processes
<1>1. CASE StartCycle
  <2>1. PICK v : Goto(Worker, [Idle EXCEPT !.op = "cycle", !.pc = "rows", !.led = v]) /\ row' = row
    BY <1>1 DEF StartCycle
  <2>2. [Idle EXCEPT !.op = "cycle", !.pc = "rows", !.led = v].pc = "rows"
    BY DEF Idle
  <2>3. QED
    BY <1>0, <2>1, <2>2, ReadUndisturbed
<1>2. CASE ReadRows
  <2>1. row' = row /\ \E l : Goto(Worker, l) /\ l.pc \in {"idle", "expireRow", "lookup"}
    BY <1>2, NextRowPc DEF ReadRows
  <2>2. QED
    BY <1>0, <2>1, ReadUndisturbed
<1>3. CASE ExpireRow
  <2>1. proc[Worker].id \in Intents /\ row[proc[Worker].id] \in Row
    BY <1>0, <1>3, AwaitingCaller DEF ExpireRow, At, Awaits
  <2>2. Transition(proc[Worker].id, UnsignedActive, "EXPIRED", row[proc[Worker].id])
    BY <1>3 DEF ExpireRow
  <2>3. \E l : Goto(Worker, l) /\ l.pc \in {"idle", "expireRow", "lookup"}
    BY <1>3, NextRowPc DEF ExpireRow
  <2>4. QED
    BY <1>0, <2>1, <2>2, <2>3, WriteUndisturbed
<1>4. QED
  BY <1>1, <1>2, <1>3, Cycle DEF Cycle

\* Neither does the resolution of an outcome, in a request or in the cycle.
LEMMA ResolveUndisturbed ==
    ASSUME Inductive, NEW p \in Processes, ResolveSigned(p)
    PROVE  Undisturbed(p)
<1> DEFINE l == proc[p]
<1>1. l \in Local /\ (l.pc \in Awaits \ {"rows"} => l.id \in Intents /\ row[l.id] \in Row)
  BY AwaitingCaller
<1>2. ASSUME StillOpen(p) PROVE \E l1 : Goto(p, l1) /\ l1.pc # "record"
  <2>1. CASE p = Worker
    BY <1>2, <2>1, NextRowPc DEF StillOpen
  <2>2. CASE p # Worker
    BY <1>2, <2>2, AnsweredPc DEF StillOpen, Reply
  <2>3. QED
    BY <2>1, <2>2
<1>3. ASSUME Concluded(p) PROVE \E l1 : Goto(p, l1) /\ l1.pc # "record"
  <2>1. CASE p = Worker
    BY <1>3, <2>1, NextRowPc DEF Concluded
  <2>2. CASE p # Worker
    <3>1. PICK l1 : Goto(p, l1) /\ l1 = [Idle EXCEPT !.op = "submit", !.id = l.id, !.pc = "reloadSubmit",
                                                     !.steps = l.steps + 1]
      BY <1>3, <2>2 DEF Concluded
    <3>2. l1.pc = "reloadSubmit"
      BY <3>1 DEF Idle
    <3>3. QED
      BY <3>1, <3>2
  <2>3. QED
    BY <2>1, <2>2
<1>4. ASSUME NEW to, NEW failure, NEW final, Outcome(p, to, failure, final)
      PROVE  \E l1 : Goto(p, l1) /\ l1.pc # "record"
  <2>1. [l EXCEPT !.pc = "outcome", !.want = Decide(to, failure, final)].pc = "outcome"
    BY <1>1 DEF Local
  <2>2. QED
    BY <1>4, <2>1 DEF Outcome, Continue
<1>5. CASE LookupFound(p) \/ LookupMisreported(p) \/ LookupUnvalidated(p) \/ ReadProvenAccount(p)
  <2>1. row' = row
    BY <1>5 DEF LookupFound, LookupMisreported, LookupUnvalidated, ReadProvenAccount
  <2>2. StillOpen(p) \/ \E to, failure, final : Outcome(p, to, failure, final)
    BY <1>5 DEF LookupFound, LookupMisreported, LookupUnvalidated, ReadProvenAccount
  <2>3. QED
    BY <1>2, <1>4, <2>1, <2>2, ReadUndisturbed
<1>6. CASE LookupNotFound(p)
  <2>1. \/ Goto(p, [l EXCEPT !.pc = "provenAccount"])
        \/ Goto(p, [l EXCEPT !.pc = "searchAgain", !.budget = l.budget - 1])
        \/ StillOpen(p)
    BY <1>6 DEF LookupNotFound, Continue
  <2>2. /\ [l EXCEPT !.pc = "provenAccount"].pc = "provenAccount"
        /\ [l EXCEPT !.pc = "searchAgain", !.budget = l.budget - 1].pc = "searchAgain"
    BY <1>1 DEF Local
  <2>3. row' = row
    BY <1>6 DEF LookupNotFound
  <2>4. QED
    BY <1>2, <2>1, <2>2, <2>3, ReadUndisturbed
<1>7. CASE WriteOutcome(p)
  <2> DEFINE new == [row[l.id] EXCEPT !.failure = l.want.failure, !.final = l.want.final]
  <2>1. l.id \in Intents /\ row[l.id] \in Row /\ l.want.failure \in FailureCodes \cup {"none"}
        /\ l.want.final \in Nat
    BY <1>1, <1>7 DEF WriteOutcome, At, Awaits, Local
  <2>2. new \in Row /\ new.attempts = row[l.id].attempts
    BY <2>1 DEF Row
  <2>3. Transition(l.id, SignedActive, l.want.to, new)
    BY <1>7 DEF WriteOutcome
  <2> HIDE DEF new
  <2>4. \E l1 : Goto(p, l1) /\ l1.pc # "record"
    BY <1>3, <1>7 DEF WriteOutcome
  <2>5. QED
    BY <2>1, <2>2, <2>3, <2>4, WriteUndisturbed
<1>8. QED
  BY <1>5, <1>6, <1>7, ResolveSigned(p) DEF ResolveSigned

-------------------------------------------------------------------------------
(* Attempts: every submit call a server answered is recorded once at most. *)

SameAnswers == \A i \in Intents : wire'[i].answered = wire[i].answered

\* Of submit, only an answered call and its record count.
LEMMA SubmitUndisturbed ==
    ASSUME Inductive, NEW c \in Callers, Submit(c), ~SubmitAnswered(c), ~RecordSubmit(c)
    PROVE  Undisturbed(c) /\ SameAnswers
<1> DEFINE i == proc[c].id
           l == proc[c]
<1>0. c \in Processes
  BY DEF Processes
<1>1. /\ l \in Local
      /\ l.pc \in Awaits \ {"rows"} => i \in Intents /\ row[i] \in Row
      /\ l.led \in Nat
  BY <1>0, AwaitingCaller
<1>2. CASE StartSubmit(c) \/ ReloadSubmit(c)
  <2>1. PICK local, r, n : Goto(c, SubmitStep(local, r, n))
    BY <1>2 DEF StartSubmit, ReloadSubmit
  <2>2. SubmitStep(local, r, n).pc # "record"
    BY SubmitStepPc
  <2>3. row' = row /\ wire' = wire
    BY <1>2 DEF StartSubmit, ReloadSubmit
  <2>4. QED
    BY <1>0, <2>1, <2>2, <2>3, ReadUndisturbed DEF SameAnswers
<1>3. CASE ReadSubmitLedger(c)
  <2>1. PICK v : Goto(c, [l EXCEPT !.led = v, !.pc = IF WindowOver(v, l.snap) THEN "lookup"
                                                   ELSE IF NeedsBaseline(l.snap) THEN "baseline"
                                                   ELSE "submit"])
    BY <1>3 DEF ReadSubmitLedger
  <2>2. [l EXCEPT !.led = v, !.pc = IF WindowOver(v, l.snap) THEN "lookup"
                                    ELSE IF NeedsBaseline(l.snap) THEN "baseline"
                                    ELSE "submit"].pc # "record"
    BY <1>1 DEF Local
  <2>3. row' = row /\ wire' = wire
    BY <1>3 DEF ReadSubmitLedger
  <2>4. QED
    BY <1>0, <2>1, <2>2, <2>3, ReadUndisturbed DEF SameAnswers
<1>4. CASE WriteBaseline(c)
  <2>1. i \in Intents /\ row[i] \in Row
    BY <1>1, <1>4 DEF WriteBaseline, At, Awaits
  <2>2. UpdateInStatus(i, {"SIGNED"}, [row[i] EXCEPT !.baseline = l.led]) /\ wire' = wire
    BY <1>4 DEF WriteBaseline
  <2>3. \A j \in Intents : row'[j].attempts = row[j].attempts
    BY <2>1, <2>2 DEF UpdateInStatus, Row, Inductive, TypeOK
  <2>4. [l EXCEPT !.pc = "submit"].pc = "submit" /\ Goto(c, [l EXCEPT !.pc = "submit"])
    BY <1>1, <1>4 DEF Local, WriteBaseline
  <2>5. QED
    BY <1>0, <2>2, <2>3, <2>4, MovedTo DEF Undisturbed, SameAnswers
<1>5. CASE SubmitUnanswered(c)
  <2>1. Goto(c, Answered(l, "error")) /\ row' = row
    BY <1>5 DEF SubmitUnanswered, Reply
  <2>2. i \in Intents /\ Delivered(c, 0)
    BY <1>1, <1>5 DEF SubmitUnanswered, At, Awaits
  <2>3. \A j \in Intents : wire[j].answered \in Nat
    BY DEF Inductive, TypeOK, Wire
  <2>4. SameAnswers
    BY <2>2, <2>3 DEF Delivered, SameAnswers, Inductive, TypeOK
  <2>5. QED
    BY <1>0, <2>1, <2>4, AnsweredPc, ReadUndisturbed
<1>6. QED
  BY <1>2, <1>3, <1>4, <1>5, Submit(c), ~SubmitAnswered(c), ~RecordSubmit(c) DEF Submit

LEMMA UncountedStep ==
    ASSUME Inductive, AttemptsFine, NEW p \in Processes, Undisturbed(p), SameAnswers
    PROVE  AttemptsFine'
<1> SUFFICES ASSUME NEW i \in Intents
             PROVE  /\ IsFiniteSet(Recording(i)')
                    /\ row'[i].attempts + Cardinality(Recording(i)') <= wire'[i].answered
  BY DEF AttemptsFine
<1>1. Recording(i)' \subseteq Recording(i)
  BY DEF Recording, Undisturbed, Processes
<1>2. /\ IsFiniteSet(Recording(i))
      /\ row[i].attempts + Cardinality(Recording(i)) <= wire[i].answered
  BY DEF AttemptsFine
<1>3. /\ IsFiniteSet(Recording(i)')
      /\ Cardinality(Recording(i)') <= Cardinality(Recording(i))
      /\ Cardinality(Recording(i)') \in Nat /\ Cardinality(Recording(i)) \in Nat
  BY <1>1, <1>2, FS_Subset, FS_CardinalityType
<1>4. row'[i].attempts = row[i].attempts /\ row[i].attempts \in Nat
      /\ wire'[i].answered = wire[i].answered /\ wire[i].answered \in Nat
  BY DEF Undisturbed, SameAnswers, Inductive, TypeOK, Row, Wire
<1>5. QED
  BY <1>2, <1>3, <1>4

\* The answer of a submit call is counted when it arrives ...
LEMMA AnswerCounts ==
    ASSUME Inductive, AttemptsFine, NEW c \in Callers, SubmitAnswered(c)
    PROVE  AttemptsFine'
<1> DEFINE l == proc[c]
           k == proc[c].id
<1>0. c \in Processes
  BY DEF Processes
<1>1. l \in Local /\ k \in Intents /\ l.pc = "submit"
  BY <1>0, AwaitingCaller DEF SubmitAnswered, At, Awaits
<1>2. PICK to : Goto(c, [l EXCEPT !.pc = "record", !.want = Decide(to, "none", 0)])
  BY DEF SubmitAnswered
<1>3. /\ proc'[c].pc = "record" /\ proc'[c].id = k
      /\ \A q \in Processes \ {c} : proc'[q] = proc[q]
  <2> DEFINE m == [l EXCEPT !.pc = "record", !.want = Decide(to, "none", 0)]
  <2>1. m.pc = "record" /\ m.id = k
    BY <1>1 DEF Local
  <2>2. Goto(c, m)
    BY <1>2
  <2> HIDE DEF m
  <2>3. QED
    BY <1>0, <2>1, <2>2, MovedTo
<1>4. /\ row' = row
      /\ \A j \in Intents : wire'[j].answered = IF j = k THEN wire[j].answered + 1 ELSE wire[j].answered
      /\ \A j \in Intents : wire[j].answered \in Nat
  BY <1>1 DEF SubmitAnswered, Delivered, Inductive, TypeOK, Wire
<1> SUFFICES ASSUME NEW i \in Intents
             PROVE  /\ IsFiniteSet(Recording(i)')
                    /\ row'[i].attempts + Cardinality(Recording(i)') <= wire'[i].answered
  BY DEF AttemptsFine
<1>5. /\ IsFiniteSet(Recording(i)) /\ Cardinality(Recording(i)) \in Nat
      /\ row[i].attempts + Cardinality(Recording(i)) <= wire[i].answered
      /\ row[i].attempts \in Nat
  BY FS_CardinalityType DEF AttemptsFine, Inductive, TypeOK, Row
<1>6. CASE i = k
  <2>1. Recording(i)' = Recording(i) \cup {c} /\ c \notin Recording(i)
    BY <1>1, <1>3, <1>6 DEF Recording, Processes
  <2>2. /\ IsFiniteSet(Recording(i)')
        /\ Cardinality(Recording(i)') = Cardinality(Recording(i)) + 1
    BY <1>5, <2>1, FS_AddElement
  <2>3. QED
    BY <1>4, <1>5, <1>6, <2>2
<1>7. CASE i # k
  <2>1. Recording(i)' = Recording(i)
    BY <1>1, <1>3, <1>7 DEF Recording, Processes
  <2>2. QED
    BY <1>4, <1>5, <1>7, <2>1
<1>8. QED
  BY <1>6, <1>7

\* ... and written once, with the status change or alone, or never.
LEMMA RecordCounts ==
    ASSUME Inductive, AttemptsFine, NEW c \in Callers, RecordSubmit(c)
    PROVE  AttemptsFine'
<1> DEFINE l == proc[c]
           k == proc[c].id
           counted == [row[k] EXCEPT !.attempts = row[k].attempts + 1]
           again   == [Idle EXCEPT !.op = "submit", !.id = k, !.pc = "reloadSubmit",
                                   !.steps = l.steps + 1]
<1>0. c \in Processes
  BY DEF Processes
<1>1. l \in Local /\ k \in Intents /\ row[k] \in Row /\ l.pc = "record"
  BY <1>0, AwaitingCaller DEF RecordSubmit, At, Awaits
<1>2. PICK l1 : Goto(c, l1) /\ (l1 = again \/ \E said : l1 = Answered(l, said))
  BY DEF RecordSubmit, AfterTransition
<1>3. again.pc = "reloadSubmit"
  BY DEF Idle
<1>4. proc'[c].pc # "record" /\ \A q \in Processes \ {c} : proc'[q] = proc[q]
  <2> HIDE DEF again
  <2>1. l1.pc # "record"
    BY <1>2, <1>3, AnsweredPc
  <2>2. QED
    BY <1>0, <1>2, <2>1, MovedTo
<1>5. /\ counted \in Row /\ counted.attempts = row[k].attempts + 1
      /\ row[k].attempts \in Nat
  BY <1>1 DEF Row
<1>6. \/ Transition(k, {"SIGNED"}, l.want.to, counted)
      \/ UpdateInStatus(k, {"SUBMITTED"}, counted)
  BY DEF RecordSubmit
<1>7. /\ \A j \in Intents \ {k} : row'[j] = row[j]
      /\ row'[k].attempts \in {row[k].attempts, row[k].attempts + 1}
  <2>1. row' \in {row, [row EXCEPT ![k] = counted], [row EXCEPT ![k] = Updated(counted, l.want.to)]}
    BY <1>6 DEF Transition, UpdateInStatus
  <2>2. Updated(counted, l.want.to).attempts = row[k].attempts + 1
    <3> HIDE DEF counted
    <3>1. QED
      BY <1>5 DEF Updated, Row
  <2> DEFINE stored == Updated(counted, l.want.to)
  <2> HIDE DEF counted, stored
  <2>3. counted.attempts = row[k].attempts + 1 /\ stored.attempts = row[k].attempts + 1
    BY <1>5, <2>2 DEF stored
  <2>4. row \in [Intents -> Row] /\ row' \in {row, [row EXCEPT ![k] = counted], [row EXCEPT ![k] = stored]}
    BY <2>1 DEF stored, Inductive, TypeOK
  <2>5. QED
    BY <1>1, <2>3, <2>4
<1>8. wire' = wire
  BY DEF RecordSubmit
<1> SUFFICES ASSUME NEW i \in Intents
             PROVE  /\ IsFiniteSet(Recording(i)')
                    /\ row'[i].attempts + Cardinality(Recording(i)') <= wire'[i].answered
  BY DEF AttemptsFine
<1>9. /\ IsFiniteSet(Recording(i)) /\ Cardinality(Recording(i)) \in Nat
      /\ row[i].attempts + Cardinality(Recording(i)) <= wire[i].answered
      /\ row[i].attempts \in Nat /\ wire[i].answered \in Nat
  BY FS_CardinalityType DEF AttemptsFine, Inductive, TypeOK, Row, Wire
<1>10. CASE i = k
  <2>1. Recording(i)' = Recording(i) \ {c} /\ c \in Recording(i)
    BY <1>1, <1>4, <1>10 DEF Recording, Processes
  <2>2. /\ IsFiniteSet(Recording(i)')
        /\ Cardinality(Recording(i)') = Cardinality(Recording(i)) - 1
    BY <1>9, <2>1, FS_RemoveElement
  <2>3. QED
    BY <1>7, <1>8, <1>9, <1>10, <2>2
<1>11. CASE i # k
  <2>1. Recording(i)' = Recording(i)
    BY <1>1, <1>4, <1>11 DEF Recording, Processes
  <2>2. QED
    BY <1>7, <1>8, <1>9, <1>11, <2>1
<1>12. QED
  BY <1>10, <1>11

LEMMA NextCounts == ASSUME Inductive, AttemptsFine, Next PROVE AttemptsFine'
<1>1. ASSUME row' = row, wire' = wire, \A p \in Processes : proc'[p] = proc[p] \/ proc'[p].pc # "record"
      PROVE  AttemptsFine'
  <2> SUFFICES ASSUME NEW i \in Intents
               PROVE  /\ IsFiniteSet(Recording(i)')
                      /\ row'[i].attempts + Cardinality(Recording(i)') <= wire'[i].answered
    BY DEF AttemptsFine
  <2>1. /\ IsFiniteSet(Recording(i))
        /\ row[i].attempts + Cardinality(Recording(i)) <= wire[i].answered
        /\ row[i].attempts \in Nat /\ wire[i].answered \in Nat
    BY DEF AttemptsFine, Inductive, TypeOK, Row, Wire
  <2>2. Recording(i)' \subseteq Recording(i)
    BY <1>1 DEF Recording, Processes
  <2>3. /\ IsFiniteSet(Recording(i)')
        /\ Cardinality(Recording(i)') <= Cardinality(Recording(i))
        /\ Cardinality(Recording(i)') \in Nat /\ Cardinality(Recording(i)) \in Nat
    BY <2>1, <2>2, FS_Subset, FS_CardinalityType
  <2>4. QED
    BY <1>1, <2>1, <2>3
<1>2. CASE NetworkStep \/ SignerStep
  BY <1>1, <1>2 DEF NetworkStep, SignerStep, Sign
<1>3. CASE Crash
  BY <1>1, <1>3 DEF Crash, Idle
<1>4. CASE CycleStep
  BY <1>4, CycleUndisturbed, UncountedStep DEF CycleStep, SameAnswers, Processes
<1>5. ASSUME NEW c \in Callers, CallerStep(c)
      PROVE  AttemptsFine'
  <2>1. c \in Processes
    BY DEF Processes
  <2>2. CASE (Prepare(c) \/ Attach(c)) /\ wire' = wire
    BY <2>1, <2>2, PrepareUndisturbed, AttachUndisturbed, UncountedStep DEF SameAnswers
  <2>3. CASE Submit(c)
    BY <2>1, <2>3, SubmitUndisturbed, UncountedStep, AnswerCounts, RecordCounts
  <2>4. QED
    BY <1>5, <2>2, <2>3 DEF CallerStep
<1>6. ASSUME NEW p \in Processes, ResolveStep(p)
      PROVE  AttemptsFine'
  BY <1>6, ResolveUndisturbed, UncountedStep DEF ResolveStep, SameAnswers
<1>7. ASSUME NEW p \in Processes, FailStep(p)
      PROVE  AttemptsFine'
  <2>1. \E l : Goto(p, l) /\ l.pc # "record"
    BY <1>7, AnsweredPc DEF FailStep, Fails, Idle
  <2>2. row' = row /\ wire' = wire
    BY <1>7 DEF FailStep, Fails
  <2>3. QED
    BY <2>1, <2>2, ReadUndisturbed, UncountedStep DEF SameAnswers
<1>8. QED
  BY <1>2, <1>3, <1>4, <1>5, <1>6, <1>7, Next DEF Next

\* A submit call that a server answered is counted once at most, in whatever order
\* concurrent submissions, resubmissions and crashes record it: the count a row
\* shows never exceeds the calls that were answered.
THEOREM AttemptsAreEarned == Spec => []AttemptsNeverOvercounted
<1>1. Init => AttemptsFine
  <2> SUFFICES ASSUME Init, NEW i \in Intents
               PROVE  /\ IsFiniteSet(Recording(i))
                      /\ row[i].attempts + Cardinality(Recording(i)) <= wire[i].answered
    BY DEF AttemptsFine
  <2>1. Recording(i) = {}
    BY DEF Recording, Init, Idle, Processes
  <2>2. row[i].attempts = 0 /\ wire[i].answered = 0
    BY DEF Init, StoreInit, NewRow
  <2>3. QED
    BY <2>1, <2>2, FS_EmptySet
<1>2. Inductive /\ AttemptsFine /\ [Next]_vars => AttemptsFine'
  <2> SUFFICES ASSUME Inductive, AttemptsFine, UNCHANGED vars PROVE AttemptsFine'
    BY NextCounts
  <2>1. QED
    BY DEF AttemptsFine, Recording, vars
<1>3. Inductive /\ AttemptsFine => AttemptsNeverOvercounted
  <2> SUFFICES ASSUME Inductive, AttemptsFine, NEW i \in Intents
               PROVE  row[i].attempts <= wire[i].answered
    BY DEF AttemptsNeverOvercounted
  <2>1. /\ row[i].attempts \in Nat /\ wire[i].answered \in Nat
        /\ Cardinality(Recording(i)) \in Nat
        /\ row[i].attempts + Cardinality(Recording(i)) <= wire[i].answered
    BY FS_CardinalityType DEF AttemptsFine, Inductive, TypeOK, Row, Wire
  <2>2. QED
    BY <2>1
<1>4. QED
  BY <1>1, <1>2, <1>3, Invariance, PTL DEF Spec

-------------------------------------------------------------------------------
(* The gate: until the first cycle completes no request has got further    *)
(* than the completion of a stored simulation.                             *)

\* What the step of a request does to the table before recovery is over.
CompletesOnly ==
    \A i \in Intents :
        \/ row'[i] = row[i]
        \/ row[i].status = "SIMULATED" /\ row'[i].status \in {"AWAITING_SIGNATURE", "REJECTED"}

LEMMA GatedPrepare ==
    ASSUME Inductive, ~recovered, NEW c \in Callers, proc[c].pc \in Gated, Prepare(c)
    PROVE  /\ \E l : Goto(c, l) /\ l.pc \in Gated
           /\ CompletesOnly
<1> DEFINE i == proc[c].id
           l == proc[c]
<1>0. c \in Processes
  BY DEF Processes
<1>1. StartPrepare(c) \/ ReloadPrepare(c) \/ CompleteSimulation(c)
  BY DEF Prepare, Gated, At, ReadValidatedAccount, ReadCurrentAccount, ReadPreparedLedger,
     WritePrepared, ReadSimulationLedger, ExpirePrepared, FailMismatch, WriteSimulated
<1>2. CASE StartPrepare(c) \/ ReloadPrepare(c)
  <2>1. PICK local, r, n : Goto(c, PrepareStep(local, r, n))
    BY <1>2 DEF StartPrepare, ReloadPrepare
  <2>2. PrepareStep(local, r, n).pc \in Gated
    BY PrepareStepPc DEF Gated
  <2>3. row' = row
    BY <1>2 DEF StartPrepare, ReloadPrepare
  <2>4. QED
    BY <2>1, <2>2, <2>3 DEF CompletesOnly
<1>3. CASE CompleteSimulation(c)
  <2> DEFINE to == IF l.snap.sim = "tesSUCCESS" THEN "AWAITING_SIGNATURE" ELSE "REJECTED"
  <2>1. i \in Intents /\ row[i] \in Row /\ Transition(i, {"SIMULATED"}, to, row[i])
    BY <1>0, <1>3, AwaitingCaller DEF CompleteSimulation, At, Awaits
  <2>2. PICK l1 : /\ Goto(c, l1)
                  /\ l1 \in {PrepareStep(l, Updated(row[i], to), l.steps + 1), Reread(l), Answered(l, "error")}
    BY <1>3 DEF CompleteSimulation, AfterTransition
  <2>3. Reread(l).pc = "reload"
    BY DEF Reread, Idle
  <2>4. l1.pc \in Gated
    BY <2>2, <2>3, PrepareStepPc, AnsweredPc DEF Gated
  <2>5. to \in {"AWAITING_SIGNATURE", "REJECTED"}
    OBVIOUS
  <2> HIDE DEF to
  <2>6. \/ row' = row
        \/ row[i].status = "SIMULATED" /\ row' = [row EXCEPT ![i] = Updated(row[i], to)]
    BY <2>1 DEF Transition, TransitionResult
  <2>7. Updated(row[i], to).status = to
    BY <2>1 DEF Updated, Row
  <2>8. CompletesOnly
    BY <2>1, <2>5, <2>6, <2>7 DEF CompletesOnly, Inductive, TypeOK
  <2>9. QED
    BY <2>2, <2>4, <2>8
<1>4. QED
  BY <1>1, <1>2, <1>3

LEMMA GatedAttach ==
    ASSUME ~recovered, NEW c \in Callers, proc[c].pc \in Gated, Attach(c)
    PROVE  /\ \E l : Goto(c, l) /\ l.pc \in Gated
           /\ CompletesOnly
<1>1. StartAttach(c)
  BY DEF Attach, Gated, At, ReadSigningAccount, WriteSigning, ReloadSigning
<1>2. \E local, r : \/ Goto(c, SettledAnswer(local, r))
                    \/ Goto(c, Answered(local, "error"))
  BY <1>1 DEF StartAttach, AssertRecovered
<1>3. row' = row
  BY <1>1 DEF StartAttach
<1>4. QED
  BY <1>2, <1>3, AnsweredPc DEF Gated, CompletesOnly

LEMMA GatedSubmit ==
    ASSUME ~recovered, NEW c \in Callers, proc[c].pc \in Gated, Submit(c)
    PROVE  /\ \E l : Goto(c, l) /\ l.pc \in Gated
           /\ CompletesOnly
           /\ wire' = wire
<1>1. StartSubmit(c)
  BY DEF Submit, Gated, At, ReloadSubmit, ReadSubmitLedger, WriteBaseline, SubmitAnswered, SubmitUnanswered,
     RecordSubmit
<1>2. PICK local, r, n : Goto(c, SubmitStep(local, r, n))
  BY <1>1 DEF StartSubmit
<1>3. row' = row /\ wire' = wire
  BY <1>1 DEF StartSubmit
<1>4. QED
  BY <1>2, <1>3, SubmitStepPc DEF Gated, CompletesOnly

\* Before recovery is over a request stays behind the gate, and neither sends
\* nor settles anything.
LEMMA GatedStep ==
    ASSUME Inductive, GateFine, ~recovered, NEW c \in Callers, CallerStep(c)
    PROVE  /\ proc'[c].pc \in Gated
           /\ \A q \in Processes \ {c} : proc'[q] = proc[q]
           /\ CompletesOnly
           /\ wire' = wire
<1>1. c \in Processes /\ proc[c].pc \in Gated
  BY DEF Processes, GateFine, Gated
<1>2. /\ \E l : Goto(c, l) /\ l.pc \in Gated
      /\ CompletesOnly
      /\ wire' = wire
  BY <1>1, GatedPrepare, GatedAttach, GatedSubmit DEF CallerStep
<1>3. QED
  BY <1>1, <1>2, MovedTo

\* Only the cycle resolves an outcome before recovery is over.
LEMMA GatedResolve ==
    ASSUME Inductive, GateFine, NEW p \in Processes, ResolveStep(p)
    PROVE  /\ ~recovered => p = Worker
           /\ \A q \in Processes \ {p} : proc'[q] = proc[q]
           /\ recovered => recovered'
<1>1. ~recovered => p = Worker
  <2>1. ASSUME p \in Callers, ~recovered PROVE FALSE
    BY <2>1 DEF GateFine, Gated, ResolveStep, ResolveSigned, LookupFound, LookupMisreported, LookupUnvalidated,
       LookupNotFound, ReadProvenAccount, WriteOutcome, Looking, At
  <2>2. QED
    BY <2>1 DEF Processes
<1>2. \A q \in Processes \ {p} : proc'[q] = proc[q]
  BY ResolveUndisturbed DEF ResolveStep, Undisturbed
<1>3. recovered => recovered'
  <2>1. \/ StillOpen(p) \/ Concluded(p) \/ \E l : Continue(p, l)
    BY DEF ResolveStep, ResolveSigned, LookupFound, LookupMisreported, LookupUnvalidated,
       LookupNotFound, ReadProvenAccount, WriteOutcome, Outcome
  <2>2. QED
    BY <2>1 DEF StillOpen, Concluded, Continue, NextRow
<1>4. QED
  BY <1>1, <1>2, <1>3

LEMMA GatedCycle ==
    ASSUME Inductive, CycleStep
    PROVE  /\ \A c \in Callers : proc'[c] = proc[c]
           /\ recovered => recovered'
<1>1. \A c \in Callers : proc'[c] = proc[c]
  BY CycleUndisturbed, ProcessAssumption DEF CycleStep, Undisturbed, Processes
<1>2. recovered => recovered'
  BY DEF CycleStep, Cycle, StartCycle, ReadRows, ExpireRow, NextRow
<1>3. QED
  BY <1>1, <1>2

LEMMA NextKeepsGate == ASSUME Inductive, GateFine, Next PROVE GateFine'
<1> SUFFICES ASSUME ~recovered', NEW c \in Callers PROVE proc'[c].pc \in Gated
  BY DEF GateFine, Gated
<1>0. c \in Processes /\ c # Worker /\ (~recovered => proc[c].pc \in Gated)
  BY ProcessAssumption DEF Processes, GateFine, Gated
<1>1. CASE NetworkStep \/ SignerStep
  BY <1>0, <1>1 DEF NetworkStep, SignerStep, Sign
<1>2. CASE Crash
  BY <1>0, <1>2 DEF Crash, Idle, Gated
<1>3. CASE CycleStep
  BY <1>0, <1>3, GatedCycle
<1>4. ASSUME NEW d \in Callers, CallerStep(d)
      PROVE  proc'[c].pc \in Gated
  <2>1. ~recovered
    BY <1>4 DEF CallerStep
  <2>2. QED
    BY <1>0, <1>4, <2>1, GatedStep
<1>5. ASSUME NEW p \in Processes, ResolveStep(p)
      PROVE  proc'[c].pc \in Gated
  BY <1>0, <1>5, GatedResolve
<1>6. ASSUME NEW p \in Processes, FailStep(p)
      PROVE  proc'[c].pc \in Gated
  <2>1. (\E l : Goto(p, l) /\ l.pc \in Gated) /\ ~recovered
    BY <1>6, AnsweredPc DEF FailStep, Fails, Idle, Gated
  <2>2. QED
    BY <1>0, <2>1, MovedTo
<1>7. QED
  BY <1>1, <1>2, <1>3, <1>4, <1>5, <1>6, Next DEF Next

\* After a start or a restart, until the first cycle has completed, no request sends a
\* blob or changes an intent that recovery may still have to settle, except that prepare()
\* finishes a SIMULATED intent whose simulation is already stored (completeSimulation).
THEOREM RecoveryComesFirst == Spec => RecoveryGate
<1>1. Init => GateFine
  BY DEF Init, Idle, GateFine, Gated, Processes
<1>2. Inductive /\ GateFine /\ [Next]_vars => GateFine'
  BY NextKeepsGate DEF GateFine, vars
<1>3. Inductive /\ GateFine /\ [Next]_vars => [RecoveryGateStep]_vars
  <2> SUFFICES ASSUME Inductive, GateFine, Next, ~recovered
               PROVE  wire' = wire /\ \A c \in Callers : proc'[c] # proc[c] => CompletesOnly
    BY DEF RecoveryGateStep, CompletesOnly
  <2>0. row' = row => CompletesOnly
    BY DEF CompletesOnly
  <2>1. CASE NetworkStep \/ SignerStep \/ Crash
    BY <2>0, <2>1 DEF NetworkStep, SignerStep, Sign, Crash
  <2>2. CASE CycleStep
    BY <2>2, GatedCycle DEF CycleStep
  <2>3. CASE \E c \in Callers : CallerStep(c)
    BY <2>3, GatedStep
  <2>4. ASSUME NEW p \in Processes, ResolveStep(p)
        PROVE  wire' = wire /\ \A c \in Callers : proc'[c] = proc[c]
    BY <2>4, GatedResolve, ProcessAssumption DEF ResolveStep, Processes
  <2>5. ASSUME NEW p \in Processes, FailStep(p)
        PROVE  wire' = wire /\ row' = row
    BY <2>5 DEF FailStep, Fails
  <2>6. QED
    BY <2>0, <2>1, <2>2, <2>3, <2>4, <2>5, Next DEF Next
<1>4. QED
  BY <1>1, <1>2, <1>3, Invariance, PTL DEF Spec, RecoveryGate
==============================================================================
