-------------------------- MODULE OrchestratorProofs --------------------------
(***************************************************************************)
(* The safety of the orchestrator, for every number of intents, accounts,  *)
(* requests, ledgers, restarts and endpoints' lag: what every step leaves  *)
(* of what was known before it, and what a step of one request has to      *)
(* establish for Inductive to hold again; then, that every step of POST    *)
(* prepare, POST signature, the finality cycle, resolveSigned, in the      *)
(* cycle or in a submit request, and POST submit does; Inductive holds     *)
(* initially, and the properties follow from it.                           *)
(***************************************************************************)
EXTENDS OrchestratorInvariant, FiniteSetTheorems, TLAPS

-------------------------------------------------------------------------------
(* What every step leaves of what was known before it.                     *)

RowGrows(i) ==
    /\ row[i].status # "CREATED" =>
           /\ row'[i].status # "CREATED"
           /\ row'[i].seq = row[i].seq
           /\ row'[i].prep = row[i].prep
           /\ row'[i].lls = row[i].lls
    /\ row[i].blob # NoTx => row'[i].blob = row[i].blob
    /\ row[i].baseline # 0 => row'[i].baseline # 0
    /\ row[i].status \in SignedActive => row'[i].status \in SignedActive \cup TerminalStatuses
    /\ row[i].status \in TerminalStatuses => row'[i] = row[i]

Grows ==
    /\ closed' \in Nat /\ closed <= closed'
    /\ chain \subseteq chain'
    /\ minted \subseteq minted'
    /\ row' \in [Intents -> Row]
    /\ \A i \in Intents : RowGrows(i)

\* What is proved of every step.
Preserved == Inductive' /\ \A i \in Intents : RowGrows(i)

\* A step under which rows only grow keeps what is known of every row, request
\* and pending row it does not touch.
LEMMA KeepsRow ==
    ASSUME Inductive, Grows, NEW i \in Intents, row'[i] = row[i],
           wire'[i].first = 0 \/ wire'[i].first = wire[i].first
    PROVE  RowFine(i)'
  BY DEF Inductive, TypeOK, NetworkTypeOK, Grows, RowFine, IncludedWithin, InWindow, WindowOver, Row

\* What a request knew before a step of another one it still knows after it.
LEMMA KeepsLocal ==
    ASSUME Inductive, Grows, NEW l \in Local, LocalFine(l)
    PROVE  LocalFine(l)'
<1>1. l.snap \in Row
  BY DEF Local
<1>2. l.id \in Intents => StillHolds(l.snap, l.id)'
  BY <1>1 DEF Inductive, TypeOK, LocalFine, Grows, RowGrows, StillHolds, Row, SignedActive, TerminalStatuses
<1>3. WindowOver(closed, l.snap) => WindowOver(closed, l.snap)'
  BY <1>1 DEF WindowOver, Grows, Row, Inductive, TypeOK, NetworkTypeOK
<1>4. IncludedWithin(l.snap, l.want.final) => IncludedWithin(l.snap, l.want.final)'
  BY DEF Grows, IncludedWithin
<1>5. l.pc \in {"submit", "record"} =>
          row'[l.id].status \in TerminalStatuses \/ row'[l.id].baseline # 0
  BY DEF LocalFine, Grows, RowGrows, Awaits
<1>6. l.led <= closed'
  BY DEF LocalFine, Grows, Local, Inductive, TypeOK, NetworkTypeOK
<1>7. QED
  BY <1>2, <1>3, <1>4, <1>5, <1>6 DEF LocalFine, Grows

\* A request that does not move keeps relying on what it relied on.
LEMMA KeepsProcess ==
    ASSUME Inductive, Grows, NEW p \in Processes, proc'[p] = proc[p]
    PROVE  LocalFine(proc[p])'
<1>1. LocalFine(proc[p]) /\ proc[p] \in Local
  BY DEF Inductive, TypeOK
<1>2. QED
  BY <1>1, KeepsLocal

\* What the cycle read of a row it has yet to process stays true of the row.
LEMMA KeepsPending ==
    ASSUME Inductive, Grows, NEW e \in Snapshot, PendingFine(e)
    PROVE  PendingFine(e)'
<1>1. e.snap \in Row /\ e.id \in Intents
  BY DEF Snapshot
<1>2. StillHolds(e.snap, e.id)'
  BY <1>1 DEF Inductive, TypeOK, PendingFine, Grows, RowGrows, StillHolds, Row, SignedActive, TerminalStatuses
<1>3. WindowOver(closed, e.snap) => WindowOver(closed, e.snap)'
  BY <1>1 DEF WindowOver, Grows, Row, Inductive, TypeOK, NetworkTypeOK
<1>4. QED
  BY <1>2, <1>3 DEF PendingFine

-------------------------------------------------------------------------------
(* The two writes of the store.                                            *)

\* new replaces no column of row i that a request may rely on.
KeepsColumns(i, new) ==
    /\ row[i].status # "CREATED" =>
           /\ new.seq = row[i].seq
           /\ new.prep = row[i].prep
           /\ new.lls = row[i].lls
    /\ row[i].blob # NoTx => new.blob = row[i].blob
    /\ row[i].baseline # 0 => new.baseline # 0

\* A transition leaves the other rows alone, and an account with one owner of
\* its Sequence at most: an intent enters SequenceActive while no other intent
\* of the account is there.
LEMMA TransitionRow ==
    ASSUME Inductive, NEW i \in Intents, NEW from, NEW to \in IntentStatuses, NEW new \in Row,
           Transition(i, from, to, new),
           row[i].status \in from /\ CanTransition(row[i].status, to) => KeepsColumns(i, new)
    PROVE  /\ row' \in [Intents -> Row]
           /\ \A j \in Intents : RowGrows(j)
           /\ OneSequenceOwner'
           /\ \A j \in Intents \ {i} : row'[j] = row[j]
           /\ \/ row'[i] = row[i]
              \/ /\ row[i].status \in from
                 /\ CanTransition(row[i].status, to)
                 /\ row'[i] = [new EXCEPT !.status = to]
<1> USE DEF Inductive, TypeOK
<1>1. Updated(new, to) \in Row /\ Updated(new, to) = [new EXCEPT !.status = to]
  BY DEF Updated, Row
<1>2. row' = row \/ /\ row[i].status \in from
                    /\ CanTransition(row[i].status, to)
                    /\ to \in SequenceActive => ~AccountBusy(i)
                    /\ row' = [row EXCEPT ![i] = Updated(new, to)]
  BY DEF Transition, TransitionResult
<1>3. CASE row' = row
  BY <1>3 DEF RowGrows, OneSequenceOwner, SignedActive, SequenceActive
<1>4. CASE /\ row[i].status \in from
           /\ CanTransition(row[i].status, to)
           /\ to \in SequenceActive => ~AccountBusy(i)
           /\ row' = [row EXCEPT ![i] = Updated(new, to)]
  <2>1. row' \in [Intents -> Row] /\ \A j \in Intents \ {i} : row'[j] = row[j]
    BY <1>1, <1>4
  <2>2. row'[i] = Updated(new, to) /\ row'[i].status = to
    BY <1>1, <1>4 DEF Row, Updated
  <2>3. RowGrows(i)
    <3>1. /\ row[i].status \notin TerminalStatuses
          /\ to # "CREATED"
          /\ row[i].status \in SignedActive => to \in SignedActive \cup TerminalStatuses
      BY <1>4 DEF CanTransition, Transitions, IntentStatuses, TerminalStatuses, SignedActive, Row
    <3>2. /\ row'[i].seq = new.seq
          /\ row'[i].prep = new.prep
          /\ row'[i].lls = new.lls
          /\ row'[i].blob = new.blob
          /\ row'[i].baseline = new.baseline
      BY <2>2 DEF Updated, Row
    <3>3. QED
      BY <1>4, <2>2, <3>1, <3>2 DEF RowGrows, KeepsColumns
  <2>4. \A j \in Intents \ {i} : RowGrows(j)
    BY <2>1 DEF RowGrows, SignedActive
  <2>5. OneSequenceOwner'
    BY <1>4, <2>1, <2>2 DEF OneSequenceOwner, AccountBusy, StoreAssumption
  <2>6. QED
    BY <1>1, <1>4, <2>1, <2>2, <2>3, <2>4, <2>5
<1>5. QED
  BY <1>2, <1>3, <1>4

\* An update outside the status column.
LEMMA UpdateRow ==
    ASSUME Inductive, NEW i \in Intents, NEW statuses, NEW new \in Row,
           UpdateInStatus(i, statuses, new),
           row[i].status \in statuses =>
               /\ row[i].status \notin TerminalStatuses
               /\ new.status = row[i].status
               /\ new.seq = row[i].seq
               /\ new.prep = row[i].prep
               /\ new.lls = row[i].lls
               /\ new.blob = row[i].blob
               /\ row[i].baseline # 0 => new.baseline # 0
    PROVE  /\ row' \in [Intents -> Row]
           /\ \A j \in Intents : RowGrows(j)
           /\ OneSequenceOwner'
           /\ \A j \in Intents \ {i} : row'[j] = row[j]
           /\ \/ row'[i] = row[i] /\ row[i].status \notin statuses
              \/ row[i].status \in statuses /\ row'[i] = new
<1> USE DEF Inductive, TypeOK, UpdateInStatus
<1>1. /\ row' \in [Intents -> Row]
      /\ \A j \in Intents \ {i} : row'[j] = row[j]
      /\ \/ row'[i] = row[i] /\ row[i].status \notin statuses
         \/ row[i].status \in statuses /\ row'[i] = new
      /\ \A j \in Intents : row'[j].status = row[j].status
  OBVIOUS
<1>2. OneSequenceOwner'
  BY <1>1 DEF OneSequenceOwner
<1>3. \A j \in Intents : RowGrows(j)
  BY <1>1 DEF RowGrows, SignedActive
<1>4. QED
  BY <1>1, <1>2, <1>3

-------------------------------------------------------------------------------
(* A step of a request or of the cycle.                                    *)

\* A step of one request, or of the cycle, preserves Inductive when it leaves
\* rows, its own local variables and the rest of the batch as the code expects.
LEMMA ProcessStep ==
    ASSUME Inductive, NEW p \in Processes, NEW l \in Local, Goto(p, l),
           UNCHANGED <<closed, chain, minted, crashes>>,
           row' \in [Intents -> Row],
           \A i \in Intents : RowGrows(i),
           OneSequenceOwner',
           \A i \in Intents : RowFine(i)',
           LocalFine(proc[p])',
           banned' \subseteq minted,
           recovered' \in BOOLEAN,
           wire' \in [Intents -> Wire],
           batch' \subseteq Snapshot,
           \A e \in batch' : e \in batch \/ PendingFine(e)'
    PROVE  Preserved
<1>1. Grows
  BY DEF Grows, Inductive, TypeOK, NetworkTypeOK
<1>2. proc' \in [Processes -> Local] /\ \A q \in Processes \ {p} : proc'[q] = proc[q]
  BY DEF Goto, Inductive, TypeOK
<1>3. \A q \in Processes : LocalFine(proc[q])'
  BY <1>1, <1>2, KeepsProcess
<1>4. \A e \in batch' : PendingFine(e)'
  BY <1>1, KeepsPending DEF Inductive, TypeOK
<1>5. QED
  BY <1>2, <1>3, <1>4 DEF Preserved, Inductive, TypeOK, NetworkTypeOK

\* A step of a request that writes nothing but its local variables and the row.
LEMMA CallerStepKeeps ==
    ASSUME Inductive, NEW c \in Callers, NEW l \in Local, Goto(c, l),
           UNCHANGED <<networkVars, recovered, batch, wire, crashes>>,
           row' \in [Intents -> Row],
           \A i \in Intents : RowGrows(i),
           OneSequenceOwner',
           \A i \in Intents : row'[i] # row[i] => RowFine(i)',
           LocalFine(proc[c])'
    PROVE  Preserved
<1>1. Grows
  BY DEF Grows, Inductive, TypeOK, NetworkTypeOK, networkVars
<1>2. \A i \in Intents : RowFine(i)'
  BY <1>1, KeepsRow
<1>3. QED
  BY <1>2, ProcessStep DEF Inductive, TypeOK, NetworkTypeOK, networkVars, Processes

\* A step that only reads.
LEMMA CallerReads ==
    ASSUME Inductive, NEW c \in Callers, NEW l \in Local, Goto(c, l),
           UNCHANGED <<networkVars, row, recovered, batch, wire, crashes>>,
           LocalFine(proc[c])'
    PROVE  Preserved
<1>1. /\ row' \in [Intents -> Row]
      /\ \A i \in Intents : RowGrows(i)
      /\ OneSequenceOwner'
  BY DEF Inductive, TypeOK, RowGrows, OneSequenceOwner, SignedActive
<1>2. QED
  BY <1>1, CallerStepKeeps

\* The initial row, an idle request and every answer are well typed.
LEMMA IdleFine ==
    /\ NewRow \in Row /\ Idle \in Local
    /\ \A local \in Local, result \in Results : Answered(local, result) \in Local
<1>1. NewRow \in Row
  BY DEF NewRow, Row, IntentStatuses
<1>2. Idle \in Local
  BY <1>1 DEF Idle, Local, NoDecision, IntentStatuses, Results
<1>3. ASSUME NEW local \in Local, NEW result \in Results
      PROVE  Answered(local, result) \in Local
  <2>1. /\ local.op \in {"none", "prepare", "attach", "submit", "cycle"}
        /\ local.id \in Intents \cup {0}
        /\ local.blob \in Tx \cup {NoTx}
    BY DEF Local
  <2>2. [Idle EXCEPT !.op = local.op, !.id = local.id, !.pc = "done",
                     !.blob = local.blob, !.result = result] \in Local
    BY <1>2, <2>1 DEF Local
  <2>3. QED
    BY <1>2, <2>2 DEF Answered
<1>4. QED
  BY <1>1, <1>2, <1>3

\* The local variables an operation starts or resumes with are well typed.
LEMMA FreshLocal ==
    ASSUME NEW op \in {"none", "prepare", "attach", "submit", "cycle"}, NEW id \in Intents \cup {0},
           NEW pc \in Awaits, NEW snap \in Row, NEW blob \in Tx \cup {NoTx},
           NEW led \in Nat, NEW steps \in Nat
    PROVE  /\ [Idle EXCEPT !.op = op, !.id = id, !.pc = pc, !.blob = blob] \in Local
           /\ [Idle EXCEPT !.op = op, !.id = id, !.pc = pc, !.steps = steps] \in Local
           /\ [Idle EXCEPT !.op = op, !.id = id, !.pc = pc, !.snap = snap, !.steps = steps] \in Local
           /\ [Idle EXCEPT !.op = op, !.pc = pc, !.led = led] \in Local
<1>1. Idle \in Local /\ pc \in Awaits \cup {"idle", "done"}
  BY IdleFine
<1>2. [Idle EXCEPT !.op = op, !.id = id, !.pc = pc, !.blob = blob] \in Local
  BY <1>1 DEF Local
<1>3. [Idle EXCEPT !.op = op, !.id = id, !.pc = pc, !.steps = steps] \in Local
  BY <1>1 DEF Local
<1>4. [Idle EXCEPT !.op = op, !.id = id, !.pc = pc, !.snap = snap, !.steps = steps] \in Local
  BY <1>1 DEF Local
<1>5. [Idle EXCEPT !.op = op, !.pc = pc, !.led = led] \in Local
  BY <1>1 DEF Local
<1>6. QED
  BY <1>2, <1>3, <1>4, <1>5

\* So are those of a request that moves on to another await.
LEMMA MovedLocal ==
    ASSUME NEW l \in Local, NEW pc \in Awaits, NEW led \in Nat,
           NEW want \in [to : IntentStatuses, failure : FailureCodes \cup {"none"}, final : Nat]
    PROVE  /\ [l EXCEPT !.led = led, !.pc = pc] \in Local
           /\ [l EXCEPT !.pc = pc, !.want = want] \in Local
<1>1. pc \in Awaits \cup {"idle", "done"}
  OBVIOUS
<1>2. [l EXCEPT !.led = led, !.pc = pc] \in Local
  BY <1>1 DEF Local
<1>3. [l EXCEPT !.pc = pc, !.want = want] \in Local
  BY <1>1 DEF Local
<1>4. QED
  BY <1>2, <1>3

\* Whatever a request has answered, it relies on nothing any more.
LEMMA AnsweredFine ==
    ASSUME Inductive, minted' = minted, closed' = closed, NEW p \in Processes,
           NEW local \in Local, local.blob \in minted \cup {NoTx}, NEW result \in Results,
           Goto(p, Answered(local, result))
    PROVE  LocalFine(proc[p])' /\ Answered(local, result) \in Local
<1>1. proc'[p] = Answered(local, result)
  BY DEF Goto, Inductive, TypeOK
<1>2. /\ proc'[p].pc \in {"idle", "done"} /\ proc'[p].snap = NewRow
      /\ proc'[p].led = 0 /\ proc'[p].blob \in minted \cup {NoTx}
  BY <1>1 DEF Answered, Idle
<1>3. LocalFine(proc[p])'
  BY <1>2 DEF LocalFine, StillHolds, NewRow, Awaits, Resolving, Submitting, SignedActive,
     Inductive, TypeOK, NetworkTypeOK
<1>4. QED
  BY <1>3, IdleFine

\* What every request may use of its own state.
LEMMA AwaitingCaller ==
    ASSUME Inductive, NEW c \in Processes
    PROVE  /\ proc[c] \in Local /\ LocalFine(proc[c])
           /\ proc[c].snap \in Row /\ proc[c].blob \in minted \cup {NoTx}
           /\ proc[c].steps \in Nat /\ proc[c].led \in Nat /\ proc[c].seq \in Nat
           /\ proc[c].pc \in Awaits \ {"rows"} =>
                  proc[c].id \in Intents /\ row[proc[c].id] \in Row /\ StillHolds(proc[c].snap, proc[c].id)
           /\ c \in Callers => c \in Processes /\ c # Worker
  BY ProcessAssumption DEF Inductive, TypeOK, LocalFine, Local, Processes

\* A request that only answers preserves Inductive.
LEMMA ReplyKeeps ==
    ASSUME Inductive, NEW c \in Callers, NEW result \in Results, Reply(c, result),
           UNCHANGED <<networkVars, row, recovered, batch, wire, crashes>>
    PROVE  Preserved
<1>1. proc[c] \in Local /\ proc[c].blob \in minted \cup {NoTx} /\ c \in Processes
  BY AwaitingCaller DEF Processes
<1>2. Answered(proc[c], result) \in Local /\ LocalFine(proc[c])'
  BY <1>1, AnsweredFine DEF Reply, networkVars
<1>3. QED
  BY <1>2, CallerReads DEF Reply

\* A read that only moves the request on to another await of the same row.
LEMMA MoveKeeps ==
    ASSUME Inductive, NEW c \in Callers, NEW l \in Local, Goto(c, l),
           UNCHANGED <<networkVars, row, recovered, batch, wire, crashes>>,
           proc[c].pc \in Awaits \ {"rows"},
           l.id = proc[c].id, l.snap = proc[c].snap, l.blob = proc[c].blob, l.led <= closed,
           l.pc \in {"current", "ledger", "prepare", "simulate"}
    PROVE  Preserved
<1>1. proc'[c] = l
  BY DEF Goto, Inductive, TypeOK, Processes
<1>2. LocalFine(proc[c]) /\ proc[c] \in Local
  BY AwaitingCaller DEF Processes
<1>3. StillHolds(proc[c].snap, proc[c].id)'
  BY <1>1, <1>2 DEF LocalFine, StillHolds, networkVars
<1>4. LocalFine(proc[c])'
  BY <1>1, <1>2, <1>3 DEF LocalFine, Awaits, Resolving, Submitting, networkVars
<1>5. QED
  BY <1>4, CallerReads

\* The Sequence an endpoint reports is a number.
LEMMA CountIsNat ==
    ASSUME Inductive, NEW a, NEW v
    PROVE  SeqAt(a, v) \in Nat
<1>1. IsFiniteSet({e \in chain : e.acct = a /\ e.at <= v})
  BY FS_Subset DEF Inductive
<1>2. QED
  BY <1>1, FS_CardinalityType DEF SeqAt

\* An endpoint answers from a ledger that has closed.
LEMMA ViewsAreClosed ==
    ASSUME Inductive, NEW v \in Views
    PROVE  v \in Nat /\ v # 0 /\ v <= closed
  BY DEF Views, Inductive, TypeOK, NetworkTypeOK

\* A request that writes with transition().
LEMMA CallerTransition ==
    ASSUME Inductive, NEW c \in Callers, NEW i \in Intents,
           NEW from, NEW to \in IntentStatuses, NEW new \in Row,
           Transition(i, from, to, new),
           row[i].status \in from /\ CanTransition(row[i].status, to) => KeepsColumns(i, new),
           /\ row[i].status \in from
           /\ CanTransition(row[i].status, to)
           /\ row'[i] = [new EXCEPT !.status = to]
           => RowFine(i)',
           NEW l \in Local, Goto(c, l), LocalFine(proc[c])',
           UNCHANGED <<networkVars, recovered, batch, wire, crashes>>
    PROVE  Preserved
<1>1. /\ row' \in [Intents -> Row]
      /\ \A j \in Intents : RowGrows(j)
      /\ OneSequenceOwner'
      /\ \A j \in Intents \ {i} : row'[j] = row[j]
      /\ \/ row'[i] = row[i]
         \/ /\ row[i].status \in from
            /\ CanTransition(row[i].status, to)
            /\ row'[i] = [new EXCEPT !.status = to]
  BY TransitionRow
<1>2. \A j \in Intents : row'[j] # row[j] => RowFine(j)'
  BY <1>1
<1>3. QED
  BY <1>1, <1>2, CallerStepKeeps

\* The continuation of a transition that updated works on the row it stored.
LEMMA UpdatedRow ==
    ASSUME Inductive, NEW i \in Intents, NEW from, NEW to \in IntentStatuses, NEW new \in Row,
           Transition(i, from, to, new), TransitionResult(i, from, to, new) = "updated"
    PROVE  row'[i] = Updated(new, to)
  BY DEF Transition, Inductive, TypeOK

-------------------------------------------------------------------------------
(* POST prepare.                                                           *)

\* Whatever row the step loop of prepare holds, the iteration it begins relies
\* only on what that row says.
LEMMA PrepareStepFine ==
    ASSUME Inductive, UNCHANGED <<closed, minted>>, NEW c \in Callers,
           NEW local \in Local, local.blob \in minted \cup {NoTx}, local.id \in Intents,
           NEW n \in Nat, row' \in [Intents -> Row],
           Goto(c, PrepareStep(local, row'[local.id], n))
    PROVE  /\ PrepareStep(local, row'[local.id], n) \in Local
           /\ LocalFine(proc[c])'
<1> DEFINE r == row'[local.id]
           await(pc) == [Idle EXCEPT !.op = "prepare", !.id = local.id, !.pc = pc,
                                     !.snap = r, !.steps = n]
<1>1. \/ \E result \in Results : PrepareStep(local, r, n) = Answered(local, result)
      \/ r.status = "CREATED" /\ PrepareStep(local, r, n) = await("account")
      \/ r.status = "PREPARED" /\ PrepareStep(local, r, n) = await("simLedger")
      \/ r.status = "SIMULATED" /\ PrepareStep(local, r, n) = await("complete")
  BY DEF PrepareStep, Results
<1>2. CASE \E result \in Results : PrepareStep(local, r, n) = Answered(local, result)
  BY <1>2, AnsweredFine DEF Processes
<1>3. ASSUME NEW pc \in {"account", "simLedger", "complete"},
             pc = "account" => r.status = "CREATED",
             pc = "simLedger" => r.status = "PREPARED",
             pc = "complete" => r.status = "SIMULATED",
             PrepareStep(local, r, n) = await(pc)
      PROVE  await(pc) \in Local /\ LocalFine(proc[c])'
  <2>1. r \in Row
    OBVIOUS
  <2>2. await(pc) \in Local
    BY <2>1, IdleFine DEF Local, Awaits
  <2>3. proc'[c] = await(pc)
    BY <1>3 DEF Goto, Inductive, TypeOK, Processes
  <2>4. /\ proc'[c].pc = pc /\ proc'[c].id = local.id /\ proc'[c].snap = r
        /\ proc'[c].led = 0 /\ proc'[c].blob = NoTx
    BY <2>3 DEF Idle
  <2>5. StillHolds(proc[c].snap, proc[c].id)'
    BY <2>1, <2>4, <1>3 DEF StillHolds, SignedActive, Row
  <2>6. LocalFine(proc[c])'
    BY <1>3, <2>4, <2>5 DEF LocalFine, Awaits, Resolving, Submitting, Inductive, TypeOK, NetworkTypeOK
  <2>7. QED
    BY <2>2, <2>6
<1>4. QED
  BY <1>1, <1>2, <1>3

\* prepare reads the row.
LEMMA StartPrepareKeeps ==
    ASSUME Inductive, NEW c \in Callers, StartPrepare(c),
           UNCHANGED <<networkVars, recovered, batch, wire, crashes>>
    PROVE  Preserved
<1>1. PICK i \in Intents :
          Goto(c, PrepareStep([Idle EXCEPT !.op = "prepare", !.id = i], row[i], 0))
  BY DEF StartPrepare
<1> DEFINE local == [Idle EXCEPT !.op = "prepare", !.id = i]
<1>2. local \in Local /\ local.blob = NoTx /\ local.id = i
  BY IdleFine DEF Local, Idle
<1>3. row' = row /\ row \in [Intents -> Row]
  BY DEF StartPrepare, Inductive, TypeOK
<1> HIDE DEF local
<1>4. PrepareStep(local, row[i], 0) \in Local /\ LocalFine(proc[c])'
  BY <1>1, <1>2, <1>3, PrepareStepFine DEF networkVars, local
<1>5. QED
  BY <1>1, <1>3, <1>4, CallerReads DEF local

\* prepare reads the row again after a lost race.
LEMMA ReloadPrepareKeeps ==
    ASSUME Inductive, NEW c \in Callers, ReloadPrepare(c),
           UNCHANGED <<networkVars, recovered, batch, wire, crashes>>
    PROVE  Preserved
<1>1. /\ proc[c].id \in Intents /\ proc[c] \in Local /\ proc[c].steps \in Nat
      /\ proc[c].blob \in minted \cup {NoTx}
  BY AwaitingCaller DEF ReloadPrepare, At, Awaits, Processes
<1>2. /\ row' = row /\ row \in [Intents -> Row]
      /\ Goto(c, PrepareStep(proc[c], row'[proc[c].id], proc[c].steps))
  BY DEF ReloadPrepare, Inductive, TypeOK
<1>3. PrepareStep(proc[c], row'[proc[c].id], proc[c].steps) \in Local /\ LocalFine(proc[c])'
  BY <1>1, <1>2, PrepareStepFine DEF networkVars
<1>4. QED
  BY <1>2, <1>3, CallerReads

\* prepare reads the validated account.
LEMMA ReadValidatedAccountKeeps ==
    ASSUME Inductive, NEW c \in Callers, ReadValidatedAccount(c),
           UNCHANGED <<networkVars, recovered, batch, wire, crashes>>
    PROVE  Preserved
<1>1. PICK v \in Views :
          IF ExistsAt(AccountOf[proc[c].id], v)
          THEN Goto(c, [proc[c] EXCEPT !.pc = "current", !.seq = SeqAt(AccountOf[proc[c].id], v)])
          ELSE Reply(c, "error")
  BY DEF ReadValidatedAccount
<1>2. CASE Reply(c, "error")
  BY <1>2, ReplyKeeps DEF ReadValidatedAccount, Results
<1>3. CASE Goto(c, [proc[c] EXCEPT !.pc = "current", !.seq = SeqAt(AccountOf[proc[c].id], v)])
  <2>1. proc[c] \in Local /\ SeqAt(AccountOf[proc[c].id], v) \in Nat /\ LocalFine(proc[c])
    BY AwaitingCaller, CountIsNat DEF Processes
  <2>2. PICK l \in Local :
            l = [proc[c] EXCEPT !.pc = "current", !.seq = SeqAt(AccountOf[proc[c].id], v)]
    BY <2>1 DEF Local, Awaits
  <2>3. /\ l.pc = "current" /\ l.id = proc[c].id /\ l.snap = proc[c].snap
        /\ l.blob = proc[c].blob /\ l.led <= closed
    BY <2>1, <2>2 DEF Local, LocalFine
  <2>4. Goto(c, l) /\ row' = row /\ proc[c].pc \in Awaits \ {"rows"}
    BY <1>3, <2>2 DEF ReadValidatedAccount, At, Awaits
  <2>5. QED
    BY <2>3, <2>4, MoveKeeps
<1>4. QED
  BY <1>1, <1>2, <1>3

\* prepare compares the open ledger's account.
LEMMA ReadCurrentAccountKeeps ==
    ASSUME Inductive, NEW c \in Callers, ReadCurrentAccount(c),
           UNCHANGED <<networkVars, recovered, batch, wire, crashes>>
    PROVE  Preserved
<1>1. CASE Reply(c, "error")
  BY <1>1, ReplyKeeps DEF ReadCurrentAccount, Results
<1>2. CASE Goto(c, [proc[c] EXCEPT !.pc = "ledger"])
  <2>1. proc[c] \in Local /\ LocalFine(proc[c])
    BY AwaitingCaller DEF Processes
  <2>2. PICK l \in Local : l = [proc[c] EXCEPT !.pc = "ledger"]
    BY <2>1 DEF Local, Awaits
  <2>3. /\ l.pc = "ledger" /\ l.id = proc[c].id /\ l.snap = proc[c].snap
        /\ l.blob = proc[c].blob /\ l.led <= closed
    BY <2>1, <2>2 DEF Local, LocalFine
  <2>4. Goto(c, l) /\ row' = row /\ proc[c].pc \in Awaits \ {"rows"}
    BY <1>2, <2>2 DEF ReadCurrentAccount, At, Awaits
  <2>5. QED
    BY <2>3, <2>4, MoveKeeps
<1>3. QED
  BY <1>1, <1>2 DEF ReadCurrentAccount

\* prepare reads the ledger its window starts from.
LEMMA ReadPreparedLedgerKeeps ==
    ASSUME Inductive, NEW c \in Callers, ReadPreparedLedger(c),
           UNCHANGED <<networkVars, recovered, batch, wire, crashes>>
    PROVE  Preserved
<1>1. PICK v \in Views : Goto(c, [proc[c] EXCEPT !.pc = "prepare", !.led = v])
  BY DEF ReadPreparedLedger
<1>2. proc[c] \in Local /\ v \in Nat /\ v <= closed
  BY AwaitingCaller, ViewsAreClosed DEF Processes
<1>3. PICK l \in Local : l = [proc[c] EXCEPT !.pc = "prepare", !.led = v]
  BY <1>2 DEF Local, Awaits
<1>4. /\ l.pc = "prepare" /\ l.id = proc[c].id /\ l.snap = proc[c].snap
      /\ l.blob = proc[c].blob /\ l.led <= closed
  BY <1>2, <1>3 DEF Local
<1>5. Goto(c, l) /\ row' = row /\ proc[c].pc \in Awaits \ {"rows"}
  BY <1>1, <1>3 DEF ReadPreparedLedger, At, Awaits
<1>6. QED
  BY <1>4, <1>5, MoveKeeps

\* prepare decides to expire only past the window of the row it will write.
LEMMA ReadSimulationLedgerKeeps ==
    ASSUME Inductive, NEW c \in Callers, ReadSimulationLedger(c),
           UNCHANGED <<networkVars, recovered, batch, wire, crashes>>
    PROVE  Preserved
<1>1. PICK v \in Views :
          Goto(c, [proc[c] EXCEPT !.pc = IF WindowOver(v, proc[c].snap) THEN "expire" ELSE "simulate"])
  BY DEF ReadSimulationLedger
<1>2. proc[c] \in Local /\ LocalFine(proc[c]) /\ v \in Nat /\ v <= closed /\ closed \in Nat
  BY AwaitingCaller, ViewsAreClosed DEF Processes, Inductive, TypeOK, NetworkTypeOK
<1>3. PICK l \in Local :
          l = [proc[c] EXCEPT !.pc = IF WindowOver(v, proc[c].snap) THEN "expire" ELSE "simulate"]
  BY <1>2 DEF Local, Awaits
<1>4. /\ l.id = proc[c].id /\ l.snap = proc[c].snap /\ l.blob = proc[c].blob /\ l.led <= closed
      /\ l.pc = "simulate" \/ (l.pc = "expire" /\ WindowOver(v, l.snap))
  BY <1>2, <1>3 DEF Local, LocalFine
<1>5. WindowOver(v, l.snap) => WindowOver(closed, l.snap)
  BY <1>2 DEF WindowOver, Local, Row
<1>6. Goto(c, l) /\ row' = row /\ proc[c].pc = "simLedger" /\ proc[c].pc \in Awaits \ {"rows"}
  BY <1>1, <1>3 DEF ReadSimulationLedger, At, Awaits
<1>7. CASE l.pc = "simulate"
  BY <1>4, <1>6, <1>7, MoveKeeps
<1>8. CASE l.pc = "expire"
  <2>1. proc'[c] = l
    BY <1>6 DEF Goto, Inductive, TypeOK, Processes
  <2>2. StillHolds(l.snap, l.id)' /\ l.snap.status = "PREPARED" /\ WindowOver(closed, l.snap)'
    BY <1>2, <1>4, <1>5, <1>6, <1>8, AwaitingCaller DEF LocalFine, StillHolds, networkVars, WindowOver, Processes
  <2>3. LocalFine(proc[c])'
    BY <1>2, <1>4, <1>6, <1>8, <2>1, <2>2 DEF LocalFine, Awaits, Resolving, Submitting, networkVars
  <2>4. QED
    BY <1>6, <2>3, CallerReads
<1>9. QED
  BY <1>4, <1>7, <1>8

\* A lost race leaves the request with nothing but the id of the intent.
LEMMA RereadFine ==
    ASSUME Inductive, UNCHANGED <<closed, minted>>, NEW c \in Callers, NEW local \in Local,
           local.id \in Intents, Goto(c, Reread(local))
    PROVE  Reread(local) \in Local /\ LocalFine(proc[c])'
<1>1. Reread(local) \in Local
  <2>1. local.steps + 1 \in Nat
    BY DEF Local
  <2>2. QED
    BY <2>1, IdleFine DEF Reread, Local, Awaits
<1>2. proc'[c] = Reread(local)
  BY DEF Goto, Inductive, TypeOK, Processes
<1>3. /\ proc'[c].pc = "reload" /\ proc'[c].snap = NewRow /\ proc'[c].id \in Intents
      /\ proc'[c].led = 0 /\ proc'[c].blob = NoTx
  BY <1>2 DEF Reread, Idle
<1>4. LocalFine(proc[c])'
  BY <1>3 DEF LocalFine, StillHolds, NewRow, Awaits, Resolving, Submitting, SignedActive,
     Inductive, TypeOK, NetworkTypeOK
<1>5. QED
  BY <1>1, <1>4

\* The expiry prepare writes is past the window whatever the row has become.
LEMMA ExpirePreparedKeeps ==
    ASSUME Inductive, NEW c \in Callers, ExpirePrepared(c),
           UNCHANGED <<networkVars, recovered, batch, wire, crashes>>
    PROVE  Preserved
<1>1. PICK i \in Intents : i = proc[c].id
  BY AwaitingCaller DEF ExpirePrepared, At, Awaits, Processes
<1>2. /\ row[i] \in Row /\ proc[c] \in Local /\ proc[c].blob \in minted \cup {NoTx}
      /\ proc[c].pc = "expire" /\ LocalFine(proc[c])
  BY <1>1, AwaitingCaller DEF ExpirePrepared, At, Awaits, Processes
<1>3. row[i].lls = proc[c].snap.lls /\ WindowOver(closed, proc[c].snap)
  BY <1>1, <1>2 DEF LocalFine, StillHolds, Awaits
<1>4. ASSUME row[i].status \in {"PREPARED"}, row'[i] = [row[i] EXCEPT !.status = "EXPIRED"]
      PROVE  RowFine(i)'
  <2>1. /\ row'[i].status = "EXPIRED" /\ row'[i].lls = row[i].lls
    BY <1>2, <1>4 DEF Row
  <2>2. QED
    BY <1>3, <2>1 DEF RowFine, WindowOver, UnsignedActive, SignedActive, networkVars
<1>5. Answered(proc[c], "expired") \in Local /\ LocalFine(proc[c])'
  BY <1>2, AnsweredFine DEF ExpirePrepared, Reply, Results, networkVars, Processes
<1>6. /\ Transition(i, {"PREPARED"}, "EXPIRED", row[i])
      /\ KeepsColumns(i, row[i])
      /\ Goto(c, Answered(proc[c], "expired"))
      /\ "EXPIRED" \in IntentStatuses
  BY <1>1 DEF ExpirePrepared, Reply, IntentStatuses, KeepsColumns
<1>7. QED
  BY <1>2, <1>4, <1>5, <1>6, CallerTransition

\* A simulation mismatch fails the intent.
LEMMA FailMismatchKeeps ==
    ASSUME Inductive, NEW c \in Callers, FailMismatch(c),
           UNCHANGED <<networkVars, recovered, batch, wire, crashes>>
    PROVE  Preserved
<1>1. PICK i \in Intents : i = proc[c].id
  BY AwaitingCaller DEF FailMismatch, At, Awaits, Processes
<1>2. /\ row[i] \in Row /\ proc[c] \in Local /\ proc[c].blob \in minted \cup {NoTx}
      /\ proc[c].pc = "simulate"
  BY <1>1, AwaitingCaller DEF FailMismatch, At, Awaits, Processes
<1>3. PICK new \in Row : new = [row[i] EXCEPT !.failure = "SIMULATION_ARTIFACT_MISMATCH"]
  BY <1>2 DEF Row, FailureCodes
<1>4. /\ new.seq = row[i].seq /\ new.prep = row[i].prep /\ new.lls = row[i].lls
      /\ new.blob = row[i].blob /\ new.baseline = row[i].baseline
  BY <1>2, <1>3 DEF Row
<1>5. ASSUME row'[i] = [new EXCEPT !.status = "FAILED"]
      PROVE  RowFine(i)'
  <2>1. row'[i].status = "FAILED"
    BY <1>5 DEF Row
  <2>2. QED
    BY <2>1 DEF RowFine, UnsignedActive, SignedActive
<1>6. Answered(proc[c], "failed") \in Local /\ LocalFine(proc[c])'
  BY <1>2, AnsweredFine DEF FailMismatch, Reply, Results, networkVars, Processes
<1>7. /\ Transition(i, {"PREPARED"}, "FAILED", new)
      /\ KeepsColumns(i, new)
      /\ Goto(c, Answered(proc[c], "failed"))
      /\ "FAILED" \in IntentStatuses
  BY <1>1, <1>3, <1>4 DEF FailMismatch, Reply, IntentStatuses, KeepsColumns
<1>8. QED
  BY <1>5, <1>6, <1>7, CallerTransition

\* After any outcome of its transition prepare relies on the stored row only.
LEMMA AfterPrepareTransition ==
    ASSUME Inductive, UNCHANGED <<closed, minted>>, NEW c \in Callers,
           proc[c].pc \in Awaits \ {"rows"}, row' \in [Intents -> Row], NEW outcome,
           AfterTransition(c, outcome,
               PrepareStep(proc[c], row'[proc[c].id], proc[c].steps + 1), Reread(proc[c]))
    PROVE  \E l \in Local : Goto(c, l) /\ LocalFine(proc[c])'
<1>1. /\ proc[c] \in Local /\ proc[c].id \in Intents /\ c \in Processes
      /\ proc[c].steps + 1 \in Nat /\ proc[c].blob \in minted \cup {NoTx}
  BY AwaitingCaller DEF Processes
<1>2. \/ Goto(c, PrepareStep(proc[c], row'[proc[c].id], proc[c].steps + 1))
      \/ Goto(c, Reread(proc[c]))
      \/ Goto(c, Answered(proc[c], "error"))
  BY DEF AfterTransition
<1>3. CASE Goto(c, PrepareStep(proc[c], row'[proc[c].id], proc[c].steps + 1))
  BY <1>1, <1>3, PrepareStepFine
<1>4. CASE Goto(c, Reread(proc[c]))
  BY <1>1, <1>4, RereadFine
<1>5. CASE Goto(c, Answered(proc[c], "error"))
  BY <1>1, <1>5, AnsweredFine DEF Results
<1>6. QED
  BY <1>2, <1>3, <1>4, <1>5

\* PREPARED is written to a row that had no artifact, with the account free.
LEMMA WritePreparedKeeps ==
    ASSUME Inductive, NEW c \in Callers, WritePrepared(c),
           UNCHANGED <<networkVars, recovered, batch, wire, crashes>>
    PROVE  Preserved
<1>1. PICK i \in Intents : i = proc[c].id
  BY AwaitingCaller DEF WritePrepared, At, Awaits, Processes
<1>2. /\ row[i] \in Row /\ proc[c] \in Local /\ proc[c].pc \in Awaits \ {"rows"}
      /\ proc[c].seq \in Nat /\ proc[c].led \in Nat
  BY <1>1, AwaitingCaller DEF WritePrepared, At, Awaits, Processes
<1>3. PICK new \in Row :
          new = [row[i] EXCEPT !.seq = proc[c].seq, !.prep = proc[c].led,
                               !.lls = LastLedgerSequenceFor(proc[c].led)]
  <2>1. LastLedgerSequenceFor(proc[c].led) \in Nat
    BY <1>2, PreparationAssumption DEF LastLedgerSequenceFor
  <2>2. QED
    BY <1>2, <2>1 DEF Row
<1>4. /\ Transition(i, {"CREATED"}, "PREPARED", new)
      /\ AfterTransition(c, TransitionResult(i, {"CREATED"}, "PREPARED", new),
             PrepareStep(proc[c], Updated(new, "PREPARED"), proc[c].steps + 1),
             Reread(proc[c]))
      /\ "PREPARED" \in IntentStatuses
  BY <1>1, <1>3 DEF WritePrepared, IntentStatuses
<1>5. new.blob = row[i].blob /\ new.baseline = row[i].baseline
  BY <1>2, <1>3 DEF Row
<1>6. row[i].status \in {"CREATED"} => KeepsColumns(i, new)
  BY <1>5 DEF KeepsColumns
<1>7. row' \in [Intents -> Row]
  BY <1>4, <1>6, TransitionRow
<1>8. AfterTransition(c, TransitionResult(i, {"CREATED"}, "PREPARED", new),
             PrepareStep(proc[c], row'[proc[c].id], proc[c].steps + 1), Reread(proc[c]))
  BY <1>1, <1>4, UpdatedRow DEF AfterTransition
<1>9. PICK l \in Local : Goto(c, l) /\ LocalFine(proc[c])'
  BY <1>2, <1>7, <1>8, AfterPrepareTransition DEF networkVars
<1>10. ASSUME row[i].status \in {"CREATED"}, row'[i] = [new EXCEPT !.status = "PREPARED"]
       PROVE  RowFine(i)'
  <2>1. row'[i].status = "PREPARED" /\ row'[i].blob = row[i].blob
    BY <1>5, <1>10 DEF Row
  <2>2. row[i].blob = NoTx /\ wire'[i].first = 0
    BY <1>10 DEF Inductive, RowFine
  <2>3. QED
    BY <2>1, <2>2 DEF RowFine, UnsignedActive, SignedActive
<1>11. QED
  BY <1>4, <1>6, <1>9, <1>10, CallerTransition

\* SIMULATED changes no column another request relies on.
LEMMA WriteSimulatedKeeps ==
    ASSUME Inductive, NEW c \in Callers, WriteSimulated(c),
           UNCHANGED <<networkVars, recovered, batch, wire, crashes>>
    PROVE  Preserved
<1>1. PICK i \in Intents : i = proc[c].id
  BY AwaitingCaller DEF WriteSimulated, At, Awaits, Processes
<1>2. row[i] \in Row /\ proc[c] \in Local /\ proc[c].pc \in Awaits \ {"rows"}
  BY <1>1, AwaitingCaller DEF WriteSimulated, At, Awaits, Processes
<1>3. PICK engineResult \in {"tesSUCCESS", "other"} :
          LET new == [row[i] EXCEPT !.sim = engineResult]
          IN  /\ Transition(i, {"PREPARED"}, "SIMULATED", new)
              /\ AfterTransition(c, TransitionResult(i, {"PREPARED"}, "SIMULATED", new),
                     PrepareStep(proc[c], Updated(new, "SIMULATED"), proc[c].steps + 1),
                     Reread(proc[c]))
  BY <1>1 DEF WriteSimulated
<1>4. PICK new \in Row : new = [row[i] EXCEPT !.sim = engineResult]
  BY <1>2 DEF Row
<1>5. /\ Transition(i, {"PREPARED"}, "SIMULATED", new)
      /\ AfterTransition(c, TransitionResult(i, {"PREPARED"}, "SIMULATED", new),
             PrepareStep(proc[c], Updated(new, "SIMULATED"), proc[c].steps + 1),
             Reread(proc[c]))
      /\ "SIMULATED" \in IntentStatuses
  BY <1>3, <1>4 DEF IntentStatuses
<1>6. /\ new.seq = row[i].seq /\ new.prep = row[i].prep /\ new.lls = row[i].lls
      /\ new.blob = row[i].blob /\ new.baseline = row[i].baseline
  BY <1>2, <1>4 DEF Row
<1>7. KeepsColumns(i, new)
  BY <1>6 DEF KeepsColumns
<1>8. row' \in [Intents -> Row]
  BY <1>5, <1>7, TransitionRow
<1>9. AfterTransition(c, TransitionResult(i, {"PREPARED"}, "SIMULATED", new),
             PrepareStep(proc[c], row'[proc[c].id], proc[c].steps + 1), Reread(proc[c]))
  BY <1>1, <1>5, UpdatedRow DEF AfterTransition
<1>10. PICK l \in Local : Goto(c, l) /\ LocalFine(proc[c])'
  BY <1>2, <1>8, <1>9, AfterPrepareTransition DEF networkVars
<1>11. ASSUME row[i].status \in {"PREPARED"}, row'[i] = [new EXCEPT !.status = "SIMULATED"]
       PROVE  RowFine(i)'
  <2>1. row'[i].status = "SIMULATED" /\ row'[i].blob = row[i].blob
    BY <1>6, <1>11 DEF Row
  <2>2. row[i].blob = NoTx /\ wire'[i].first = 0
    BY <1>11 DEF Inductive, RowFine, UnsignedActive
  <2>3. QED
    BY <2>1, <2>2 DEF RowFine, UnsignedActive, SignedActive
<1>12. QED
  BY <1>5, <1>7, <1>10, <1>11, CallerTransition

\* The stored simulation result ends the preparation.
LEMMA CompleteSimulationKeeps ==
    ASSUME Inductive, NEW c \in Callers, CompleteSimulation(c),
           UNCHANGED <<networkVars, recovered, batch, wire, crashes>>
    PROVE  Preserved
<1>1. PICK i \in Intents : i = proc[c].id
  BY AwaitingCaller DEF CompleteSimulation, At, Awaits, Processes
<1>2. /\ row[i] \in Row /\ proc[c] \in Local /\ proc[c].pc \in Awaits \ {"rows"}
      /\ proc[c].blob \in minted \cup {NoTx}
  BY <1>1, AwaitingCaller DEF CompleteSimulation, At, Awaits, Processes
<1>3. PICK to \in {"AWAITING_SIGNATURE", "REJECTED"} :
          /\ Transition(i, {"SIMULATED"}, to, row[i])
          /\ AfterTransition(c, TransitionResult(i, {"SIMULATED"}, to, row[i]),
                 IF to = "REJECTED" THEN Answered(proc[c], "error")
                 ELSE PrepareStep(proc[c], Updated(row[i], to), proc[c].steps + 1),
                 Reread(proc[c]))
  BY <1>1 DEF CompleteSimulation
<1>4. KeepsColumns(i, row[i]) /\ to \in IntentStatuses
  BY DEF KeepsColumns, IntentStatuses
<1>5. row' \in [Intents -> Row]
  BY <1>2, <1>3, <1>4, TransitionRow
<1>6. \E l \in Local : Goto(c, l) /\ LocalFine(proc[c])'
  <2>1. CASE Goto(c, Answered(proc[c], "error"))
    BY <1>2, <2>1, AnsweredFine DEF networkVars, Results, Processes
  <2>2. CASE AfterTransition(c, TransitionResult(i, {"SIMULATED"}, to, row[i]),
                 PrepareStep(proc[c], Updated(row[i], to), proc[c].steps + 1), Reread(proc[c]))
    <3>1. AfterTransition(c, TransitionResult(i, {"SIMULATED"}, to, row[i]),
              PrepareStep(proc[c], row'[proc[c].id], proc[c].steps + 1), Reread(proc[c]))
      BY <1>1, <1>2, <1>3, <1>4, <2>2, UpdatedRow DEF AfterTransition
    <3>2. QED
      BY <1>2, <1>5, <3>1, AfterPrepareTransition DEF networkVars
  <2>3. CASE to = "REJECTED" /\ Goto(c, Reread(proc[c]))
    BY <1>1, <1>2, <2>3, RereadFine DEF networkVars
  <2>4. QED
    BY <1>3, <2>1, <2>2, <2>3 DEF AfterTransition
<1>7. ASSUME row[i].status \in {"SIMULATED"}, row'[i] = [row[i] EXCEPT !.status = to]
      PROVE  RowFine(i)'
  <2>1. row'[i].status = to /\ row'[i].blob = row[i].blob
    BY <1>2, <1>7 DEF Row
  <2>2. row[i].blob = NoTx /\ wire'[i].first = 0
    BY <1>7 DEF Inductive, RowFine, UnsignedActive
  <2>3. QED
    BY <2>1, <2>2 DEF RowFine, UnsignedActive, SignedActive
<1>8. QED
  BY <1>2, <1>3, <1>4, <1>6, <1>7, CallerTransition

\* Every step of POST prepare preserves Inductive.
LEMMA PrepareKeeps ==
    ASSUME Inductive, NEW c \in Callers, Prepare(c),
           UNCHANGED <<networkVars, recovered, batch, wire, crashes>>
    PROVE  Preserved
  BY StartPrepareKeeps, ReloadPrepareKeeps, ReadValidatedAccountKeeps, ReadCurrentAccountKeeps,
     ReadPreparedLedgerKeeps, WritePreparedKeeps, ReadSimulationLedgerKeeps, ExpirePreparedKeeps,
     FailMismatchKeeps, WriteSimulatedKeeps, CompleteSimulationKeeps DEF Prepare

-------------------------------------------------------------------------------
(* POST signature.                                                         *)

\* A request that answers from the row it has read.
LEMMA AnswerKeeps ==
    ASSUME Inductive, NEW c \in Callers, NEW local \in Local, local.blob \in minted \cup {NoTx},
           NEW result \in Results, Goto(c, Answered(local, result)),
           UNCHANGED <<networkVars, row, recovered, batch, wire, crashes>>
    PROVE  Preserved
<1>1. Answered(local, result) \in Local /\ LocalFine(proc[c])'
  BY AnsweredFine DEF networkVars, Processes
<1>2. QED
  BY <1>1, CallerReads

\* attach reads the row, verifies the blob against it and answers or goes on.
LEMMA StartAttachKeeps ==
    ASSUME Inductive, NEW c \in Callers, StartAttach(c),
           UNCHANGED <<networkVars, recovered, batch, wire, crashes>>
    PROVE  Preserved
<1>1. row' = row /\ minted \subseteq Tx /\ row \in [Intents -> Row]
  BY DEF StartAttach, Inductive, TypeOK, NetworkTypeOK
<1>2. PICK i \in Intents, t \in minted :
          LET local == [Idle EXCEPT !.op = "attach", !.id = i, !.blob = t]
          IN  IF row[i].status # "AWAITING_SIGNATURE"
              THEN Goto(c, SettledAnswer(local, row[i]))
              ELSE IF ~AssertRecovered \/ ~VerifiedFor(t, i, row[i])
              THEN Goto(c, Answered(local, "error"))
              ELSE Goto(c, [local EXCEPT !.pc = "signAccount", !.snap = row[i]])
  BY DEF StartAttach
<1>3. PICK local \in Local : local = [Idle EXCEPT !.op = "attach", !.id = i, !.blob = t]
  BY <1>1, IdleFine DEF Local
<1>4. local.blob = t /\ local.id = i /\ local.led = 0
  BY <1>3, IdleFine DEF Local, Idle
<1>5. CASE \E result \in Results : Goto(c, Answered(local, result))
  BY <1>1, <1>4, <1>5, AnswerKeeps
<1>6. CASE /\ row[i].status = "AWAITING_SIGNATURE"
           /\ Goto(c, [local EXCEPT !.pc = "signAccount", !.snap = row[i]])
  <2>1. PICK l \in Local : l = [local EXCEPT !.pc = "signAccount", !.snap = row[i]]
    BY <1>1 DEF Local, Awaits
  <2>2. /\ l.pc = "signAccount" /\ l.snap = row[i] /\ l.id = i /\ l.blob = t /\ l.led = 0
    BY <1>4, <2>1 DEF Local
  <2>3. Goto(c, l) /\ proc'[c] = l
    BY <1>6, <2>1 DEF Goto, Inductive, TypeOK, Processes
  <2>4. StillHolds(l.snap, l.id)'
    BY <1>1, <1>6, <2>2 DEF StillHolds, SignedActive
  <2>5. LocalFine(proc[c])'
    BY <1>1, <1>6, <2>2, <2>3, <2>4, NoTxAssumption DEF LocalFine, Awaits, Resolving, Submitting,
       networkVars, Inductive, TypeOK, NetworkTypeOK
  <2>6. QED
    BY <1>1, <2>3, <2>5, CallerReads
<1>7. QED
  BY <1>2, <1>3, <1>5, <1>6 DEF SettledAnswer, Results

\* One account reading decides what attach will write; an expiry only past the
\* window of the row.
LEMMA ReadSigningAccountKeeps ==
    ASSUME Inductive, NEW c \in Callers, ReadSigningAccount(c),
           UNCHANGED <<networkVars, recovered, batch, wire, crashes>>
    PROVE  Preserved
<1>1. /\ row' = row /\ proc[c].pc = "signAccount" /\ proc[c].pc \in Awaits \ {"rows"}
  BY DEF ReadSigningAccount, At, Awaits
<1>2. proc[c] \in Local /\ LocalFine(proc[c]) /\ proc[c].id \in Intents /\ proc[c].snap \in Row
  BY <1>1, AwaitingCaller DEF Processes
<1>3. \/ Reply(c, "error")
      \/ \E v \in Views : \E want \in {Decide("EXPIRED", "none", 0), Decide("SIGNED", "none", 0),
                                       Decide("FAILED", "SEQUENCE_CONFLICT", 0),
                                       Decide("FAILED", "SEQUENCE_REGRESSION", 0)} :
            /\ want.to = "EXPIRED" => WindowOver(v, proc[c].snap)
            /\ Goto(c, [proc[c] EXCEPT !.pc = "sign", !.want = want])
  BY DEF ReadSigningAccount, Decide
<1>4. CASE Reply(c, "error")
  BY <1>1, <1>4, ReplyKeeps DEF Results
<1>5. ASSUME NEW v \in Views,
             NEW want \in {Decide("EXPIRED", "none", 0), Decide("SIGNED", "none", 0),
                           Decide("FAILED", "SEQUENCE_CONFLICT", 0),
                           Decide("FAILED", "SEQUENCE_REGRESSION", 0)},
             want.to = "EXPIRED" => WindowOver(v, proc[c].snap),
             Goto(c, [proc[c] EXCEPT !.pc = "sign", !.want = want])
      PROVE  Preserved
  <2>1. /\ want.to \in {"EXPIRED", "SIGNED", "FAILED"}
        /\ want \in [to : IntentStatuses, failure : FailureCodes \cup {"none"}, final : Nat]
    BY DEF Decide, IntentStatuses, FailureCodes
  <2>2. PICK l \in Local : l = [proc[c] EXCEPT !.pc = "sign", !.want = want]
    BY <1>2, <2>1 DEF Local, Awaits
  <2>3. /\ l.pc = "sign" /\ l.want = want /\ l.id = proc[c].id /\ l.snap = proc[c].snap
        /\ l.blob = proc[c].blob /\ l.led = proc[c].led
    BY <1>2, <2>2 DEF Local
  <2>4. Goto(c, l) /\ proc'[c] = l
    BY <1>5, <2>2 DEF Goto, Inductive, TypeOK, Processes
  <2>5. /\ l.snap.status = "AWAITING_SIGNATURE" /\ l.blob # NoTx
        /\ l.blob \in minted \cup {NoTx} /\ l.led <= closed
    BY <1>1, <1>2, <2>3 DEF LocalFine
  <2>6. StillHolds(l.snap, l.id)'
    BY <1>1, <1>2, <2>3 DEF LocalFine, StillHolds, networkVars
  <2>7. want.to = "EXPIRED" => WindowOver(closed, l.snap)'
    BY <1>2, <1>5, <2>3, ViewsAreClosed DEF WindowOver, Row, networkVars, Inductive, TypeOK, NetworkTypeOK
  <2>8. LocalFine(proc[c])'
    BY <1>2, <2>1, <2>3, <2>4, <2>5, <2>6, <2>7 DEF LocalFine, Awaits, Resolving, Submitting, networkVars
  <2>9. QED
    BY <1>1, <2>4, <2>8, CallerReads
<1>6. QED
  BY <1>3, <1>4, <1>5

\* The write attach has decided on: the first accepted signature, a failure, or
\* an expiry past the window whatever the row has become.
LEMMA WriteSigningKeeps ==
    ASSUME Inductive, NEW c \in Callers, WriteSigning(c),
           UNCHANGED <<networkVars, recovered, batch, wire, crashes>>
    PROVE  Preserved
<1>1. /\ proc[c].pc = "sign" /\ proc[c].pc \in Awaits \ {"rows"}
  BY DEF WriteSigning, At, Awaits
<1>2. PICK i \in Intents : i = proc[c].id
  BY <1>1, AwaitingCaller DEF Processes
<1>3. /\ row[i] \in Row /\ proc[c] \in Local /\ LocalFine(proc[c])
      /\ proc[c].blob \in minted \cup {NoTx}
      /\ StillHolds(proc[c].snap, i) /\ c \in Processes
  BY <1>1, <1>2, AwaitingCaller DEF Processes
<1>4. PICK to : to = proc[c].want.to
  OBVIOUS
<1>5. /\ to \in {"SIGNED", "EXPIRED", "FAILED"} /\ to \in IntentStatuses
      /\ proc[c].blob \in minted
      /\ proc[c].snap.status = "AWAITING_SIGNATURE"
      /\ to = "EXPIRED" => WindowOver(closed, proc[c].snap)
  BY <1>1, <1>3, <1>4 DEF LocalFine, IntentStatuses
<1>6. PICK new : new = IF to = "SIGNED" THEN [row[i] EXCEPT !.blob = proc[c].blob]
                       ELSE [row[i] EXCEPT !.failure = proc[c].want.failure]
  OBVIOUS
<1>7. /\ new \in Row
      /\ new.seq = row[i].seq /\ new.prep = row[i].prep /\ new.lls = row[i].lls
      /\ new.baseline = row[i].baseline
      /\ IF to = "SIGNED" THEN new.blob = proc[c].blob ELSE new.blob = row[i].blob
  <2>1. CASE to = "SIGNED"
    BY <1>3, <1>6, <2>1 DEF Row, Local
  <2>2. CASE to # "SIGNED"
    BY <1>3, <1>6, <2>2 DEF Row, Local
  <2>3. QED
    BY <2>1, <2>2
<1>8. row[i].status \in {"AWAITING_SIGNATURE"} => row[i].blob = NoTx /\ wire'[i].first = 0
  BY DEF Inductive, RowFine, UnsignedActive
<1>9. /\ Transition(i, {"AWAITING_SIGNATURE"}, to, new)
      /\ row[i].status \in {"AWAITING_SIGNATURE"} => KeepsColumns(i, new)
  BY <1>2, <1>4, <1>6, <1>7, <1>8 DEF WriteSigning, KeepsColumns
<1>10. ASSUME row[i].status \in {"AWAITING_SIGNATURE"}, row'[i] = [new EXCEPT !.status = to]
       PROVE  RowFine(i)'
  <2>1. /\ row'[i].status = to /\ row'[i].blob = new.blob
        /\ row'[i].baseline = new.baseline /\ row'[i].lls = new.lls
    BY <1>7, <1>10 DEF Row
  <2>2. new.lls = proc[c].snap.lls
    BY <1>3, <1>5, <1>7 DEF StillHolds
  <2>3. to = "EXPIRED" => WindowOver(closed, row[i])'
    BY <1>5, <2>1, <2>2 DEF WindowOver, networkVars
  <2>4. to = "SIGNED" => row'[i].blob \in minted' /\ wire'[i].first = 0
    BY <1>5, <1>7, <1>8, <1>10, <2>1 DEF networkVars
  <2>5. QED
    BY <1>5, <2>1, <2>3, <2>4 DEF RowFine, UnsignedActive, SignedActive
<1>11. \E l \in Local : Goto(c, l) /\ LocalFine(proc[c])'
  <2>1. CASE \E result \in Results : Goto(c, Answered(proc[c], result))
    BY <1>3, <2>1, AnsweredFine DEF networkVars
  <2>2. CASE Goto(c, [Idle EXCEPT !.op = "attach", !.id = i, !.pc = "reloadSigned",
                                  !.blob = proc[c].blob])
    <3>1. PICK l \in Local : l = [Idle EXCEPT !.op = "attach", !.id = i, !.pc = "reloadSigned",
                                             !.blob = proc[c].blob]
      <4>1. "reloadSigned" \in Awaits /\ NewRow \in Row /\ proc[c].blob \in Tx \cup {NoTx}
        BY <1>3, IdleFine DEF Local, Awaits
      <4>2. QED
        BY <4>1, FreshLocal
    <3>2. /\ l.pc = "reloadSigned" /\ l.id = i /\ l.blob = proc[c].blob
          /\ l.snap = NewRow /\ l.led = 0
      BY <3>1, IdleFine DEF Idle, Local
    <3>3. Goto(c, l) /\ proc'[c] = l
      BY <1>3, <2>2, <3>1 DEF Goto, Inductive, TypeOK
    <3>4. LocalFine(proc[c])'
      BY <1>5, <3>2, <3>3 DEF LocalFine, StillHolds, NewRow, Awaits, Resolving, Submitting,
         SignedActive, networkVars, Inductive, TypeOK, NetworkTypeOK
    <3>5. QED
      BY <3>3, <3>4
  <2>3. QED
    BY <1>2, <1>4, <2>1, <2>2 DEF WriteSigning, AfterTransition, Results
<1>12. QED
  BY <1>5, <1>7, <1>9, <1>10, <1>11, CallerTransition

\* attach reads the row again when another request was first.
LEMMA ReloadSigningKeeps ==
    ASSUME Inductive, NEW c \in Callers, ReloadSigning(c),
           UNCHANGED <<networkVars, recovered, batch, wire, crashes>>
    PROVE  Preserved
<1>1. proc[c] \in Local /\ proc[c].blob \in minted \cup {NoTx}
  BY AwaitingCaller DEF Processes
<1>2. row' = row /\ \E result \in Results : Goto(c, Answered(proc[c], result))
  BY DEF ReloadSigning, SettledAnswer, Results
<1>3. QED
  BY <1>1, <1>2, AnswerKeeps

\* Every step of POST signature preserves Inductive.
LEMMA AttachKeeps ==
    ASSUME Inductive, NEW c \in Callers, Attach(c),
           UNCHANGED <<networkVars, recovered, batch, wire, crashes>>
    PROVE  Preserved
  BY StartAttachKeeps, ReadSigningAccountKeeps, WriteSigningKeeps, ReloadSigningKeeps DEF Attach


-------------------------------------------------------------------------------
(* The cycle and resolveSigned.                                            *)

\* What a step of p leaves of its local variables, the batch and `recovered`.
StepFine(p) ==
    /\ \E l \in Local : Goto(p, l) /\ LocalFine(proc[p])'
    /\ recovered' \in BOOLEAN
    /\ batch' \subseteq Snapshot
    /\ \A e \in batch' : e \in batch \/ PendingFine(e)'

\* A step that reads on behalf of the cycle or of a submit request.
LEMMA ResolverReads ==
    ASSUME Inductive, NEW p \in Processes, StepFine(p),
           UNCHANGED <<networkVars, row, wire, crashes>>
    PROVE  Preserved
<1>1. /\ row' \in [Intents -> Row]
      /\ \A i \in Intents : RowGrows(i)
      /\ OneSequenceOwner'
  BY DEF Inductive, TypeOK, RowGrows, OneSequenceOwner, SignedActive
<1>2. Grows
  BY <1>1 DEF Grows, Inductive, TypeOK, NetworkTypeOK, networkVars
<1>3. \A i \in Intents : RowFine(i)'
  BY <1>2, KeepsRow
<1>4. PICK l \in Local : Goto(p, l) /\ LocalFine(proc[p])'
  BY DEF StepFine
<1>5. QED
  BY <1>1, <1>3, <1>4, ProcessStep DEF StepFine, Inductive, TypeOK, NetworkTypeOK, networkVars

\* The cycle takes a row that is still as it read it, or ends.
LEMMA NextRowFine ==
    ASSUME Inductive, UNCHANGED networkVars, NEW rows \in SUBSET Snapshot,
           \A e \in rows : PendingFine(e)', NextRow(rows)
    PROVE  StepFine(Worker)
<1>1. /\ Worker \in Processes /\ proc[Worker] \in Local /\ proc[Worker].led \in Nat
      /\ proc[Worker].led <= closed /\ proc[Worker].budget \in 0..1
  BY AwaitingCaller DEF Processes, LocalFine, Local
<1>2. CASE /\ rows = {} /\ Goto(Worker, Idle) /\ batch' = {} /\ recovered' = TRUE
  <2>1. proc'[Worker] = Idle
    BY <1>1, <1>2 DEF Goto, Inductive, TypeOK
  <2>2. /\ proc'[Worker].pc = "idle" /\ proc'[Worker].snap = NewRow
        /\ proc'[Worker].led = 0 /\ proc'[Worker].blob = NoTx
    BY <2>1 DEF Idle
  <2>3. LocalFine(proc[Worker])'
    BY <2>2 DEF LocalFine, StillHolds, NewRow, Awaits, Resolving, Submitting, SignedActive,
       networkVars, Inductive, TypeOK, NetworkTypeOK
  <2>4. QED
    BY <1>2, <2>3, IdleFine DEF StepFine
<1>3. ASSUME NEW e \in rows,
             Goto(Worker,
                  [Idle EXCEPT !.op = "cycle", !.id = e.id, !.snap = e.snap,
                               !.led = proc[Worker].led, !.budget = proc[Worker].budget,
                               !.pc = IF e.snap.status \in UnsignedActive
                                      THEN "expireRow" ELSE "lookup"]),
             batch' = rows \ {e},
             UNCHANGED recovered
      PROVE  StepFine(Worker)
  <2>1. e.id \in Intents /\ e.snap \in Row /\ PendingFine(e)'
    BY DEF Snapshot
  <2>2. PICK pc \in {"expireRow", "lookup"} :
            pc = IF e.snap.status \in UnsignedActive THEN "expireRow" ELSE "lookup"
    OBVIOUS
  <2>3. PICK l \in Local :
            l = [Idle EXCEPT !.op = "cycle", !.id = e.id, !.snap = e.snap,
                             !.led = proc[Worker].led, !.budget = proc[Worker].budget, !.pc = pc]
    <3>1. pc \in Awaits
      BY DEF Awaits
    <3>2. Idle \in Local
      BY IdleFine
    <3>3. [Idle EXCEPT !.op = "cycle", !.id = e.id, !.snap = e.snap,
                       !.led = proc[Worker].led, !.budget = proc[Worker].budget, !.pc = pc] \in Local
      BY <1>1, <2>1, <3>1, <3>2 DEF Local
    <3>4. QED
      BY <3>3
  <2>4. /\ l.id = e.id /\ l.snap = e.snap /\ l.led = proc[Worker].led /\ l.blob = NoTx
        /\ IF e.snap.status \in UnsignedActive THEN l.pc = "expireRow" ELSE l.pc = "lookup"
    BY <2>2, <2>3 DEF Idle
  <2>5. Goto(Worker, l) /\ proc'[Worker] = l
    BY <1>1, <1>3, <2>2, <2>3 DEF Goto, Inductive, TypeOK
  <2>6. /\ StillHolds(l.snap, l.id)'
        /\ l.pc = "lookup" => l.snap.status \in SignedActive
        /\ l.pc = "expireRow" => l.snap.status \in UnsignedActive /\ WindowOver(closed, l.snap)'
    BY <2>1, <2>4 DEF PendingFine, SequenceActive
  <2>7. LocalFine(proc[Worker])'
    BY <1>1, <2>1, <2>4, <2>5, <2>6 DEF LocalFine, Awaits, Resolving, Submitting, networkVars
  <2>8. QED
    BY <1>3, <2>5, <2>7 DEF StepFine, Inductive, TypeOK
<1>4. QED
  BY <1>2, <1>3 DEF NextRow

\* A row that is still open: the cycle goes on, submit answers.
LEMMA StillOpenFine ==
    ASSUME Inductive, Grows, UNCHANGED networkVars, NEW p \in Processes, StillOpen(p)
    PROVE  StepFine(p)
<1>1. CASE p = Worker
  <2>1. batch \in SUBSET Snapshot /\ \A e \in batch : PendingFine(e)'
    BY KeepsPending DEF Inductive, TypeOK
  <2>2. QED
    BY <1>1, <2>1, NextRowFine DEF StillOpen
<1>2. CASE p # Worker
  <2>1. proc[p] \in Local /\ proc[p].blob \in minted \cup {NoTx}
    BY AwaitingCaller
  <2>2. Answered(proc[p], "error") \in Local /\ LocalFine(proc[p])'
    BY <1>2, <2>1, AnsweredFine DEF StillOpen, Reply, Results, networkVars
  <2>3. QED
    BY <1>2, <2>2 DEF StillOpen, Reply, StepFine, Inductive, TypeOK
<1>3. QED
  BY <1>1, <1>2

\* A concluded row: the cycle goes on, submit reads the row again.
LEMMA ConcludedFine ==
    ASSUME Inductive, Grows, UNCHANGED networkVars, NEW p \in Processes,
           proc[p].pc \in Awaits \ {"rows"}, Concluded(p)
    PROVE  StepFine(p)
<1>1. CASE p = Worker
  <2>1. batch \in SUBSET Snapshot /\ \A e \in batch : PendingFine(e)'
    BY KeepsPending DEF Inductive, TypeOK
  <2>2. QED
    BY <1>1, <2>1, NextRowFine DEF Concluded
<1>2. CASE p # Worker
  <2>1. proc[p] \in Local /\ proc[p].id \in Intents /\ proc[p].steps + 1 \in Nat
    BY AwaitingCaller
  <2>2. PICK l \in Local :
            l = [Idle EXCEPT !.op = "submit", !.id = proc[p].id, !.pc = "reloadSubmit",
                             !.steps = proc[p].steps + 1]
    <3>1. "reloadSubmit" \in Awaits /\ NewRow \in Row
      BY IdleFine DEF Awaits
    <3>2. QED
      BY <2>1, <3>1, FreshLocal
  <2>3. /\ l.id = proc[p].id /\ l.snap = NewRow /\ l.led = 0 /\ l.blob = NoTx /\ l.pc = "reloadSubmit"
    BY <2>2 DEF Idle
  <2>4. Goto(p, l) /\ proc'[p] = l
    BY <1>2, <2>2 DEF Concluded, Goto, Inductive, TypeOK
  <2>5. LocalFine(proc[p])'
    BY <2>1, <2>3, <2>4 DEF LocalFine, StillHolds, NewRow, Awaits, Resolving, Submitting, SignedActive,
       networkVars, Inductive, TypeOK, NetworkTypeOK
  <2>6. QED
    BY <1>2, <2>4, <2>5 DEF Concluded, StepFine, Inductive, TypeOK
<1>3. QED
  BY <1>1, <1>2

\* A step of resolveSigned that moves on to another await of the same row.
LEMMA ContinueFine ==
    ASSUME Inductive, UNCHANGED <<networkVars, row>>, NEW p \in Processes, NEW l \in Local,
           proc[p].pc \in Resolving, Continue(p, l),
           l.id = proc[p].id, l.snap = proc[p].snap, l.blob = proc[p].blob, l.led = proc[p].led,
           l.pc \in Resolving,
           l.pc = "outcome" =>
               /\ l.want.to \in {"VALIDATED", "EXPIRED", "FAILED"}
               /\ l.want.to = "EXPIRED" => WindowOver(closed, l.snap)
               /\ l.want.to = "VALIDATED" => IncludedWithin(l.snap, l.want.final)
    PROVE  StepFine(p)
<1>1. proc'[p] = l
  BY DEF Continue, Goto, Inductive, TypeOK
<1>2. LocalFine(proc[p]) /\ proc[p].id \in Intents
  BY AwaitingCaller DEF Resolving, Awaits
<1>3. /\ l.snap.status \in SignedActive /\ l.led <= closed /\ l.blob \in minted \cup {NoTx}
      /\ l.id \in Intents
  BY <1>2 DEF LocalFine
<1>4. StillHolds(l.snap, l.id)'
  BY <1>2 DEF LocalFine, StillHolds, networkVars
<1>5. /\ l.pc = "outcome" /\ l.want.to = "EXPIRED" => WindowOver(closed, l.snap)'
      /\ l.pc = "outcome" /\ l.want.to = "VALIDATED" => IncludedWithin(l.snap, l.want.final)'
  BY DEF WindowOver, IncludedWithin, networkVars
<1>6. LocalFine(proc[p])'
  BY <1>1, <1>3, <1>4, <1>5 DEF LocalFine, Awaits, Resolving, Submitting, networkVars
<1>7. QED
  BY <1>6 DEF StepFine, Continue, Inductive, TypeOK

\* A step of resolveSigned that has reached an outcome: EXPIRED past the window
\* only, VALIDATED only for an inclusion within it.
LEMMA OutcomeFine ==
    ASSUME Inductive, UNCHANGED <<networkVars, row>>, NEW p \in Processes,
           proc[p].pc \in Resolving,
           NEW to \in {"VALIDATED", "EXPIRED", "FAILED"}, NEW failure \in FailureCodes \cup {"none"},
           NEW final \in Nat, Outcome(p, to, failure, final),
           to = "EXPIRED" => WindowOver(closed, proc[p].snap),
           to = "VALIDATED" => IncludedWithin(proc[p].snap, final)
    PROVE  StepFine(p)
<1>1. proc[p] \in Local
  BY AwaitingCaller
<1>2. /\ Decide(to, failure, final) \in [to : IntentStatuses, failure : FailureCodes \cup {"none"}, final : Nat]
      /\ Decide(to, failure, final).to = to /\ Decide(to, failure, final).final = final
  BY DEF Decide, IntentStatuses
<1>3. PICK l \in Local : l = [proc[p] EXCEPT !.pc = "outcome", !.want = Decide(to, failure, final)]
  BY <1>1, <1>2 DEF Local, Awaits
<1>4. /\ l.id = proc[p].id /\ l.snap = proc[p].snap /\ l.blob = proc[p].blob /\ l.led = proc[p].led
      /\ l.pc = "outcome" /\ l.pc \in Resolving /\ l.want.to = to /\ l.want.final = final
  BY <1>1, <1>2, <1>3 DEF Local, Resolving
<1>5. Continue(p, l)
  BY <1>3 DEF Outcome
<1>6. QED
  BY <1>4, <1>5, ContinueFine

\* A step that only reads leaves every row as it was.
LEMMA ReadingGrows ==
    ASSUME Inductive, UNCHANGED <<networkVars, row>>
    PROVE  Grows
  BY DEF Grows, RowGrows, SignedActive, Inductive, TypeOK, NetworkTypeOK, networkVars

-------------------------------------------------------------------------------
(* The cycle.                                                              *)

\* A cycle starts from the index of a ledger that has closed.
LEMMA StartCycleKeeps ==
    ASSUME Inductive, StartCycle, UNCHANGED <<networkVars, wire, crashes>>
    PROVE  Preserved
<1>1. PICK v \in Views : Goto(Worker, [Idle EXCEPT !.op = "cycle", !.pc = "rows", !.led = v])
  BY DEF StartCycle
<1>2. v \in Nat /\ v <= closed
  BY ViewsAreClosed
<1>3. PICK l \in Local : l = [Idle EXCEPT !.op = "cycle", !.pc = "rows", !.led = v]
  <2>1. "rows" \in Awaits /\ NewRow \in Row
    BY IdleFine DEF Awaits
  <2>2. QED
    BY <1>2, <2>1, FreshLocal
<1>4. l.pc = "rows" /\ l.id = 0 /\ l.led = v /\ l.snap = NewRow /\ l.blob = NoTx
  BY <1>3 DEF Idle
<1>5. Goto(Worker, l) /\ proc'[Worker] = l /\ Worker \in Processes
  BY <1>1, <1>3 DEF Goto, Inductive, TypeOK, Processes
<1>6. LocalFine(proc[Worker])'
  BY <1>2, <1>4, <1>5, StoreAssumption DEF LocalFine, Resolving, Submitting, networkVars
<1>7. StepFine(Worker)
  BY <1>5, <1>6 DEF StepFine, StartCycle, Inductive, TypeOK
<1>8. QED
  BY <1>5, <1>7, ResolverReads DEF StartCycle

\* The cycle reads unsigned rows past their window and signed rows.
LEMMA ReadRowsKeeps ==
    ASSUME Inductive, ReadRows, UNCHANGED <<networkVars, wire, crashes>>
    PROVE  Preserved
<1> DEFINE rows == {[id |-> i, snap |-> row[i]] : i \in DueRows}
<1>1. rows \in SUBSET Snapshot /\ row' = row /\ Worker \in Processes
  BY DEF ReadRows, DueRows, Snapshot, Inductive, TypeOK, Processes
<1>2. ASSUME NEW e \in rows
      PROVE  PendingFine(e)'
  <2>1. PICK i \in DueRows : e.id = i /\ e.snap = row[i]
    OBVIOUS
  <2>2. i \in Intents /\ row[i] \in Row /\ row[i].status \in SequenceActive
    BY DEF DueRows, SequenceActive, Inductive, TypeOK
  <2>3. proc[Worker].led <= closed /\ proc[Worker].led \in Nat /\ closed \in Nat
    BY AwaitingCaller DEF LocalFine, Processes, Inductive, TypeOK, NetworkTypeOK
  <2>4. row[i].status \in UnsignedActive => closed > row[i].lls
    BY <2>2, <2>3 DEF DueRows, WindowOver, UnsignedActive, SignedActive, Row
  <2>5. row[i].status \in SignedActive => row[i].blob \in minted
    BY <2>2 DEF Inductive, RowFine
  <2>6. StillHolds(e.snap, e.id)'
    BY <1>1, <2>1, <2>2, <2>5 DEF StillHolds, networkVars
  <2>7. QED
    BY <2>1, <2>2, <2>4, <2>6 DEF PendingFine, WindowOver, networkVars
<1>3. \A e \in rows : PendingFine(e)'
  BY <1>2
<1> HIDE DEF rows
<1>4. StepFine(Worker)
  BY <1>1, <1>3, NextRowFine DEF ReadRows, rows
<1>5. QED
  BY <1>1, <1>4, ResolverReads

\* A transition written by the cycle or by resolveSigned.
LEMMA ResolverTransition ==
    ASSUME Inductive, NEW p \in Processes, NEW i \in Intents,
           NEW from, NEW to \in IntentStatuses, NEW new \in Row,
           Transition(i, from, to, new), KeepsColumns(i, new),
           /\ row[i].status \in from
           /\ row'[i] = [new EXCEPT !.status = to]
           => RowFine(i)',
           UNCHANGED <<networkVars, wire, crashes>>,
           Grows => StepFine(p)
    PROVE  Preserved
<1>1. /\ row' \in [Intents -> Row]
      /\ \A j \in Intents : RowGrows(j)
      /\ OneSequenceOwner'
      /\ \A j \in Intents \ {i} : row'[j] = row[j]
      /\ \/ row'[i] = row[i]
         \/ /\ row[i].status \in from
            /\ CanTransition(row[i].status, to)
            /\ row'[i] = [new EXCEPT !.status = to]
  BY TransitionRow
<1>2. Grows
  BY <1>1 DEF Grows, Inductive, TypeOK, NetworkTypeOK, networkVars
<1>3. \A j \in Intents : row'[j] = row[j] => RowFine(j)'
  BY <1>2, KeepsRow
<1>4. \A j \in Intents : RowFine(j)'
  BY <1>1, <1>3
<1>5. PICK l \in Local : Goto(p, l) /\ LocalFine(proc[p])'
  BY <1>2 DEF StepFine
<1>6. QED
  BY <1>1, <1>2, <1>4, <1>5, ProcessStep DEF StepFine, Inductive, TypeOK, NetworkTypeOK, networkVars

\* The expiry of the cycle is past the window, in whichever unsigned status the
\* row is by now.
LEMMA ExpireRowKeeps ==
    ASSUME Inductive, ExpireRow, UNCHANGED <<networkVars, wire, crashes>>
    PROVE  Preserved
<1>1. Worker \in Processes /\ proc[Worker].pc = "expireRow" /\ proc[Worker].pc \in Awaits \ {"rows"}
  BY DEF ExpireRow, At, Awaits, Processes
<1>2. PICK i \in Intents : i = proc[Worker].id
  BY <1>1, AwaitingCaller
<1>3. row[i] \in Row /\ LocalFine(proc[Worker]) /\ StillHolds(proc[Worker].snap, i)
  BY <1>1, <1>2, AwaitingCaller
<1>4. WindowOver(closed, proc[Worker].snap) /\ row[i].lls = proc[Worker].snap.lls
  BY <1>1, <1>3 DEF LocalFine, StillHolds, UnsignedActive
<1>5. ASSUME row'[i] = [row[i] EXCEPT !.status = "EXPIRED"]
      PROVE  RowFine(i)'
  <2>1. row'[i].status = "EXPIRED" /\ row'[i].lls = row[i].lls
    BY <1>3, <1>5 DEF Row
  <2>2. QED
    BY <1>4, <2>1 DEF RowFine, WindowOver, UnsignedActive, SignedActive, networkVars
<1>6. /\ Transition(i, UnsignedActive, "EXPIRED", row[i])
      /\ KeepsColumns(i, row[i])
      /\ "EXPIRED" \in IntentStatuses
  BY <1>2 DEF ExpireRow, KeepsColumns, IntentStatuses
<1>7. Grows => StepFine(Worker)
  <2>1. Grows => batch \in SUBSET Snapshot /\ \A e \in batch : PendingFine(e)'
    BY KeepsPending DEF Inductive, TypeOK
  <2>2. QED
    BY <2>1, NextRowFine DEF ExpireRow
<1>8. QED
  BY <1>1, <1>3, <1>5, <1>6, <1>7, ResolverTransition

\* Every step of the cycle outside resolveSigned preserves Inductive.
LEMMA CycleKeeps ==
    ASSUME Inductive, Cycle, UNCHANGED <<networkVars, wire, crashes>>
    PROVE  Preserved
  BY StartCycleKeeps, ReadRowsKeeps, ExpireRowKeeps DEF Cycle

-------------------------------------------------------------------------------
(* resolveSigned.                                                          *)

\* A tx reply that tells where the transaction is.
LEMMA LookupFoundKeeps ==
    ASSUME Inductive, NEW p \in Processes, LookupFound(p), UNCHANGED <<networkVars, wire, crashes>>
    PROVE  Preserved
<1>1. proc[p].pc \in Resolving /\ row' = row
  BY DEF LookupFound, Looking, Resolving
<1>2. PICK e \in chain :
          e.tx = proc[p].snap.blob /\
          IF InWindow(e.at, proc[p].snap)
          THEN Outcome(p, "VALIDATED", "none", e.at)
          ELSE Outcome(p, "FAILED", "FINALITY_INTEGRITY_ERROR", 0)
  BY DEF LookupFound, FoundAt
<1>3. e.at \in Nat
  BY DEF Inductive, TypeOK, NetworkTypeOK, Entry
<1>4. CASE InWindow(e.at, proc[p].snap) /\ Outcome(p, "VALIDATED", "none", e.at)
  <2>1. IncludedWithin(proc[p].snap, e.at)
    BY <1>2, <1>4 DEF IncludedWithin
  <2>2. StepFine(p)
    BY <1>1, <1>3, <1>4, <2>1, OutcomeFine
  <2>3. QED
    BY <1>1, <2>2, ResolverReads
<1>5. CASE Outcome(p, "FAILED", "FINALITY_INTEGRITY_ERROR", 0)
  <2>1. StepFine(p)
    BY <1>1, <1>5, OutcomeFine DEF FailureCodes
  <2>2. QED
    BY <1>1, <2>1, ResolverReads
<1>6. QED
  BY <1>2, <1>4, <1>5

\* A tx reply that contradicts the stored artifact.
LEMMA LookupMisreportedKeeps ==
    ASSUME Inductive, NEW p \in Processes, LookupMisreported(p), UNCHANGED <<networkVars, wire, crashes>>
    PROVE  Preserved
<1>1. proc[p].pc \in Resolving /\ row' = row
  BY DEF LookupMisreported, Looking, Resolving
<1>2. PICK failure \in {"FINALITY_INTEGRITY_ERROR", "UNEXPECTED_VALIDATED_RESULT"} :
          Outcome(p, "FAILED", failure, 0)
  BY DEF LookupMisreported
<1>3. StepFine(p)
  BY <1>1, <1>2, OutcomeFine DEF FailureCodes
<1>4. QED
  BY <1>1, <1>3, ResolverReads

\* A transaction known but not validated.
LEMMA LookupUnvalidatedKeeps ==
    ASSUME Inductive, NEW p \in Processes, LookupUnvalidated(p), UNCHANGED <<networkVars, wire, crashes>>
    PROVE  Preserved
<1>1. row' = row /\ Grows
  BY ReadingGrows DEF LookupUnvalidated
<1>2. StepFine(p)
  BY <1>1, StillOpenFine DEF LookupUnvalidated
<1>3. QED
  BY <1>1, <1>2, ResolverReads

\* txnNotFound: on to the account, to the other endpoint, or still open.
LEMMA LookupNotFoundKeeps ==
    ASSUME Inductive, NEW p \in Processes, LookupNotFound(p), UNCHANGED <<networkVars, wire, crashes>>
    PROVE  Preserved
<1>1. proc[p].pc \in Resolving /\ row' = row /\ Grows
  BY ReadingGrows DEF LookupNotFound, Looking, Resolving
<1>2. proc[p] \in Local /\ proc[p].budget \in 0..1
  BY AwaitingCaller DEF Local
<1>3. \/ Continue(p, [proc[p] EXCEPT !.pc = "provenAccount"])
      \/ /\ proc[p].budget > 0
         /\ Continue(p, [proc[p] EXCEPT !.pc = "searchAgain", !.budget = proc[p].budget - 1])
      \/ StillOpen(p)
  BY DEF LookupNotFound, MaySwitch
<1>4. CASE Continue(p, [proc[p] EXCEPT !.pc = "provenAccount"])
  <2>1. PICK l \in Local : l = [proc[p] EXCEPT !.pc = "provenAccount"]
    BY <1>2 DEF Local, Awaits
  <2>2. /\ l.id = proc[p].id /\ l.snap = proc[p].snap /\ l.blob = proc[p].blob
        /\ l.led = proc[p].led /\ l.pc = "provenAccount" /\ l.pc \in Resolving
    BY <1>2, <2>1 DEF Local, Resolving
  <2>3. StepFine(p)
    BY <1>1, <1>4, <2>1, <2>2, ContinueFine
  <2>4. QED
    BY <1>1, <2>3, ResolverReads
<1>5. CASE /\ proc[p].budget > 0
           /\ Continue(p, [proc[p] EXCEPT !.pc = "searchAgain", !.budget = proc[p].budget - 1])
  <2>1. proc[p].budget - 1 \in 0..1
    BY <1>2, <1>5
  <2>2. PICK l \in Local : l = [proc[p] EXCEPT !.pc = "searchAgain", !.budget = proc[p].budget - 1]
    BY <1>2, <2>1 DEF Local, Awaits
  <2>3. /\ l.id = proc[p].id /\ l.snap = proc[p].snap /\ l.blob = proc[p].blob
        /\ l.led = proc[p].led /\ l.pc = "searchAgain" /\ l.pc \in Resolving
    BY <1>2, <2>2 DEF Local, Resolving
  <2>4. StepFine(p)
    BY <1>1, <1>5, <2>2, <2>3, ContinueFine
  <2>5. QED
    BY <1>1, <2>4, ResolverReads
<1>6. CASE StillOpen(p)
  <2>1. StepFine(p)
    BY <1>1, <1>6, StillOpenFine
  <2>2. QED
    BY <1>1, <2>1, ResolverReads
<1>7. QED
  BY <1>3, <1>4, <1>5, <1>6

\* The account beyond the window decides between EXPIRED and a Sequence failure.
LEMMA ReadProvenAccountKeeps ==
    ASSUME Inductive, NEW p \in Processes, ReadProvenAccount(p), UNCHANGED <<networkVars, wire, crashes>>
    PROVE  Preserved
<1>1. proc[p].pc \in Resolving /\ row' = row /\ Grows
  BY ReadingGrows DEF ReadProvenAccount, At, Resolving
<1>2. \/ Outcome(p, "FAILED", "SEQUENCE_CONFLICT", 0)
      \/ Outcome(p, "FAILED", "SEQUENCE_REGRESSION", 0)
      \/ StillOpen(p)
      \/ \E v \in Views : WindowOver(v, proc[p].snap) /\ Outcome(p, "EXPIRED", "none", 0)
  BY DEF ReadProvenAccount
<1>3. CASE \/ Outcome(p, "FAILED", "SEQUENCE_CONFLICT", 0)
           \/ Outcome(p, "FAILED", "SEQUENCE_REGRESSION", 0)
  <2>1. StepFine(p)
    BY <1>1, <1>3, OutcomeFine DEF FailureCodes
  <2>2. QED
    BY <1>1, <2>1, ResolverReads
<1>4. CASE StillOpen(p)
  <2>1. StepFine(p)
    BY <1>1, <1>4, StillOpenFine
  <2>2. QED
    BY <1>1, <2>1, ResolverReads
<1>5. ASSUME NEW v \in Views, WindowOver(v, proc[p].snap), Outcome(p, "EXPIRED", "none", 0)
      PROVE  Preserved
  <2>1. WindowOver(closed, proc[p].snap)
    BY <1>5, ViewsAreClosed, AwaitingCaller DEF WindowOver, Row, Inductive, TypeOK, NetworkTypeOK
  <2>2. StepFine(p)
    BY <1>1, <1>5, <2>1, OutcomeFine
  <2>3. QED
    BY <1>1, <2>2, ResolverReads
<1>6. QED
  BY <1>2, <1>3, <1>4, <1>5

\* The outcome is written to a row that still has the artifact and the window it
\* was decided for.
LEMMA WriteOutcomeKeeps ==
    ASSUME Inductive, NEW p \in Processes, WriteOutcome(p), UNCHANGED <<networkVars, wire, crashes>>
    PROVE  Preserved
<1>1. proc[p].pc = "outcome" /\ proc[p].pc \in Awaits \ {"rows"}
  BY DEF WriteOutcome, At, Awaits
<1>2. PICK i \in Intents : i = proc[p].id
  BY <1>1, AwaitingCaller
<1>3. /\ row[i] \in Row /\ LocalFine(proc[p]) /\ proc[p] \in Local
      /\ StillHolds(proc[p].snap, i) /\ proc[p].snap \in Row
  BY <1>1, <1>2, AwaitingCaller
<1>4. PICK to, failure, final : /\ to = proc[p].want.to
                                /\ failure = proc[p].want.failure
                                /\ final = proc[p].want.final
  OBVIOUS
<1>5. /\ to \in {"VALIDATED", "EXPIRED", "FAILED"} /\ to \in IntentStatuses
      /\ failure \in FailureCodes \cup {"none"} /\ final \in Nat
      /\ to = "EXPIRED" => WindowOver(closed, proc[p].snap)
      /\ to = "VALIDATED" => IncludedWithin(proc[p].snap, final)
      /\ proc[p].snap.status \in SignedActive
  BY <1>1, <1>3, <1>4 DEF LocalFine, Local, Resolving, IntentStatuses
<1>6. PICK new \in Row : new = [row[i] EXCEPT !.failure = failure, !.final = final]
  BY <1>3, <1>5 DEF Row
<1>7. /\ new.seq = row[i].seq /\ new.prep = row[i].prep /\ new.lls = row[i].lls
      /\ new.blob = row[i].blob /\ new.baseline = row[i].baseline /\ new.final = final
  BY <1>3, <1>6 DEF Row
<1>8. /\ Transition(i, SignedActive, to, new) /\ KeepsColumns(i, new)
  BY <1>2, <1>4, <1>6, <1>7 DEF WriteOutcome, KeepsColumns
<1>9. ASSUME row[i].status \in SignedActive, row'[i] = [new EXCEPT !.status = to]
      PROVE  RowFine(i)'
  <2>1. /\ row'[i].status = to /\ row'[i].lls = proc[p].snap.lls /\ row'[i].prep = proc[p].snap.prep
        /\ row'[i].blob = row[i].blob /\ row'[i].final = final
    BY <1>3, <1>5, <1>7, <1>9 DEF Row, StillHolds, SignedActive
  <2>2. row[i].blob = proc[p].snap.blob
    <3>1. proc[p].snap.blob \in minted
      BY <1>3, <1>5 DEF StillHolds
    <3>2. proc[p].snap.blob # NoTx
      BY <3>1, NoTxAssumption DEF Inductive, TypeOK, NetworkTypeOK
    <3>3. QED
      BY <1>3, <3>2 DEF StillHolds
  <2>3. to = "EXPIRED" => WindowOver(closed, row[i])'
    BY <1>5, <2>1 DEF WindowOver, networkVars
  <2>4. to = "VALIDATED" => IncludedWithin(row[i], row[i].final)'
    BY <1>5, <2>1, <2>2 DEF IncludedWithin, InWindow, networkVars
  <2>5. QED
    BY <1>5, <2>1, <2>3, <2>4 DEF RowFine, UnsignedActive, SignedActive
<1>10. Grows => StepFine(p)
  BY <1>1, ConcludedFine DEF WriteOutcome
<1>11. QED
  BY <1>5, <1>8, <1>9, <1>10, ResolverTransition

\* Every step of resolveSigned preserves Inductive.
LEMMA ResolveSignedKeeps ==
    ASSUME Inductive, NEW p \in Processes, ResolveSigned(p), UNCHANGED <<networkVars, wire, crashes>>
    PROVE  Preserved
  BY LookupFoundKeeps, LookupMisreportedKeeps, LookupUnvalidatedKeeps, LookupNotFoundKeeps,
     ReadProvenAccountKeeps, WriteOutcomeKeeps DEF ResolveSigned

-------------------------------------------------------------------------------
(* POST submit.                                                            *)

\* Whatever row the step loop of submit holds, the iteration it begins relies
\* only on what that row says.
LEMMA SubmitStepKeeps ==
    ASSUME Inductive, NEW c \in Callers, NEW local \in Local, local.blob \in minted \cup {NoTx},
           local.id \in Intents, NEW n \in Nat, Goto(c, SubmitStep(local, row[local.id], n)),
           UNCHANGED <<networkVars, row, recovered, batch, wire, crashes>>
    PROVE  Preserved
<1>1. PICK i \in Intents : i = local.id
  OBVIOUS
<1>2. row[i] \in Row /\ c \in Processes /\ RowFine(i)
  BY DEF Inductive, TypeOK, Processes
<1>3. CASE \E result \in Results : Goto(c, Answered(local, result))
  <2>1. PICK result \in Results : Goto(c, Answered(local, result))
    BY <1>3
  <2>2. Answered(local, result) \in Local /\ LocalFine(proc[c])'
    BY <1>2, <2>1, AnsweredFine DEF networkVars
  <2>3. QED
    BY <2>1, <2>2, CallerReads
<1>4. CASE /\ row[i].status \in SignedActive
           /\ Goto(c, [Idle EXCEPT !.op = "submit", !.id = local.id, !.pc = "submitLedger",
                                   !.snap = row[i], !.steps = n])
  <2>1. PICK l \in Local :
            l = [Idle EXCEPT !.op = "submit", !.id = local.id, !.pc = "submitLedger",
                             !.snap = row[i], !.steps = n]
    <3>1. "submitLedger" \in Awaits /\ local.id \in Intents /\ row[i] \in Row
      BY <1>1, <1>2 DEF Awaits
    <3>2. QED
      BY <1>2, <3>1, FreshLocal
  <2>2. /\ l.pc = "submitLedger" /\ l.id = i /\ l.snap = row[i] /\ l.led = 0 /\ l.blob = NoTx
    BY <1>1, <2>1 DEF Idle
  <2>3. Goto(c, l) /\ proc'[c] = l
    BY <1>2, <1>4, <2>1 DEF Goto, Inductive, TypeOK
  <2>4. StillHolds(l.snap, l.id)'
    BY <1>2, <1>4, <2>2 DEF StillHolds, RowFine, SignedActive, networkVars
  <2>5. LocalFine(proc[c])'
    BY <1>4, <2>2, <2>3, <2>4 DEF LocalFine, Awaits, Resolving, Submitting, networkVars,
       Inductive, TypeOK, NetworkTypeOK
  <2>6. QED
    BY <2>3, <2>5, CallerReads
<1>5. QED
  BY <1>1, <1>3, <1>4 DEF SubmitStep, Results

\* submit reads the row.
LEMMA StartSubmitKeeps ==
    ASSUME Inductive, NEW c \in Callers, StartSubmit(c),
           UNCHANGED <<closed, chain, minted, recovered, batch, crashes>>
    PROVE  Preserved
<1>1. PICK i \in Intents : Goto(c, SubmitStep([Idle EXCEPT !.op = "submit", !.id = i], row[i], 0))
  BY DEF StartSubmit
<1>2. PICK local \in Local : local = [Idle EXCEPT !.op = "submit", !.id = i]
  BY IdleFine DEF Local
<1>3. local.id = i /\ local.blob = NoTx
  BY <1>2 DEF Idle
<1>4. Goto(c, SubmitStep(local, row[local.id], 0))
  BY <1>1, <1>2, <1>3
<1>5. UNCHANGED <<networkVars, row, wire>>
  BY DEF StartSubmit, networkVars
<1>6. QED
  BY <1>3, <1>4, <1>5, SubmitStepKeeps

\* submit reads the row again.
LEMMA ReloadSubmitKeeps ==
    ASSUME Inductive, NEW c \in Callers, ReloadSubmit(c),
           UNCHANGED <<closed, chain, minted, recovered, batch, crashes>>
    PROVE  Preserved
<1>1. /\ proc[c] \in Local /\ proc[c].id \in Intents /\ proc[c].steps \in Nat
      /\ proc[c].blob \in minted \cup {NoTx}
  BY AwaitingCaller DEF ReloadSubmit, At, Awaits, Processes
<1>2. UNCHANGED <<networkVars, row, wire>>
  BY DEF ReloadSubmit, networkVars
<1>3. QED
  BY <1>1, <1>2, SubmitStepKeeps DEF ReloadSubmit

\* What holds of a submit request that holds a signed row.
LEMMA SubmittingCaller ==
    ASSUME Inductive, NEW c \in Callers, proc[c].pc \in Submitting
    PROVE  /\ c \in Processes /\ proc[c] \in Local /\ proc[c].snap \in Row
           /\ proc[c].id \in Intents /\ row[proc[c].id] \in Row
           /\ proc[c].led <= closed /\ proc[c].led \in Nat /\ closed \in Nat
           /\ proc[c].blob \in minted \cup {NoTx}
           /\ proc[c].snap.status \in SignedActive
           /\ StillHolds(proc[c].snap, proc[c].id)
           /\ row[proc[c].id].status \in SignedActive \cup TerminalStatuses
           /\ proc[c].snap.blob \in minted
<1>1. c \in Processes /\ proc[c].pc \in Awaits \ {"rows"}
  BY DEF Processes, Submitting, Awaits
<1>2. LocalFine(proc[c]) /\ proc[c].snap.status \in SignedActive
  BY <1>1, AwaitingCaller DEF LocalFine
<1>3. QED
  BY <1>1, <1>2, AwaitingCaller DEF LocalFine, StillHolds, Inductive, TypeOK, NetworkTypeOK

\* The ledger decides whether submit settles, stores its baseline or sends.
LEMMA ReadSubmitLedgerKeeps ==
    ASSUME Inductive, NEW c \in Callers, ReadSubmitLedger(c),
           UNCHANGED <<closed, chain, minted, recovered, batch, crashes>>
    PROVE  Preserved
<1>1. proc[c].pc \in Submitting /\ UNCHANGED <<networkVars, row, wire>>
  BY DEF ReadSubmitLedger, At, Submitting, networkVars
<1>2. PICK i \in Intents : i = proc[c].id
  BY <1>1, SubmittingCaller
<1>3. PICK v \in Views, pc \in {"lookup", "baseline", "submit"} :
          /\ Goto(c, [proc[c] EXCEPT !.led = v, !.pc = pc])
          /\ pc = "submit" => proc[c].snap.baseline # 0
  BY DEF ReadSubmitLedger, NeedsBaseline
<1>4. v \in Nat /\ v # 0 /\ v <= closed
  BY ViewsAreClosed
<1>5. PICK l \in Local : l = [proc[c] EXCEPT !.led = v, !.pc = pc]
  <2>1. pc \in Awaits /\ proc[c] \in Local /\ proc[c].want \in
            [to : IntentStatuses, failure : FailureCodes \cup {"none"}, final : Nat]
    BY <1>1, SubmittingCaller DEF Local, Awaits
  <2>2. QED
    BY <1>4, <2>1, MovedLocal
<1>6. l.pc = pc /\ l.led = v /\ l.id = i /\ l.snap = proc[c].snap /\ l.blob = proc[c].blob
  BY <1>1, <1>2, <1>5, SubmittingCaller DEF Local
<1>7. Goto(c, l) /\ proc'[c] = l
  BY <1>1, <1>3, <1>5, SubmittingCaller DEF Goto, Inductive, TypeOK
<1>8. /\ StillHolds(l.snap, l.id)' /\ l.snap.status \in SignedActive
      /\ l.blob \in minted \cup {NoTx}
      /\ pc = "submit" => row'[l.id].baseline # 0
  BY <1>1, <1>2, <1>3, <1>6, SubmittingCaller DEF StillHolds, networkVars
<1>9. LocalFine(proc[c])'
  BY <1>4, <1>6, <1>7, <1>8 DEF LocalFine, Awaits, Resolving, Submitting, networkVars
<1>10. QED
  BY <1>1, <1>7, <1>9, CallerReads

\* After the baseline write a row that can still be sent has a baseline: this
\* request's, or the one of the request that submitted it first.
LEMMA WriteBaselineKeeps ==
    ASSUME Inductive, NEW c \in Callers, WriteBaseline(c),
           UNCHANGED <<closed, chain, minted, recovered, batch, crashes>>
    PROVE  Preserved
<1>1. /\ proc[c].pc = "baseline" /\ proc[c].pc \in Submitting /\ UNCHANGED <<networkVars, wire>>
  BY DEF WriteBaseline, At, Submitting, networkVars
<1>2. PICK i \in Intents : i = proc[c].id
  BY <1>1, SubmittingCaller
<1>3. /\ row[i] \in Row /\ proc[c] \in Local /\ proc[c].led \in Nat /\ proc[c].led # 0
      /\ c \in Processes
  BY <1>1, <1>2, SubmittingCaller DEF Inductive, LocalFine
<1>4. PICK new \in Row : new = [row[i] EXCEPT !.baseline = proc[c].led]
  BY <1>3 DEF Row
<1>5. /\ new.status = row[i].status /\ new.seq = row[i].seq /\ new.prep = row[i].prep
      /\ new.lls = row[i].lls /\ new.blob = row[i].blob /\ new.baseline # 0
  BY <1>3, <1>4 DEF Row
<1>6. UpdateInStatus(i, {"SIGNED"}, new)
  BY <1>2, <1>4 DEF WriteBaseline
<1>7. /\ row' \in [Intents -> Row]
      /\ \A j \in Intents : RowGrows(j)
      /\ OneSequenceOwner'
      /\ \A j \in Intents \ {i} : row'[j] = row[j]
      /\ \/ row'[i] = row[i] /\ row[i].status \notin {"SIGNED"}
         \/ row[i].status \in {"SIGNED"} /\ row'[i] = new
  BY <1>5, <1>6, UpdateRow DEF TerminalStatuses
<1>8. ASSUME row'[i] = new, row[i].status \in {"SIGNED"}
      PROVE  RowFine(i)'
  <2>1. row'[i].status = "SIGNED" /\ row'[i].blob \in minted' /\ row'[i].baseline # 0
    BY <1>1, <1>5, <1>8 DEF Inductive, RowFine, SignedActive, networkVars
  <2>2. QED
    BY <2>1 DEF RowFine, UnsignedActive, SignedActive
<1>9. \A j \in Intents : row'[j] # row[j] => RowFine(j)'
  BY <1>7, <1>8
<1>10. row'[i].status \in TerminalStatuses \/ row'[i].baseline # 0
  <2>1. row[i].status \in SignedActive \cup TerminalStatuses
    BY <1>1, <1>2, SubmittingCaller
  <2>2. row[i].status = "SUBMITTED" => row[i].baseline # 0
    BY DEF Inductive, RowFine
  <2>3. QED
    BY <1>5, <1>7, <2>1, <2>2 DEF SignedActive
<1>11. PICK l \in Local : l = [proc[c] EXCEPT !.pc = "submit"]
  BY <1>3 DEF Local, Awaits
<1>12. /\ l.pc = "submit" /\ l.led = proc[c].led /\ l.id = i /\ l.snap = proc[c].snap
       /\ l.blob = proc[c].blob
  BY <1>2, <1>3, <1>11 DEF Local
<1>13. Goto(c, l) /\ proc'[c] = l
  BY <1>3, <1>11 DEF WriteBaseline, Goto, Inductive, TypeOK
<1>14. /\ l.snap.status \in SignedActive /\ l.blob \in minted \cup {NoTx} /\ l.led <= closed
       /\ StillHolds(l.snap, i)
  BY <1>1, <1>2, <1>12, SubmittingCaller
<1>15. StillHolds(l.snap, i)'
  BY <1>1, <1>7, <1>14 DEF StillHolds, RowGrows, SignedActive, TerminalStatuses, networkVars
<1>16. LocalFine(proc[c])'
  BY <1>1, <1>10, <1>12, <1>13, <1>14, <1>15 DEF LocalFine, Awaits, Resolving, Submitting, networkVars
<1>17. QED
  BY <1>1, <1>7, <1>9, <1>13, <1>16, CallerStepKeeps

\* The blob is delivered for a row that carries its baseline, or is settled.
LEMMA DeliveredFine ==
    ASSUME Inductive, NEW c \in Callers, proc[c].pc = "submit", NEW answers \in Nat,
           Delivered(c, answers), UNCHANGED <<closed, chain, minted, row, recovered, batch, crashes>>,
           banned' \subseteq minted, NEW l \in Local, Goto(c, l), LocalFine(proc[c])'
    PROVE  Preserved
<1>1. PICK i \in Intents : i = proc[c].id
  BY SubmittingCaller DEF Submitting
<1>2. /\ row[i].status \in SignedActive \cup TerminalStatuses
      /\ row[i].status \in TerminalStatuses \/ row[i].baseline # 0
      /\ c \in Processes
  BY <1>1, SubmittingCaller DEF Submitting, Inductive, LocalFine
<1>3. wire \in [Intents -> Wire] /\ closed \in Nat
  BY DEF Inductive, TypeOK, NetworkTypeOK
<1>4. wire' \in [Intents -> Wire] /\ \A j \in Intents \ {i} : wire'[j] = wire[j]
  <2>1. wire[i] \in Wire
    BY <1>3
  <2>2. wire[i].first \in Nat /\ wire[i].answered + answers \in Nat
    BY <2>1 DEF Wire
  <2>3. PICK first \in Nat : first = IF wire[i].first = 0 THEN closed ELSE wire[i].first
    BY <1>3, <2>2
  <2>4. PICK total \in Nat : total = wire[i].answered + answers
    BY <2>2
  <2>5. [first |-> first, answered |-> total] \in Wire
    BY DEF Wire
  <2>6. wire' = [wire EXCEPT ![i] = [first |-> first, answered |-> total]]
    BY <1>1, <2>3, <2>4 DEF Delivered
  <2>7. QED
    BY <1>3, <2>5, <2>6
<1>5. /\ row' \in [Intents -> Row]
      /\ \A j \in Intents : RowGrows(j)
      /\ OneSequenceOwner'
      /\ Grows
  BY DEF Inductive, TypeOK, NetworkTypeOK, RowGrows, OneSequenceOwner, SignedActive, Grows
<1>6. RowFine(i)'
  <2>1. RowFine(i)
    BY DEF Inductive
  <2>2. QED
    BY <1>2, <2>1 DEF RowFine, SignedActive, UnsignedActive, TerminalStatuses, IncludedWithin,
       InWindow, WindowOver
<1>7. \A j \in Intents \ {i} : RowFine(j)'
  BY <1>4, <1>5, KeepsRow
<1>8. \A j \in Intents : RowFine(j)'
  BY <1>6, <1>7
<1>9. QED
  BY <1>2, <1>4, <1>5, <1>8, ProcessStep DEF Inductive, TypeOK

\* An answered call; tem* bans a blob some signer signed.
LEMMA SubmitAnsweredKeeps ==
    ASSUME Inductive, NEW c \in Callers, SubmitAnswered(c),
           UNCHANGED <<closed, chain, minted, recovered, batch, crashes>>
    PROVE  Preserved
<1>1. proc[c].pc = "submit" /\ proc[c].pc \in Submitting /\ Delivered(c, 1) /\ row' = row
  BY DEF SubmitAnswered, At, Submitting
<1>2. PICK i \in Intents : i = proc[c].id
  BY <1>1, SubmittingCaller
<1>3. PICK to \in {"SUBMITTED", "REJECTED"} :
          /\ banned' = IF to = "REJECTED" THEN banned \cup {proc[c].snap.blob} ELSE banned
          /\ Goto(c, [proc[c] EXCEPT !.pc = "record", !.want = Decide(to, "none", 0)])
  BY DEF SubmitAnswered
<1>4. banned' \subseteq minted
  BY <1>1, <1>3, SubmittingCaller DEF Inductive, TypeOK, NetworkTypeOK
<1>5. /\ Decide(to, "none", 0) \in [to : IntentStatuses, failure : FailureCodes \cup {"none"}, final : Nat]
      /\ Decide(to, "none", 0).to = to
  BY DEF Decide, IntentStatuses
<1>6. PICK l \in Local : l = [proc[c] EXCEPT !.pc = "record", !.want = Decide(to, "none", 0)]
  <2>1. "record" \in Awaits /\ proc[c] \in Local
    BY <1>1, SubmittingCaller DEF Awaits
  <2>2. QED
    BY <1>5, <2>1, MovedLocal
<1>7. /\ l.pc = "record" /\ l.want.to = to /\ l.led = proc[c].led /\ l.id = i
      /\ l.snap = proc[c].snap /\ l.blob = proc[c].blob
  BY <1>1, <1>2, <1>5, <1>6, SubmittingCaller DEF Local
<1>8. Goto(c, l) /\ proc'[c] = l
  BY <1>1, <1>3, <1>6, SubmittingCaller DEF Goto, Inductive, TypeOK
<1>9. /\ row'[i].status \in TerminalStatuses \/ row'[i].baseline # 0
      /\ StillHolds(l.snap, i)' /\ l.snap.status \in SignedActive
      /\ l.led <= closed /\ l.blob \in minted \cup {NoTx}
  <2>1. row[i].status \in TerminalStatuses \/ row[i].baseline # 0
    BY <1>1, <1>2, SubmittingCaller DEF Inductive, LocalFine
  <2>2. QED
    BY <1>1, <1>2, <1>7, <2>1, SubmittingCaller DEF StillHolds
<1>10. LocalFine(proc[c])'
  BY <1>7, <1>8, <1>9 DEF LocalFine, Awaits, Resolving, Submitting
<1>11. QED
  BY <1>1, <1>4, <1>8, <1>10, DeliveredFine

\* A call whose answer is lost.
LEMMA SubmitUnansweredKeeps ==
    ASSUME Inductive, NEW c \in Callers, SubmitUnanswered(c),
           UNCHANGED <<closed, chain, minted, recovered, batch, crashes>>
    PROVE  Preserved
<1>1. proc[c].pc = "submit" /\ proc[c].pc \in Submitting /\ Delivered(c, 0) /\ row' = row
  BY DEF SubmitUnanswered, At, Submitting
<1>2. Answered(proc[c], "error") \in Local /\ LocalFine(proc[c])'
  BY <1>1, SubmittingCaller, AnsweredFine DEF SubmitUnanswered, Reply, Results
<1>3. banned' \subseteq minted
  BY DEF SubmitUnanswered, Inductive, TypeOK, NetworkTypeOK
<1>4. QED
  BY <1>1, <1>2, <1>3, DeliveredFine DEF SubmitUnanswered, Reply

\* A request that goes back to the head of the loop of submit holds no row.
LEMMA AgainFine ==
    ASSUME Inductive, UNCHANGED <<closed, minted>>, NEW c \in Callers, NEW i \in Intents, NEW n \in Nat,
           Goto(c, [Idle EXCEPT !.op = "submit", !.id = i, !.pc = "reloadSubmit", !.steps = n])
    PROVE  \E l \in Local : Goto(c, l) /\ LocalFine(proc[c])'
<1>1. PICK l \in Local :
          l = [Idle EXCEPT !.op = "submit", !.id = i, !.pc = "reloadSubmit", !.steps = n]
  BY IdleFine DEF Local, Awaits
<1>2. l.pc = "reloadSubmit" /\ l.id = i /\ l.snap = NewRow /\ l.led = 0 /\ l.blob = NoTx
  BY <1>1 DEF Idle
<1>3. Goto(c, l) /\ proc'[c] = l
  BY <1>1 DEF Goto, Inductive, TypeOK, Processes
<1>4. StillHolds(l.snap, l.id)'
  BY <1>2 DEF StillHolds, NewRow, SignedActive
<1>5. LocalFine(proc[c])'
  BY <1>2, <1>3, <1>4 DEF LocalFine, Awaits, Resolving, Submitting, Inductive, TypeOK, NetworkTypeOK
<1>6. QED
  BY <1>3, <1>5

\* However the result of a call is recorded, the request answers or starts over.
LEMMA RecordedFine ==
    ASSUME Inductive, UNCHANGED <<closed, minted>>, NEW c \in Callers, At(c, "record"),
           RecordSubmit(c)
    PROVE  \E l \in Local : Goto(c, l) /\ LocalFine(proc[c])'
<1>1. proc[c].pc \in Submitting
  BY DEF At, Submitting
<1>2. PICK i \in Intents : i = proc[c].id
  BY <1>1, SubmittingCaller
<1>3. proc[c] \in Local /\ c \in Processes /\ proc[c].blob \in minted \cup {NoTx}
  BY <1>1, SubmittingCaller
<1>4. proc[c].steps + 1 \in Nat
  BY <1>3 DEF Local
<1>5. \/ \E result \in Results : Goto(c, Answered(proc[c], result))
      \/ Goto(c, [Idle EXCEPT !.op = "submit", !.id = i, !.pc = "reloadSubmit",
                              !.steps = proc[c].steps + 1])
  BY <1>2 DEF RecordSubmit, AfterTransition, Results
<1>6. QED
  BY <1>2, <1>3, <1>4, <1>5, AnsweredFine, AgainFine

\* The attempt is counted in a row that can still be sent, or not at all.
LEMMA RecordSubmitKeeps ==
    ASSUME Inductive, NEW c \in Callers, RecordSubmit(c),
           UNCHANGED <<closed, chain, minted, recovered, batch, crashes>>
    PROVE  Preserved
<1>1. /\ At(c, "record") /\ proc[c].pc = "record" /\ proc[c].pc \in Submitting
      /\ UNCHANGED <<networkVars, wire>>
  BY DEF RecordSubmit, At, Submitting, networkVars
<1>2. PICK i \in Intents : i = proc[c].id
  BY <1>1, SubmittingCaller
<1>3. row[i] \in Row /\ row[i].attempts + 1 \in Nat
  BY DEF Inductive, TypeOK, Row
<1>4. PICK new \in Row : new = [row[i] EXCEPT !.attempts = row[i].attempts + 1]
  BY <1>3 DEF Row
<1>5. /\ new.status = row[i].status /\ new.seq = row[i].seq /\ new.prep = row[i].prep
      /\ new.lls = row[i].lls /\ new.blob = row[i].blob /\ new.baseline = row[i].baseline
  BY <1>3, <1>4 DEF Row
<1>6. PICK to \in {"SUBMITTED", "REJECTED"} : to = proc[c].want.to
  BY <1>1 DEF Inductive, LocalFine, Processes
<1>7. row[i].status \in TerminalStatuses \/ row[i].baseline # 0
  BY <1>1, <1>2 DEF Inductive, LocalFine, Processes
<1>8. PICK l \in Local : Goto(c, l) /\ LocalFine(proc[c])'
  BY <1>1, RecordedFine
<1>9. CASE proc[c].snap.status = "SIGNED"
  <2>1. Transition(i, {"SIGNED"}, to, new) /\ to \in IntentStatuses
    BY <1>2, <1>4, <1>6, <1>9 DEF RecordSubmit, IntentStatuses
  <2>2. KeepsColumns(i, new)
    BY <1>5 DEF KeepsColumns
  <2>3. ASSUME row[i].status \in {"SIGNED"}, row'[i] = [new EXCEPT !.status = to]
        PROVE  RowFine(i)'
    <3>1. row'[i].status = to /\ row'[i].blob = row[i].blob /\ row'[i].baseline = row[i].baseline
      BY <1>5, <2>3 DEF Row
    <3>2. row'[i].blob \in minted' /\ row'[i].baseline # 0
      BY <1>7, <2>3, <3>1 DEF Inductive, RowFine, SignedActive, TerminalStatuses
    <3>3. QED
      BY <3>1, <3>2 DEF RowFine, UnsignedActive, SignedActive
  <2>4. QED
    BY <1>1, <1>8, <2>1, <2>2, <2>3, CallerTransition
<1>10. CASE proc[c].snap.status # "SIGNED"
  <2>1. UpdateInStatus(i, {"SUBMITTED"}, new)
    BY <1>2, <1>4, <1>10 DEF RecordSubmit
  <2>2. /\ row' \in [Intents -> Row]
        /\ \A j \in Intents : RowGrows(j)
        /\ OneSequenceOwner'
        /\ \A j \in Intents \ {i} : row'[j] = row[j]
        /\ \/ row'[i] = row[i]
           \/ row[i].status \in {"SUBMITTED"} /\ row'[i] = new
    BY <1>5, <2>1, UpdateRow DEF TerminalStatuses
  <2>3. ASSUME row[i].status \in {"SUBMITTED"}, row'[i] = new
        PROVE  RowFine(i)'
    <3>1. row'[i].status = "SUBMITTED" /\ row'[i].blob \in minted' /\ row'[i].baseline # 0
      BY <1>5, <2>3 DEF Inductive, RowFine, SignedActive
    <3>2. QED
      BY <3>1 DEF RowFine, UnsignedActive, SignedActive
  <2>4. \A j \in Intents : row'[j] # row[j] => RowFine(j)'
    BY <2>2, <2>3
  <2>5. QED
    BY <1>1, <1>8, <2>2, <2>4, CallerStepKeeps
<1>11. QED
  BY <1>9, <1>10

\* Every step of POST submit preserves Inductive.
LEMMA SubmitKeeps ==
    ASSUME Inductive, NEW c \in Callers, Submit(c),
           UNCHANGED <<closed, chain, minted, recovered, batch, crashes>>
    PROVE  Preserved
  BY StartSubmitKeeps, ReloadSubmitKeeps, ReadSubmitLedgerKeeps, WriteBaselineKeeps,
     SubmitAnsweredKeeps, SubmitUnansweredKeeps, RecordSubmitKeeps DEF Submit
-------------------------------------------------------------------------------
(* The system.                                                             *)

\* Freshly created intents, idle requests and an empty ledger.
LEMMA InitFine == Init => Inductive
<1> SUFFICES ASSUME Init PROVE Inductive
  OBVIOUS
<1>1. NetworkTypeOK /\ IsFiniteSet(chain)
  BY NetworkAssumption, FS_EmptySet DEF Init, NetworkInit, NetworkTypeOK
<1>2. row \in [Intents -> Row] /\ \A i \in Intents : row[i] = NewRow
  BY IdleFine DEF Init, StoreInit
<1>3. proc \in [Processes -> Local] /\ \A p \in Processes : proc[p] = Idle
  BY IdleFine DEF Init
<1>4. wire \in [Intents -> Wire] /\ \A i \in Intents : wire[i].first = 0
  BY DEF Init, Wire
<1>5. recovered \in BOOLEAN /\ batch = {} /\ crashes \in 0..MaxCrashes
  <2>1. recovered \in BOOLEAN
    BY DEF Init
  <2>2. QED
    BY <2>1, OrchestratorAssumption DEF Init
<1>6. \A i \in Intents : RowFine(i)
  BY <1>2, <1>4 DEF RowFine, NewRow, SignedActive
<1>7. \A p \in Processes : LocalFine(proc[p])
  BY <1>1, <1>3, StoreAssumption DEF LocalFine, Idle, NetworkTypeOK, Awaits, Resolving, Submitting
<1>8. OneSequenceOwner
  BY <1>2 DEF OneSequenceOwner, NewRow, SequenceActive, UnsignedActive, SignedActive
<1>9. QED
  BY <1>1, <1>2, <1>3, <1>4, <1>5, <1>6, <1>7, <1>8 DEF Inductive, TypeOK

-------------------------------------------------------------------------------
(* The steps that are not a request's.                                     *)

\* A closing ledger: it is finite because it holds one transaction per account
\* at most.
LEMMA CloseLedgerFine ==
    ASSUME Inductive, CloseLedger
    PROVE  /\ NetworkTypeOK' /\ IsFiniteSet(chain')
           /\ closed' \in Nat /\ closed <= closed'
           /\ chain \subseteq chain' /\ minted' = minted
<1>1. closed \in Nat /\ closed + 1 \in 1..MaxLedger /\ closed' = closed + 1
  BY NetworkAssumption DEF Inductive, TypeOK, NetworkTypeOK, CloseLedger
<1>2. PICK S \in SUBSET Candidates(closed + 1) :
          /\ \A e, f \in S : e.acct = f.acct => e = f
          /\ chain' = chain \cup S
  BY DEF CloseLedger
<1>3. Candidates(closed + 1) \subseteq Entry
  <2>1. minted \subseteq Tx /\ closed + 1 \in Nat
    BY <1>1 DEF Inductive, TypeOK, NetworkTypeOK
  <2>2. ASSUME NEW t \in Tx
        PROVE  [acct |-> t.acct, at |-> closed + 1, tx |-> t, deletes |-> FALSE] \in Entry
    BY <2>1 DEF Tx, Entry
  <2>3. ASSUME NEW a \in Accounts, NEW d \in BOOLEAN
        PROVE  [acct |-> a, at |-> closed + 1, tx |-> NoTx, deletes |-> d] \in Entry
    BY <2>1 DEF Entry
  <2>4. QED
    BY <2>1, <2>2, <2>3 DEF Candidates
<1>4. IsFiniteSet(S)
  <2>1. \A e \in S : e.acct \in Accounts
    BY <1>3 DEF Entry
  <2>2. [e \in S |-> e.acct] \in Injection(S, Accounts)
    BY <1>2, <2>1 DEF Injection, IsInjective
  <2>3. QED
    BY <2>2, FS_Injection, NetworkAssumption
<1>5. IsFiniteSet(chain') /\ chain' \subseteq Entry
  BY <1>2, <1>3, <1>4, FS_Union DEF Inductive, TypeOK, NetworkTypeOK
<1>6. QED
  BY <1>1, <1>2, <1>5 DEF CloseLedger, Inductive, TypeOK, NetworkTypeOK

\* A step that changes neither a row nor a request, of the network or of a
\* signer, only adds to what requests know.
LEMMA OutsideKeeps ==
    ASSUME Inductive, NetworkTypeOK', IsFiniteSet(chain'), closed' \in Nat, closed <= closed',
           chain \subseteq chain', minted \subseteq minted',
           UNCHANGED <<row, proc, recovered, batch, wire, crashes>>
    PROVE  Preserved
<1>1. \A i \in Intents : RowGrows(i)
  BY DEF RowGrows, SignedActive
<1>2. Grows
  BY <1>1 DEF Grows, Inductive, TypeOK
<1>3. \A i \in Intents : RowFine(i)'
  BY <1>2, KeepsRow
<1>4. \A p \in Processes : LocalFine(proc[p])'
  BY <1>2, KeepsProcess
<1>5. \A e \in batch : PendingFine(e)'
  BY <1>2, KeepsPending DEF Inductive, TypeOK
<1>6. OneSequenceOwner' /\ batch' = batch
  BY DEF Inductive, OneSequenceOwner
<1>7. TypeOK'
  BY DEF Inductive, TypeOK
<1>8. QED
  BY <1>1, <1>3, <1>4, <1>5, <1>6, <1>7 DEF Preserved, Inductive

\* A validated ledger closes.
LEMMA NetworkStepKeeps == ASSUME Inductive, NetworkStep PROVE Preserved
  BY CloseLedgerFine, OutsideKeeps DEF NetworkStep

\* A signer signs a prepared transaction.
LEMMA SignerStepKeeps == ASSUME Inductive, SignerStep PROVE Preserved
<1>1. PICK i \in Intents, k \in Keys :
          minted' = minted \cup {[acct |-> AccountOf[i], pay |-> PayloadOf[i],
                                  seq |-> row[i].seq, lls |-> row[i].lls, key |-> k]}
  BY DEF SignerStep, Sign
<1>2. row[i].seq \in Nat /\ row[i].lls \in Nat
  BY DEF Inductive, TypeOK, Row
<1>3. [acct |-> AccountOf[i], pay |-> PayloadOf[i],
       seq |-> row[i].seq, lls |-> row[i].lls, key |-> k] \in Tx
  BY <1>2, StoreAssumption DEF Tx
<1>4. minted' \subseteq Tx /\ minted \subseteq minted'
  BY <1>1, <1>3 DEF Inductive, TypeOK, NetworkTypeOK
<1>5. UNCHANGED <<closed, chain, banned, row, proc, recovered, batch, wire, crashes>>
  BY DEF SignerStep, Sign
<1>6. /\ NetworkTypeOK' /\ IsFiniteSet(chain') /\ closed' \in Nat /\ closed <= closed'
      /\ chain \subseteq chain'
  BY <1>4, <1>5 DEF Inductive, TypeOK, NetworkTypeOK
<1>7. QED
  BY <1>4, <1>5, <1>6, OutsideKeeps

\* An idle request or cycle relies on nothing.
LEMMA IdleRelies ==
    ASSUME Inductive, closed' = closed, NEW p \in Processes, proc'[p] = Idle
    PROVE  LocalFine(proc[p])'
  BY StoreAssumption DEF LocalFine, Idle, Inductive, TypeOK, NetworkTypeOK, Awaits, Resolving, Submitting

\* A restart forgets the requests and the cycle and nothing else.
LEMMA CrashKeeps == ASSUME Inductive, Crash PROVE Preserved
<1>1. UNCHANGED <<closed, chain, minted, banned, row, wire>>
  BY DEF Crash, networkVars
<1>2. \A i \in Intents : RowGrows(i)
  BY <1>1 DEF RowGrows, SignedActive
<1>3. Grows
  BY <1>1, <1>2 DEF Grows, Inductive, TypeOK, NetworkTypeOK
<1>4. \A i \in Intents : RowFine(i)'
  BY <1>1, <1>3, KeepsRow
<1>5. /\ proc' \in [Processes -> Local] /\ \A p \in Processes : proc'[p] = Idle
      /\ batch' = {} /\ recovered' \in BOOLEAN
  BY IdleFine DEF Crash
<1>6. \A p \in Processes : LocalFine(proc[p])'
  BY <1>1, <1>5, IdleRelies
<1>7. crashes' \in 0..MaxCrashes
  BY OrchestratorAssumption DEF Crash, Inductive, TypeOK
<1>8. OneSequenceOwner'
  BY <1>1 DEF Inductive, OneSequenceOwner
<1>9. TypeOK' /\ IsFiniteSet(chain')
  BY <1>1, <1>5, <1>7 DEF Inductive, TypeOK, NetworkTypeOK
<1>10. QED
  BY <1>2, <1>4, <1>5, <1>6, <1>8, <1>9 DEF Preserved, Inductive

\* A call that throws ends the request or the cycle that made it.
LEMMA FailStepKeeps ==
    ASSUME Inductive, NEW p \in Processes, FailStep(p)
    PROVE  Preserved
<1>1. UNCHANGED <<closed, chain, minted, banned, row, recovered, wire, crashes>>
  BY DEF FailStep, Fails, networkVars
<1>2. Goto(p, Idle) /\ proc'[p] = Idle
  BY DEF FailStep, Fails, Answered, Goto, Inductive, TypeOK
<1>3. \A i \in Intents : RowGrows(i)
  BY <1>1 DEF RowGrows, SignedActive
<1>4. Grows
  BY <1>1, <1>3 DEF Grows, Inductive, TypeOK, NetworkTypeOK
<1>5. \A i \in Intents : RowFine(i)'
  BY <1>1, <1>4, KeepsRow
<1>6. LocalFine(proc[p])'
  BY <1>1, <1>2, IdleRelies
<1>7. batch' \subseteq batch
  BY DEF FailStep, Fails
<1>8. /\ OneSequenceOwner' /\ banned' \subseteq minted /\ recovered' \in BOOLEAN
      /\ wire' \in [Intents -> Wire] /\ batch' \subseteq Snapshot /\ row' \in [Intents -> Row]
  BY <1>1, <1>7 DEF Inductive, TypeOK, NetworkTypeOK, OneSequenceOwner
<1>9. Idle \in Local
  BY IdleFine
<1>10. QED
  BY <1>1, <1>2, <1>3, <1>5, <1>6, <1>7, <1>8, <1>9, ProcessStep

-------------------------------------------------------------------------------
(* The theorems.                                                           *)

\* Every step of the service, of the network and of the signers keeps the
\* inductive invariant, and what the rows already say.
LEMMA NextKeeps == ASSUME Inductive, Next PROVE Preserved
<1>1. CASE \E c \in Callers : CallerStep(c)
  BY <1>1, PrepareKeeps, AttachKeeps, SubmitKeeps DEF CallerStep
<1>2. CASE CycleStep
  BY <1>2, CycleKeeps DEF CycleStep
<1>3. CASE \E p \in Processes : ResolveStep(p)
  BY <1>3, ResolveSignedKeeps DEF ResolveStep
<1>4. QED
  BY <1>1, <1>2, <1>3, NetworkStepKeeps, SignerStepKeeps, CrashKeeps, FailStepKeeps DEF Next

\* The inductive invariant holds in every reachable state.
THEOREM Invariance == Spec => []Inductive
<1>1. Inductive /\ [Next]_vars => Inductive'
  <2> SUFFICES ASSUME Inductive, [Next]_vars PROVE Inductive'
    OBVIOUS
  <2>1. CASE Next
    BY <2>1, NextKeeps DEF Preserved
  <2>2. CASE UNCHANGED vars
    BY <2>2 DEF vars, networkVars, Inductive, TypeOK, NetworkTypeOK, RowFine, LocalFine, PendingFine,
       StillHolds, IncludedWithin, WindowOver, InWindow, OneSequenceOwner
  <2>3. QED
    BY <2>1, <2>2
<1>2. QED
  BY <1>1, InitFine, PTL DEF Spec

\* The state stays in its type: no column, local variable or pending row leaves
\* its domain, and the cycle never spends more than its one endpoint switch.
THEOREM TypeCorrect == Spec => []TypeOK
<1>1. Inductive => TypeOK
  BY DEF Inductive
<1>2. QED
  BY <1>1, Invariance, PTL

\* The partial unique index and the one transition() that enters the active
\* statuses leave an account with one owner of its Sequence at most.
THEOREM OwnersAreUnique == Spec => []OneSequenceOwner
<1>1. Inductive => OneSequenceOwner
  BY DEF Inductive
<1>2. QED
  BY <1>1, Invariance, PTL

\* EXPIRED is only written once the window is over, by whichever of prepare,
\* attach, submit and the cycle, from however stale a row.
THEOREM ExpiryIsSafe == Spec => []ExpiredIsPast
<1>1. Inductive => ExpiredIsPast
  <2> SUFFICES ASSUME Inductive, NEW i \in Intents, row[i].status = "EXPIRED"
               PROVE  closed > row[i].lls
    BY DEF ExpiredIsPast
  <2>1. WindowOver(closed, row[i])
    BY DEF Inductive, RowFine
  <2>2. QED
    BY <2>1 DEF WindowOver
<1>2. QED
  BY <1>1, Invariance, PTL

\* VALIDATED names a validated ledger of the window that includes the blob.
THEOREM ValidationIsTrue == Spec => []ValidatedIsTrue
<1>1. Inductive => ValidatedIsTrue
  <2> SUFFICES ASSUME Inductive, NEW i \in Intents, row[i].status = "VALIDATED"
               PROVE  /\ \E e \in chain : e.tx = row[i].blob /\ e.at = row[i].final
                      /\ row[i].prep < row[i].final
                      /\ row[i].final <= row[i].lls
    BY DEF ValidatedIsTrue
  <2>1. IncludedWithin(row[i], row[i].final)
    BY DEF Inductive, RowFine
  <2>2. QED
    BY <2>1 DEF IncludedWithin, InWindow
<1>2. QED
  BY <1>1, Invariance, PTL

\* An intent whose blob may have been sent has its baseline in the row, across
\* crashes and concurrent submits.
THEOREM BaselineIsStored == Spec => []BaselineBeforeCall
<1>1. Inductive => BaselineBeforeCall
  BY DEF Inductive, RowFine, BaselineBeforeCall
<1>2. QED
  BY <1>1, Invariance, PTL

\* No service ever asks transition() for a change the state machine forbids.
THEOREM TransitionsAreLegal == Spec => []NoIllegalTransition
<1>1. Inductive => NoIllegalTransition
  <2> SUFFICES ASSUME Inductive, NEW p \in Processes, NEW t \in PendingTransitions(p),
                      row[proc[p].id].status \in t[1]
               PROVE  CanTransition(row[proc[p].id].status, t[2])
    BY DEF NoIllegalTransition
  <2> DEFINE now == row[proc[p].id].status
  <2>1. LocalFine(proc[p])
    BY DEF Inductive
  <2>2. /\ proc[p].pc = "sign" => proc[p].want.to \in {"SIGNED", "EXPIRED", "FAILED"}
        /\ proc[p].pc = "record" => proc[p].want.to \in {"SUBMITTED", "REJECTED"}
        /\ proc[p].pc = "outcome" => proc[p].want.to \in {"VALIDATED", "EXPIRED", "FAILED"}
    BY <2>1 DEF LocalFine
  <2>3. \/ t = <<{"CREATED"}, "PREPARED">>
        \/ t[1] = {"PREPARED"} /\ t[2] \in {"EXPIRED", "FAILED", "SIMULATED"}
        \/ t[1] = {"SIMULATED"} /\ t[2] \in {"AWAITING_SIGNATURE", "REJECTED"}
        \/ t[1] = {"AWAITING_SIGNATURE"} /\ t[2] \in {"SIGNED", "EXPIRED", "FAILED"}
        \/ t[1] = {"SIGNED"} /\ t[2] \in {"SUBMITTED", "REJECTED"}
        \/ t[1] = UnsignedActive /\ t[2] = "EXPIRED"
        \/ t[1] = SignedActive /\ t[2] \in {"VALIDATED", "EXPIRED", "FAILED"}
    BY <2>2 DEF PendingTransitions
  <2>4. QED
    BY <2>3 DEF CanTransition, Transitions, IntentStatuses, UnsignedActive, SignedActive
<1>2. QED
  BY <1>1, Invariance, PTL

\* A prepared artifact, an accepted signature and an outcome are written once,
\* whichever stale request writes next.
THEOREM ArtifactsAreStable == Spec => ArtifactStable
<1>1. Inductive /\ [Next]_vars => [ArtifactStep]_vars
  <2> SUFFICES ASSUME Inductive, Next PROVE ArtifactStep
    OBVIOUS
  <2> SUFFICES ASSUME NEW i \in Intents
               PROVE  /\ row[i].seq # 0 =>
                             /\ row'[i].seq = row[i].seq
                             /\ row'[i].prep = row[i].prep
                             /\ row'[i].lls = row[i].lls
                      /\ row[i].blob # NoTx => row'[i].blob = row[i].blob
                      /\ row[i].status \in TerminalStatuses => row'[i] = row[i]
    BY DEF ArtifactStep
  <2>1. RowGrows(i)
    BY NextKeeps DEF Preserved
  <2>2. row[i].seq # 0 => row[i].status # "CREATED"
    BY DEF Inductive, RowFine
  <2>3. QED
    BY <2>1, <2>2 DEF RowGrows
<1>2. QED
  BY <1>1, Invariance, PTL DEF Spec, ArtifactStable
==============================================================================
