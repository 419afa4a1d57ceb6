----------------------------- MODULE Preparation -----------------------------
(***************************************************************************)
(* POST /intents/:id/prepare: src/preparation/preparation.service.ts.      *)
(* The request advances the intent one status per iteration of a bounded   *)
(* loop and re-reads the row whenever a concurrent change won.             *)
(***************************************************************************)
EXTENDS Requests

CONSTANT LastLedgerOffset      \* LAST_LEDGER_OFFSET of src/common/constants.ts

ASSUME PreparationAssumption == LastLedgerOffset \in Nat \ {0}

MaxPrepareSteps == 8

LastLedgerSequenceFor(preparedLedgerIndex) == preparedLedgerIndex + LastLedgerOffset

\* The loop body up to its first await, n iterations in, holding row r.
PrepareStep(local, r, n) ==
    LET await(pc) == [Idle EXCEPT !.op = "prepare", !.id = local.id, !.pc = pc,
                                  !.snap = r, !.steps = n]
        ifRecovered(pc) == IF AssertRecovered THEN await(pc) ELSE Answered(local, "error")
    IN  IF n = MaxPrepareSteps THEN Answered(local, "unsettled")
        ELSE CASE r.status = "CREATED"              -> ifRecovered("account")
               [] r.status = "PREPARED"             -> ifRecovered("simLedger")
               [] r.status = "SIMULATED"            -> await("complete")
               [] r.status = "EXPIRED"              -> Answered(local, "expired")
               [] r.status \in {"REJECTED", "FAILED"} -> Answered(local, "error")
               [] OTHER                             -> Answered(local, "ok")

\* A step that lost a race returns undefined: the next iteration loads the row.
Reread(local) == [Idle EXCEPT !.op = "prepare", !.id = local.id, !.pc = "reload",
                              !.steps = local.steps + 1]

StartPrepare(c) ==
    /\ Free(c)
    /\ \E i \in Intents :
          LET local == [Idle EXCEPT !.op = "prepare", !.id = i]
          IN  Goto(c, PrepareStep(local, row[i], 0))
    /\ UNCHANGED row

ReloadPrepare(c) ==
    /\ At(c, "reload")
    /\ Goto(c, PrepareStep(proc[c], row[proc[c].id], proc[c].steps))
    /\ UNCHANGED row

\* CREATED: the validated account gives the Sequence ...
ReadValidatedAccount(c) ==
    /\ At(c, "account")
    /\ LET a == AccountOf[proc[c].id]
       IN  \E v \in Views :
              IF ExistsAt(a, v)
              THEN Goto(c, [proc[c] EXCEPT !.pc = "current", !.seq = SeqAt(a, v)])
              ELSE Reply(c, "error")
    /\ UNCHANGED row

\* ... the open ledger, which may already hold the account's next transaction,
\* must show the same Sequence and an empty queue ...
ReadCurrentAccount(c) ==
    /\ At(c, "current")
    /\ \/ /\ \E v \in Views : SeqAt(AccountOf[proc[c].id], v) \in {proc[c].seq, proc[c].seq - 1}
          /\ Goto(c, [proc[c] EXCEPT !.pc = "ledger"])
       \/ Reply(c, "error")
    /\ UNCHANGED row

\* ... and the validated ledger, read after both, starts the window.
ReadPreparedLedger(c) ==
    /\ At(c, "ledger")
    /\ \E v \in Views : Goto(c, [proc[c] EXCEPT !.pc = "prepare", !.led = v])
    /\ UNCHANGED row

WritePrepared(c) ==
    /\ At(c, "prepare")
    /\ LET i   == proc[c].id
           new == [row[i] EXCEPT !.seq = proc[c].seq, !.prep = proc[c].led,
                                 !.lls = LastLedgerSequenceFor(proc[c].led)]
       IN  /\ Transition(i, {"CREATED"}, "PREPARED", new)
           /\ AfterTransition(c, TransitionResult(i, {"CREATED"}, "PREPARED", new),
                  PrepareStep(proc[c], Updated(new, "PREPARED"), proc[c].steps + 1),
                  Reread(proc[c]))

\* PREPARED: past the window the intent expires, and the caller is told so
\* whether or not this write was the one that settled it.
ReadSimulationLedger(c) ==
    /\ At(c, "simLedger")
    /\ \E v \in Views :
          Goto(c, [proc[c] EXCEPT !.pc = IF WindowOver(v, proc[c].snap) THEN "expire" ELSE "simulate"])
    /\ UNCHANGED row

ExpirePrepared(c) ==
    /\ At(c, "expire")
    /\ Transition(proc[c].id, {"PREPARED"}, "EXPIRED", row[proc[c].id])
    /\ Reply(c, "expired")

\* What the simulation reports depends on nothing modelled here, so the call
\* and the write that follows it are one step.
FailMismatch(c) ==
    /\ At(c, "simulate")
    /\ LET i == proc[c].id
       IN  Transition(i, {"PREPARED"}, "FAILED",
                      [row[i] EXCEPT !.failure = "SIMULATION_ARTIFACT_MISMATCH"])
    /\ Reply(c, "failed")

WriteSimulated(c) ==
    /\ At(c, "simulate")
    /\ \E engineResult \in {"tesSUCCESS", "other"} :
          LET i   == proc[c].id
              new == [row[i] EXCEPT !.sim = engineResult]
          IN  /\ Transition(i, {"PREPARED"}, "SIMULATED", new)
              /\ AfterTransition(c, TransitionResult(i, {"PREPARED"}, "SIMULATED", new),
                     PrepareStep(proc[c], Updated(new, "SIMULATED"), proc[c].steps + 1),
                     Reread(proc[c]))

\* SIMULATED: the stored result decides.  This step is not held back by
\* assertRecovered.
CompleteSimulation(c) ==
    /\ At(c, "complete")
    /\ LET i  == proc[c].id
           to == IF proc[c].snap.sim = "tesSUCCESS" THEN "AWAITING_SIGNATURE" ELSE "REJECTED"
       IN  /\ Transition(i, {"SIMULATED"}, to, row[i])
           /\ AfterTransition(c, TransitionResult(i, {"SIMULATED"}, to, row[i]),
                  IF to = "REJECTED" THEN Answered(proc[c], "error")
                  ELSE PrepareStep(proc[c], Updated(row[i], to), proc[c].steps + 1),
                  Reread(proc[c]))

Prepare(c) ==
    \/ StartPrepare(c) \/ ReloadPrepare(c)
    \/ ReadValidatedAccount(c) \/ ReadCurrentAccount(c) \/ ReadPreparedLedger(c)
    \/ WritePrepared(c)
    \/ ReadSimulationLedger(c) \/ ExpirePrepared(c) \/ FailMismatch(c) \/ WriteSimulated(c)
    \/ CompleteSimulation(c)
==============================================================================
