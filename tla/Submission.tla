------------------------------ MODULE Submission ------------------------------
(***************************************************************************)
(* POST /intents/:id/submit: src/submission/submission.service.ts.         *)
(***************************************************************************)
EXTENDS Finality

CONSTANT MaxSends      \* bound: answered submit calls per intent

ASSUME SubmissionAssumption == MaxSends \in Nat

\* History: the validated ledger when the first submit call for the intent
\* reached a server, 0 before that, and the number of calls a server answered.
VARIABLE wire

Wire == [first : Nat, answered : Nat]

\* Mutant: one iteration less.
MaxSubmitStepsShort == 2

MaxSubmitSteps == 3

\* Mutant: the baseline is only stored once a call was answered.
NeedsBaselineLate(r) == r.baseline = 0 /\ r.attempts > 0

NeedsBaseline(r) == r.baseline = 0

\* The loop body up to its first await, n iterations in, holding row r.  Past
\* the last iteration the code returns whatever row it holds.
SubmitStep(local, r, n) ==
    IF n = MaxSubmitSteps THEN Answered(local, "unsettled")
    ELSE CASE r.status = "VALIDATED" -> Answered(local, "ok")
           [] r.status \in SignedActive /\ AssertRecovered ->
                  [Idle EXCEPT !.op = "submit", !.id = local.id, !.pc = "submitLedger",
                               !.snap = r, !.steps = n]
           [] OTHER -> Answered(local, "error")

StartSubmit(c) ==
    /\ Free(c)
    /\ \E i \in Intents :
          Goto(c, SubmitStep([Idle EXCEPT !.op = "submit", !.id = i], row[i], 0))
    /\ UNCHANGED <<row, banned, wire>>

ReloadSubmit(c) ==
    /\ At(c, "reloadSubmit")
    /\ Goto(c, SubmitStep(proc[c], row[proc[c].id], proc[c].steps))
    /\ UNCHANGED <<row, banned, wire>>

\* Past the window the outcome is settled instead (resolveSigned).
ReadSubmitLedger(c) ==
    /\ At(c, "submitLedger")
    /\ \E v \in Views :
          Goto(c, [proc[c] EXCEPT !.led = v,
                                  !.pc = IF WindowOver(v, proc[c].snap) THEN "lookup"
                                         ELSE IF NeedsBaseline(proc[c].snap) THEN "baseline"
                                         ELSE "submit"])
    /\ UNCHANGED <<row, banned, wire>>

\* Recorded before the first call, so that a crash right after the call still
\* leaves a recoverable baseline.
WriteBaseline(c) ==
    /\ At(c, "baseline")
    /\ LET i == proc[c].id
       IN  UpdateInStatus(i, {"SIGNED"}, [row[i] EXCEPT !.baseline = proc[c].led])
    /\ Goto(c, [proc[c] EXCEPT !.pc = "submit"])
    /\ UNCHANGED <<banned, wire>>

\* The blob reaches a server, for the intent the request works on.
Delivered(c, answers) ==
    LET w == wire[proc[c].id]
    IN  wire' = [wire EXCEPT ![proc[c].id] =
                    [first    |-> IF w.first = 0 THEN closed ELSE w.first,
                     answered |-> w.answered + answers]]

\* The submit call is answered: tem* says no ledger can ever include the
\* transaction, every other result is provisional.
SubmitAnswered(c) ==
    /\ At(c, "submit")
    /\ wire[proc[c].id].answered < MaxSends
    /\ Delivered(c, 1)
    /\ LET t == proc[c].snap.blob
       IN  \E to \in {"SUBMITTED", "REJECTED"} :
              /\ to = "REJECTED" => ~Included(t)
              /\ banned' = IF to = "REJECTED" THEN banned \cup {t} ELSE banned
              /\ Goto(c, [proc[c] EXCEPT !.pc = "record", !.want = Decide(to, "none", 0)])
    /\ UNCHANGED row

\* Mutant: a call that failed is counted like one that was answered.
SubmitUnansweredCounted(c) ==
    /\ At(c, "submit")
    /\ Delivered(c, 0)
    /\ Goto(c, [proc[c] EXCEPT !.pc = "record", !.want = Decide("SUBMITTED", "none", 0)])
    /\ UNCHANGED <<row, banned>>

\* The call fails with the blob delivered; Fails covers a blob that never left.
SubmitUnanswered(c) ==
    /\ At(c, "submit")
    /\ Delivered(c, 0)
    /\ Reply(c, "error")
    /\ UNCHANGED <<row, banned>>

\* The attempt is counted with the status change, or alone for a resubmission.
RecordSubmit(c) ==
    /\ At(c, "record")
    /\ LET i       == proc[c].id
           counted == [row[i] EXCEPT !.attempts = row[i].attempts + 1]
           again   == [Idle EXCEPT !.op = "submit", !.id = i, !.pc = "reloadSubmit",
                                   !.steps = proc[c].steps + 1]
           done    == Answered(proc[c], "ok")
           to      == proc[c].want.to
       IN  IF proc[c].snap.status = "SIGNED"
           THEN /\ Transition(i, {"SIGNED"}, to, counted)
                /\ AfterTransition(c, TransitionResult(i, {"SIGNED"}, to, counted), done, again)
           ELSE /\ UpdateInStatus(i, {"SUBMITTED"}, counted)
                /\ Goto(c, IF row[i].status = "SUBMITTED" THEN done ELSE again)
    /\ UNCHANGED <<banned, wire>>

Submit(c) ==
    \/ StartSubmit(c) \/ ReloadSubmit(c) \/ ReadSubmitLedger(c) \/ WriteBaseline(c)
    \/ SubmitAnswered(c) \/ SubmitUnanswered(c) \/ RecordSubmit(c)
==============================================================================
