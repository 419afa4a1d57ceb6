------------------------------ MODULE Requests ------------------------------
(***************************************************************************)
(* The requests in flight in one process of the service, and the finality  *)
(* worker.  Node runs each of them without interruption from one await to  *)
(* the next, so a step of a request is: the answer of the awaited call,    *)
(* the code up to the next await, and nothing of another request.          *)
(***************************************************************************)
EXTENDS IntentStore

CONSTANTS
    Callers,     \* concurrent HTTP requests
    Worker       \* the finality cycle, single-flight

ASSUME ProcessAssumption == Worker \notin Callers

VARIABLES
    proc,        \* the local variables of each request and of the cycle
    recovered    \* FinalityService.recovered

Processes == Callers \cup {Worker}

\* The call each await of the services waits for.
Awaits == {"account", "current", "ledger", "prepare", "simLedger", "expire", "simulate",
           "complete", "reload", "signAccount", "sign", "reloadSigned", "submitLedger",
           "baseline", "submit", "record", "reloadSubmit", "lookup", "searchAgain",
           "provenAccount", "outcome", "rows", "expireRow"}

\* The answers the properties tell apart: a row, INTENT_EXPIRED, "the intent
\* failed with ...", any other error, and the step loop of prepare running out.
Results == {"none", "ok", "expired", "failed", "error", "unsettled"}

\* What a request has decided to write with its next transition.
NoDecision == [to |-> "CREATED", failure |-> "none", final |-> 0]
Decide(to, failure, final) == [to |-> to, failure |-> failure, final |-> final]

Local == [op     : {"none", "prepare", "attach", "submit", "cycle"},
          id     : Intents \cup {0},
          pc     : Awaits \cup {"idle", "done"},
          snap   : Row,                 \* `row`: the intent as it was last read
          blob   : Tx \cup {NoTx},      \* the blob of an attach request
          led    : Nat,                 \* a validated ledger index it has read
          seq    : Nat,                 \* the account Sequence it has read
          want   : [to : IntentStatuses, failure : FailureCodes \cup {"none"}, final : Nat],
          budget : 0..1,                \* switchBudget.remaining
          steps  : Nat,                 \* iterations of the request's step loop
          result : Results]             \* what the caller was answered

Idle == [op |-> "none", id |-> 0, pc |-> "idle", snap |-> NewRow, blob |-> NoTx, led |-> 0,
         seq |-> 0, want |-> NoDecision, budget |-> 1, steps |-> 0, result |-> "none"]

\* The request has answered; what it remembers is what the properties compare,
\* nothing when the answer is an error that says nothing of the intent.
Answered(local, result) ==
    IF result = "error" THEN Idle
    ELSE [Idle EXCEPT !.op = local.op, !.id = local.id, !.pc = "done",
                      !.blob = local.blob, !.result = result]

\* Mutant: the last ledger of the window already counts as past it.
WindowOverEarly(v, r) == v >= r.lls

\* The comparison every service makes: no ledger that can still close may
\* include the prepared transaction of r.
WindowOver(v, r) == v > r.lls

\* Mutant: nothing waits for the first cycle.
AssertNothing == TRUE

\* FinalityService.assertRecovered(); a request that fails it answers SERVICE_NOT_READY.
AssertRecovered == recovered

Free(c) == proc[c].pc \in {"idle", "done"}

At(p, pc) == proc[p].pc = pc

Goto(p, local) == proc' = [proc EXCEPT ![p] = local]

Reply(p, result) == Goto(p, Answered(proc[p], result))

\* A transition()'s outcome: updated continues with `cont`, undefined re-reads
\* with `again`, an exception answers the request.
AfterTransition(p, outcome, cont, again) ==
    Goto(p, CASE outcome = "updated"   -> cont
              [] outcome = "undefined" -> again
              [] OTHER                 -> Answered(proc[p], "error"))
==============================================================================
