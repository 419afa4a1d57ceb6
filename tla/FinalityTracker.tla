--------------------------- MODULE FinalityTracker ---------------------------
(***************************************************************************)
(* The scheduling of the finality cycle: FinalityScheduler's triggers, the *)
(* single-flight loop of runCycle (src/finality/finality.service.ts), the  *)
(* health it reports, and how a cycle moves over its rows when each of the *)
(* two endpoints is reachable only at times and holds only part of the     *)
(* ledger history.  What a lookup concludes is the subject of Finality;    *)
(* here an endpoint that holds the ledgers of a row past its window settles *)
(* it, unless the answer leaves it PENDING: found but not yet validated, or *)
(* an account read that lags the window.                                   *)
(***************************************************************************)
EXTENDS Naturals, FiniteSets

CONSTANTS
    Rows,        \* signed intents, numbered in the order of created_at
    Holds        \* the rows whose whole ledger range each endpoint holds

Endpoints == {"primary", "secondary"}
OtherEndpoint(name) == IF name = "primary" THEN "secondary" ELSE "primary"

ASSUME TrackerAssumption ==
    /\ Rows \subseteq Nat
    /\ Holds \in [Endpoints -> SUBSET Rows]

VARIABLES
    up,           \* the endpoints a connection can be made to
    active,       \* the endpoint of the connection, or "none"
    due,          \* signed rows whose window is over, not settled
    settled,      \* rows with an outcome
    pc,           \* the await of the running cycle, "idle" when none runs
    rows,         \* rows the cycle has read
    todo,         \* those it has yet to resolve
    budget,       \* switchBudget.remaining
    degraded,     \* the local `degraded` of the cycle
    open,         \* history: the rows the cycle has left PENDING
    pending,      \* FinalityService.pending
    health,       \* FinalityService.health
    recovered,    \* FinalityService.recovered
    stop,         \* onModuleDestroy: "no", "waiting" in idle(), "done"
    checked,      \* history: the rows of the last cycle that completed, but those PENDING
    owed          \* history: triggered since the last cycle began

vars == <<up, active, due, settled, pc, rows, todo, budget, degraded, open, pending,
          health, recovered, stop, checked, owed>>

cycleVars == <<rows, todo, budget, degraded, open>>
serviceVars == <<pending, health, recovered, stop, checked, owed>>

TrackerInit ==
    /\ up \in SUBSET Endpoints
    /\ active = "none"
    /\ due = {}
    /\ settled = {}
    /\ pc = "idle"
    /\ rows = {}
    /\ todo = {}
    /\ budget = 1
    /\ degraded = FALSE
    /\ open = {}
    /\ pending = FALSE
    /\ health = "STARTING"
    /\ recovered = FALSE
    /\ stop = "no"
    /\ checked = {}
    /\ owed = FALSE

-------------------------------------------------------------------------------
(* The world: endpoints come and go, windows end.                          *)

Outage ==
    /\ up' \in SUBSET Endpoints
    /\ UNCHANGED <<active, due, settled, pc, cycleVars, serviceVars>>

WindowEnds ==
    /\ \E r \in Rows \ (due \cup settled) : due' = due \cup {r}
    /\ UNCHANGED <<up, active, settled, pc, cycleVars, serviceVars>>

\* request(): the active endpoint answers, or the other one after a failover, or
\* either when there was no connection.
AnsweredBy(e) ==
    /\ e \in up
    /\ active \in up => e = active
    /\ active' = e

Unreachable == up = {} /\ active' = "none"

\* switchEndpoint(): only the alternate will do while there is a connection.
SwitchedTo(e) ==
    /\ e \in up
    /\ active # "none" => e = OtherEndpoint(active)
    /\ active' = e

SwitchFails ==
    /\ IF active = "none" THEN up = {} ELSE OtherEndpoint(active) \notin up
    /\ active' = "none"

-------------------------------------------------------------------------------
(* runCycle.                                                               *)

\* Mutant: the loop clears `pending` when a cycle ends instead of when it begins.
LoopOnceMore ==
    /\ pc' = "idle"
    /\ pending' = FALSE
    /\ owed' = owed
    /\ stop' = IF stop = "waiting" THEN "done" ELSE stop

\* while (pending): one more cycle for any number of triggers, else idle()
\* resolves.
Loop ==
    IF pending
    THEN pc' = "ledger" /\ pending' = FALSE /\ owed' = FALSE /\ UNCHANGED stop
    ELSE /\ pc' = "idle"
         /\ stop' = IF stop = "waiting" THEN "done" ELSE stop
         /\ UNCHANGED <<pending, owed>>

\* Mutant: a trigger after onModuleDestroy still starts a cycle.
MayTriggerAlways == TRUE

MayTrigger == stop = "no"

\* Startup, a validated-ledger event, or the ten-second timer.
Trigger ==
    /\ MayTrigger
    /\ IF pc = "idle" THEN pc' = "ledger" /\ UNCHANGED <<pending, owed>>
       ELSE pending' = TRUE /\ owed' = TRUE /\ UNCHANGED pc
    /\ UNCHANGED <<up, active, due, settled, cycleVars, health, recovered, stop, checked>>

ModuleDestroy ==
    /\ stop = "no"
    /\ stop' = IF pc = "idle" THEN "done" ELSE "waiting"
    /\ UNCHANGED <<up, active, due, settled, pc, cycleVars,
                   pending, health, recovered, checked, owed>>

-------------------------------------------------------------------------------
(* cycle().                                                                *)

\* Mutant: an exception leaves the remaining rows of the cycle behind.
AbortKeepsRest ==
    /\ Loop
    /\ rows' = {}
    /\ budget' = 1
    /\ degraded' = FALSE
    /\ open' = {}
    /\ UNCHANGED <<due, settled, todo, health, recovered, checked>>

\* An exception ends the cycle: no health, no recovery, the other rows wait.
Abort ==
    /\ Loop
    /\ rows' = {}
    /\ todo' = {}
    /\ budget' = 1
    /\ degraded' = FALSE
    /\ open' = {}
    /\ UNCHANGED <<due, settled, health, recovered, checked>>

\* Mutant: only the last row decides the health.
DegradedByLast(before, unproven) == unproven

DegradedBy(before, unproven) == before \/ unproven

\* The last row is resolved.
Complete(worse, stillOpen) ==
    /\ health' = IF worse THEN "DEGRADED" ELSE "HEALTHY"
    /\ recovered' = TRUE
    /\ checked' = rows' \ stillOpen
    /\ todo' = {}
    /\ budget' = 1
    /\ degraded' = FALSE
    /\ open' = {}
    /\ Loop

\* The cycle is done with row r: settled, PENDING or UNPROVABLE.
RowDone(r, outcome) ==
    LET worse     == DegradedBy(degraded, outcome = "UNPROVABLE")
        stillOpen == IF outcome = "PENDING" THEN open \cup {r} ELSE open
    IN  /\ IF outcome = "settled" THEN due' = due \ {r} /\ settled' = settled \cup {r}
           ELSE UNCHANGED <<due, settled>>
        /\ UNCHANGED rows
        /\ IF todo \ {r} = {} THEN Complete(worse, stillOpen)
           ELSE /\ pc' = "lookup"
                /\ todo' = todo \ {r}
                /\ degraded' = worse
                /\ open' = stillOpen
                /\ UNCHANGED <<budget, serviceVars>>

ReadLedger ==
    /\ pc = "ledger"
    /\ \/ /\ \E e \in Endpoints : AnsweredBy(e)
          /\ pc' = "rows"
          /\ UNCHANGED <<due, settled, cycleVars, serviceVars>>
       \/ Unreachable /\ Abort
    /\ UNCHANGED up

ReadDueRows ==
    /\ pc = "rows"
    /\ rows' = due
    /\ IF due = {} THEN Complete(FALSE, {})
       ELSE /\ todo' = due
            /\ pc' = "lookup"
            /\ UNCHANGED <<budget, degraded, open, serviceVars>>
    /\ UNCHANGED <<up, active, due, settled>>

\* Mutant: the rows come newest first.
IsNewest(r) == r \in todo /\ \A q \in todo : q <= r

IsNext(r) == r \in todo /\ \A q \in todo : r <= q

\* Mutant: a cycle never switches.
SwitchBudgetNone == FALSE

SwitchBudget == budget > 0

\* Either lookup is answered, but the row stays PENDING.
LookupPending ==
    /\ pc \in {"lookup", "again"}
    /\ \E e \in Endpoints : AnsweredBy(e)
    /\ \E r \in todo : IsNext(r) /\ RowDone(r, "PENDING")
    /\ UNCHANGED up

\* resolveSigned, its first lookup.
Lookup ==
    /\ pc = "lookup"
    /\ \E r \in todo :
          /\ IsNext(r)
          /\ \/ \E e \in Endpoints :
                   /\ AnsweredBy(e)
                   /\ IF r \in Holds[e] THEN RowDone(r, "settled")
                      ELSE IF SwitchBudget
                      THEN /\ pc' = "switch"
                           /\ budget' = 0
                           /\ UNCHANGED <<due, settled, rows, todo, degraded, open, serviceVars>>
                      ELSE RowDone(r, "UNPROVABLE")
             \/ Unreachable /\ Abort
    /\ UNCHANGED up

SwitchForHistory ==
    /\ pc = "switch"
    /\ \/ /\ \E e \in Endpoints : SwitchedTo(e)
          /\ pc' = "again"
          /\ UNCHANGED <<due, settled, cycleVars, serviceVars>>
       \/ SwitchFails /\ Abort
    /\ UNCHANGED up

LookupAgain ==
    /\ pc = "again"
    /\ \E r \in todo :
          /\ IsNext(r)
          /\ \/ \E e \in Endpoints :
                   /\ AnsweredBy(e)
                   /\ RowDone(r, IF r \in Holds[e] THEN "settled" ELSE "UNPROVABLE")
             \/ Unreachable /\ Abort
    /\ UNCHANGED up

\* HealthService.readiness(): the four flags of ConnectionManager.status() are all
\* `active !== undefined`.
Ready(database) == database = "up" /\ active # "none" /\ health # "DEGRADED" /\ recovered

CycleStep ==
    ReadLedger \/ ReadDueRows \/ LookupPending \/ Lookup \/ SwitchForHistory \/ LookupAgain

Next == Outage \/ WindowEnds \/ Trigger \/ ModuleDestroy \/ CycleStep

Spec == TrackerInit /\ [][Next]_vars

\* Endpoint e tells what it has of row r, and not PENDING.
Answers(r, e) == IsNext(r) /\ (Lookup \/ LookupAgain) /\ active' = e

\* The ten-second timer keeps triggering until the module is destroyed, a call of
\* the cycle is answered or fails within its timeout, and each endpoint catches up with
\* the network: asked for a row again and again, it does not leave it PENDING for ever,
\* whatever the other endpoint answers in the meantime.
FairSpec ==
    /\ Spec
    /\ WF_vars(Trigger /\ pc = "idle")
    /\ WF_vars(CycleStep)
    /\ \A r \in Rows, e \in Endpoints : SF_vars(Answers(r, e))

-------------------------------------------------------------------------------
(* Properties.                                                             *)

\* The type of the state.
TrackerTypeOK ==
    /\ up \subseteq Endpoints
    /\ active \in Endpoints \cup {"none"}
    /\ due \subseteq Rows
    /\ settled \subseteq Rows
    /\ pc \in {"idle", "ledger", "rows", "lookup", "switch", "again"}
    /\ rows \subseteq Rows
    /\ todo \subseteq rows
    /\ open \subseteq rows
    /\ budget \in 0..1
    /\ {degraded, pending, recovered, owed} \subseteq BOOLEAN
    /\ health \in {"STARTING", "HEALTHY", "DEGRADED"}
    /\ stop \in {"no", "waiting", "done"}
    /\ checked \subseteq Rows

\* A trigger that arrives while a cycle runs, however late in it, is followed by
\* a cycle that begins after it; none is lost to coalescing.
TriggersAreHonoured == pc = "idle" => ~owed

\* After onModuleDestroy has waited for idle(), no cycle runs that would use the
\* connection or the pool while they are closed.
NoCycleAfterDestroy == stop = "done" => pc = "idle"

\* A readiness probe, at any await of any cycle, says ready only on the strength of a
\* cycle that completed and proved the outcome of every row it read and did not find
\* PENDING, in whichever order the rows came and whatever cycles failed after it; a
\* health still at STARTING never passes for ready.
ReadyIsEarned ==
    \A database \in {"up", "down"} :
        Ready(database) => health = "HEALTHY" /\ checked \subseteq settled

\* While both endpoints stay reachable, one switch per cycle is enough: every row whose
\* history one of them holds is settled, although a row in front that nobody can prove
\* spends the switch of every cycle (resolveSigned and its switchBudget).
ProvableRowsSettle ==
    <>[](up = Endpoints) /\ [](stop = "no") =>
        \A r \in Rows : (r \in due /\ \E e \in Endpoints : r \in Holds[e]) ~> r \in settled

\* While only one endpoint stays reachable, and the other comes and goes as it likes, a
\* switch that fails ends the cycle only for the rows behind the one it was for: a row
\* is settled if the endpoint holds its history and that of the rows in front of it
\* (cycle, whose catch ends it, and the order of findByStatuses).
RowsInFrontSettle ==
    [](stop = "no") =>
        \A e \in Endpoints : <>[](e \in up) =>
            \A r \in Rows : (r \in due /\ \A q \in Rows : q <= r => q \in Holds[e]) ~> r \in settled
==============================================================================
