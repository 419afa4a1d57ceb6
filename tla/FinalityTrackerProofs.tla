------------------------- MODULE FinalityTrackerProofs -------------------------
(***************************************************************************)
(* Proofs about FinalityTracker, for any set of rows and whatever history  *)
(* each endpoint holds.                                                    *)
(***************************************************************************)
EXTENDS FinalityTracker, TLAPS

InCycle == pc \in {"lookup", "switch", "again"}

\* Every trigger of a running cycle is still pending, and no cycle stops with one.
TriggersPending ==
    /\ owed => pending
    /\ pc = "idle" => ~pending

\* Between cycles nothing is left of the last one.
CycleStartsClean == ~InCycle => todo = {} /\ open = {}

\* What the running cycle has gone past is settled, PENDING, or has degraded it.
GoneThrough == InCycle /\ ~degraded => rows \ (todo \cup open) \subseteq settled

\* What the last completed cycle reported of what it had gone past.
HealthIsReported ==
    /\ recovered => health # "STARTING"
    /\ health = "HEALTHY" => checked \subseteq settled

TrackerInv ==
    /\ TrackerTypeOK
    /\ TriggersPending
    /\ NoCycleAfterDestroy
    /\ CycleStartsClean
    /\ GoneThrough
    /\ HealthIsReported

-------------------------------------------------------------------------------
LEMMA TrackerInitially == TrackerInit => TrackerInv
<1> SUFFICES ASSUME TrackerInit PROVE TrackerInv
  OBVIOUS
<1>1. {degraded, pending, recovered, owed} \subseteq BOOLEAN
  BY Zenon DEF TrackerInit
<1>2. QED
  BY <1>1 DEF TrackerInit, TrackerInv, TrackerTypeOK, TriggersPending, NoCycleAfterDestroy,
     CycleStartsClean, InCycle, GoneThrough, HealthIsReported

\* How a cycle ends: with a cycle for the triggers it has met, or with none to do.
LEMMA LoopKeeps ==
    ASSUME TrackerInv, pc # "idle", Loop
    PROVE  /\ pc' \in {"idle", "ledger"} /\ stop' \in {"no", "waiting", "done"}
           /\ pending' = FALSE /\ owed' = FALSE
           /\ stop' = "done" => pc' = "idle"
  BY DEF TrackerInv, TrackerTypeOK, TriggersPending, NoCycleAfterDestroy, Loop

LEMMA AbortKeeps ==
    ASSUME TrackerInv, pc # "idle", Abort, up' = up, active' \in Endpoints \cup {"none"}
    PROVE  TrackerInv'
<1>1. TrackerTypeOK'
  <2>1. {degraded', pending', recovered', owed'} \subseteq BOOLEAN
    BY LoopKeeps, Zenon DEF Abort, TrackerInv, TrackerTypeOK
  <2>2. /\ pc' \in {"idle", "ledger"} /\ stop' \in {"no", "waiting", "done"}
    BY LoopKeeps DEF Abort
  <2>3. QED
    BY <2>1, <2>2 DEF Abort, TrackerInv, TrackerTypeOK
<1>2. CycleStartsClean' /\ GoneThrough'
  BY LoopKeeps DEF Abort, CycleStartsClean, GoneThrough, InCycle
<1>3. TriggersPending' /\ NoCycleAfterDestroy' /\ HealthIsReported'
  BY LoopKeeps DEF Abort, TrackerInv, TriggersPending, NoCycleAfterDestroy, HealthIsReported
<1>4. QED
  BY <1>1, <1>2, <1>3 DEF TrackerInv

\* A cycle that completes is healthy only when what it has gone past is settled or
\* PENDING.
LEMMA CompleteKeeps ==
    ASSUME TrackerInv, pc # "idle", NEW worse \in BOOLEAN, NEW stillOpen, Complete(worse, stillOpen),
           up' = up, active' \in Endpoints \cup {"none"},
           due' \subseteq Rows, settled' \subseteq Rows, rows' \subseteq Rows,
           ~worse => rows' \ stillOpen \subseteq settled'
    PROVE  TrackerInv'
<1>1. TrackerTypeOK'
  <2>1. {degraded', pending', recovered', owed'} \subseteq BOOLEAN
    BY LoopKeeps, Zenon DEF Complete, TrackerInv, TrackerTypeOK
  <2>2. /\ pc' \in {"idle", "ledger"} /\ stop' \in {"no", "waiting", "done"}
    BY LoopKeeps DEF Complete
  <2>3. QED
    BY <2>1, <2>2 DEF Complete, TrackerInv, TrackerTypeOK
<1>2. CycleStartsClean' /\ GoneThrough'
  BY LoopKeeps DEF Complete, CycleStartsClean, GoneThrough, InCycle
<1>3. TriggersPending' /\ NoCycleAfterDestroy' /\ HealthIsReported'
  BY LoopKeeps DEF Complete, TrackerInv, TriggersPending, NoCycleAfterDestroy, HealthIsReported
<1>4. QED
  BY <1>1, <1>2, <1>3 DEF TrackerInv

\* The cycle goes on from row r.
LEMMA RowDoneKeeps ==
    ASSUME TrackerInv, InCycle, NEW r \in todo, NEW outcome \in {"settled", "PENDING", "UNPROVABLE"},
           RowDone(r, outcome), up' = up, active' \in Endpoints \cup {"none"}
    PROVE  TrackerInv'
<1> DEFINE worse     == DegradedBy(degraded, outcome = "UNPROVABLE")
           stillOpen == IF outcome = "PENDING" THEN open \cup {r} ELSE open
<1>1. /\ r \in Rows /\ due' \subseteq Rows /\ settled' \subseteq Rows /\ settled \subseteq settled'
      /\ rows' = rows /\ rows \subseteq Rows /\ stillOpen \subseteq rows /\ worse \in BOOLEAN
  BY DEF RowDone, TrackerInv, TrackerTypeOK, DegradedBy
<1>2. ~worse => rows \ ((todo \ {r}) \cup stillOpen) \subseteq settled'
  <2> SUFFICES ASSUME ~worse, NEW q \in rows, q \notin todo \ {r}, q \notin stillOpen
               PROVE  q \in settled'
    OBVIOUS
  <2>1. CASE q = r
    BY <2>1 DEF RowDone, DegradedBy
  <2>2. CASE q # r
    <3>1. q \in settled
      BY <2>2 DEF TrackerInv, TrackerTypeOK, GoneThrough, DegradedBy
    <3>2. QED
      BY <3>1, <1>1
  <2>3. QED
    BY <2>1, <2>2
<1>3. CASE todo \ {r} = {}
  <2>1. Complete(worse, stillOpen)
    BY <1>3 DEF RowDone
  <2>2. ~worse => rows' \ stillOpen \subseteq settled'
    BY <1>1, <1>2, <1>3
  <2> HIDE DEF worse, stillOpen
  <2>3. QED
    BY <1>1, <2>1, <2>2, CompleteKeeps DEF InCycle
<1>4. CASE todo \ {r} # {}
  <2>1. /\ pc' = "lookup" /\ todo' = todo \ {r} /\ degraded' = worse /\ open' = stillOpen
        /\ UNCHANGED <<budget, serviceVars>>
    BY <1>4 DEF RowDone
  <2> HIDE DEF worse, stillOpen
  <2>2. TrackerTypeOK'
    BY <1>1, <2>1 DEF TrackerInv, TrackerTypeOK, serviceVars
  <2>3. CycleStartsClean' /\ GoneThrough'
    BY <1>1, <1>2, <2>1 DEF CycleStartsClean, GoneThrough, InCycle
  <2>4. TriggersPending' /\ NoCycleAfterDestroy' /\ HealthIsReported'
    BY <1>1, <2>1 DEF InCycle, TrackerInv, TriggersPending, NoCycleAfterDestroy, HealthIsReported, serviceVars
  <2>5. QED
    BY <2>2, <2>3, <2>4 DEF TrackerInv
<1>5. QED
  BY <1>3, <1>4

-------------------------------------------------------------------------------
\* The triggers, the shutdown and the world leave the cycle alone.
LEMMA OutsideKeeps ==
    ASSUME TrackerInv, Outage \/ WindowEnds \/ Trigger \/ ModuleDestroy
    PROVE  TrackerInv'
<1>1. CASE Outage
  BY <1>1 DEF Outage, cycleVars, serviceVars, TrackerInv, TrackerTypeOK, TriggersPending,
     NoCycleAfterDestroy, CycleStartsClean, InCycle, GoneThrough, HealthIsReported
<1>2. CASE WindowEnds
  BY <1>2 DEF WindowEnds, cycleVars, serviceVars, TrackerInv, TrackerTypeOK, TriggersPending,
     NoCycleAfterDestroy, CycleStartsClean, InCycle, GoneThrough, HealthIsReported
<1>3. CASE Trigger
  BY <1>3 DEF Trigger, MayTrigger, cycleVars, TrackerInv, TrackerTypeOK, TriggersPending,
     NoCycleAfterDestroy, CycleStartsClean, InCycle, GoneThrough, HealthIsReported
<1>4. CASE ModuleDestroy
  BY <1>4 DEF ModuleDestroy, cycleVars, TrackerInv, TrackerTypeOK, TriggersPending,
     NoCycleAfterDestroy, CycleStartsClean, InCycle, GoneThrough, HealthIsReported
<1>5. QED
  BY <1>1, <1>2, <1>3, <1>4

\* A cycle that only waits for something else next.
LEMMA CycleWaits ==
    ASSUME TrackerInv, NEW q \in {"rows", "switch", "again"}, pc' = q,
           q = "rows" => pc = "ledger", q \in {"switch", "again"} => InCycle,
           up' = up, active' \in Endpoints \cup {"none"}, budget' \in 0..1,
           UNCHANGED <<due, settled, rows, todo, degraded, open, serviceVars>>
    PROVE  TrackerInv'
  BY DEF serviceVars, TrackerInv, TrackerTypeOK, TriggersPending, NoCycleAfterDestroy,
     CycleStartsClean, InCycle, GoneThrough, HealthIsReported

LEMMA CycleStepKeeps ==
    ASSUME TrackerInv, CycleStep
    PROVE  TrackerInv'
<1> USE DEF Endpoints, OtherEndpoint
<1>1. CASE ReadLedger
  <2>1. CASE \E e \in Endpoints : AnsweredBy(e)
             /\ pc' = "rows" /\ UNCHANGED <<due, settled, cycleVars, serviceVars>>
    BY <1>1, <2>1, CycleWaits DEF ReadLedger, AnsweredBy, cycleVars, TrackerInv, TrackerTypeOK
  <2>2. CASE Unreachable /\ Abort
    BY <1>1, <2>2, AbortKeeps DEF ReadLedger, Unreachable
  <2>3. QED
    BY <1>1, <2>1, <2>2 DEF ReadLedger
<1>2. CASE ReadDueRows
  <2>1. /\ rows' = due /\ due \subseteq Rows /\ pc = "rows"
        /\ UNCHANGED <<up, active, due, settled>>
    BY <1>2 DEF ReadDueRows, TrackerInv, TrackerTypeOK
  <2>2. CASE due = {}
    <3>1. Complete(FALSE, {})
      BY <1>2, <2>2 DEF ReadDueRows
    <3>2. QED
      BY <2>1, <2>2, <3>1, CompleteKeeps DEF TrackerInv, TrackerTypeOK
  <2>3. CASE due # {}
    <3>1. todo' = due /\ pc' = "lookup" /\ UNCHANGED <<budget, degraded, open, serviceVars>>
      BY <1>2, <2>3 DEF ReadDueRows
    <3>2. QED
      BY <2>1, <3>1 DEF serviceVars, TrackerInv, TrackerTypeOK, TriggersPending, NoCycleAfterDestroy,
         CycleStartsClean, InCycle, GoneThrough, HealthIsReported
  <2>4. QED
    BY <2>2, <2>3
<1>3. CASE LookupPending
  BY <1>3, RowDoneKeeps DEF LookupPending, AnsweredBy, IsNext, InCycle
<1>4. CASE Lookup
  <2>1. PICK r \in todo :
             \/ \E e \in Endpoints :
                  /\ AnsweredBy(e)
                  /\ \/ RowDone(r, "settled") \/ RowDone(r, "UNPROVABLE")
                     \/ /\ pc' = "switch" /\ budget' = 0
                        /\ UNCHANGED <<due, settled, rows, todo, degraded, open, serviceVars>>
             \/ Unreachable /\ Abort
    BY <1>4 DEF Lookup
  <2>2. InCycle /\ pc # "idle" /\ up' = up
    BY <1>4 DEF Lookup, InCycle
  <2>3. active' \in Endpoints \cup {"none"}
    BY <2>1 DEF AnsweredBy, Unreachable
  <2>4. CASE RowDone(r, "settled") \/ RowDone(r, "UNPROVABLE")
    BY <2>2, <2>3, <2>4, RowDoneKeeps
  <2>5. CASE /\ pc' = "switch" /\ budget' = 0
             /\ UNCHANGED <<due, settled, rows, todo, degraded, open, serviceVars>>
    BY <2>2, <2>3, <2>5, CycleWaits
  <2>6. CASE Abort
    BY <2>2, <2>3, <2>6, AbortKeeps
  <2>7. QED
    BY <2>1, <2>4, <2>5, <2>6
<1>5. CASE SwitchForHistory
  <2>1. InCycle /\ pc # "idle" /\ up' = up /\ active' \in Endpoints \cup {"none"}
    BY <1>5 DEF SwitchForHistory, InCycle, SwitchedTo, SwitchFails
  <2>2. CASE pc' = "again" /\ UNCHANGED <<due, settled, cycleVars, serviceVars>>
    BY <2>1, <2>2, CycleWaits DEF cycleVars, TrackerInv, TrackerTypeOK
  <2>3. CASE Abort
    BY <2>1, <2>3, AbortKeeps
  <2>4. QED
    BY <1>5, <2>2, <2>3 DEF SwitchForHistory
<1>6. CASE LookupAgain
  <2>1. PICK r \in todo :
             \/ \E e \in Endpoints :
                  AnsweredBy(e) /\ RowDone(r, IF r \in Holds[e] THEN "settled" ELSE "UNPROVABLE")
             \/ Unreachable /\ Abort
    BY <1>6 DEF LookupAgain
  <2>2. InCycle /\ pc # "idle" /\ up' = up /\ active' \in Endpoints \cup {"none"}
    BY <1>6, <2>1 DEF LookupAgain, InCycle, AnsweredBy, Unreachable
  <2>3. QED
    BY <2>1, <2>2, RowDoneKeeps, AbortKeeps
<1>7. QED
  BY <1>1, <1>2, <1>3, <1>4, <1>5, <1>6 DEF CycleStep

LEMMA TrackerNextKeeps == TrackerInv /\ [Next]_vars => TrackerInv'
<1> SUFFICES ASSUME TrackerInv, [Next]_vars PROVE TrackerInv'
  OBVIOUS
<1>1. CASE Next
  BY <1>1, OutsideKeeps, CycleStepKeeps DEF Next
<1>2. CASE UNCHANGED vars
  BY <1>2 DEF vars, TrackerInv, TrackerTypeOK, TriggersPending, NoCycleAfterDestroy,
     CycleStartsClean, InCycle, GoneThrough, HealthIsReported
<1>3. QED
  BY <1>1, <1>2

LEMMA TrackerInvariance == Spec => []TrackerInv
  BY TrackerInitially, TrackerNextKeeps, PTL DEF Spec

-------------------------------------------------------------------------------
\* The scheduler's variables keep their types, and a cycle resolves only rows it read.
THEOREM TrackerTypes == Spec => []TrackerTypeOK
<1>1. TrackerInv => TrackerTypeOK
  BY DEF TrackerInv
<1>2. QED
  BY <1>1, TrackerInvariance, PTL

\* triggerCycle and the single-flight loop of runCycle: a trigger is never lost to the
\* cycle it met, because the loop gives up only when `pending` is clear.
THEOREM TriggersHonoured == Spec => []TriggersAreHonoured
<1>1. TrackerInv => TriggersAreHonoured
  BY DEF TrackerInv, TriggersPending, TriggersAreHonoured
<1>2. QED
  BY <1>1, TrackerInvariance, PTL

\* onModuleDestroy: once idle() has resolved, no cycle runs.
THEOREM DestroyedIsQuiet == Spec => []NoCycleAfterDestroy
<1>1. TrackerInv => NoCycleAfterDestroy
  BY DEF TrackerInv
<1>2. QED
  BY <1>1, TrackerInvariance, PTL

\* Health and readiness: ready is said only on the strength of a completed cycle that
\* proved every row it did not find PENDING.
THEOREM ReadinessEarned == Spec => []ReadyIsEarned
<1>1. TrackerInv => ReadyIsEarned
  BY DEF TrackerInv, TrackerTypeOK, HealthIsReported, ReadyIsEarned, Ready
<1>2. QED
  BY <1>1, TrackerInvariance, PTL
==============================================================================
