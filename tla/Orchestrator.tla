----------------------------- MODULE Orchestrator -----------------------------
(***************************************************************************)
(* The running service: concurrent prepare, attach and submit requests and *)
(* the finality cycle over one table and one network, with crashes.        *)
(***************************************************************************)
EXTENDS Preparation, Signing, Submission

CONSTANT MaxCrashes      \* bound: restarts of the process

ASSUME OrchestratorAssumption == MaxCrashes \in Nat

VARIABLE crashes

vars == <<networkVars, row, proc, recovered, batch, wire, crashes>>

Init ==
    /\ NetworkInit
    /\ StoreInit
    /\ proc = [p \in Processes |-> Idle]
    /\ recovered = FALSE
    /\ batch = {}
    /\ wire = [i \in Intents |-> [first |-> 0, answered |-> 0]]
    /\ crashes = 0

\* The awaited call throws: a request answers with an error, the cycle ends
\* without completing and leaves the rest of its rows for the next one.
Fails(p) ==
    /\ proc[p].pc \in Awaits
    /\ Goto(p, IF p = Worker THEN Idle ELSE Answered(proc[p], "error"))
    /\ batch' = IF p = Worker THEN {} ELSE batch
    /\ UNCHANGED row

\* The process dies and restarts; the table and the network stay.
Crash ==
    /\ crashes < MaxCrashes
    /\ crashes' = crashes + 1
    /\ proc' = [p \in Processes |-> Idle]
    /\ recovered' = FALSE
    /\ batch' = {}
    /\ UNCHANGED <<networkVars, row, wire>>

NetworkStep ==
    /\ CloseLedger
    /\ UNCHANGED <<row, proc, recovered, batch, wire, crashes>>

SignerStep == Sign /\ UNCHANGED <<recovered, batch, wire, crashes>>

CallerStep(c) ==
    \/ /\ Prepare(c) \/ Attach(c)
       /\ UNCHANGED <<networkVars, recovered, batch, wire, crashes>>
    \/ /\ Submit(c)
       /\ UNCHANGED <<closed, chain, minted, recovered, batch, crashes>>

CycleStep == Cycle /\ UNCHANGED <<networkVars, wire, crashes>>

ResolveStep(p) == ResolveSigned(p) /\ UNCHANGED <<networkVars, wire, crashes>>

FailStep(p) == Fails(p) /\ UNCHANGED <<networkVars, recovered, wire, crashes>>

Next ==
    \/ NetworkStep
    \/ SignerStep
    \/ Crash
    \/ CycleStep
    \/ \E c \in Callers : CallerStep(c)
    \/ \E p \in Processes : ResolveStep(p) \/ FailStep(p)

Spec == Init /\ [][Next]_vars
==============================================================================
