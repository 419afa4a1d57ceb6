------------------------------ MODULE Finality ------------------------------
(***************************************************************************)
(* src/finality/finality.service.ts: resolveSigned, which the cycle and    *)
(* submit share, and the cycle itself.                                     *)
(***************************************************************************)
EXTENDS Requests

CONSTANT FaultyReplies      \* may a tx reply contradict the stored artifact?

ASSUME FinalityAssumption == FaultyReplies \in BOOLEAN

VARIABLE batch              \* the rows the cycle has yet to process, as it read them

Snapshot == [id : Intents, snap : Row]

\* The cycle takes the next row, oldest first; after the last one startup
\* recovery is complete.
NextRow(rows) ==
    \/ /\ rows = {}
       /\ Goto(Worker, Idle)
       /\ batch' = {}
       /\ recovered' = TRUE
    \/ \E e \in rows :
          /\ \A f \in rows : e.id <= f.id
          /\ Goto(Worker,
                  [Idle EXCEPT !.op = "cycle", !.id = e.id, !.snap = e.snap,
                               !.led = proc[Worker].led, !.budget = proc[Worker].budget,
                               !.pc = IF e.snap.status \in UnsignedActive
                                      THEN "expireRow" ELSE "lookup"])
          /\ batch' = rows \ {e}
          /\ UNCHANGED recovered

StartCycle ==
    /\ At(Worker, "idle")
    /\ \E v \in Views : Goto(Worker, [Idle EXCEPT !.op = "cycle", !.pc = "rows", !.led = v])
    /\ UNCHANGED <<row, batch, recovered>>

\* Mutant: the cycle only looks up what this service submitted.
DueRowsSubmitted ==
    {i \in Intents : \/ row[i].status = "SUBMITTED"
                     \/ row[i].status \in UnsignedActive /\ WindowOver(proc[Worker].led, row[i])}

\* findByStatuses, without the unsigned rows the cycle returns from at once
\* because their window is still open.
DueRows ==
    {i \in Intents : \/ row[i].status \in SignedActive
                     \/ row[i].status \in UnsignedActive /\ WindowOver(proc[Worker].led, row[i])}

ReadRows ==
    /\ At(Worker, "rows")
    /\ NextRow({[id |-> i, snap |-> row[i]] : i \in DueRows})
    /\ UNCHANGED row

ExpireRow ==
    /\ At(Worker, "expireRow")
    /\ LET i == proc[Worker].id IN Transition(i, UnsignedActive, "EXPIRED", row[i])
    /\ NextRow(batch)

Cycle == StartCycle \/ ReadRows \/ ExpireRow

\* resolveSigned returned PENDING or UNPROVABLE: the cycle goes on to its next
\* row, submit answers XRPL_UNAVAILABLE.
StillOpen(p) ==
    IF p = Worker THEN NextRow(batch)
    ELSE Reply(p, "error") /\ UNCHANGED <<batch, recovered>>

\* It returned an outcome: submit loads the row again.
Concluded(p) ==
    IF p = Worker THEN NextRow(batch)
    ELSE /\ Goto(p, [Idle EXCEPT !.op = "submit", !.id = proc[p].id, !.pc = "reloadSubmit",
                                 !.steps = proc[p].steps + 1])
         /\ UNCHANGED <<batch, recovered>>

Continue(p, local) == Goto(p, local) /\ UNCHANGED <<batch, recovered>>

Outcome(p, to, failure, final) ==
    Continue(p, [proc[p] EXCEPT !.pc = "outcome", !.want = Decide(to, failure, final)])

Looking(p) == proc[p].pc \in {"lookup", "searchAgain"}

\* Mutant: the last ledger of the window is left out.
InWindowExclusive(at, r) == r.prep < at /\ at < r.lls

InWindow(at, r) == r.prep < at /\ at <= r.lls

\* applyFound, for a tx reply that tells where the transaction is.
LookupFound(p) ==
    /\ Looking(p)
    /\ LET r == proc[p].snap
       IN  \E v \in Views : \E e \in FoundAt(r.blob, v) :
              IF InWindow(e.at, r)
              THEN Outcome(p, "VALIDATED", "none", e.at)
              ELSE Outcome(p, "FAILED", "FINALITY_INTEGRITY_ERROR", 0)
    /\ UNCHANGED row

\* applyFound, for a validated reply with another hash or ledger, or with a
\* result no validated transaction can have.
LookupMisreported(p) ==
    /\ FaultyReplies
    /\ Looking(p)
    /\ \E failure \in {"FINALITY_INTEGRITY_ERROR", "UNEXPECTED_VALIDATED_RESULT"} :
          Outcome(p, "FAILED", failure, 0)
    /\ UNCHANGED row

\* Mutant: found is taken for validated.
LookupUnvalidatedTrusted(p) ==
    /\ Looking(p)
    /\ \E v \in Views : FoundAt(proc[p].snap.blob, v) = {} /\ Outcome(p, "VALIDATED", "none", v)
    /\ UNCHANGED row

\* Known to the endpoint but not in a validated ledger it has.
LookupUnvalidated(p) ==
    /\ Looking(p)
    /\ \E v \in Views : FoundAt(proc[p].snap.blob, v) = {}
    /\ StillOpen(p)
    /\ UNCHANGED row

\* Mutant: txnNotFound after the window is taken for absence.
ProvenAbsentByTime(p, searchedAll) == WindowOver(proc[p].led, proc[p].snap)

ProvenAbsent(p, searchedAll) == WindowOver(proc[p].led, proc[p].snap) /\ searchedAll

\* Mutant: an endpoint switch for every lookup.
MaySwitchAlways(p) == Looking(p)

MaySwitch(p) == At(p, "lookup") /\ proc[p].budget > 0

\* txnNotFound.  Only an endpoint that holds the whole range can say
\* searched_all; the first one that cannot costs an endpoint switch.
LookupNotFound(p) ==
    /\ Looking(p)
    /\ LET r == proc[p].snap
       IN  \E v \in Views, searchedAll \in BOOLEAN :
              /\ searchedAll => v >= r.lls /\ FoundAt(r.blob, v) = {}
              /\ IF ProvenAbsent(p, searchedAll)
                 THEN Continue(p, [proc[p] EXCEPT !.pc = "provenAccount"])
                 ELSE IF WindowOver(proc[p].led, r) /\ MaySwitch(p)
                 THEN Continue(p, [proc[p] EXCEPT !.pc = "searchAgain",
                                                  !.budget = proc[p].budget - 1])
                 ELSE StillOpen(p)
    /\ UNCHANGED row

\* applyProvenAbsent: the account's Sequence beyond the window tells whether
\* the slot is still free.
ReadProvenAccount(p) ==
    /\ At(p, "provenAccount")
    /\ LET r == proc[p].snap
           a == AccountOf[proc[p].id]
       IN  \E v \in Views :
              IF ~ExistsAt(a, v) THEN Outcome(p, "FAILED", "SEQUENCE_CONFLICT", 0)
              ELSE IF ~WindowOver(v, r) THEN StillOpen(p)
              ELSE IF SeqAt(a, v) = r.seq THEN Outcome(p, "EXPIRED", "none", 0)
              ELSE IF SeqAt(a, v) > r.seq THEN Outcome(p, "FAILED", "SEQUENCE_CONFLICT", 0)
              ELSE Outcome(p, "FAILED", "SEQUENCE_REGRESSION", 0)
    /\ UNCHANGED row

\* The outcome is concluded whether or not this write is the one that stored it.
WriteOutcome(p) ==
    /\ At(p, "outcome")
    /\ LET i    == proc[p].id
           want == proc[p].want
       IN  Transition(i, SignedActive, want.to,
                      [row[i] EXCEPT !.failure = want.failure, !.final = want.final])
    /\ Concluded(p)

ResolveSigned(p) ==
    \/ LookupFound(p) \/ LookupMisreported(p) \/ LookupUnvalidated(p) \/ LookupNotFound(p)
    \/ ReadProvenAccount(p) \/ WriteOutcome(p)
==============================================================================
