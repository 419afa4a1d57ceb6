-------------------------- MODULE IntentTransitions --------------------------
(***************************************************************************)
(* IntentsRepository.transition() statement by statement, as PostgreSQL    *)
(* runs it at READ COMMITTED: SELECT ... FOR UPDATE, UPDATE, INSERT of the *)
(* audit row, COMMIT.  Several callers, of one process or of two, have     *)
(* such a transaction open at once, on one row or on two rows of one       *)
(* account; any statement may fail, and the answer of a COMMIT may be      *)
(* lost.  IntentStore takes the whole of it as one step: this module shows *)
(* that it may.                                                            *)
(***************************************************************************)
EXTENDS IntentState, Naturals

CONSTANTS
    Intents,     \* rows of transaction_intents
    Accounts,
    AccountOf,   \* source_account of each row
    Blobs,       \* signed blobs, each with its transaction_hash
    NoTx,        \* SQL null in signed_tx_blob and transaction_hash
    Callers,     \* who calls transition()
    Nobody,      \* no transaction: a free row lock, a committed audit row
    Asked        \* the requests callers make

ASSUME TransitionsAssumption ==
    /\ AccountOf \in [Intents -> Accounts]
    /\ NoTx \notin Blobs
    /\ Nobody \notin Callers
    /\ Asked \subseteq [from : SUBSET IntentStatuses, to : IntentStatuses]

VARIABLES
    row,      \* committed rows: status, and the signed blob with its hash
    lock,     \* the transaction that has locked each row, or Nobody
    audit,    \* intent_transitions of each row, uncommitted rows too
    txn       \* the transaction of each caller

tableVars == <<row, lock, audit, txn>>

Columns == [status : IntentStatuses, blob : Blobs \cup {NoTx}]
AuditRow == [id : Nat, from : IntentStatuses \cup {"null"}, to : IntentStatuses, by : Callers \cup {Nobody}]

\* What transition() answers: the row, undefined, or an exception.
Outcomes == {"none", "updated", "undefined", "illegal", "busy", "hash", "error"}

\* The statement a transaction is at; it is "index" when its new row version is
\* in the index of the account and not yet in the index of the hash.
Statements == {"select", "update", "index", "audit", "commit", "leave", "rollback"}

Txn == [pc : Statements, id : Intents, req : Asked, blob : Blobs \cup {NoTx},
        current : IntentStatuses, outcome : Outcomes]

\* A caller without a transaction knows its last answer.
Closed(outcome) == [pc |-> "idle", outcome |-> outcome]

\* The columns a transaction gives its row besides status.
New(t) == IF t.blob = NoTx THEN row[t.id] ELSE [row[t.id] EXCEPT !.blob = t.blob]

\* It has a row version of its own, which no other transaction reads.
InAccountIndex(c) == txn[c].pc \in {"index", "audit", "commit"}
InHashIndex(c) == txn[c].pc \in {"audit", "commit"}

TransitionsInit ==
    /\ row = [i \in Intents |-> [status |-> "CREATED", blob |-> NoTx]]
    /\ lock = [i \in Intents |-> Nobody]
    /\ audit = [i \in Intents |-> {[id |-> 0, from |-> "null", to |-> "CREATED", by |-> Nobody]}]
    /\ txn = [c \in Callers |-> Closed("none")]

\* BEGIN.  Only an accepted signature brings a hash.
Begin(c, i, q) ==
    /\ txn[c].pc = "idle"
    /\ \E b \in IF q.to = "SIGNED" THEN Blobs ELSE {NoTx} :
          txn' = [txn EXCEPT ![c] = [pc |-> "select", id |-> i, req |-> q, blob |-> b,
                                     current |-> "CREATED", outcome |-> "none"]]
    /\ UNCHANGED <<row, lock, audit>>

\* Mutant: the row is read without FOR UPDATE.
SelectUnlocked(c) ==
    /\ txn[c].pc = "select"
    /\ txn' = [txn EXCEPT ![c] = [@ EXCEPT !.current = row[txn[c].id].status, !.pc = "update"]]
    /\ row[txn[c].id].status \in txn[c].req.from
    /\ CanTransition(row[txn[c].id].status, txn[c].req.to)
    /\ UNCHANGED <<row, lock, audit>>

\* SELECT status ... FOR UPDATE waits for the row, then reads what is committed.
SelectForUpdate(c) ==
    LET t == txn[c]  current == row[t.id].status IN
    /\ t.pc = "select"
    /\ lock[t.id] = Nobody
    /\ lock' = [lock EXCEPT ![t.id] = c]
    /\ \/ /\ current \notin t.req.from
          /\ txn' = [txn EXCEPT ![c] = [t EXCEPT !.pc = "leave", !.current = current,
                                                 !.outcome = "undefined"]]
       \/ /\ current \in t.req.from /\ ~CanTransition(current, t.req.to)
          /\ txn' = [txn EXCEPT ![c] = [t EXCEPT !.pc = "rollback", !.current = current,
                                                 !.outcome = "illegal"]]
       \/ /\ current \in t.req.from /\ CanTransition(current, t.req.to)
          /\ txn' = [txn EXCEPT ![c] = [t EXCEPT !.pc = "update", !.current = current]]
    /\ UNCHANGED <<row, audit>>

SameAccount(i) == {j \in Intents \ {i} : AccountOf[j] = AccountOf[i]}

\* Mutant: a row version another transaction has not committed is no conflict.
AccountNeverAwaited(c) == FALSE

\* The index of the account holds a version some open transaction adds or removes.
AccountAwaited(c) ==
    \E d \in Callers \ {c} :
        /\ InAccountIndex(d) /\ txn[d].id \in SameAccount(txn[c].id)
        /\ txn[d].req.to \in SequenceActive \/ row[txn[d].id].status \in SequenceActive

\* The same for the index of the hash.
HashAwaited(c) ==
    \E d \in Callers \ {c} :
        /\ InHashIndex(d) /\ txn[d].id # txn[c].id
        /\ New(txn[c]).blob \in {New(txn[d]).blob, row[txn[d].id].blob}

\* UPDATE puts the new version into the indexes it satisfies, in their order; each
\* waits for the transactions its answer depends on, or raises a unique violation.
UpdateAccountIndex(c) ==
    LET t == txn[c] IN
    /\ t.pc = "update"
    /\ \/ /\ t.req.to \notin SequenceActive
          /\ txn' = [txn EXCEPT ![c].pc = "index"]
       \/ /\ t.req.to \in SequenceActive /\ ~AccountAwaited(c)
          /\ txn' = IF \E j \in SameAccount(t.id) : row[j].status \in SequenceActive
                    THEN [txn EXCEPT ![c] = [t EXCEPT !.pc = "rollback", !.outcome = "busy"]]
                    ELSE [txn EXCEPT ![c].pc = "index"]
    /\ UNCHANGED <<row, lock, audit>>

UpdateHashIndex(c) ==
    LET t == txn[c] IN
    /\ t.pc = "index"
    /\ \/ /\ New(t).blob = NoTx
          /\ txn' = [txn EXCEPT ![c].pc = "audit"]
       \/ /\ New(t).blob # NoTx /\ ~HashAwaited(c)
          /\ txn' = IF \E j \in Intents \ {t.id} : row[j].blob = New(t).blob
                    THEN [txn EXCEPT ![c] = [t EXCEPT !.pc = "rollback", !.outcome = "hash"]]
                    ELSE [txn EXCEPT ![c].pc = "audit"]
    /\ UNCHANGED <<row, lock, audit>>

\* The bigserial id an audit row draws is beyond those drawn before it.  Only the
\* order of ids is observed, so one that was rolled back may be drawn again.
NextId(rows) == 1 + CHOOSE n \in {e.id : e \in rows} : \A e \in rows : e.id <= n

Drawn(c, from, to, by) ==
    LET rows == audit[txn[c].id]
    IN  [audit EXCEPT ![txn[c].id] =
            rows \cup {[id |-> NextId(rows), from |-> from, to |-> to, by |-> by]}]

\* Mutant: the reason code goes into the column of the status.
InsertAuditSwapped(c) ==
    /\ txn[c].pc = "audit"
    /\ audit' = Drawn(c, txn[c].current, "TRANSACTION_PREPARED", c)
    /\ txn' = [txn EXCEPT ![c].pc = "commit"]
    /\ UNCHANGED <<row, lock>>

\* Mutant: the audit row is inserted through the pool, outside the transaction.
InsertAuditOutside(c) ==
    /\ txn[c].pc = "audit"
    /\ audit' = Drawn(c, txn[c].current, txn[c].req.to, Nobody)
    /\ txn' = [txn EXCEPT ![c].pc = "commit"]
    /\ UNCHANGED <<row, lock>>

\* TransitionsRepository.insert().
InsertAudit(c) ==
    /\ txn[c].pc = "audit"
    /\ audit' = Drawn(c, txn[c].current, txn[c].req.to, c)
    /\ txn' = [txn EXCEPT ![c].pc = "commit"]
    /\ UNCHANGED <<row, lock>>

\* The transaction is over: its locks go, and the caller has its answer.
End(c, outcome) ==
    /\ lock' = [i \in Intents |-> IF lock[i] = c THEN Nobody ELSE lock[i]]
    /\ txn' = [txn EXCEPT ![c] = Closed(outcome)]

\* COMMIT; its answer may be lost on the way back.
Commit(c) ==
    LET t == txn[c] IN
    /\ t.pc = "commit"
    /\ row' = [row EXCEPT ![t.id] = [New(t) EXCEPT !.status = t.req.to]]
    /\ audit' = [audit EXCEPT ![t.id] = {[e EXCEPT !.by = IF e.by = c THEN Nobody ELSE e.by] : e \in @}]
    /\ \E outcome \in {"updated", "error"} : End(c, outcome)

\* Mutant: an intent that is no longer in an expected state keeps its lock.
LeaveLocked(c) ==
    /\ txn[c].pc = "leave"
    /\ txn' = [txn EXCEPT ![c] = Closed("undefined")]
    /\ UNCHANGED <<row, audit, lock>>

\* The COMMIT of a transaction that wrote nothing.
Leave(c) ==
    /\ txn[c].pc = "leave"
    /\ End(c, txn[c].outcome)
    /\ UNCHANGED <<row, audit>>

\* Nothing of an aborted transaction is left.
Discard(c, outcome) ==
    /\ End(c, outcome)
    /\ audit' = [i \in Intents |-> {e \in audit[i] : e.by # c}]
    /\ UNCHANGED row

\* ROLLBACK after an exception.
Rollback(c) == txn[c].pc = "rollback" /\ Discard(c, txn[c].outcome)

\* A statement fails, or the connection is lost before COMMIT reaches the server.
Fail(c) == txn[c].pc # "idle" /\ Discard(c, "error")

Step(c) == \/ SelectForUpdate(c) \/ UpdateAccountIndex(c) \/ UpdateHashIndex(c)
           \/ InsertAudit(c) \/ Commit(c) \/ Leave(c) \/ Rollback(c)

TransitionsNext ==
    \E c \in Callers : \/ \E i \in Intents, q \in Asked : Begin(c, i, q)
                       \/ Step(c)
                       \/ Fail(c)

\* PostgreSQL serves a lock in the order of its queue, so a transaction that can
\* go on again and again does; every other statement ends.  None has to fail.
TransitionsSpec ==
    /\ TransitionsInit /\ [][TransitionsNext]_tableVars
    /\ \A c \in Callers : SF_tableVars(Step(c))

-------------------------------------------------------------------------------
(* What is checked.                                                        *)

TransitionsTypeOK ==
    /\ row \in [Intents -> Columns]
    /\ lock \in [Intents -> Callers \cup {Nobody}]
    /\ audit \in [Intents -> SUBSET AuditRow]
    /\ txn \in [Callers -> Txn \cup {Closed(outcome) : outcome \in Outcomes}]

\* IntentStore over the committed rows; of the network it needs nothing.
Store == INSTANCE IntentStore WITH
    Payloads <- {}, PayloadOf <- <<>>, Keys <- {}, AuthorizedKeys <- {}, MaxLedger <- 1,
    MaxLag <- 0, MaxExternal <- 0, closed <- 1, chain <- {}, minted <- {}, banned <- {}

Asks(c, outcome) ==
    LET t == txn[c] IN
    /\ t.pc # "idle"
    /\ outcome = Store!TransitionResult(t.id, t.req.from, t.req.to, New(t))
    /\ Store!Transition(t.id, t.req.from, t.req.to, New(t))

\* transition() is the atomic step IntentStore takes it for: every answer but a
\* failed statement is what the one-step transition answers when it is decided,
\* and the committed rows change only as the one-step transition changes them,
\* with several transactions open and unique indexes that look at rows nobody
\* has committed (intents.repository.ts:101-141, schema.ts:82-90).
ImplementsTransition ==
    [][/\ \A c \in Callers :
              /\ txn'[c].outcome # txn[c].outcome
              /\ txn'[c].outcome \notin {"none", "error"}
              => Asks(c, txn'[c].outcome)
       /\ row' # row => \E c \in Callers : Asks(c, "updated")]_tableVars

\* listByIntent(): the committed audit rows of an intent.
Trail(i) == {e \in audit[i] : e.by = Nobody}

\* e is the next row after d where the trail is read in id order.
Follows(e, d, trail) == d.id < e.id /\ ~\E f \in trail : d.id < f.id /\ f.id < e.id

\* The trail of an intent is its history: it starts with its creation, every entry
\* continues the one before along the transition table, and the last one is the
\* status of the row (ARCHITECTURE.md:21, :36; transitions.repository.ts:15-37).
TrailIsHistory ==
    \A i \in Intents :
        LET trail == Trail(i) IN
        /\ \E first \in trail :
              /\ first.from = "null" /\ first.to = "CREATED"
              /\ \A e \in trail \ {first} : first.id < e.id
        /\ \E last \in trail :
              /\ last.to = row[i].status
              /\ \A e \in trail \ {last} : e.id < last.id
        /\ \A d, e \in trail :
              Follows(e, d, trail) => e.from = d.to /\ CanTransition(e.from, e.to)

\* Append-only for its readers: no entry is lost or changed, and an id drawn before
\* another one never appears after it (ARCHITECTURE.md:153 "`intent_transitions` is
\* append-only").
TrailIsAppendOnly ==
    [][\A i \in Intents :
          /\ Trail(i) \subseteq Trail(i)'
          /\ \A e \in Trail(i)' \ Trail(i), d \in Trail(i) : d.id < e.id]_tableVars

\* Waiting for row locks and for uncommitted index entries never becomes a circle,
\* and no way out of the transaction keeps a lock (database.service.ts:26-29).
TransitionsEnd == \A c \in Callers : txn[c].pc # "idle" ~> txn[c].pc = "idle"
==============================================================================
