---------------------------- MODULE IntentCreation ----------------------------
(***************************************************************************)
(* POST and GET /intents: IntentsService.create and list                   *)
(* (src/intents/intents.service.ts) with the statements they send through  *)
(* IntentsRepository.  A step is one SQL statement or one COMMIT, under    *)
(* PostgreSQL's READ COMMITTED: a statement sees what was committed before *)
(* it, and an INSERT that meets an uncommitted row with its key waits for  *)
(* that row's transaction to end.                                          *)
(***************************************************************************)
EXTENDS Naturals, FiniteSets

CONSTANTS
    IdempotencyKeys,
    Bodies,       \* what a request asks for, but for its optional field
    Ids,          \* UUIDs, with the order PostgreSQL compares them by
    Callers,      \* concurrent POST requests
    Limit,        \* page size of a listing
    MaxTime       \* bound: milliseconds that pass

ASSUME CreationAssumption ==
    /\ Ids \subseteq Nat \ {0}
    /\ Limit \in Nat \ {0}
    /\ MaxTime \in Nat

VARIABLES
    now,       \* the service's clock, in milliseconds
    table,     \* committed rows of transaction_intents
    audit,     \* ids with a committed INTENT_CREATED transition
    prepared,  \* ids whose status is no longer CREATED
    req,       \* each POST request
    walk       \* a client that follows nextCursor from the first page on

vars == <<now, table, audit, prepared, req, walk>>

\* destinationTag may be left out or null.
Dtos == [body : Bodies, tag : {"omitted", "null"}]

ToCanonicalIntent(dto) ==
    [body |-> dto.body, tag |-> IF dto.tag = "omitted" THEN "null" ELSE dto.tag]

\* SHA-256 of the canonical JSON, which has a fixed field order: equal for equal
\* canonical intents and different for different ones.
RequestHash(payload) == <<payload.body, payload.tag>>

NoReq == [pc |-> "idle", id |-> 0, key |-> "none", hash |-> <<>>, body |-> "none",
          at |-> 0, answer |-> "none"]

NoCursor == [at |-> 0, id |-> 0]

NoWalk == [pc |-> "idle", filter |-> "none", cursor |-> NoCursor, seen |-> {}, again |-> {}, must |-> {}]

CreationInit ==
    /\ now = 0
    /\ table = {}
    /\ audit = {}
    /\ prepared = {}
    /\ req = [c \in Callers |-> NoReq]
    /\ walk = NoWalk

Tick ==
    /\ now < MaxTime
    /\ now' = now + 1
    /\ UNCHANGED <<table, audit, prepared, req, walk>>

-------------------------------------------------------------------------------
(* Creation.                                                               *)

StoredRow(c) == [id |-> req[c].id, key |-> req[c].key, hash |-> req[c].hash,
                 body |-> req[c].body, at |-> req[c].at]

\* The transaction of c holds an inserted row it has not committed.
Inserted(c) == req[c].pc \in {"audit", "commit"}

\* The request is over; the properties compare what it asked for and was told.
Answer(c, answer, id) ==
    req' = [req EXCEPT ![c] = [NoReq EXCEPT !.pc = "done", !.id = id, !.key = req[c].key,
                                            !.hash = req[c].hash, !.answer = answer]]

Fail(c) == req' = [req EXCEPT ![c] = NoReq]

\* created_at is taken before the transaction begins.
StartCreate(c) ==
    /\ req[c].pc \in {"idle", "done"}
    /\ \E key \in IdempotencyKeys, dto \in Dtos,
          id \in Ids \ ({r.id : r \in table} \cup {req[d].id : d \in Callers}) :
             req' = [req EXCEPT ![c] = [pc |-> "insert", id |-> id, key |-> key,
                                        hash |-> RequestHash(ToCanonicalIntent(dto)),
                                        body |-> dto.body, at |-> now, answer |-> "none"]]
    /\ UNCHANGED <<now, table, audit, prepared, walk>>

\* Mutant: the unique constraint on idempotency_key is missing.
KeyNeverTaken(key) == FALSE

KeyTaken(key) == \E r \in table : r.key = key

\* INSERT ... ON CONFLICT DO NOTHING.
Insert(c) ==
    /\ req[c].pc = "insert"
    /\ ~\E d \in Callers \ {c} : Inserted(d) /\ req[d].key = req[c].key
    /\ req' = [req EXCEPT ![c].pc = IF KeyTaken(req[c].key) THEN "select" ELSE "audit"]
    /\ UNCHANGED <<now, table, audit, prepared, walk>>

\* Mutant: the audit row is written outside the transaction.
InsertAuditAtOnce(c) ==
    /\ req[c].pc = "audit"
    /\ req' = [req EXCEPT ![c].pc = "commit"]
    /\ audit' = audit \cup {req[c].id}
    /\ UNCHANGED <<now, table, prepared, walk>>

InsertAudit(c) ==
    /\ req[c].pc = "audit"
    /\ req' = [req EXCEPT ![c].pc = "commit"]
    /\ UNCHANGED <<now, table, audit, prepared, walk>>

\* The caller may never hear of a commit that took place: it will retry.
Commit(c) ==
    /\ req[c].pc = "commit"
    /\ table' = table \cup {StoredRow(c)}
    /\ audit' = audit \cup {req[c].id}
    /\ Answer(c, "created", req[c].id) \/ Fail(c)
    /\ UNCHANGED <<now, prepared, walk>>

\* The key was taken: the row that holds it is the answer if it stands for the
\* same request.
SelectExisting(c) ==
    /\ req[c].pc = "select"
    /\ IF KeyTaken(req[c].key)
       THEN LET r == CHOOSE r \in table : r.key = req[c].key
            IN  IF r.hash = req[c].hash THEN Answer(c, "existing", r.id)
                ELSE Answer(c, "IDEMPOTENCY_KEY_REUSED", r.id)
       ELSE Answer(c, "conflict without an existing row", 0)
    /\ UNCHANGED <<now, table, audit, prepared, walk>>

\* A statement fails, or the process dies: the transaction rolls back.
Rollback(c) ==
    /\ req[c].pc \in {"insert", "audit", "commit", "select"}
    /\ Fail(c)
    /\ UNCHANGED <<now, table, audit, prepared, walk>>

-------------------------------------------------------------------------------
(* Listing, newest first.                                                  *)

\* Mutant: rows that share the cursor's millisecond are taken for read.
BeforeByTime(r, s) == r.at < s.at

\* r comes after s in a listing.
Before(r, s) == r.at < s.at \/ (r.at = s.at /\ r.id < s.id)

\* The n newest rows of S.
Newest(S, n) == {r \in S : Cardinality({q \in S : q.at > r.at \/ (q.at = r.at /\ q.id > r.id)}) < n}

\* The query filters by type or account, by status, or not at all.
Filters == Bodies \cup {"any", "CREATED", "PREPARED"}
Matches(r, filter) ==
    \/ filter \in {"any", r.body}
    \/ filter = IF r.id \in prepared THEN "PREPARED" ELSE "CREATED"

\* A service changes the status of an intent while a client reads on.
StatusChanges ==
    /\ \E r \in {q \in table : q.id \notin prepared} :
          /\ prepared' = prepared \cup {r.id}
          /\ walk' = IF walk.filter = "CREATED" THEN [walk EXCEPT !.must = @ \ {r.id}] ELSE walk
    /\ UNCHANGED <<now, table, audit, req>>

\* encodeCursor, then decodeCursor: created_at has whole milliseconds, so the
\* ISO string and the id survive.
CursorOf(r) == [at |-> r.at, id |-> r.id]

StartWalk ==
    /\ walk.pc \in {"idle", "done"}
    /\ \E filter \in Filters :
          walk' = [NoWalk EXCEPT !.pc = "walking", !.filter = filter,
                                 !.must = {r.id : r \in {q \in table : Matches(q, filter)}}]
    /\ UNCHANGED <<now, table, audit, prepared, req>>

\* One row more than the page is read to tell whether there is another page.
ReadPage ==
    /\ walk.pc = "walking"
    /\ LET rows == {r \in table : /\ Matches(r, walk.filter)
                                  /\ walk.cursor = NoCursor \/ Before(r, walk.cursor)}
           page == Newest(rows, Limit)
           ids  == {r.id : r \in page}
           last == CHOOSE r \in page : Newest(page, Cardinality(page) - 1) = page \ {r}
           more == Cardinality(Newest(rows, Limit + 1)) > Limit
       IN  walk' = [walk EXCEPT !.pc     = IF more THEN "walking" ELSE "done",
                                !.cursor = IF more THEN CursorOf(last) ELSE NoCursor,
                                !.seen   = walk.seen \cup ids,
                                !.again  = walk.again \cup (walk.seen \cap ids)]
    /\ UNCHANGED <<now, table, audit, prepared, req>>

Next ==
    \/ Tick
    \/ \E c \in Callers : \/ StartCreate(c) \/ Insert(c) \/ InsertAudit(c) \/ Commit(c)
                          \/ SelectExisting(c) \/ Rollback(c)
    \/ StatusChanges \/ StartWalk \/ ReadPage

Spec == CreationInit /\ [][Next]_vars

-------------------------------------------------------------------------------
(* Properties.                                                             *)

\* However creations with one Idempotency-Key race, fail half way or are retried
\* after a commit nobody heard of, one intent holds the key; a caller is answered
\* with it exactly when it stands for the caller's request, and the loser of a
\* race always finds the winner's row.
AnswersMatchTable ==
    /\ \A r, s \in table : r.key = s.key => r = s
    /\ \A c \in Callers :
          /\ req[c].answer \in {"created", "existing"} =>
                 \E r \in table : r.id = req[c].id /\ r.key = req[c].key /\ r.hash = req[c].hash
          /\ req[c].answer = "IDEMPOTENCY_KEY_REUSED" =>
                 \E r \in table : r.key = req[c].key /\ r.hash # req[c].hash
          /\ req[c].answer # "conflict without an existing row"

\* The audit trail begins with the intent: no intent is without its creation
\* entry and no entry without its intent, wherever a creation failed.
AuditMatchesTable == audit = {r.id : r \in table}

\* A client that follows nextCursor to the end is given every intent that matched its
\* filter throughout, and none twice, although intents share a millisecond, others are
\* committed with older ones while it reads, and the row its cursor names may meanwhile
\* have left the filter.
WalkSeesAll ==
    /\ walk.again = {}
    /\ walk.pc = "done" => walk.must \subseteq walk.seen
===============================================================================
