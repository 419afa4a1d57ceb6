-------------------------- MODULE IntentCreationProofs --------------------------
(***************************************************************************)
(* Proofs about IntentCreation, for any keys, bodies, ids and callers.     *)
(***************************************************************************)
EXTENDS IntentCreation, FiniteSetTheorems, TLAPS

Hashes == {RequestHash(ToCanonicalIntent(dto)) : dto \in Dtos} \cup {<<>>}

Answers == {"none", "created", "existing", "IDEMPOTENCY_KEY_REUSED",
            "conflict without an existing row"}

Req == [pc : {"idle", "insert", "audit", "commit", "select", "done"}, id : Ids \cup {0},
        key : IdempotencyKeys \cup {"none"}, hash : Hashes, body : Bodies \cup {"none"},
        at : Nat, answer : Answers]

StoredRows == [id : Ids \cup {0}, key : IdempotencyKeys \cup {"none"}, hash : Hashes,
               body : Bodies \cup {"none"}, at : Nat]

CreationTypeOK ==
    /\ now \in Nat
    /\ table \subseteq StoredRows
    /\ req \in [Callers -> Req]

\* One committed row has an Idempotency-Key.
KeysUnique == \A r, s \in table : r.key = s.key => r = s

\* The key of an uncommitted row is nobody else's, committed or not.
UncommittedKeysFree ==
    \A c \in Callers : Inserted(c) =>
        /\ ~KeyTaken(req[c].key)
        /\ \A d \in Callers : Inserted(d) /\ req[d].key = req[c].key => d = c

\* The statement that follows ON CONFLICT DO NOTHING has a row to find: the row the
\* INSERT met was committed.
SelectsFind == \A c \in Callers : req[c].pc = "select" => KeyTaken(req[c].key)

\* What a caller was told.
AnswerFine(q) ==
    /\ q.answer \in {"created", "existing"} =>
           \E r \in table : r.id = q.id /\ r.key = q.key /\ r.hash = q.hash
    /\ q.answer = "IDEMPOTENCY_KEY_REUSED" =>
           \E r \in table : r.key = q.key /\ r.hash # q.hash
    /\ q.answer # "conflict without an existing row"

CreationInv ==
    /\ CreationTypeOK
    /\ KeysUnique
    /\ UncommittedKeysFree
    /\ SelectsFind
    /\ \A c \in Callers : AnswerFine(req[c])
    /\ AuditMatchesTable

-------------------------------------------------------------------------------
LEMMA CreationInitially == CreationInit => CreationInv
<1> SUFFICES ASSUME CreationInit PROVE CreationInv
  OBVIOUS
<1>1. NoReq \in Req
  BY DEF NoReq, Req, Hashes, Answers
<1>2. CreationTypeOK
  BY <1>1 DEF CreationInit, CreationTypeOK
<1>3. \A c \in Callers : req[c].pc = "idle" /\ req[c].answer = "none"
  BY DEF CreationInit, NoReq
<1>4. QED
  BY <1>2, <1>3 DEF CreationInit, CreationInv, KeysUnique, UncommittedKeysFree, Inserted, SelectsFind,
     AnswerFine, AuditMatchesTable

\* A caller moves on while the table stays: the others keep what they have.
LEMMA CallerMoves ==
    ASSUME CreationInv, NEW c \in Callers, NEW q \in Req, req' = [req EXCEPT ![c] = q],
           UNCHANGED <<now, table, audit>>,
           q.pc \in {"audit", "commit"} =>
               /\ ~KeyTaken(q.key)
               /\ \A d \in Callers \ {c} : ~(Inserted(d) /\ req[d].key = q.key),
           q.pc = "select" => KeyTaken(q.key),
           AnswerFine(q)
    PROVE  CreationInv'
<1>1. req'[c] = q /\ \A d \in Callers \ {c} : req'[d] = req[d]
  BY DEF CreationInv, CreationTypeOK
<1>2. CreationTypeOK'
  BY DEF CreationInv, CreationTypeOK
<1>3. UncommittedKeysFree'
  <2> SUFFICES ASSUME NEW d \in Callers, Inserted(d)'
               PROVE  /\ ~KeyTaken(req'[d].key)
                      /\ \A e \in Callers : Inserted(e)' /\ req'[e].key = req'[d].key => e = d
    BY DEF UncommittedKeysFree, KeyTaken
  <2>1. CASE d = c
    BY <1>1, <2>1 DEF Inserted
  <2>2. CASE d # c
    BY <1>1, <2>2 DEF CreationInv, UncommittedKeysFree, Inserted
  <2>3. QED
    BY <2>1, <2>2
<1>4. SelectsFind' /\ \A d \in Callers : AnswerFine(req[d])'
  <2> SUFFICES ASSUME NEW d \in Callers
               PROVE  (req[d].pc = "select" => KeyTaken(req[d].key))' /\ AnswerFine(req[d])'
    BY DEF SelectsFind
  <2>1. CASE d = c
    BY <1>1, <2>1 DEF KeyTaken, AnswerFine
  <2>2. CASE d # c
    <3>1. req'[d] = req[d] /\ table' = table
      BY <1>1, <2>2
    <3>2. (req[d].pc = "select" => KeyTaken(req[d].key)) /\ AnswerFine(req[d])
      BY DEF CreationInv, SelectsFind
    <3>3. QED
      BY <3>1, <3>2 DEF KeyTaken, AnswerFine
  <2>3. QED
    BY <2>1, <2>2
<1>5. KeysUnique' /\ AuditMatchesTable'
  BY DEF CreationInv, KeysUnique, AuditMatchesTable
<1>6. QED
  BY <1>2, <1>3, <1>4, <1>5 DEF CreationInv

\* Answers and failures end a request.
LEMMA CallerEnds ==
    ASSUME CreationInv, NEW c \in Callers, NEW q \in Req, req' = [req EXCEPT ![c] = q],
           UNCHANGED <<now, table, audit>>, q.pc \in {"idle", "done"}, AnswerFine(q)
    PROVE  CreationInv'
  BY CallerMoves

LEMMA StartCreateKeeps ==
    ASSUME CreationInv, NEW c \in Callers, StartCreate(c)
    PROVE  CreationInv'
<1>1. PICK key \in IdempotencyKeys, dto \in Dtos, id \in Ids :
           req' = [req EXCEPT ![c] = [pc |-> "insert", id |-> id, key |-> key,
                                      hash |-> RequestHash(ToCanonicalIntent(dto)),
                                      body |-> dto.body, at |-> now, answer |-> "none"]]
  BY DEF StartCreate
<1> DEFINE q == [pc |-> "insert", id |-> id, key |-> key, hash |-> RequestHash(ToCanonicalIntent(dto)),
                 body |-> dto.body, at |-> now, answer |-> "none"]
<1>2. q \in Req
  <2>1. RequestHash(ToCanonicalIntent(dto)) \in Hashes
    BY DEF Hashes
  <2>2. dto.body \in Bodies /\ now \in Nat
    BY DEF Dtos, CreationInv, CreationTypeOK
  <2>3. QED
    BY <2>1, <2>2 DEF Req, Answers
<1>3. q.pc = "insert" /\ AnswerFine(q) /\ req' = [req EXCEPT ![c] = q]
  BY <1>1 DEF AnswerFine
<1> HIDE DEF q
<1>4. QED
  BY <1>2, <1>3, CallerMoves DEF StartCreate

LEMMA InsertKeeps ==
    ASSUME CreationInv, NEW c \in Callers, Insert(c)
    PROVE  CreationInv'
<1>1. PICK q : q = [req[c] EXCEPT !.pc = IF KeyTaken(req[c].key) THEN "select" ELSE "audit"]
  OBVIOUS
<1>2. req[c] \in Req
  BY DEF CreationInv, CreationTypeOK
<1>3. /\ q \in Req /\ q.key = req[c].key /\ AnswerFine(q)
      /\ q.pc = IF KeyTaken(req[c].key) THEN "select" ELSE "audit"
  BY <1>1, <1>2 DEF Req, AnswerFine, CreationInv
<1>4. req' = [req EXCEPT ![c] = q]
  BY <1>1, <1>2 DEF Insert, CreationInv, CreationTypeOK
<1>5. q.pc = "audit" => \A d \in Callers \ {c} : ~(Inserted(d) /\ req[d].key = q.key)
  BY <1>3 DEF Insert
<1>6. q.pc \in {"audit", "select"} /\ (q.pc = "audit" <=> ~KeyTaken(q.key))
  BY <1>3
<1>7. QED
  BY <1>3, <1>4, <1>5, <1>6, CallerMoves DEF Insert

LEMMA InsertAuditKeeps ==
    ASSUME CreationInv, NEW c \in Callers, InsertAudit(c)
    PROVE  CreationInv'
<1>1. PICK q : q = [req[c] EXCEPT !.pc = "commit"]
  OBVIOUS
<1>2. req[c] \in Req /\ Inserted(c)
  BY DEF CreationInv, CreationTypeOK, InsertAudit, Inserted
<1>3. q \in Req /\ q.key = req[c].key /\ q.pc = "commit" /\ AnswerFine(q)
  BY <1>1, <1>2 DEF Req, AnswerFine, CreationInv
<1>4. req' = [req EXCEPT ![c] = q]
  BY <1>1, <1>2 DEF InsertAudit, CreationInv, CreationTypeOK
<1>5. QED
  BY <1>2, <1>3, <1>4, CallerMoves DEF InsertAudit, CreationInv, UncommittedKeysFree

\* The row whose key was free is committed with its audit entry, heard of or not.
LEMMA CommitKeeps ==
    ASSUME CreationInv, NEW c \in Callers, Commit(c)
    PROVE  CreationInv'
<1>1. req[c] \in Req /\ Inserted(c)
  BY DEF CreationInv, CreationTypeOK, Commit, Inserted
<1>2. PICK s : s = StoredRow(c)
  OBVIOUS
<1>3. /\ s \in StoredRows /\ s.id = req[c].id /\ s.key = req[c].key /\ s.hash = req[c].hash
      /\ table' = table \cup {s} /\ audit' = audit \cup {s.id}
  BY <1>1, <1>2 DEF StoredRow, StoredRows, Req, Commit
<1>4. PICK q \in Req : /\ req' = [req EXCEPT ![c] = q]
                       /\ q.pc \in {"idle", "done"}
                       /\ q.answer = "none" \/ (/\ q.answer = "created" /\ q.id = s.id
                                                /\ q.key = s.key /\ q.hash = s.hash)
  <2>1. NoReq \in Req /\ NoReq.pc = "idle" /\ NoReq.answer = "none"
    BY DEF NoReq, Req, Hashes, Answers
  <2>2. [NoReq EXCEPT !.pc = "done", !.id = req[c].id, !.key = req[c].key,
                      !.hash = req[c].hash, !.answer = "created"] \in Req
    BY <1>1 DEF NoReq, Req, Hashes, Answers
  <2>3. CASE Fail(c)
    BY <2>1, <2>3 DEF Fail
  <2>4. CASE Answer(c, "created", req[c].id)
    <3> DEFINE q == [NoReq EXCEPT !.pc = "done", !.id = req[c].id, !.key = req[c].key,
                                  !.hash = req[c].hash, !.answer = "created"]
    <3>1. /\ q.pc = "done" /\ q.answer = "created" /\ q.id = s.id
          /\ q.key = s.key /\ q.hash = s.hash /\ req' = [req EXCEPT ![c] = q]
      BY <1>3, <2>4 DEF Answer, NoReq
    <3> HIDE DEF q
    <3>2. q \in Req
      BY <2>2 DEF q
    <3>3. QED
      BY <3>1, <3>2
  <2>5. QED
    BY <2>3, <2>4 DEF Commit
<1>5. req'[c] = q /\ \A d \in Callers \ {c} : req'[d] = req[d]
  BY <1>4 DEF CreationInv, CreationTypeOK
<1>6. CreationTypeOK'
  BY <1>3, <1>4 DEF CreationInv, CreationTypeOK, Commit
<1>7. KeysUnique' /\ AuditMatchesTable'
  <2>1. \A r \in table : r.key # s.key
    BY <1>1, <1>3 DEF CreationInv, UncommittedKeysFree, KeyTaken
  <2>2. QED
    BY <1>3, <2>1 DEF CreationInv, KeysUnique, AuditMatchesTable
<1>8. UncommittedKeysFree'
  <2> SUFFICES ASSUME NEW d \in Callers, Inserted(d)'
               PROVE  /\ \A r \in table' : r.key # req'[d].key
                      /\ \A e \in Callers : Inserted(e)' /\ req'[e].key = req'[d].key => e = d
    BY DEF UncommittedKeysFree, KeyTaken
  <2>1. d # c /\ Inserted(d) /\ req'[d] = req[d]
    BY <1>4, <1>5 DEF Inserted
  <2>2. req[d].key # s.key /\ \A r \in table : r.key # req[d].key
    BY <1>1, <1>3, <2>1 DEF CreationInv, UncommittedKeysFree, KeyTaken
  <2>3. \A e \in Callers : Inserted(e)' => e # c /\ Inserted(e) /\ req'[e] = req[e]
    BY <1>4, <1>5 DEF Inserted
  <2>4. QED
    BY <1>3, <2>1, <2>2, <2>3 DEF CreationInv, UncommittedKeysFree
<1>9. SelectsFind' /\ \A d \in Callers : AnswerFine(req[d])'
  <2> SUFFICES ASSUME NEW d \in Callers
               PROVE  (req[d].pc = "select" => KeyTaken(req[d].key))' /\ AnswerFine(req[d])'
    BY DEF SelectsFind
  <2>1. CASE d = c
    BY <1>3, <1>4, <1>5, <2>1 DEF AnswerFine
  <2>2. CASE d # c
    <3>1. req'[d] = req[d] /\ table \subseteq table'
      BY <1>3, <1>5, <2>2
    <3>2. (req[d].pc = "select" => KeyTaken(req[d].key)) /\ AnswerFine(req[d])
      BY DEF CreationInv, SelectsFind
    <3>3. QED
      BY <3>1, <3>2 DEF KeyTaken, AnswerFine
  <2>3. QED
    BY <2>1, <2>2
<1>10. QED
  BY <1>6, <1>7, <1>8, <1>9 DEF CreationInv

\* The loser of a race finds the winner's row.
LEMMA SelectKeeps ==
    ASSUME CreationInv, NEW c \in Callers, SelectExisting(c)
    PROVE  CreationInv'
<1>1. req[c] \in Req /\ KeyTaken(req[c].key)
  BY DEF CreationInv, CreationTypeOK, SelectExisting, SelectsFind
<1>2. PICK r : r = CHOOSE s \in table : s.key = req[c].key
  OBVIOUS
<1>3. r \in table /\ r.key = req[c].key
  BY <1>1, <1>2, Zenon DEF KeyTaken
<1>4. r \in StoredRows
  BY <1>3 DEF CreationInv, CreationTypeOK
<1>5. PICK a \in {"existing", "IDEMPOTENCY_KEY_REUSED"} :
          /\ Answer(c, a, r.id)
          /\ a = "existing" <=> r.hash = req[c].hash
  BY <1>1, <1>2 DEF SelectExisting
<1>6. PICK q : q = [NoReq EXCEPT !.pc = "done", !.id = r.id, !.key = req[c].key,
                                 !.hash = req[c].hash, !.answer = a]
  OBVIOUS
<1>7. /\ q \in Req /\ q.pc = "done" /\ q.answer = a /\ q.id = r.id
      /\ q.key = req[c].key /\ q.hash = req[c].hash
  BY <1>1, <1>4, <1>6 DEF NoReq, Req, Answers, StoredRows
<1>8. req' = [req EXCEPT ![c] = q]
  BY <1>5, <1>6 DEF Answer
<1>9. AnswerFine(q)
  BY <1>3, <1>5, <1>7 DEF AnswerFine
<1>10. QED
  BY <1>7, <1>8, <1>9, CallerEnds DEF SelectExisting

LEMMA RollbackKeeps ==
    ASSUME CreationInv, NEW c \in Callers, Rollback(c)
    PROVE  CreationInv'
<1>1. NoReq \in Req /\ NoReq.pc = "idle" /\ AnswerFine(NoReq)
  BY DEF NoReq, Req, Hashes, Answers, AnswerFine
<1>2. QED
  BY <1>1, CallerEnds DEF Rollback, Fail

LEMMA CreationNextKeeps == CreationInv /\ [Next]_vars => CreationInv'
<1> SUFFICES ASSUME CreationInv, [Next]_vars PROVE CreationInv'
  OBVIOUS
<1>1. CASE Tick
  <2>1. now' \in Nat /\ UNCHANGED <<table, audit, req>>
    BY <1>1 DEF Tick, CreationInv, CreationTypeOK
  <2>2. QED
    BY <2>1 DEF CreationInv, CreationTypeOK, KeysUnique, UncommittedKeysFree, Inserted, KeyTaken,
       SelectsFind, AnswerFine, AuditMatchesTable
<1>2. CASE \E c \in Callers : \/ StartCreate(c) \/ Insert(c) \/ InsertAudit(c) \/ Commit(c)
                              \/ SelectExisting(c) \/ Rollback(c)
  BY <1>2, StartCreateKeeps, InsertKeeps, InsertAuditKeeps, CommitKeeps, SelectKeeps, RollbackKeeps
<1>3. CASE StatusChanges \/ StartWalk \/ ReadPage \/ UNCHANGED vars
  <2>1. UNCHANGED <<now, table, audit, req>>
    BY <1>3 DEF StatusChanges, StartWalk, ReadPage, vars
  <2>2. QED
    BY <2>1 DEF CreationInv, CreationTypeOK, KeysUnique, UncommittedKeysFree, Inserted, KeyTaken,
       SelectsFind, AnswerFine, AuditMatchesTable
<1>4. QED
  BY <1>1, <1>2, <1>3 DEF Next

LEMMA CreationInvariance == Spec => []CreationInv
  BY CreationInitially, CreationNextKeeps, PTL DEF Spec

-------------------------------------------------------------------------------
\* IntentsService.create: whoever races for an Idempotency-Key, one intent holds it,
\* each caller is answered with it when it stands for the caller's request, and the
\* SELECT after a conflict never comes back empty.
THEOREM CreationIsIdempotent == Spec => []AnswersMatchTable
<1>1. CreationInv => AnswersMatchTable
  BY DEF CreationInv, KeysUnique, AnswerFine, AnswersMatchTable
<1>2. QED
  BY <1>1, CreationInvariance, PTL

\* The INSERT of an intent and that of its first audit entry are committed together.
THEOREM CreationIsAudited == Spec => []AuditMatchesTable
<1>1. CreationInv => AuditMatchesTable
  BY DEF CreationInv
<1>2. QED
  BY <1>1, CreationInvariance, PTL

-------------------------------------------------------------------------------
(* The ORDER BY of a listing.  With distinct ids it is a total order, so   *)
(* that a row's place is the number of rows newer than it, and the n       *)
(* newest rows are those in the first n places.                            *)

Dated(S) ==
    /\ IsFiniteSet(S)
    /\ \A r \in S : r.at \in Nat /\ r.id \in Nat
    /\ \A r, s \in S : r.id = s.id => r = s

Newer(S, r) == {q \in S : q.at > r.at \/ (q.at = r.at /\ q.id > r.id)}

Place(S, r) == Cardinality(Newer(S, r))

LEMMA TotalOrder ==
    ASSUME NEW S, Dated(S), NEW r \in S, NEW q \in S
    PROVE  /\ ~(Before(r, q) /\ Before(q, r))
           /\ r = q \/ Before(r, q) \/ Before(q, r)
           /\ q \in Newer(S, r) <=> Before(r, q)
  BY DEF Dated, Before, Newer

LEMMA DatedSubset ==
    ASSUME NEW S, Dated(S), NEW T, T \subseteq S
    PROVE  Dated(T) /\ Cardinality(T) \in Nat
<1>1. IsFiniteSet(T)
  BY FS_Subset DEF Dated
<1>2. QED
  BY <1>1, FS_CardinalityType DEF Dated

LEMMA PlaceInRange ==
    ASSUME NEW S, Dated(S), NEW r \in S
    PROVE  Cardinality(S) \in Nat /\ Place(S, r) \in 0 .. Cardinality(S) - 1
<1>1. Newer(S, r) \subseteq S \ {r}
  BY TotalOrder DEF Dated, Newer
<1>2. IsFiniteSet(S) /\ IsFiniteSet(S \ {r}) /\ Cardinality(S \ {r}) = Cardinality(S) - 1
  BY FS_RemoveElement DEF Dated
<1>3. IsFiniteSet(Newer(S, r)) /\ Cardinality(Newer(S, r)) <= Cardinality(S \ {r})
  BY <1>1, <1>2, FS_Subset
<1>4. Cardinality(S) \in Nat /\ Cardinality(Newer(S, r)) \in Nat
  BY <1>2, <1>3, FS_CardinalityType
<1>5. QED
  BY <1>2, <1>3, <1>4 DEF Place

\* A newer row has an earlier place.
LEMMA NewerIsEarlier ==
    ASSUME NEW S, Dated(S), NEW r \in S, NEW q \in S, Before(r, q)
    PROVE  Place(S, q) < Place(S, r)
<1>1. Newer(S, q) \subseteq Newer(S, r) /\ q \in Newer(S, r) /\ q \notin Newer(S, q)
  BY DEF Newer, Before, Dated
<1>2. IsFiniteSet(Newer(S, r)) /\ IsFiniteSet(Newer(S, q))
  BY FS_Subset DEF Newer, Dated
<1>3. /\ Cardinality(Newer(S, q)) <= Cardinality(Newer(S, r))
      /\ Cardinality(Newer(S, q)) # Cardinality(Newer(S, r))
  BY <1>1, <1>2, FS_Subset
<1>4. Cardinality(Newer(S, q)) \in Nat /\ Cardinality(Newer(S, r)) \in Nat
  BY <1>2, FS_CardinalityType
<1>5. QED
  BY <1>3, <1>4 DEF Place

LEMMA PlacesDiffer ==
    ASSUME NEW S, Dated(S), NEW r \in S, NEW q \in S
    PROVE  /\ Place(S, r) = Place(S, q) => r = q
           /\ Place(S, q) < Place(S, r) => Before(r, q)
<1>1. Place(S, r) \in Nat /\ Place(S, q) \in Nat
  BY PlaceInRange
<1>2. QED
  BY <1>1, TotalOrder, NewerIsEarlier

\* Every place is taken: an injection of S into as many places reaches them all.
LEMMA PlacesTaken ==
    ASSUME NEW S, Dated(S), NEW k \in 0 .. Cardinality(S) - 1
    PROVE  \E r \in S : Place(S, r) = k
<1> DEFINE places == 0 .. Cardinality(S) - 1
           f == [r \in S |-> Place(S, r)]
<1>1. Cardinality(S) \in Nat
  BY FS_CardinalityType DEF Dated
<1>2. IsFiniteSet(places) /\ Cardinality(places) = Cardinality(S)
  BY <1>1, FS_Interval
<1>3. f \in Injection(S, places)
  <2>1. f \in [S -> places]
    BY PlaceInRange
  <2>2. \A r, q \in S : f[r] = f[q] => r = q
    BY PlacesDiffer
  <2>3. QED
    BY <2>1, <2>2 DEF Injection, IsInjective
<1> HIDE DEF f
<1>4. f \in Surjection(S, places)
  BY <1>2, <1>3, FS_Injection
<1>5. \E r \in S : f[r] = k
  BY <1>4 DEF Surjection
<1>6. QED
  BY <1>5 DEF f

LEMMA NewestRow ==
    ASSUME NEW S, Dated(S), S # {}
    PROVE  \E r \in S : Place(S, r) = 0 /\ \A q \in S : q = r \/ Before(q, r)
<1>1. Cardinality(S) \in Nat /\ Cardinality(S) # 0
  BY FS_EmptySet, FS_CardinalityType DEF Dated
<1>2. PICK r \in S : Place(S, r) = 0
  BY <1>1, PlacesTaken
<1>3. \A q \in S : q = r \/ Before(q, r)
  BY <1>2, PlaceInRange, PlacesDiffer
<1>4. QED
  BY <1>2, <1>3

\* A page with no row after it holds them all.
LEMMA LastPage ==
    ASSUME NEW S, Dated(S), NEW n \in Nat, ~(Cardinality(Newest(S, n + 1)) > n)
    PROVE  Newest(S, n) = S
<1> DEFINE T == Newest(S, n + 1)
<1>1. Dated(T) /\ Cardinality(T) \in Nat /\ Cardinality(T) <= n
  <2>1. T \subseteq S
    BY DEF Newest
  <2> HIDE DEF T
  <2>2. Dated(T) /\ Cardinality(T) \in Nat
    BY <2>1, DatedSubset
  <2>3. ~(Cardinality(T) > n)
    BY DEF T
  <2>4. QED
    BY <2>2, <2>3
<1>2. \A r \in S : r \in T <=> Place(S, r) < n + 1
  BY DEF Newest, Place, Newer
<1> HIDE DEF T
<1>3. T = S
  <2> SUFFICES ASSUME S \ T # {} PROVE FALSE
    BY <1>2 DEF T, Newest
  <2>1. Dated(S \ T)
    BY DatedSubset
  <2>2. PICK r \in S \ T : \A q \in S \ T : q = r \/ Before(q, r)
    BY <2>1, NewestRow
  <2>3. Newer(S, r) \subseteq T
    BY <2>2, TotalOrder DEF Newer
  <2>4. Place(S, r) <= n
    <3>1. Cardinality(Newer(S, r)) <= Cardinality(T)
      BY <1>1, <2>3, FS_Subset DEF Dated
    <3>2. Place(S, r) \in Nat
      BY PlaceInRange
    <3>3. QED
      BY <1>1, <3>1, <3>2 DEF Place
  <2>5. Place(S, r) \in Nat
    BY PlaceInRange
  <2>6. QED
    BY <1>2, <2>4, <2>5
<1>4. \A r \in S : Place(S, r) < n
  BY <1>1, <1>3, PlaceInRange
<1>5. QED
  BY <1>4 DEF Newest, Place, Newer

\* The page's last row, which the cursor names, parts the rows read from the rest.
LEMMA CursorParts ==
    ASSUME NEW S, Dated(S), S # {}, NEW n \in Nat \ {0},
           NEW page, page = Newest(S, n),
           NEW last, last = CHOOSE r \in page : Newest(page, Cardinality(page) - 1) = page \ {r}
    PROVE  last \in page /\ \A q \in S : q \in page <=> ~Before(q, last)
<1>1. page \subseteq S /\ \A r \in S : r \in page <=> Place(S, r) < n
  BY DEF Newest, Place, Newer
<1>2. Dated(page) /\ Cardinality(page) \in Nat
  BY <1>1, DatedSubset
<1>3. page # {}
  BY <1>1, NewestRow
<1> DEFINE m == Cardinality(page) - 1
           rest == Newest(page, m)
<1>4. m \in Nat /\ \A r \in page : Place(page, r) \in 0 .. m
  BY <1>2, <1>3, PlaceInRange, FS_EmptySet DEF Dated
<1>5. \A r : r \in rest <=> r \in page /\ Place(page, r) < m
  BY DEF Newest, Place, Newer
<1>6. \A r \in page : rest = page \ {r} <=> Place(page, r) = m
  <2> SUFFICES ASSUME NEW r \in page PROVE rest = page \ {r} <=> Place(page, r) = m
    OBVIOUS
  <2>1. ASSUME rest = page \ {r} PROVE Place(page, r) = m
    BY <1>4, <1>5, <2>1
  <2>2. ASSUME Place(page, r) = m PROVE rest = page \ {r}
    <3>1. \A q \in page : Place(page, q) = m => q = r
      BY <1>2, <2>2, PlacesDiffer
    <3>2. QED
      BY <1>4, <1>5, <2>2, <3>1
  <2>3. QED
    BY <2>1, <2>2
<1> HIDE DEF m, rest
<1>7. \E r \in page : rest = page \ {r}
  <2>1. m \in 0 .. Cardinality(page) - 1
    BY <1>4 DEF m
  <2>2. QED
    BY <1>2, <1>6, <2>1, PlacesTaken
<1>8. last = CHOOSE r \in page : rest = page \ {r}
  BY DEF rest, m
<1>9. last \in page /\ rest = page \ {last}
  BY <1>7, <1>8, Zenon
<1>10. Place(page, last) = m
  BY <1>6, <1>9
<1>11. \A q \in page : ~Before(q, last)
  <2> SUFFICES ASSUME NEW q \in page, Before(q, last) PROVE FALSE
    OBVIOUS
  <2>1. Place(page, last) < Place(page, q)
    BY <1>2, <1>9, NewerIsEarlier
  <2>2. QED
    BY <1>4, <1>10, <2>1
<1>12. \A q \in S : ~Before(q, last) => q \in page
  <2> SUFFICES ASSUME NEW q \in S, ~Before(q, last), q # last PROVE q \in page
    BY <1>9
  <2>1. Before(last, q)
    BY <1>1, <1>9, TotalOrder
  <2>2. Place(S, q) < Place(S, last) /\ Place(S, q) \in Nat /\ Place(S, last) \in Nat
    BY <1>1, <1>9, <2>1, NewerIsEarlier, PlaceInRange
  <2>3. QED
    BY <1>1, <1>9, <2>2
<1>13. QED
  BY <1>9, <1>11, <1>12

-------------------------------------------------------------------------------
(* The rows of the table have ids of their own, as have those on their way *)
(* into it.                                                                *)

Pending(c) == req[c].pc \in {"insert", "audit", "commit"}

RowsUnique ==
    /\ IsFiniteSet(table)
    /\ \A r \in table : r.id # 0
    /\ \A r, s \in table : r.id = s.id => r = s

PendingIdsFree ==
    \A c \in Callers : Pending(c) =>
        /\ req[c].id # 0
        /\ \A r \in table : r.id # req[c].id
        /\ \A d \in Callers : Pending(d) /\ req[d].id = req[c].id => d = c

IdsInv == CreationInv /\ RowsUnique /\ PendingIdsFree

\* Requests keep their ids, or end.
LEMMA IdsStay ==
    ASSUME IdsInv, CreationInv', UNCHANGED table,
           \A c \in Callers : Pending(c)' => Pending(c) /\ req'[c].id = req[c].id
    PROVE  IdsInv'
<1>1. RowsUnique'
  BY DEF IdsInv, RowsUnique
<1>2. PendingIdsFree'
  BY DEF IdsInv, PendingIdsFree
<1>3. QED
  BY <1>1, <1>2 DEF IdsInv

LEMMA RequestEnds ==
    ASSUME NEW c \in Callers, req \in [Callers -> Req],
           Fail(c) \/ \E answer, id : Answer(c, answer, id)
    PROVE  ~Pending(c)' /\ \A d \in Callers \ {c} : req'[d] = req[d]
<1>1. CASE Fail(c)
  BY <1>1 DEF Fail, NoReq, Pending
<1>2. CASE \E answer, id : Answer(c, answer, id)
  <2>1. PICK q : q.pc = "done" /\ req' = [req EXCEPT ![c] = q]
    BY <1>2 DEF Answer, NoReq
  <2>2. QED
    BY <2>1 DEF Pending
<1>3. QED
  BY <1>1, <1>2

\* randomUUID gives an id nobody has.
LEMMA StartCreateKeepsIds ==
    ASSUME IdsInv, NEW c \in Callers, StartCreate(c)
    PROVE  IdsInv'
<1>1. CreationInv'
  BY StartCreateKeeps DEF IdsInv
<1>2. PICK id \in Ids :
          /\ \A r \in table : r.id # id
          /\ \A d \in Callers : req[d].id # id
          /\ \E q : q.id = id /\ req' = [req EXCEPT ![c] = q]
  BY DEF StartCreate
<1>3. id # 0 /\ table' = table
  BY <1>2, CreationAssumption DEF StartCreate
<1>4. req'[c].id = id /\ \A d \in Callers \ {c} : req'[d] = req[d]
  BY <1>2, Zenon DEF IdsInv, CreationInv, CreationTypeOK
<1>5. RowsUnique'
  BY <1>3 DEF IdsInv, RowsUnique
<1>6. PendingIdsFree'
  <2> SUFFICES ASSUME NEW d \in Callers, Pending(d)'
               PROVE  /\ req'[d].id # 0
                      /\ \A r \in table' : r.id # req'[d].id
                      /\ \A e \in Callers : Pending(e)' /\ req'[e].id = req'[d].id => e = d
    BY DEF PendingIdsFree
  <2>1. CASE d = c
    BY <1>2, <1>3, <1>4, <2>1
  <2>2. CASE d # c
    <3>1. req'[d] = req[d] /\ Pending(d)
      BY <1>4, <2>2 DEF Pending
    <3>2. req[d].id # id
      BY <1>2
    <3>3. \A e \in Callers : Pending(e)' /\ e # c => Pending(e) /\ req'[e] = req[e]
      BY <1>4 DEF Pending
    <3>4. QED
      BY <1>3, <1>4, <3>1, <3>2, <3>3 DEF IdsInv, PendingIdsFree
  <2>3. QED
    BY <2>1, <2>2
<1>7. QED
  BY <1>1, <1>5, <1>6 DEF IdsInv

\* A commit adds one row, with an id the table has not.
LEMMA CommitAddsRow ==
    ASSUME IdsInv, NEW c \in Callers, Commit(c)
    PROVE  \E s : /\ s.id = req[c].id /\ s.id \in Ids \ {0}
                  /\ \A r \in table : r.id # s.id
                  /\ table' = table \cup {s}
<1>1. StoredRow(c).id = req[c].id
  BY DEF StoredRow
<1>2. Pending(c) /\ table' = table \cup {StoredRow(c)}
  BY DEF Commit, Pending
<1>3. req[c].id \in Ids \cup {0}
  BY DEF IdsInv, CreationInv, CreationTypeOK, Req
<1>4. req[c].id # 0 /\ \A r \in table : r.id # req[c].id
  BY <1>2 DEF IdsInv, PendingIdsFree
<1>5. QED
  BY <1>1, <1>2, <1>3, <1>4

LEMMA CommitKeepsIds ==
    ASSUME IdsInv, NEW c \in Callers, Commit(c)
    PROVE  IdsInv'
<1>1. CreationInv'
  BY CommitKeeps DEF IdsInv
<1>2. PICK s : /\ s.id = req[c].id /\ s.id \in Ids \ {0}
               /\ \A r \in table : r.id # s.id
               /\ table' = table \cup {s}
  BY CommitAddsRow
<1>3. RowsUnique'
  <2>1. IsFiniteSet(table')
    BY <1>2, FS_AddElement DEF IdsInv, RowsUnique
  <2>2. QED
    BY <1>2, <2>1 DEF IdsInv, RowsUnique
<1>4. ~Pending(c)' /\ \A d \in Callers \ {c} : req'[d] = req[d]
  <2>1. req \in [Callers -> Req]
    BY DEF IdsInv, CreationInv, CreationTypeOK
  <2>2. QED
    BY <2>1, RequestEnds DEF Commit
<1>5. PendingIdsFree'
  <2>1. \A d \in Callers : Pending(d)' => d # c /\ Pending(d) /\ req'[d] = req[d]
    BY <1>4 DEF Pending
  <2>2. Pending(c)
    BY DEF Commit, Pending
  <2>3. \A d \in Callers : Pending(d) /\ d # c => req[d].id # s.id
    BY <1>2, <2>2 DEF IdsInv, PendingIdsFree
  <2>4. QED
    BY <1>2, <2>1, <2>3 DEF IdsInv, PendingIdsFree
<1>6. QED
  BY <1>1, <1>3, <1>5 DEF IdsInv

LEMMA IdsNextKeeps == IdsInv /\ [Next]_vars => IdsInv'
<1> SUFFICES ASSUME IdsInv, [Next]_vars PROVE IdsInv'
  OBVIOUS
<1>1. CreationInv'
  BY CreationNextKeeps DEF IdsInv
<1>2. ASSUME NEW c \in Callers, Insert(c) \/ InsertAudit(c) \/ SelectExisting(c) \/ Rollback(c)
      PROVE  IdsInv'
  <2>1. req \in [Callers -> Req] /\ table' = table
    BY <1>2 DEF IdsInv, CreationInv, CreationTypeOK, Insert, InsertAudit, SelectExisting, Rollback
  <2> SUFFICES \A d \in Callers : Pending(d)' => Pending(d) /\ req'[d].id = req[d].id
    BY <1>1, <2>1, IdsStay
  <2>2. CASE Insert(c) \/ InsertAudit(c)
    <3>1. req[c] \in Req
      BY <2>1
    <3>2. /\ \A d \in Callers \ {c} : req'[d] = req[d]
          /\ Pending(c)' => Pending(c) /\ req'[c].id = req[c].id
      BY <2>1, <2>2, <3>1 DEF Insert, InsertAudit, Pending, Req
    <3>3. QED
      BY <3>2 DEF Pending
  <2>3. CASE SelectExisting(c) \/ Rollback(c)
    <3>1. Fail(c) \/ \E answer, id : Answer(c, answer, id)
      BY <2>3 DEF SelectExisting, Rollback
    <3>2. QED
      BY <2>1, <3>1, RequestEnds DEF Pending
  <2>4. QED
    BY <1>2, <2>2, <2>3
<1>3. CASE Tick \/ StatusChanges \/ StartWalk \/ ReadPage \/ UNCHANGED vars
  <2>1. UNCHANGED <<table, req>>
    BY <1>3 DEF Tick, StatusChanges, StartWalk, ReadPage, vars
  <2>2. QED
    BY <1>1, <2>1, IdsStay DEF Pending
<1>4. QED
  BY <1>2, <1>3, StartCreateKeepsIds, CommitKeepsIds DEF Next

-------------------------------------------------------------------------------
(* A walk: what is newer than its cursor has been read, or did not match or *)
(* was not there all the time, and what is older has not.                  *)

Unread(r) == walk.cursor = NoCursor \/ Before(r, walk.cursor)

WalkTypeOK ==
    walk \in [pc : {"idle", "walking", "done"}, filter : Filters \cup {"none"},
              cursor : [at : Nat, id : Nat], seen : SUBSET Ids, again : SUBSET Ids,
              must : SUBSET Ids]

SeenAreRows == walk.seen \subseteq {r.id : r \in table}

UnreadNotSeen == walk.pc = "walking" => \A r \in table : Unread(r) => r.id \notin walk.seen

\* A row that has matched all the while has been seen or is still to come.
Due(i) == \E r \in table : /\ r.id = i
                           /\ Matches(r, walk.filter)
                           /\ Unread(r) \/ i \in walk.seen

WalkInv ==
    /\ WalkTypeOK
    /\ SeenAreRows
    /\ UnreadNotSeen
    /\ walk.pc = "walking" => \A i \in walk.must : Due(i)
    /\ WalkSeesAll
    /\ walk.pc = "idle" => walk.must = {}

LEMMA WalkInitially == CreationInit => IdsInv /\ WalkInv
<1> SUFFICES ASSUME CreationInit PROVE IdsInv /\ WalkInv
  OBVIOUS
<1>1. CreationInv
  BY CreationInitially
<1>2. RowsUnique /\ PendingIdsFree
  BY FS_EmptySet DEF CreationInit, RowsUnique, PendingIdsFree, Pending, NoReq
<1>3. WalkInv
  BY DEF CreationInit, NoWalk, NoCursor, WalkInv, WalkTypeOK, SeenAreRows, UnreadNotSeen, WalkSeesAll
<1>4. QED
  BY <1>1, <1>2, <1>3 DEF IdsInv

LEMMA TableIsDated == IdsInv => Dated(table) /\ {r.id : r \in table} \subseteq Ids
<1>1. IdsInv => \A r \in table : r.id \in Ids /\ r.id \in Nat /\ r.at \in Nat
  BY CreationAssumption DEF IdsInv, CreationInv, CreationTypeOK, RowsUnique, StoredRows
<1>2. QED
  BY <1>1 DEF IdsInv, RowsUnique, Dated

\* Nobody reads, and no row changes.
LEMMA WalkStays ==
    ASSUME WalkInv, UNCHANGED <<table, prepared, walk>>
    PROVE  WalkInv'
  BY DEF WalkInv, WalkTypeOK, SeenAreRows, UnreadNotSeen, Due, Unread, Matches, WalkSeesAll

\* A row committed under the walk is unread, or passed over for good: it was not there
\* from the beginning.
LEMMA CommitKeepsWalk ==
    ASSUME IdsInv, WalkInv, NEW c \in Callers, Commit(c)
    PROVE  WalkInv'
<1>1. PICK s : (\A r \in table : r.id # s.id) /\ table' = table \cup {s}
  BY CommitAddsRow
<1>2. walk' = walk /\ prepared' = prepared
  BY DEF Commit
<1>3. s.id \notin walk.seen
  BY <1>1 DEF WalkInv, SeenAreRows
<1>4. WalkTypeOK' /\ SeenAreRows' /\ WalkSeesAll' /\ (walk.pc = "idle" => walk.must = {})'
  BY <1>1, <1>2 DEF WalkInv, WalkTypeOK, SeenAreRows, WalkSeesAll
<1>5. UnreadNotSeen'
  BY <1>1, <1>2, <1>3 DEF WalkInv, UnreadNotSeen, Unread
<1>6. \A i : Due(i) => Due(i)'
  BY <1>1, <1>2 DEF Due, Unread, Matches
<1>7. QED
  BY <1>2, <1>4, <1>5, <1>6 DEF WalkInv

\* A row that leaves the filter is no longer due; the others match as before.
LEMMA StatusChangeKeepsWalk ==
    ASSUME IdsInv, WalkInv, StatusChanges
    PROVE  WalkInv'
<1>1. PICK r \in table :
          /\ r.id \notin prepared
          /\ prepared' = prepared \cup {r.id}
          /\ walk' = IF walk.filter = "CREATED" THEN [walk EXCEPT !.must = @ \ {r.id}] ELSE walk
          /\ table' = table
  BY DEF StatusChanges
<1>2. /\ walk'.pc = walk.pc /\ walk'.filter = walk.filter /\ walk'.cursor = walk.cursor
      /\ walk'.seen = walk.seen /\ walk'.again = walk.again /\ walk'.must \subseteq walk.must
      /\ walk.filter = "CREATED" => r.id \notin walk'.must
      /\ WalkTypeOK'
  BY <1>1 DEF WalkInv, WalkTypeOK
<1>3. \A i \in walk'.must : Due(i) => Due(i)'
  <2> SUFFICES ASSUME NEW i \in walk'.must, NEW q \in table, q.id = i, Matches(q, walk.filter)
               PROVE  Matches(q, walk.filter)'
    BY <1>1, <1>2 DEF Due, Unread
  <2>1. CASE q.id # r.id
    BY <1>1, <1>2, <2>1 DEF Matches
  <2>2. CASE q.id = r.id
    BY <1>1, <1>2, <2>2 DEF Matches
  <2>3. QED
    BY <2>1, <2>2
<1>4. UnreadNotSeen' /\ SeenAreRows' /\ WalkSeesAll'
  BY <1>1, <1>2 DEF WalkInv, UnreadNotSeen, Unread, SeenAreRows, WalkSeesAll
<1>5. QED
  BY <1>2, <1>3, <1>4 DEF WalkInv

LEMMA StartWalkKeeps ==
    ASSUME IdsInv, WalkInv, StartWalk
    PROVE  WalkInv'
<1>1. PICK filter \in Filters :
          walk' = [NoWalk EXCEPT !.pc = "walking", !.filter = filter,
                                 !.must = {r.id : r \in {q \in table : Matches(q, filter)}}]
  BY DEF StartWalk
<1>2. table' = table /\ prepared' = prepared
  BY DEF StartWalk
<1>3. /\ walk'.pc = "walking" /\ walk'.filter = filter /\ walk'.cursor = NoCursor
      /\ walk'.seen = {} /\ walk'.again = {}
      /\ walk'.must = {r.id : r \in {q \in table : Matches(q, filter)}}
  BY <1>1 DEF NoWalk
<1>4. WalkTypeOK'
  <2>1. {r.id : r \in {q \in table : Matches(q, filter)}} \subseteq Ids
    BY TableIsDated
  <2>2. QED
    BY <1>1, <2>1 DEF NoWalk, NoCursor, WalkTypeOK
<1>5. \A i \in walk'.must : Due(i)'
  BY <1>2, <1>3 DEF Due, Unread, Matches
<1>6. QED
  BY <1>3, <1>4, <1>5 DEF WalkInv, UnreadNotSeen, SeenAreRows, WalkSeesAll

\* The page takes the walk on: it is unread, and the cursor after it leaves unread
\* what the page has not.
LEMMA ReadPageKeeps ==
    ASSUME IdsInv, WalkInv, ReadPage
    PROVE  WalkInv'
<1> DEFINE rows == {r \in table : Matches(r, walk.filter) /\ Unread(r)}
           page == Newest(rows, Limit)
           ids  == {r.id : r \in page}
           last == CHOOSE r \in page : Newest(page, Cardinality(page) - 1) = page \ {r}
           more == Cardinality(Newest(rows, Limit + 1)) > Limit
<1>1. /\ walk.pc = "walking"
      /\ walk' = [walk EXCEPT !.pc     = IF more THEN "walking" ELSE "done",
                              !.cursor = IF more THEN CursorOf(last) ELSE NoCursor,
                              !.seen   = walk.seen \cup ids,
                              !.again  = walk.again \cup (walk.seen \cap ids)]
      /\ table' = table /\ prepared' = prepared
  BY Zenon DEF ReadPage, Unread
<1>2. page \subseteq rows /\ rows \subseteq table
  BY DEF Newest
<1>3. Dated(table) /\ Dated(rows) /\ ids \subseteq Ids /\ Limit \in Nat \ {0}
  BY <1>2, TableIsDated, DatedSubset, CreationAssumption
<1>4. ~more => page = rows
  BY <1>3, LastPage
<1>5. more => rows # {}
  <2>1. rows = {} => Newest(rows, Limit + 1) = {}
    BY DEF Newest
  <2>2. QED
    BY <1>3, <2>1, FS_EmptySet
<1>6. \A r : r \in rows <=> r \in table /\ Matches(r, walk.filter) /\ Unread(r)
  OBVIOUS
<1>7. \A i : i \in ids <=> \E r \in page : r.id = i
  OBVIOUS
<1> HIDE DEF rows, ids, more
<1>8. more => /\ last \in page
              /\ \A q \in rows : q \in page <=> ~Before(q, last)
  <2>1. page = Newest(rows, Limit)
    OBVIOUS
  <2> HIDE DEF page
  <2>2. last = CHOOSE r \in page : Newest(page, Cardinality(page) - 1) = page \ {r}
    OBVIOUS
  <2> HIDE DEF last
  <2> SUFFICES ASSUME more
               PROVE  last \in page /\ \A q \in rows : q \in page <=> ~Before(q, last)
    OBVIOUS
  <2>3. Dated(rows) /\ rows # {} /\ Limit \in Nat \ {0}
    BY <1>3, <1>5
  <2>4. QED
    BY <2>1, <2>2, <2>3, CursorParts
<1> HIDE DEF page, last
<1>9. /\ walk'.pc = IF more THEN "walking" ELSE "done"
      /\ walk'.cursor = IF more THEN CursorOf(last) ELSE NoCursor
      /\ walk'.seen = walk.seen \cup ids
      /\ walk'.again = walk.again \cup (walk.seen \cap ids)
      /\ walk'.filter = walk.filter /\ walk'.must = walk.must
  BY <1>1 DEF WalkInv, WalkTypeOK
<1>10. walk.seen \cap ids = {}
  BY <1>1, <1>2, <1>6, <1>7 DEF WalkInv, UnreadNotSeen
<1>11. SeenAreRows'
  BY <1>1, <1>2, <1>7, <1>9 DEF WalkInv, SeenAreRows
<1>12. \A i \in walk.must : i \in walk.seen \/ \E r \in rows : r.id = i
  BY <1>1, <1>6 DEF WalkInv, Due
<1>13. CASE ~more
  <2>1. WalkTypeOK'
    BY <1>1, <1>3, <1>10, <1>13 DEF WalkInv, WalkTypeOK, NoCursor
  <2>2. walk.must \subseteq walk.seen \cup ids
    BY <1>4, <1>7, <1>12, <1>13
  <2>3. QED
    BY <1>9, <1>10, <1>11, <1>13, <2>1, <2>2 DEF WalkInv, UnreadNotSeen, WalkSeesAll
<1>14. CASE more
  <2>1. last \in rows /\ last \in table /\ last.at \in Nat /\ last.id \in Nat \ {0}
    BY <1>2, <1>3, <1>8, <1>14 DEF Dated, IdsInv, RowsUnique
  <2>2. /\ CursorOf(last) \in [at : Nat, id : Nat] /\ CursorOf(last) # NoCursor
        /\ CursorOf(last).at = last.at /\ CursorOf(last).id = last.id
    BY <2>1 DEF CursorOf, NoCursor
  <2>3. \A r : Unread(r)' <=> Before(r, last)
    BY <1>9, <1>14, <2>2 DEF Unread, Before
  <2>4. WalkTypeOK'
    BY <1>1, <1>3, <1>10, <1>14, <2>2 DEF WalkInv, WalkTypeOK
  <2>5. \A r \in table : Before(r, last) => Unread(r)
    <3> SUFFICES ASSUME NEW r \in table, Before(r, last), walk.cursor # NoCursor
                 PROVE  Before(r, walk.cursor)
      BY DEF Unread
    <3>1. Before(last, walk.cursor)
      BY <1>6, <2>1 DEF Unread
    <3>2. walk.cursor.at \in Nat /\ walk.cursor.id \in Nat
      BY DEF WalkInv, WalkTypeOK
    <3>3. r.at \in Nat /\ r.id \in Nat
      BY <1>3 DEF Dated
    <3>4. QED
      BY <2>1, <3>1, <3>2, <3>3 DEF Before
  <2>6. \A r \in table : Before(r, last) => r.id \notin walk.seen \cup ids
    <3> SUFFICES ASSUME NEW r \in table, Before(r, last) PROVE r.id \notin walk.seen \cup ids
      OBVIOUS
    <3>1. r.id \notin walk.seen
      BY <1>1, <2>5 DEF WalkInv, UnreadNotSeen
    <3>2. r \notin page
      BY <1>2, <1>8, <1>14
    <3>3. r.id \notin ids
      BY <1>2, <1>3, <1>7, <3>2 DEF Dated
    <3>4. QED
      BY <3>1, <3>3
  <2>7. UnreadNotSeen'
    BY <1>1, <1>9, <2>3, <2>6 DEF UnreadNotSeen
  <2>8. \A i \in walk.must : Due(i)'
    <3> SUFFICES ASSUME NEW i \in walk.must PROVE Due(i)'
      OBVIOUS
    <3>1. PICK r \in table : r.id = i /\ Matches(r, walk.filter) /\ (Unread(r) \/ i \in walk.seen)
      BY <1>1 DEF WalkInv, Due
    <3>2. Matches(r, walk.filter)'
      BY <1>1, <1>9, <3>1 DEF Matches
    <3>3. Before(r, last) \/ i \in walk.seen \cup ids
      BY <1>8, <1>6, <1>7, <1>14, <3>1
    <3>4. QED
      BY <1>1, <1>9, <2>3, <3>1, <3>2, <3>3 DEF Due
  <2>9. QED
    BY <1>9, <1>10, <1>11, <1>14, <2>4, <2>7, <2>8 DEF WalkInv, WalkSeesAll
<1>15. QED
  BY <1>13, <1>14

LEMMA WalkNextKeeps == IdsInv /\ WalkInv /\ [Next]_vars => WalkInv'
<1> SUFFICES ASSUME IdsInv, WalkInv, [Next]_vars PROVE WalkInv'
  OBVIOUS
<1>1. ASSUME NEW c \in Callers,
             StartCreate(c) \/ Insert(c) \/ InsertAudit(c) \/ SelectExisting(c) \/ Rollback(c)
      PROVE  WalkInv'
  BY <1>1, WalkStays DEF StartCreate, Insert, InsertAudit, SelectExisting, Rollback
<1>2. CASE Tick \/ UNCHANGED vars
  BY <1>2, WalkStays DEF Tick, vars
<1>3. QED
  BY <1>1, <1>2, CommitKeepsWalk, StatusChangeKeepsWalk, StartWalkKeeps, ReadPageKeeps DEF Next

LEMMA WalkInvariance == Spec => [](IdsInv /\ WalkInv)
  BY WalkInitially, IdsNextKeeps, WalkNextKeeps, PTL DEF Spec

\* IntentsService.list with encodeCursor and decodeCursor: for any page size, a client
\* that follows nextCursor to the end meets every intent that matched its filter all the
\* while, and none twice, whatever is committed or changes its status as it reads.
THEOREM WalksSeeAll == Spec => []WalkSeesAll
<1>1. WalkInv => WalkSeesAll
  BY DEF WalkInv
<1>2. QED
  BY <1>1, WalkInvariance, PTL
===============================================================================
