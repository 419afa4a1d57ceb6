------------------------ MODULE IntentTransitionsProofs ------------------------
(***************************************************************************)
(* transition(), statement by statement, is the atomic step of IntentStore *)
(* for any number of callers, intents and accounts.  The argument: a row   *)
(* that is locked changes only by the transaction that locked it, so what  *)
(* SELECT ... FOR UPDATE decided still holds at COMMIT; and an entry in a   *)
(* unique index, committed or not, keeps every rival out until it is gone. *)
(***************************************************************************)
EXTENDS IntentTransitions, TLAPS

AllClosed == {Closed(outcome) : outcome \in Outcomes}
Holding == {"update", "index", "audit", "commit", "leave", "rollback"}
Writing == {"update", "index", "audit", "commit"}

TableTyped ==
    /\ row \in [Intents -> Columns]
    /\ lock \in [Intents -> Callers \cup {Nobody}]
    /\ txn \in [Callers -> Txn \cup AllClosed]

\* The row of a transaction past its SELECT is locked by it.
LocksHeld == \A c \in Callers : txn[c].pc \in Holding => lock[txn[c].id] = c

\* What the SELECT decided still holds.
Allowed(t) == row[t.id].status \in t.req.from /\ CanTransition(row[t.id].status, t.req.to)
DecisionsStand == \A c \in Callers : txn[c].pc \in Writing => Allowed(txn[c])

\* A transaction in the index of the account has no rival, committed or not.
Owning(t) == t.pc \in {"index", "audit", "commit"} /\ t.req.to \in SequenceActive
AccountFree(t) == \A j \in SameAccount(t.id) : row[j].status \notin SequenceActive
AccountIndexSound ==
    \A c \in Callers :
        Owning(txn[c]) =>
            /\ AccountFree(txn[c])
            /\ \A d \in Callers \ {c} : Owning(txn[d]) => txn[d].id \notin SameAccount(txn[c].id)

\* The same for the index of the hash.
Hashed(t) == t.pc \in {"audit", "commit"} /\ New(t).blob # NoTx
HashFree(t) == \A j \in Intents \ {t.id} : row[j].blob # New(t).blob
HashIndexSound ==
    \A c \in Callers :
        Hashed(txn[c]) =>
            /\ HashFree(txn[c])
            /\ \A d \in Callers \ {c} :
                  Hashed(txn[d]) /\ txn[d].id # txn[c].id => New(txn[d]).blob # New(txn[c]).blob

Sound == TableTyped /\ LocksHeld /\ DecisionsStand /\ AccountIndexSound /\ HashIndexSound

-------------------------------------------------------------------------------
(* The record of one caller.                                               *)

\* A closed caller is at no statement.
LEMMA OpenIsTxn ==
    ASSUME NEW t \in Txn \cup AllClosed, t.pc # "idle"
    PROVE  t \in Txn
BY DEF AllClosed, Closed

\* A step of one caller that commits nothing keeps the invariant if the caller's own
\* record satisfies it and its locks are its own.
LEMMA OneCallerMoves ==
    ASSUME Sound, NEW c \in Callers, NEW n \in Txn \cup AllClosed,
           txn' = [txn EXCEPT ![c] = n], row' = row,
           lock' \in [Intents -> Callers \cup {Nobody}],
           \A i \in Intents : lock[i] \in Callers \ {c} => lock'[i] = lock[i],
           n.pc \in Holding => lock'[n.id] = c,
           n.pc \in Writing => Allowed(n),
           Owning(n) => /\ AccountFree(n)
                        /\ \A d \in Callers \ {c} : Owning(txn[d]) => /\ txn[d].id \notin SameAccount(n.id)
                                                                      /\ n.id \notin SameAccount(txn[d].id),
           Hashed(n) => /\ HashFree(n)
                        /\ \A d \in Callers \ {c} :
                              Hashed(txn[d]) /\ txn[d].id # n.id => New(txn[d]).blob # New(n).blob
    PROVE  Sound'
<1>1. txn'[c] = n /\ \A d \in Callers \ {c} : txn'[d] = txn[d]
  BY DEF Sound, TableTyped
<1>2. TableTyped'
  BY DEF Sound, TableTyped
<1>3. LocksHeld'
  <2>1. ASSUME NEW d \in Callers, txn'[d].pc \in Holding PROVE lock'[txn'[d].id] = d
    <3>1. CASE d = c
      BY <1>1, <2>1, <3>1
    <3>2. CASE d # c
      <4>1. txn'[d] = txn[d] /\ lock[txn[d].id] = d
        BY <1>1, <2>1, <3>2 DEF Sound, LocksHeld
      <4>2. txn[d].id \in Intents
        <5>1. txn[d] \in Txn
          BY <2>1, <4>1, OpenIsTxn DEF Holding, Sound, TableTyped
        <5> QED BY <5>1 DEF Txn
      <4> QED BY <3>2, <4>1, <4>2
    <3> QED BY <3>1, <3>2
  <2> QED BY <2>1 DEF LocksHeld
<1>4. DecisionsStand'
  BY <1>1 DEF Sound, DecisionsStand, Allowed
<1>5. AccountIndexSound'
  <2>1. ASSUME NEW d \in Callers, Owning(txn'[d])
        PROVE  /\ AccountFree(txn'[d])
               /\ \A e \in Callers \ {d} : Owning(txn'[e]) => txn'[e].id \notin SameAccount(txn'[d].id)
    <3>1. CASE d = c
      BY <1>1, <2>1, <3>1
    <3>2. CASE d # c
      <4>1. txn'[d] = txn[d]
        BY <1>1, <3>2
      <4>2. AccountFree(txn[d]) /\ \A e \in Callers \ {d} : Owning(txn[e]) => txn[e].id \notin SameAccount(txn[d].id)
        BY <2>1, <4>1 DEF Sound, AccountIndexSound
      <4>3. ASSUME NEW e \in Callers \ {d}, Owning(txn'[e]) PROVE txn'[e].id \notin SameAccount(txn[d].id)
        <5>1. CASE e = c
          BY <1>1, <2>1, <3>2, <4>1, <4>3, <5>1
        <5>2. CASE e # c
          BY <1>1, <4>2, <4>3, <5>2
        <5> QED BY <5>1, <5>2
      <4> QED BY <4>1, <4>2, <4>3
    <3> QED BY <3>1, <3>2
  <2> QED BY <2>1 DEF AccountIndexSound, Owning, AccountFree, SameAccount
<1>6. HashIndexSound'
  <2>1. ASSUME NEW d \in Callers, Hashed(txn'[d])
        PROVE  /\ HashFree(txn'[d])
               /\ \A e \in Callers \ {d} :
                     Hashed(txn'[e]) /\ txn'[e].id # txn'[d].id => New(txn'[e]).blob # New(txn'[d]).blob
    <3>1. CASE d = c
      BY <1>1, <2>1, <3>1
    <3>2. CASE d # c
      <4>1. txn'[d] = txn[d]
        BY <1>1, <3>2
      <4>2. /\ HashFree(txn[d])
            /\ \A e \in Callers \ {d} :
                  Hashed(txn[e]) /\ txn[e].id # txn[d].id => New(txn[e]).blob # New(txn[d]).blob
        BY <2>1, <4>1 DEF Sound, HashIndexSound
      <4>3. ASSUME NEW e \in Callers \ {d}, Hashed(txn'[e]), txn'[e].id # txn[d].id
            PROVE  New(txn'[e]).blob # New(txn[d]).blob
        <5>1. CASE e = c
          BY <1>1, <2>1, <3>2, <4>1, <4>3, <5>1
        <5>2. CASE e # c
          BY <1>1, <4>2, <4>3, <5>2
        <5> QED BY <5>1, <5>2
      <4> QED BY <4>1, <4>2, <4>3
    <3> QED BY <3>1, <3>2
  <2> QED BY <2>1 DEF HashIndexSound, Hashed, HashFree, New
<1> QED BY <1>2, <1>3, <1>4, <1>5, <1>6 DEF Sound

\* A record at no statement of consequence satisfies all of it.
LEMMA OneCallerRests ==
    ASSUME Sound, NEW c \in Callers, NEW n \in Txn \cup AllClosed,
           txn' = [txn EXCEPT ![c] = n], row' = row, n.pc \in {"idle", "select"},
           lock' \in [Intents -> Callers \cup {Nobody}],
           \A i \in Intents : lock[i] \in Callers \ {c} => lock'[i] = lock[i]
    PROVE  Sound'
<1>1. n.pc \notin Holding /\ n.pc \notin Writing /\ ~Owning(n) /\ ~Hashed(n)
  BY DEF Holding, Writing, Owning, Hashed
<1> QED BY <1>1, OneCallerMoves

-------------------------------------------------------------------------------
(* One lemma per statement.                                                *)

\* BEGIN holds nothing yet.
LEMMA BeginSound ==
    ASSUME Sound, TransitionsAssumption, NEW c \in Callers, NEW i \in Intents, NEW q \in Asked, Begin(c, i, q)
    PROVE  Sound'
<1>1. PICK b \in IF q.to = "SIGNED" THEN Blobs ELSE {NoTx} :
          txn' = [txn EXCEPT ![c] = [pc |-> "select", id |-> i, req |-> q, blob |-> b,
                                     current |-> "CREATED", outcome |-> "none"]]
  BY DEF Begin
<1>2. b \in Blobs \cup {NoTx}
  BY <1>1
<1>3. [pc |-> "select", id |-> i, req |-> q, blob |-> b, current |-> "CREATED", outcome |-> "none"] \in Txn
  BY <1>2 DEF Txn, Statements, IntentStatuses, Outcomes
<1>4. row' = row /\ lock' = lock
  BY DEF Begin
<1> QED BY <1>1, <1>3, <1>4, OneCallerRests DEF Sound, TableTyped

\* SELECT ... FOR UPDATE takes the lock and decides on the committed row.
LEMMA SelectSound ==
    ASSUME Sound, TransitionsAssumption, NEW c \in Callers, SelectForUpdate(c)
    PROVE  Sound'
<1> DEFINE t == txn[c]
           current == row[t.id].status
<1>1. t \in Txn /\ t.pc = "select" /\ t.id \in Intents /\ lock[t.id] = Nobody
  <2>1. t.pc = "select" /\ lock[t.id] = Nobody
    BY DEF SelectForUpdate
  <2>2. t \in Txn
    BY <2>1, OpenIsTxn DEF Sound, TableTyped
  <2> QED BY <2>1, <2>2 DEF Txn
<1>2. row' = row /\ lock' = [lock EXCEPT ![t.id] = c] /\ current \in IntentStatuses
  BY <1>1 DEF SelectForUpdate, Sound, TableTyped, Columns
<1>3. /\ lock' \in [Intents -> Callers \cup {Nobody}] /\ lock'[t.id] = c
      /\ \A i \in Intents : lock[i] \in Callers \ {c} => lock'[i] = lock[i]
  BY <1>1, <1>2 DEF Sound, TableTyped, TransitionsAssumption
<1>4. ASSUME NEW pc \in {"leave", "rollback"}, NEW outcome \in Outcomes,
             txn' = [txn EXCEPT ![c] = [t EXCEPT !.pc = pc, !.current = current, !.outcome = outcome]]
      PROVE  Sound'
  <2> DEFINE n == [t EXCEPT !.pc = pc, !.current = current, !.outcome = outcome]
  <2>1. n \in Txn /\ n.pc = pc /\ n.id = t.id
    BY <1>1, <1>2, <1>4 DEF Txn, Statements
  <2>2. n.pc \notin Writing /\ ~Owning(n) /\ ~Hashed(n) /\ txn' = [txn EXCEPT ![c] = n]
    BY <1>4, <2>1 DEF Writing, Owning, Hashed
  <2> HIDE DEF n
  <2> QED BY <1>2, <1>3, <2>1, <2>2, OneCallerMoves
<1>5. ASSUME current \in t.req.from, CanTransition(current, t.req.to),
             txn' = [txn EXCEPT ![c] = [t EXCEPT !.pc = "update", !.current = current]]
      PROVE  Sound'
  <2> DEFINE n == [t EXCEPT !.pc = "update", !.current = current]
  <2>1. n \in Txn /\ n.pc = "update" /\ n.id = t.id /\ n.req = t.req
    BY <1>1, <1>2 DEF Txn, Statements
  <2>2. ~Owning(n) /\ ~Hashed(n) /\ txn' = [txn EXCEPT ![c] = n] /\ Allowed(n)
    BY <1>5, <2>1 DEF Owning, Hashed, Allowed
  <2> HIDE DEF n
  <2> QED BY <1>2, <1>3, <2>1, <2>2, OneCallerMoves
<1>6. "undefined" \in Outcomes /\ "illegal" \in Outcomes
  BY DEF Outcomes
<1> QED BY <1>4, <1>5, <1>6 DEF SelectForUpdate

\* The UPDATE, where it raises a unique violation.
LEMMA ViolationSound ==
    ASSUME Sound, NEW c \in Callers, NEW outcome \in Outcomes, txn[c].pc \in Holding,
           txn' = [txn EXCEPT ![c] = [txn[c] EXCEPT !.pc = "rollback", !.outcome = outcome]],
           row' = row, lock' = lock
    PROVE  Sound'
<1>1. txn[c] \in Txn /\ lock[txn[c].id] = c
  BY OpenIsTxn DEF Sound, TableTyped, LocksHeld, Holding
<1> DEFINE n == [txn[c] EXCEPT !.pc = "rollback", !.outcome = outcome]
<1>2. n \in Txn /\ n.pc = "rollback" /\ n.id = txn[c].id
  BY <1>1 DEF Txn, Statements
<1>3. n.pc \notin Writing /\ ~Owning(n) /\ ~Hashed(n) /\ txn' = [txn EXCEPT ![c] = n]
  BY <1>2 DEF Writing, Owning, Hashed
<1> HIDE DEF n
<1> QED BY <1>1, <1>2, <1>3, OneCallerMoves DEF Sound, TableTyped

\* A statement that goes on to the next one: what is new is what it adds to an index.
LEMMA AdvanceSound ==
    ASSUME Sound, NEW c \in Callers, NEW pc \in {"index", "audit", "commit"}, txn[c].pc \in Writing,
           txn' = [txn EXCEPT ![c].pc = pc], row' = row, lock' = lock,
           txn[c].req.to \in SequenceActive =>
               \/ Owning(txn[c])
               \/ /\ AccountFree(txn[c])
                  /\ \A d \in Callers \ {c} : Owning(txn[d]) => txn[d].id \notin SameAccount(txn[c].id),
           pc # "index" /\ New(txn[c]).blob # NoTx =>
               \/ Hashed(txn[c])
               \/ /\ HashFree(txn[c])
                  /\ \A d \in Callers \ {c} :
                        Hashed(txn[d]) /\ txn[d].id # txn[c].id => New(txn[d]).blob # New(txn[c]).blob
    PROVE  Sound'
<1>1. txn[c] \in Txn /\ lock[txn[c].id] = c /\ Allowed(txn[c]) /\ txn[c].id \in Intents
  <2>1. txn[c] \in Txn
    BY OpenIsTxn DEF Sound, TableTyped, Writing
  <2>2. lock[txn[c].id] = c /\ Allowed(txn[c])
    BY DEF Sound, LocksHeld, DecisionsStand, Holding, Writing
  <2> QED BY <2>1, <2>2 DEF Txn
<1> DEFINE n == [txn[c] EXCEPT !.pc = pc]
<1>2. n \in Txn /\ n.pc = pc /\ n.id = txn[c].id /\ n.req = txn[c].req /\ n.blob = txn[c].blob
  BY <1>1 DEF Txn, Statements
<1>3. txn' = [txn EXCEPT ![c] = n]
  OBVIOUS
<1> HIDE DEF n
<1>4. Allowed(n) /\ New(n) = New(txn[c])
  BY <1>1, <1>2 DEF Allowed, New
<1>5. Owning(n) => /\ AccountFree(n)
                   /\ \A d \in Callers \ {c} : Owning(txn[d]) => txn[d].id \notin SameAccount(n.id)
  <2>1. HAVE Owning(n)
  <2>2. AccountFree(txn[c])
        /\ \A d \in Callers \ {c} : Owning(txn[d]) => txn[d].id \notin SameAccount(txn[c].id)
    BY <1>2, <2>1 DEF Owning, Sound, AccountIndexSound
  <2> QED BY <1>2, <2>2 DEF AccountFree
<1>6. \A d \in Callers : Owning(txn[d]) => txn[d].id \in Intents
  <2>1. ASSUME NEW d \in Callers, Owning(txn[d]) PROVE txn[d].id \in Intents
    <3>1. txn[d] \in Txn
      BY <2>1, OpenIsTxn DEF Owning, Sound, TableTyped
    <3> QED BY <3>1 DEF Txn
  <2> QED BY <2>1
<1>7. \A d \in Callers : Owning(txn[d]) /\ txn[d].id \notin SameAccount(n.id) => n.id \notin SameAccount(txn[d].id)
  BY <1>1, <1>2, <1>6 DEF SameAccount
<1>8. Hashed(n) => /\ HashFree(n)
                   /\ \A d \in Callers \ {c} :
                         Hashed(txn[d]) /\ txn[d].id # n.id => New(txn[d]).blob # New(n).blob
  <2>1. HAVE Hashed(n)
  <2>2. /\ HashFree(txn[c])
        /\ \A d \in Callers \ {c} :
              Hashed(txn[d]) /\ txn[d].id # txn[c].id => New(txn[d]).blob # New(txn[c]).blob
    BY <1>2, <1>4, <2>1 DEF Hashed, Sound, HashIndexSound
  <2> QED BY <1>2, <1>4, <2>2 DEF HashFree
<1> QED BY <1>1, <1>2, <1>3, <1>4, <1>5, <1>7, <1>8, OneCallerMoves DEF Sound, TableTyped

\* The index of the account lets a version in only when no rival is there.
LEMMA UpdateAccountSound ==
    ASSUME Sound, NEW c \in Callers, UpdateAccountIndex(c)
    PROVE  Sound'
<1>1. txn[c].pc = "update" /\ row' = row /\ lock' = lock
  BY DEF UpdateAccountIndex
<1>2. txn[c].pc \in Holding /\ txn[c].pc \in Writing /\ "busy" \in Outcomes
  BY <1>1 DEF Holding, Writing, Outcomes
<1>3. ASSUME txn' = [txn EXCEPT ![c] = [txn[c] EXCEPT !.pc = "rollback", !.outcome = "busy"]] PROVE Sound'
  BY <1>1, <1>2, <1>3, ViolationSound
<1>4. ASSUME txn[c].req.to \notin SequenceActive, txn' = [txn EXCEPT ![c].pc = "index"] PROVE Sound'
  BY <1>1, <1>2, <1>4, AdvanceSound
<1>5. ASSUME txn[c].req.to \in SequenceActive, ~AccountAwaited(c), txn' = [txn EXCEPT ![c].pc = "index"],
             ~\E j \in SameAccount(txn[c].id) : row[j].status \in SequenceActive
      PROVE  Sound'
  <2>1. AccountFree(txn[c])
    BY <1>5 DEF AccountFree
  <2>2. \A d \in Callers \ {c} : Owning(txn[d]) => txn[d].id \notin SameAccount(txn[c].id)
    BY <1>5 DEF AccountAwaited, Owning, InAccountIndex
  <2> QED BY <1>1, <1>2, <1>5, <2>1, <2>2, AdvanceSound
<1> QED BY <1>3, <1>4, <1>5 DEF UpdateAccountIndex

\* The index of the hash lets a version in only when no rival is there.
LEMMA UpdateHashSound ==
    ASSUME Sound, NEW c \in Callers, UpdateHashIndex(c)
    PROVE  Sound'
<1>1. txn[c].pc = "index" /\ row' = row /\ lock' = lock
  BY DEF UpdateHashIndex
<1>2. /\ txn[c].pc \in Holding /\ txn[c].pc \in Writing /\ "hash" \in Outcomes
      /\ txn[c].req.to \in SequenceActive => Owning(txn[c])
  BY <1>1 DEF Holding, Writing, Outcomes, Owning
<1>3. ASSUME txn' = [txn EXCEPT ![c] = [txn[c] EXCEPT !.pc = "rollback", !.outcome = "hash"]] PROVE Sound'
  BY <1>1, <1>2, <1>3, ViolationSound
<1>4. ASSUME New(txn[c]).blob = NoTx, txn' = [txn EXCEPT ![c].pc = "audit"] PROVE Sound'
  BY <1>1, <1>2, <1>4, AdvanceSound
<1>5. ASSUME ~HashAwaited(c), txn' = [txn EXCEPT ![c].pc = "audit"],
             ~\E j \in Intents \ {txn[c].id} : row[j].blob = New(txn[c]).blob
      PROVE  Sound'
  <2>1. HashFree(txn[c])
    BY <1>5 DEF HashFree
  <2>2. \A d \in Callers \ {c} :
            Hashed(txn[d]) /\ txn[d].id # txn[c].id => New(txn[d]).blob # New(txn[c]).blob
    BY <1>5 DEF HashAwaited, Hashed, InHashIndex
  <2> QED BY <1>1, <1>2, <1>5, <2>1, <2>2, AdvanceSound
<1> QED BY <1>3, <1>4, <1>5 DEF UpdateHashIndex

\* The audit row changes neither locks nor index entries.
LEMMA InsertAuditSound ==
    ASSUME Sound, NEW c \in Callers, InsertAudit(c)
    PROVE  Sound'
<1>1. txn[c].pc = "audit" /\ row' = row /\ lock' = lock /\ txn' = [txn EXCEPT ![c].pc = "commit"]
  BY DEF InsertAudit
<1>2. /\ txn[c].pc \in Writing
      /\ txn[c].req.to \in SequenceActive => Owning(txn[c])
      /\ New(txn[c]).blob # NoTx => Hashed(txn[c])
  BY <1>1 DEF Writing, Owning, Hashed
<1> QED BY <1>1, <1>2, AdvanceSound

\* A transaction that ends without a change to its row.
LEMMA EndSound ==
    ASSUME Sound, TransitionsAssumption, NEW c \in Callers, NEW outcome \in Outcomes, End(c, outcome), row' = row
    PROVE  Sound'
<1>1. Closed(outcome) \in AllClosed /\ Closed(outcome).pc = "idle"
  BY DEF AllClosed, Closed
<1>2. /\ lock' \in [Intents -> Callers \cup {Nobody}]
      /\ \A i \in Intents : lock[i] \in Callers \ {c} => lock'[i] = lock[i]
  BY DEF End, Sound, TableTyped
<1>3. txn' = [txn EXCEPT ![c] = Closed(outcome)]
  BY DEF End
<1> HIDE DEF Closed
<1> QED BY <1>1, <1>2, <1>3, OneCallerRests

\* The committed row was the transaction's own, and no other transaction is in its way.
LEMMA CommitSound ==
    ASSUME Sound, TransitionsAssumption, NEW c \in Callers, Commit(c)
    PROVE  Sound'
<1> DEFINE t == txn[c]
<1>1. /\ t \in Txn /\ t.pc = "commit" /\ t.id \in Intents /\ lock[t.id] = c
      /\ t.req.to \in IntentStatuses /\ t.blob \in Blobs \cup {NoTx}
  <2>1. t.pc = "commit"
    BY DEF Commit
  <2>2. t \in Txn /\ lock[t.id] = c
    BY <2>1, OpenIsTxn DEF Sound, TableTyped, LocksHeld, Holding
  <2> QED BY <2>1, <2>2 DEF Txn, TransitionsAssumption
<1>2. PICK outcome \in {"updated", "error"} : End(c, outcome)
  BY DEF Commit
<1>3. txn' = [txn EXCEPT ![c] = Closed(outcome)] /\ Closed(outcome) \in AllClosed /\ Closed(outcome).pc = "idle"
  BY <1>2 DEF End, AllClosed, Closed, Outcomes
<1>4. row' = [row EXCEPT ![t.id] = [New(t) EXCEPT !.status = t.req.to]]
  BY DEF Commit
<1>5. New(t) \in Columns /\ [New(t) EXCEPT !.status = t.req.to] \in Columns
      /\ [New(t) EXCEPT !.status = t.req.to].status = t.req.to
      /\ [New(t) EXCEPT !.status = t.req.to].blob = New(t).blob
  <2>1. row[t.id] \in Columns
    BY <1>1 DEF Sound, TableTyped
  <2>2. New(t) \in Columns
    BY <1>1, <2>1 DEF New, Columns
  <2> QED BY <1>1, <2>2 DEF Columns
<1>6. /\ row' \in [Intents -> Columns] /\ row'[t.id].status = t.req.to /\ row'[t.id].blob = New(t).blob
      /\ \A j \in Intents \ {t.id} : row'[j] = row[j]
  BY <1>1, <1>4, <1>5 DEF Sound, TableTyped
<1>7. /\ txn'[c].pc = "idle" /\ \A d \in Callers \ {c} : txn'[d] = txn[d]
      /\ txn' \in [Callers -> Txn \cup AllClosed]
  BY <1>3 DEF Sound, TableTyped
<1>8. lock' = [i \in Intents |-> IF lock[i] = c THEN Nobody ELSE lock[i]]
  BY <1>2 DEF End
<1>9. TableTyped'
  BY <1>6, <1>7, <1>8 DEF TableTyped, Sound
<1>10. \A d \in Callers \ {c} : txn[d].pc \in Holding =>
           /\ txn[d] \in Txn /\ txn[d].id \in Intents /\ txn[d].id # t.id /\ lock[txn[d].id] = d
           /\ row'[txn[d].id] = row[txn[d].id] /\ New(txn[d])' = New(txn[d])
  <2>1. ASSUME NEW d \in Callers \ {c}, txn[d].pc \in Holding
        PROVE  /\ txn[d] \in Txn /\ txn[d].id \in Intents /\ txn[d].id # t.id /\ lock[txn[d].id] = d
               /\ row'[txn[d].id] = row[txn[d].id] /\ New(txn[d])' = New(txn[d])
    <3>1. txn[d] \in Txn /\ lock[txn[d].id] = d
      BY <2>1, OpenIsTxn DEF Sound, TableTyped, LocksHeld, Holding
    <3>2. txn[d].id \in Intents /\ txn[d].id # t.id
      BY <1>1, <2>1, <3>1 DEF Txn
    <3>3. row'[txn[d].id] = row[txn[d].id]
      BY <1>6, <3>2
    <3>4. txn'[d] = txn[d]
      BY <1>7
    <3> QED BY <3>1, <3>2, <3>3, <3>4 DEF New
  <2> QED BY <2>1
<1>11. LocksHeld'
  <2>1. ASSUME NEW d \in Callers, txn'[d].pc \in Holding PROVE lock'[txn'[d].id] = d
    <3>1. d # c /\ txn'[d] = txn[d]
      BY <1>7, <2>1 DEF Holding
    <3> QED BY <1>8, <1>10, <2>1, <3>1
  <2> QED BY <2>1 DEF LocksHeld
<1>12. DecisionsStand'
  <2>1. ASSUME NEW d \in Callers, txn'[d].pc \in Writing
        PROVE  /\ row'[txn'[d].id].status \in txn'[d].req.from
               /\ CanTransition(row'[txn'[d].id].status, txn'[d].req.to)
    <3>1. d # c /\ txn'[d] = txn[d] /\ txn[d].pc \in Holding
      BY <1>7, <2>1 DEF Holding, Writing
    <3>2. Allowed(txn[d]) /\ row'[txn[d].id] = row[txn[d].id]
      BY <1>10, <2>1, <3>1 DEF Sound, DecisionsStand
    <3> QED BY <3>1, <3>2 DEF Allowed
  <2> QED BY <2>1 DEF DecisionsStand, Allowed
<1>13. AccountIndexSound'
  <2>1. ASSUME NEW d \in Callers, Owning(txn'[d])
        PROVE  /\ \A j \in SameAccount(txn'[d].id) : row'[j].status \notin SequenceActive
               /\ \A e \in Callers \ {d} : Owning(txn'[e]) => txn'[e].id \notin SameAccount(txn'[d].id)
    <3>1. d # c /\ txn'[d] = txn[d]
      BY <1>7, <2>1 DEF Owning
    <3>2. AccountFree(txn[d]) /\ \A e \in Callers \ {d} : Owning(txn[e]) => txn[e].id \notin SameAccount(txn[d].id)
      BY <2>1, <3>1 DEF Sound, AccountIndexSound
    <3>3. ASSUME NEW j \in SameAccount(txn[d].id) PROVE row'[j].status \notin SequenceActive
      <4>1. CASE j = t.id
        BY <1>1, <1>6, <3>1, <3>2, <3>3, <4>1 DEF Owning
      <4>2. CASE j # t.id
        BY <1>6, <3>2, <3>3, <4>2 DEF AccountFree, SameAccount
      <4> QED BY <4>1, <4>2
    <3>4. ASSUME NEW e \in Callers \ {d}, Owning(txn'[e]) PROVE txn'[e].id \notin SameAccount(txn[d].id)
      <4>1. e # c /\ txn'[e] = txn[e]
        BY <1>7, <3>4 DEF Owning
      <4> QED BY <3>2, <3>4, <4>1
    <3> QED BY <3>1, <3>3, <3>4
  <2> QED BY <2>1 DEF AccountIndexSound, Owning, AccountFree, SameAccount
<1>14. HashIndexSound'
  <2>1. ASSUME NEW d \in Callers, Hashed(txn[d])'
        PROVE  /\ HashFree(txn[d])'
               /\ \A e \in Callers \ {d} :
                     Hashed(txn[e])' /\ txn'[e].id # txn'[d].id => New(txn[e])' # New(txn[d])' /\ New(txn[e])'.blob # New(txn[d])'.blob
    <3>1. /\ d # c /\ txn'[d] = txn[d] /\ txn[d].pc \in Holding
      BY <1>7, <2>1 DEF Hashed, Holding
    <3>2. New(txn[d])' = New(txn[d]) /\ txn[d].id \in Intents /\ txn[d].id # t.id
      BY <1>10, <3>1
    <3>3. Hashed(txn[d])
      BY <2>1, <3>1, <3>2 DEF Hashed
    <3>4. /\ HashFree(txn[d])
          /\ \A e \in Callers \ {d} :
                Hashed(txn[e]) /\ txn[e].id # txn[d].id => New(txn[e]).blob # New(txn[d]).blob
      BY <3>3 DEF Sound, HashIndexSound
    <3>5. ASSUME NEW j \in Intents \ {txn[d].id} PROVE row'[j].blob # New(txn[d]).blob
      <4>1. CASE j = t.id
        <5>1. New(t).blob # New(txn[d]).blob
          BY <1>1, <3>1, <3>2, <3>3, <3>4 DEF Hashed
        <5> QED BY <1>6, <4>1, <5>1
      <4>2. CASE j # t.id
        BY <1>6, <3>4, <3>5, <4>2 DEF HashFree
      <4> QED BY <4>1, <4>2
    <3>6. HashFree(txn[d])'
      BY <3>1, <3>2, <3>5 DEF HashFree
    <3>7. ASSUME NEW e \in Callers \ {d}, Hashed(txn[e])', txn'[e].id # txn'[d].id
          PROVE  New(txn[e])'.blob # New(txn[d])'.blob
      <4>1. e # c /\ txn'[e] = txn[e] /\ txn[e].pc \in Holding
        BY <1>7, <3>7 DEF Hashed, Holding
      <4>2. New(txn[e])' = New(txn[e]) /\ Hashed(txn[e])
        BY <1>10, <3>7, <4>1 DEF Hashed
      <4> QED BY <3>1, <3>2, <3>4, <3>7, <4>1, <4>2
    <3> QED BY <3>6, <3>7
  <2> QED BY <2>1 DEF HashIndexSound
<1> QED BY <1>9, <1>11, <1>12, <1>13, <1>14 DEF Sound

\* Before the first request nobody holds anything.
LEMMA InitSound == TransitionsInit /\ TransitionsAssumption => Sound
<1> SUFFICES ASSUME TransitionsInit, TransitionsAssumption PROVE Sound
  OBVIOUS
<1>1. Closed("none") \in AllClosed /\ Closed("none").pc = "idle"
  BY DEF AllClosed, Closed, Outcomes
<1>2. TableTyped
  BY <1>1 DEF TransitionsInit, TableTyped, Columns, IntentStatuses
<1>3. \A c \in Callers : txn[c].pc = "idle"
  BY <1>1 DEF TransitionsInit
<1> QED BY <1>2, <1>3 DEF Sound, LocksHeld, DecisionsStand, AccountIndexSound, HashIndexSound,
           Holding, Writing, Owning, Hashed

\* Every step keeps the invariant.
LEMMA NextSound ==
    ASSUME Sound, TransitionsAssumption, [TransitionsNext]_tableVars
    PROVE  Sound'
<1>1. CASE UNCHANGED tableVars
  <2>1. row' = row /\ lock' = lock /\ txn' = txn
    BY <1>1 DEF tableVars
  <2> QED BY <2>1 DEF Sound, TableTyped, LocksHeld, DecisionsStand, AccountIndexSound, HashIndexSound,
             Allowed, Owning, Hashed, AccountFree, HashFree, SameAccount, New
<1>2. ASSUME NEW c \in Callers, Step(c) PROVE Sound'
  <2>1. CASE Leave(c)
    <3>1. txn[c] \in Txn /\ row' = row /\ End(c, txn[c].outcome)
      BY <2>1, OpenIsTxn DEF Leave, Sound, TableTyped
    <3> QED BY <3>1, EndSound DEF Txn
  <2>2. CASE Rollback(c)
    <3>1. txn[c] \in Txn /\ row' = row /\ End(c, txn[c].outcome)
      BY <2>2, OpenIsTxn DEF Rollback, Discard, Sound, TableTyped
    <3> QED BY <3>1, EndSound DEF Txn
  <2> QED BY <1>2, <2>1, <2>2, SelectSound, UpdateAccountSound, UpdateHashSound, InsertAuditSound, CommitSound
         DEF Step
<1>3. ASSUME NEW c \in Callers, Fail(c) PROVE Sound'
  BY <1>3, EndSound DEF Fail, Discard, Outcomes
<1> QED BY <1>1, <1>2, <1>3, BeginSound DEF TransitionsNext

-------------------------------------------------------------------------------
(* The refinement.                                                         *)

\* What ImplementsTransition asks of one step.
StepImplements ==
    /\ \A c \in Callers :
          /\ txn'[c].outcome # txn[c].outcome
          /\ txn'[c].outcome \notin {"none", "error"}
          => Asks(c, txn'[c].outcome)
    /\ row' # row => \E c \in Callers : Asks(c, "updated")

\* Both read one transition table.
LEMMA SameTable ==
    /\ Store!SequenceActive = SequenceActive
    /\ \A a, b : Store!CanTransition(a, b) = CanTransition(a, b)
<1>1. Store!SequenceActive = SequenceActive
  BY DEF Store!SequenceActive, SequenceActive, Store!UnsignedActive, UnsignedActive,
         Store!SignedActive, SignedActive
<1>2. Store!Transitions = Transitions
  BY DEF Store!Transitions, Transitions, Store!IntentStatuses, IntentStatuses
<1> QED BY <1>1, <1>2 DEF Store!CanTransition, CanTransition

\* The unique index of the account, as the one-step transition reads it.
LEMMA BusyIsShared ==
    ASSUME NEW i \in Intents
    PROVE  Store!AccountBusy(i) <=> \E j \in SameAccount(i) : row[j].status \in SequenceActive
BY SameTable DEF Store!AccountBusy, SameAccount

\* A transaction whose decisions stand is answered as the one-step transition is.
LEMMA AnswerIsAsked ==
    ASSUME NEW c \in Callers, txn[c].pc # "idle", row' = row,
           NEW outcome, outcome # "updated",
           outcome = Store!TransitionResult(txn[c].id, txn[c].req.from, txn[c].req.to, New(txn[c]))
    PROVE  Asks(c, outcome)
BY DEF Asks, Store!Transition

\* A step that commits nothing implements the atomic transition if the outcome it
\* leaves with its caller is one the atomic transition would have given.
LEMMA OneCallerImplements ==
    ASSUME Sound, NEW c \in Callers, NEW n, txn' = [txn EXCEPT ![c] = n], row' = row,
           n.outcome # txn[c].outcome /\ n.outcome \notin {"none", "error"} => Asks(c, n.outcome)
    PROVE  StepImplements
BY DEF Sound, TableTyped, StepImplements

\* SELECT ... FOR UPDATE: undefined and an illegal transition.
LEMMA SelectImplements ==
    ASSUME Sound, NEW c \in Callers, SelectForUpdate(c)
    PROVE  StepImplements
<1> DEFINE t == txn[c]
           current == row[t.id].status
           gone == [t EXCEPT !.pc = "leave", !.current = current, !.outcome = "undefined"]
           bad == [t EXCEPT !.pc = "rollback", !.current = current, !.outcome = "illegal"]
           good == [t EXCEPT !.pc = "update", !.current = current]
<1>1. t.pc = "select" /\ row' = row /\ t \in Txn
  BY OpenIsTxn DEF SelectForUpdate, Sound, TableTyped
<1>2. gone.outcome = "undefined" /\ bad.outcome = "illegal" /\ good.outcome = t.outcome
  BY <1>1 DEF Txn
<1>3. \/ current \notin t.req.from /\ txn' = [txn EXCEPT ![c] = gone]
      \/ /\ current \in t.req.from /\ ~CanTransition(current, t.req.to)
         /\ txn' = [txn EXCEPT ![c] = bad]
      \/ txn' = [txn EXCEPT ![c] = good]
  BY DEF SelectForUpdate
<1> HIDE DEF gone, bad, good
<1>4. CASE current \notin t.req.from /\ txn' = [txn EXCEPT ![c] = gone]
  <2>1. Store!TransitionResult(t.id, t.req.from, t.req.to, New(t)) = "undefined"
    BY <1>4 DEF Store!TransitionResult
  <2>2. Asks(c, "undefined")
    BY <1>1, <2>1, AnswerIsAsked
  <2> QED BY <1>1, <1>2, <1>4, <2>2, OneCallerImplements
<1>5. CASE /\ current \in t.req.from /\ ~CanTransition(current, t.req.to)
           /\ txn' = [txn EXCEPT ![c] = bad]
  <2>1. Store!TransitionResult(t.id, t.req.from, t.req.to, New(t)) = "illegal"
    BY <1>5, SameTable DEF Store!TransitionResult
  <2>2. Asks(c, "illegal")
    BY <1>1, <2>1, AnswerIsAsked
  <2> QED BY <1>1, <1>2, <1>5, <2>2, OneCallerImplements
<1>6. CASE txn' = [txn EXCEPT ![c] = good]
  BY <1>1, <1>2, <1>6, OneCallerImplements
<1> QED BY <1>3, <1>4, <1>5, <1>6

\* UPDATE, index of the account: a violation is the one-step transition's.
LEMMA UpdateAccountImplements ==
    ASSUME Sound, NEW c \in Callers, UpdateAccountIndex(c)
    PROVE  StepImplements
<1> DEFINE t == txn[c]
           busy == [t EXCEPT !.pc = "rollback", !.outcome = "busy"]
           next == [t EXCEPT !.pc = "index"]
<1>1. t.pc = "update" /\ row' = row /\ t \in Txn
  BY OpenIsTxn DEF UpdateAccountIndex, Sound, TableTyped
<1>2. busy.outcome = "busy" /\ next.outcome = t.outcome /\ t.id \in Intents
  BY <1>1 DEF Txn
<1>3. \/ /\ t.req.to \in SequenceActive
         /\ \E j \in SameAccount(t.id) : row[j].status \in SequenceActive
         /\ txn' = [txn EXCEPT ![c] = busy]
      \/ txn' = [txn EXCEPT ![c] = next]
  BY DEF UpdateAccountIndex
<1>4. Allowed(t)
  BY <1>1 DEF Sound, DecisionsStand, Writing
<1> HIDE DEF busy, next
<1>5. CASE /\ t.req.to \in SequenceActive
           /\ \E j \in SameAccount(t.id) : row[j].status \in SequenceActive
           /\ txn' = [txn EXCEPT ![c] = busy]
  <2>1. Store!TransitionResult(t.id, t.req.from, t.req.to, New(t)) = "busy"
    BY <1>2, <1>4, <1>5, BusyIsShared, SameTable DEF Store!TransitionResult, Allowed
  <2>2. Asks(c, "busy")
    BY <1>1, <2>1, AnswerIsAsked
  <2> QED BY <1>1, <1>2, <1>5, <2>2, OneCallerImplements
<1>6. CASE txn' = [txn EXCEPT ![c] = next]
  BY <1>1, <1>2, <1>6, OneCallerImplements
<1> QED BY <1>3, <1>5, <1>6

\* UPDATE, index of the hash: the account is still free.
LEMMA UpdateHashImplements ==
    ASSUME Sound, NEW c \in Callers, UpdateHashIndex(c)
    PROVE  StepImplements
<1> DEFINE t == txn[c]
           taken == [t EXCEPT !.pc = "rollback", !.outcome = "hash"]
           next == [t EXCEPT !.pc = "audit"]
<1>1. t.pc = "index" /\ row' = row /\ t \in Txn
  BY OpenIsTxn DEF UpdateHashIndex, Sound, TableTyped
<1>2. taken.outcome = "hash" /\ next.outcome = t.outcome /\ t.id \in Intents
  BY <1>1 DEF Txn
<1>3. \/ /\ New(t).blob # NoTx
         /\ \E j \in Intents \ {t.id} : row[j].blob = New(t).blob
         /\ txn' = [txn EXCEPT ![c] = taken]
      \/ txn' = [txn EXCEPT ![c] = next]
  BY DEF UpdateHashIndex
<1>4. Allowed(t) /\ (t.req.to \in SequenceActive => AccountFree(t))
  BY <1>1 DEF Sound, DecisionsStand, Writing, AccountIndexSound, Owning
<1> HIDE DEF taken, next
<1>5. CASE /\ New(t).blob # NoTx
           /\ \E j \in Intents \ {t.id} : row[j].blob = New(t).blob
           /\ txn' = [txn EXCEPT ![c] = taken]
  <2>1. Store!HashTaken(t.id, New(t).blob)
    BY <1>5 DEF Store!HashTaken
  <2>2. t.req.to \in SequenceActive => ~Store!AccountBusy(t.id)
    BY <1>2, <1>4, BusyIsShared DEF AccountFree
  <2>3. Store!TransitionResult(t.id, t.req.from, t.req.to, New(t)) = "hash"
    BY <1>4, <2>1, <2>2, SameTable DEF Store!TransitionResult, Allowed
  <2>4. Asks(c, "hash")
    BY <1>1, <2>3, AnswerIsAsked
  <2> QED BY <1>1, <1>2, <1>5, <2>4, OneCallerImplements
<1>6. CASE txn' = [txn EXCEPT ![c] = next]
  BY <1>1, <1>2, <1>6, OneCallerImplements
<1> QED BY <1>3, <1>5, <1>6

\* COMMIT: everything the UPDATE found still holds, so the one-step transition
\* taken now answers with the same row.
LEMMA CommitImplements ==
    ASSUME Sound, NEW c \in Callers, Commit(c)
    PROVE  StepImplements
<1> DEFINE t == txn[c]
<1>1. /\ t.pc = "commit" /\ t \in Txn /\ t.id \in Intents
      /\ row' = [row EXCEPT ![t.id] = [New(t) EXCEPT !.status = t.req.to]]
  BY OpenIsTxn DEF Commit, Sound, TableTyped, Txn
<1>2. PICK outcome \in {"updated", "error"} : txn' = [txn EXCEPT ![c] = Closed(outcome)]
  BY DEF Commit, End
<1>3. /\ Allowed(t)
      /\ t.req.to \in SequenceActive => AccountFree(t)
      /\ New(t).blob # NoTx => HashFree(t)
  BY <1>1 DEF Sound, DecisionsStand, Writing, AccountIndexSound, Owning, HashIndexSound, Hashed
<1>4. t.req.to \in SequenceActive => ~Store!AccountBusy(t.id)
  BY <1>1, <1>3, BusyIsShared DEF AccountFree
<1>5. ~Store!HashTaken(t.id, New(t).blob)
  BY <1>3 DEF Store!HashTaken, HashFree
<1>6. Store!TransitionResult(t.id, t.req.from, t.req.to, New(t)) = "updated"
  BY <1>3, <1>4, <1>5, SameTable DEF Store!TransitionResult, Allowed
<1>7. Asks(c, "updated")
  BY <1>1, <1>6 DEF Asks, Store!Transition, Store!Updated
<1>8. txn'[c].outcome \in {"updated", "error"} /\ \A d \in Callers \ {c} : txn'[d] = txn[d]
  BY <1>2 DEF Closed, Sound, TableTyped
<1> QED BY <1>7, <1>8 DEF StepImplements

\* Every step is a step of the one-step transition, or leaves rows and answers alone.
LEMMA NextImplements ==
    ASSUME Sound, [TransitionsNext]_tableVars
    PROVE  StepImplements \/ UNCHANGED tableVars
<1>1. ASSUME NEW c \in Callers, NEW i \in Intents, NEW q \in Asked, Begin(c, i, q)
      PROVE  StepImplements
  <2>1. PICK b : txn' = [txn EXCEPT ![c] = [pc |-> "select", id |-> i, req |-> q, blob |-> b,
                                            current |-> "CREATED", outcome |-> "none"]]
    BY <1>1 DEF Begin
  <2> QED BY <1>1, <2>1, OneCallerImplements DEF Begin
<1>2. ASSUME NEW c \in Callers, InsertAudit(c) PROVE StepImplements
  <2>1. txn[c] \in Txn /\ row' = row /\ txn' = [txn EXCEPT ![c] = [txn[c] EXCEPT !.pc = "commit"]]
    BY <1>2, OpenIsTxn DEF InsertAudit, Sound, TableTyped
  <2>2. [txn[c] EXCEPT !.pc = "commit"].outcome = txn[c].outcome
    BY <2>1 DEF Txn
  <2> QED BY <2>1, <2>2, OneCallerImplements
<1>3. ASSUME NEW c \in Callers, Leave(c) \/ Rollback(c) \/ Fail(c) PROVE StepImplements
  <2>1. PICK outcome \in {txn[c].outcome, "error"} : row' = row /\ txn' = [txn EXCEPT ![c] = Closed(outcome)]
    BY <1>3 DEF Leave, Rollback, Fail, Discard, End
  <2>2. Closed(outcome).outcome = outcome
    BY DEF Closed
  <2> QED BY <2>1, <2>2, OneCallerImplements
<1> QED BY <1>1, <1>2, <1>3, SelectImplements, UpdateAccountImplements, UpdateHashImplements, CommitImplements
       DEF TransitionsNext, Step

\* Locks, decisions and index entries are consistent in every reachable state of any
\* number of open transactions (intents.repository.ts:101-141).
THEOREM TransitionsAreSound == TransitionsSpec => []Sound
BY InitSound, NextSound, TransitionsAssumption, PTL DEF TransitionsSpec

\* transition() implements the one-step transition of IntentStore: the statement-level
\* transaction answers and commits what the atomic one does (intents.repository.ts:101-141).
THEOREM TransitionIsAtomic == TransitionsSpec => ImplementsTransition
<1>1. ASSUME Sound, [TransitionsNext]_tableVars PROVE [StepImplements]_tableVars
  BY <1>1, NextImplements
<1>2. [][StepImplements]_tableVars => ImplementsTransition
  BY PTL DEF ImplementsTransition, StepImplements
<1> QED BY <1>1, <1>2, TransitionsAreSound, PTL DEF TransitionsSpec

-------------------------------------------------------------------------------
(* The audit trail.  At any time one transaction at most has an uncommitted *)
(* row for an intent, the one that holds its lock; that row is beyond every *)
(* other and continues the status the intent has.                          *)

\* What TrailIsHistory asks of one intent.
History(trail, status) ==
    /\ \E first \in trail :
          /\ first.from = "null" /\ first.to = "CREATED"
          /\ \A e \in trail \ {first} : first.id < e.id
    /\ \E last \in trail :
          /\ last.to = status
          /\ \A e \in trail \ {last} : e.id < last.id
    /\ \A d, e \in trail :
          Follows(e, d, trail) => e.from = d.to /\ CanTransition(e.from, e.to)

\* An uncommitted row is what its transaction is about to commit.
Uncommitted(i, e) ==
    /\ e.by \in Callers /\ txn[e.by].pc = "commit" /\ txn[e.by].id = i
    /\ e.from = row[i].status /\ e.to = txn[e.by].req.to
    /\ \A d \in audit[i] \ {e} : d.id < e.id

AuditSound ==
    /\ audit \in [Intents -> SUBSET AuditRow]
    /\ \A c \in Callers : txn[c].pc \in Writing => txn[c].current = row[txn[c].id].status
    /\ \A c \in Callers : txn[c].pc = "commit" => \E e \in audit[txn[c].id] : e.by = c
    /\ \A i \in Intents : \A e \in audit[i] : e.by # Nobody => Uncommitted(i, e)
    /\ \A i \in Intents : History(Trail(i), row[i].status)


\* A row beyond every other, from the status the trail ends in, continues the trail.
LEMMA HistoryGrows ==
    ASSUME NEW trail, NEW new, \A e \in trail \cup {new} : e.id \in Nat,
           NEW status, History(trail, status), new.from = status, CanTransition(status, new.to),
           \A e \in trail : e.id < new.id
    PROVE  History(trail \cup {new}, new.to)
<1> DEFINE all == trail \cup {new}
<1>1. PICK first \in trail : /\ first.from = "null" /\ first.to = "CREATED"
                             /\ \A e \in trail \ {first} : first.id < e.id
  BY DEF History
<1>2. PICK last \in trail : last.to = status /\ \A e \in trail \ {last} : e.id < last.id
  BY DEF History
<1>3. \A e \in all \ {first} : first.id < e.id
  BY <1>1
<1>4. \A e \in all \ {new} : e.id < new.id
  OBVIOUS
<1>5. ASSUME NEW d \in all, NEW e \in all, Follows(e, d, all)
      PROVE  e.from = d.to /\ CanTransition(e.from, e.to)
  <2>1. d.id < e.id /\ ~\E f \in all : d.id < f.id /\ f.id < e.id
    BY <1>5 DEF Follows
  <2>2. CASE e = new
    <3>1. d \in trail
      BY <2>1, <2>2
    <3>2. d = last
      BY <1>2, <2>1, <2>2, <3>1
    <3> QED BY <1>2, <2>2, <3>2
  <2>3. CASE e # new
    <3>1. e \in trail /\ d \in trail
      BY <2>1, <2>3
    <3>2. Follows(e, d, trail)
      BY <2>1 DEF Follows
    <3> QED BY <3>1, <3>2 DEF History
  <2> QED BY <2>2, <2>3
<1> QED BY <1>1, <1>3, <1>4, <1>5 DEF History

\* An uncommitted row belongs to the transaction that holds the lock.
LEMMA UncommittedIsLocked ==
    ASSUME Sound, AuditSound, NEW i \in Intents, NEW e \in audit[i], e.by # Nobody
    PROVE  /\ e.by \in Callers /\ e.by = lock[i] /\ txn[e.by].pc = "commit" /\ txn[e.by].id = i
           /\ e.from = row[i].status /\ e.to = txn[e.by].req.to
           /\ \A d \in audit[i] \ {e} : d.id < e.id
BY DEF AuditSound, Uncommitted, Sound, LocksHeld, Holding

\* A step that changes neither rows nor trails keeps the trail sound if the
\* transaction it moves is not about to commit and has read its row.
LEMMA AuditRests ==
    ASSUME Sound, AuditSound, NEW c \in Callers, NEW n, txn[c].pc # "commit",
           txn' = [txn EXCEPT ![c] = n], row' = row, audit' = audit,
           n.pc # "commit", n.pc \in Writing => n.current = row[n.id].status
    PROVE  AuditSound'
<1>1. txn'[c] = n /\ \A d \in Callers \ {c} : txn'[d] = txn[d]
  BY DEF Sound, TableTyped
<1>2. audit' \in [Intents -> SUBSET AuditRow]
  BY DEF AuditSound
<1>3. \A d \in Callers : txn'[d].pc \in Writing => txn'[d].current = row'[txn'[d].id].status
  BY <1>1 DEF AuditSound
<1>4. \A d \in Callers : txn'[d].pc = "commit" => \E e \in audit'[txn'[d].id] : e.by = d
  BY <1>1 DEF AuditSound
<1>5. ASSUME NEW i \in Intents, NEW e \in audit'[i], e.by # Nobody
      PROVE  Uncommitted(i, e)'
  <2>1. Uncommitted(i, e)
    BY <1>5 DEF AuditSound
  <2>2. txn'[e.by] = txn[e.by]
    BY <1>1, <2>1 DEF Uncommitted
  <2> QED BY <2>1, <2>2 DEF Uncommitted
<1>6. \A i \in Intents : History(Trail(i), row[i].status)'
  BY DEF AuditSound, Trail, History
<1> QED BY <1>2, <1>3, <1>4, <1>5, <1>6 DEF AuditSound

\* The id an audit row draws is beyond those of a trail that has a last row.
LEMMA NextIdIsBeyond ==
    ASSUME NEW rows, \A e \in rows : e.id \in Nat,
           NEW last \in rows, \A e \in rows : e.id <= last.id
    PROVE  NextId(rows) \in Nat /\ \A e \in rows : e.id < NextId(rows)
<1> DEFINE ids == {e.id : e \in rows}
           largest(n) == \A e \in rows : e.id <= n
           top == CHOOSE n \in ids : largest(n)
<1>1. \E n \in ids : largest(n)
  OBVIOUS
<1>2. top \in ids /\ largest(top)
  BY <1>1, Zenon
<1>3. NextId(rows) = 1 + top
  BY DEF NextId
<1> HIDE DEF top
<1> QED BY <1>2, <1>3

\* INSERT of the audit row: every row of the intent is committed before it.
LEMMA InsertAuditKeepsTrail ==
    ASSUME Sound, AuditSound, TransitionsAssumption, NEW c \in Callers, InsertAudit(c)
    PROVE  AuditSound'
<1> DEFINE t == txn[c]
           i == t.id
           new == [id |-> NextId(audit[i]), from |-> t.current, to |-> t.req.to, by |-> c]
<1>1. /\ t.pc = "audit" /\ t \in Txn /\ i \in Intents /\ row' = row
      /\ t.current \in IntentStatuses /\ t.req.to \in IntentStatuses
  BY OpenIsTxn DEF InsertAudit, Sound, TableTyped, Txn, TransitionsAssumption
<1>2. audit' = [audit EXCEPT ![i] = audit[i] \cup {new}]
  BY DEF InsertAudit, Drawn
<1>3. audit \in [Intents -> SUBSET AuditRow] /\ \A e \in audit[i] : e \in AuditRow /\ e.id \in Nat
  BY <1>1 DEF AuditSound, AuditRow
<1>4. /\ txn'[c] = [t EXCEPT !.pc = "commit"] /\ \A d \in Callers \ {c} : txn'[d] = txn[d]
      /\ txn'[c].pc = "commit" /\ txn'[c].id = i /\ txn'[c].current = t.current /\ txn'[c].req = t.req
  BY <1>1 DEF InsertAudit, Sound, TableTyped, Txn
<1>5. lock[i] = c /\ t.current = row[i].status /\ c # Nobody
  BY <1>1 DEF Sound, LocksHeld, Holding, AuditSound, Writing, TransitionsAssumption
<1>6. ASSUME NEW e \in audit[i] PROVE e.by = Nobody
  BY <1>1, <1>5, UncommittedIsLocked
<1>7. Trail(i) = audit[i]
  BY <1>6 DEF Trail
<1>8. PICK last \in audit[i] : \A e \in audit[i] \ {last} : e.id < last.id
  BY <1>1, <1>7 DEF AuditSound, History
<1>9. NextId(audit[i]) \in Nat /\ \A e \in audit[i] : e.id < NextId(audit[i])
  BY <1>3, <1>8, NextIdIsBeyond
<1>10. new \in AuditRow
  BY <1>1, <1>9 DEF AuditRow
<1>11. /\ new.by = c /\ new.id = NextId(audit[i]) /\ new.from = row[i].status /\ new.to = t.req.to
  BY <1>5
<1> HIDE DEF new
<1>12. audit'[i] = audit[i] \cup {new} /\ \A j \in Intents \ {i} : audit'[j] = audit[j]
  BY <1>1, <1>2, <1>3
<1>13. audit' \in [Intents -> SUBSET AuditRow]
  BY <1>2, <1>3, <1>10
<1>14. \A d \in Callers : txn'[d].pc \in Writing => txn'[d].current = row'[txn'[d].id].status
  <2>1. ASSUME NEW d \in Callers \ {c}, txn'[d].pc \in Writing
        PROVE  txn'[d].current = row'[txn'[d].id].status
    BY <1>1, <1>4, <2>1 DEF AuditSound
  <2> QED BY <1>1, <1>4, <1>5, <2>1
<1>15. ASSUME NEW d \in Callers, txn'[d].pc = "commit" PROVE \E e \in audit'[txn'[d].id] : e.by = d
  <2>1. CASE d = c
    BY <1>4, <1>11, <1>12, <2>1
  <2>2. CASE d # c
    <3>1. txn'[d] = txn[d] /\ txn[d] \in Txn /\ txn[d].id \in Intents
      BY <1>4, <1>15, <2>2, OpenIsTxn DEF Sound, TableTyped, Txn
    <3>2. \E e \in audit[txn[d].id] : e.by = d
      BY <1>15, <3>1 DEF AuditSound
    <3> QED BY <1>12, <3>1, <3>2
  <2> QED BY <2>1, <2>2
<1>16. ASSUME NEW j \in Intents, NEW e \in audit'[j], e.by # Nobody PROVE Uncommitted(j, e)'
  <2>1. CASE j = i
    <3>1. e = new
      BY <1>6, <1>12, <1>16, <2>1
    <3>2. \A d \in audit'[i] \ {new} : d.id < new.id
      BY <1>9, <1>11, <1>12
    <3> QED BY <1>1, <1>4, <1>11, <2>1, <3>1, <3>2 DEF Uncommitted
  <2>2. CASE j # i
    <3>1. e \in audit[j] /\ audit'[j] = audit[j]
      BY <1>12, <1>16, <2>2
    <3>2. Uncommitted(j, e)
      BY <1>16, <3>1 DEF AuditSound
    <3>3. txn'[e.by] = txn[e.by]
      BY <1>1, <1>4, <3>2 DEF Uncommitted
    <3> QED BY <1>1, <3>1, <3>2, <3>3 DEF Uncommitted
  <2> QED BY <2>1, <2>2
<1>17. ASSUME NEW j \in Intents PROVE Trail(j)' = Trail(j)
  <2>1. CASE j = i
    <3>1. {e \in audit[i] \cup {new} : e.by = Nobody} = {e \in audit[i] : e.by = Nobody}
      BY <1>5, <1>11
    <3> QED BY <1>12, <2>1, <3>1 DEF Trail
  <2>2. CASE j # i
    BY <1>12, <2>2 DEF Trail
  <2> QED BY <2>1, <2>2
<1>18. \A j \in Intents : History(Trail(j), row[j].status)'
  BY <1>1, <1>17 DEF AuditSound, History
<1> QED BY <1>13, <1>14, <1>15, <1>16, <1>18 DEF AuditSound

\* What COMMIT does to the trail: the one uncommitted row of the intent joins it.
LEMMA CommitAddsOne ==
    ASSUME Sound, AuditSound, TransitionsAssumption, NEW c \in Callers, Commit(c),
           NEW i, i = txn[c].id
    PROVE  /\ i \in Intents
           /\ \E new \in AuditRow :
                 /\ Trail(i)' = Trail(i) \cup {new}
                 /\ audit'[i] = Trail(i)'
                 /\ new.from = row[i].status /\ new.to = txn[c].req.to /\ new.by = Nobody
                 /\ \A d \in Trail(i) : d.id < new.id
           /\ \A j \in Intents \ {i} : audit'[j] = audit[j] /\ row'[j] = row[j]
           /\ audit' \in [Intents -> SUBSET AuditRow]
           /\ row'[i].status = txn[c].req.to
<1> DEFINE t == txn[c]
           settled(e) == [e EXCEPT !.by = IF e.by = c THEN Nobody ELSE e.by]
<1>1. t.pc = "commit" /\ t \in Txn /\ i \in Intents /\ t.req.to \in IntentStatuses /\ c # Nobody
  BY OpenIsTxn DEF Commit, Sound, TableTyped, Txn, TransitionsAssumption
<1>2. /\ audit' = [audit EXCEPT ![i] = {settled(e) : e \in audit[i]}]
      /\ audit \in [Intents -> SUBSET AuditRow]
  BY DEF Commit, AuditSound
<1>3. PICK mine \in audit[i] : mine.by = c
  BY <1>1 DEF AuditSound
<1>4. /\ mine.from = row[i].status /\ mine.to = t.req.to
      /\ \A d \in audit[i] \ {mine} : d.id < mine.id
  BY <1>1, <1>3, UncommittedIsLocked
<1>5. \A d \in audit[i] : d \in AuditRow /\ d.id \in Nat
  BY <1>1, <1>2 DEF AuditRow
<1>6. ASSUME NEW d \in audit[i], d # mine PROVE d.by = Nobody
  <2>1. d.id < mine.id /\ mine.id \in Nat /\ d.id \in Nat
    BY <1>3, <1>4, <1>5, <1>6
  <2>2. d.by # Nobody => mine.id < d.id
    BY <1>1, <1>3, <1>6, UncommittedIsLocked
  <2> QED BY <2>1, <2>2
<1> DEFINE new == [mine EXCEPT !.by = Nobody]
<1>7. /\ new \in AuditRow /\ new.id = mine.id /\ new.from = mine.from /\ new.to = mine.to /\ new.by = Nobody
  BY <1>3, <1>5 DEF AuditRow
<1>8. settled(mine) = new
  BY <1>3
<1>9. \A d \in audit[i] \ {mine} : settled(d) = d
  <2>1. ASSUME NEW d \in audit[i], d # mine PROVE settled(d) = d
    <3>1. d.by = Nobody /\ d \in AuditRow
      BY <1>5, <1>6, <2>1
    <3> QED BY <1>1, <3>1 DEF AuditRow
  <2> QED BY <2>1
<1> HIDE DEF new, settled
<1>10. {settled(e) : e \in audit[i]} = (audit[i] \ {mine}) \cup {new}
  BY <1>3, <1>8, <1>9
<1>11. Trail(i) = audit[i] \ {mine}
  BY <1>1, <1>3, <1>6 DEF Trail
<1>12. audit'[i] = Trail(i) \cup {new} /\ \A j \in Intents \ {i} : audit'[j] = audit[j]
  BY <1>1, <1>2, <1>10, <1>11
<1>13. Trail(i)' = Trail(i) \cup {new}
  <2>1. {e \in Trail(i) \cup {new} : e.by = Nobody} = Trail(i) \cup {new}
    BY <1>7 DEF Trail
  <2> QED BY <1>12, <2>1 DEF Trail
<1>14. audit' \in [Intents -> SUBSET AuditRow]
  BY <1>1, <1>2, <1>5, <1>7, <1>10
<1>15. /\ row'[i].status = t.req.to /\ \A j \in Intents \ {i} : row'[j] = row[j]
  BY <1>1 DEF Commit, Sound, TableTyped, Columns, New, Txn
<1> QED BY <1>1, <1>4, <1>7, <1>11, <1>12, <1>13, <1>14, <1>15

\* COMMIT extends the history by the transition it commits.
LEMMA CommitKeepsTrail ==
    ASSUME Sound, AuditSound, TransitionsAssumption, NEW c \in Callers, Commit(c)
    PROVE  AuditSound'
<1> DEFINE t == txn[c]
<1>0. PICK i : i = t.id
  OBVIOUS
<1>1. /\ i \in Intents /\ audit' \in [Intents -> SUBSET AuditRow] /\ row'[i].status = t.req.to
      /\ \A j \in Intents \ {i} : audit'[j] = audit[j] /\ row'[j] = row[j]
  BY <1>0, CommitAddsOne
<1>2. PICK new \in AuditRow :
          /\ Trail(i)' = Trail(i) \cup {new} /\ audit'[i] = Trail(i)'
          /\ new.from = row[i].status /\ new.to = t.req.to /\ new.by = Nobody
          /\ \A d \in Trail(i) : d.id < new.id
  BY <1>0, CommitAddsOne
<1>3. t.pc = "commit" /\ lock[i] = c /\ Allowed(t)
  BY <1>0 DEF Commit, Sound, LocksHeld, Holding, DecisionsStand, Writing
<1>4. PICK outcome : txn' = [txn EXCEPT ![c] = Closed(outcome)]
  BY DEF Commit, End
<1>5. txn'[c].pc = "idle" /\ \A d \in Callers \ {c} : txn'[d] = txn[d]
  BY <1>4 DEF Closed, Sound, TableTyped
<1>6. ASSUME NEW d \in Callers, txn'[d].pc \in Writing
      PROVE  /\ txn'[d] = txn[d] /\ txn[d].id \in Intents \ {i}
  <2>1. d # c /\ txn'[d] = txn[d] /\ txn[d].pc \in Holding
    BY <1>5, <1>6 DEF Writing, Holding
  <2>2. txn[d] \in Txn /\ lock[txn[d].id] = d
    BY <2>1, OpenIsTxn DEF Holding, Sound, TableTyped, LocksHeld
  <2> QED BY <1>3, <2>1, <2>2 DEF Txn
<1>7. \A d \in Callers : txn'[d].pc \in Writing => txn'[d].current = row'[txn'[d].id].status
  BY <1>1, <1>6 DEF AuditSound
<1>8. \A d \in Callers : txn'[d].pc = "commit" => \E e \in audit'[txn'[d].id] : e.by = d
  BY <1>1, <1>6 DEF AuditSound, Writing
<1>9. ASSUME NEW j \in Intents, NEW e \in audit'[j], e.by # Nobody PROVE Uncommitted(j, e)'
  <2>1. j # i /\ audit'[j] = audit[j] /\ row'[j] = row[j]
    BY <1>1, <1>2, <1>9 DEF Trail
  <2>2. Uncommitted(j, e)
    BY <1>9, <2>1 DEF AuditSound
  <2>3. txn'[e.by] = txn[e.by]
    BY <1>0, <1>5, <2>1, <2>2 DEF Uncommitted
  <2> QED BY <2>1, <2>2, <2>3 DEF Uncommitted
<1>10. ASSUME NEW j \in Intents PROVE History(Trail(j), row[j].status)'
  <2>1. CASE j = i
    <3>1. \A e \in Trail(i) \cup {new} : e.id \in Nat
      BY <1>1, <1>2 DEF AuditRow, Trail, AuditSound
    <3>2. History(Trail(i), row[i].status) /\ CanTransition(row[i].status, new.to)
      BY <1>1, <1>0, <1>1, <1>2, <1>3 DEF AuditSound, Allowed
    <3>3. History(Trail(i) \cup {new}, new.to)
      BY <1>2, <3>1, <3>2, HistoryGrows
    <3>4. Trail(j)' = Trail(i) \cup {new} /\ row'[j].status = new.to
      BY <1>1, <1>2, <2>1
    <3> QED BY <3>3, <3>4 DEF History
  <2>2. CASE j # i
    <3>1. Trail(j)' = Trail(j) /\ row'[j] = row[j]
      BY <1>1, <2>2 DEF Trail
    <3> QED BY <3>1 DEF AuditSound, History
  <2> QED BY <2>1, <2>2
<1> QED BY <1>1, <1>7, <1>8, <1>9, <1>10 DEF AuditSound

\* A transaction that is rolled back takes its audit row with it, and only that.
LEMMA DiscardKeepsTrail ==
    ASSUME Sound, AuditSound, TransitionsAssumption, NEW c \in Callers, NEW outcome, Discard(c, outcome)
    PROVE  AuditSound'
<1>1. /\ row' = row /\ audit' = [i \in Intents |-> {e \in audit[i] : e.by # c}]
      /\ txn' = [txn EXCEPT ![c] = Closed(outcome)]
  BY DEF Discard, End
<1>2. txn'[c].pc = "idle" /\ \A d \in Callers \ {c} : txn'[d] = txn[d]
  BY <1>1 DEF Closed, Sound, TableTyped
<1>3. audit' \in [Intents -> SUBSET AuditRow]
  BY <1>1 DEF AuditSound
<1>4. \A d \in Callers : txn'[d].pc \in Writing => txn'[d].current = row'[txn'[d].id].status
  BY <1>1, <1>2 DEF AuditSound, Writing
<1>5. ASSUME NEW d \in Callers, txn'[d].pc = "commit" PROVE \E e \in audit'[txn'[d].id] : e.by = d
  <2>1. d # c /\ txn'[d] = txn[d]
    BY <1>2, <1>5
  <2>2. txn[d] \in Txn /\ txn[d].id \in Intents
    BY <1>5, <2>1, OpenIsTxn DEF Sound, TableTyped, Txn
  <2>3. \E e \in audit[txn[d].id] : e.by = d
    BY <1>5, <2>1 DEF AuditSound
  <2> QED BY <1>1, <2>1, <2>2, <2>3
<1>6. ASSUME NEW i \in Intents, NEW e \in audit'[i], e.by # Nobody PROVE Uncommitted(i, e)'
  <2>1. e \in audit[i] /\ e.by # c /\ audit'[i] \subseteq audit[i]
    BY <1>1, <1>6
  <2>2. Uncommitted(i, e)
    BY <1>6, <2>1 DEF AuditSound
  <2>3. txn'[e.by] = txn[e.by]
    BY <1>2, <2>1, <2>2 DEF Uncommitted
  <2> QED BY <1>1, <2>1, <2>2, <2>3 DEF Uncommitted
<1>7. ASSUME NEW i \in Intents PROVE History(Trail(i), row[i].status)'
  <2>1. Trail(i)' = Trail(i)
    BY <1>1 DEF Trail, TransitionsAssumption
  <2> QED BY <1>1, <2>1 DEF AuditSound, History
<1> QED BY <1>3, <1>4, <1>5, <1>6, <1>7 DEF AuditSound

LEMMA InitAuditSound == TransitionsInit /\ TransitionsAssumption => AuditSound
<1> SUFFICES ASSUME TransitionsInit, TransitionsAssumption PROVE AuditSound
  OBVIOUS
<1> DEFINE first == [id |-> 0, from |-> "null", to |-> "CREATED", by |-> Nobody]
<1>1. first \in AuditRow /\ first.by = Nobody /\ first.from = "null" /\ first.to = "CREATED" /\ first.id = 0
  BY DEF AuditRow, IntentStatuses
<1>2. \A i \in Intents : audit[i] = {first} /\ row[i].status = "CREATED"
  BY DEF TransitionsInit
<1>3. audit \in [Intents -> SUBSET AuditRow]
  BY <1>1 DEF TransitionsInit
<1> HIDE DEF first
<1>4. \A c \in Callers : txn[c].pc = "idle"
  BY DEF TransitionsInit, Closed
<1>5. ASSUME NEW i \in Intents PROVE History(Trail(i), row[i].status)
  <2>1. Trail(i) = {first}
    BY <1>1, <1>2 DEF Trail
  <2> QED BY <1>1, <1>2, <2>1 DEF History, Follows
<1> QED BY <1>1, <1>2, <1>3, <1>4, <1>5 DEF AuditSound, Writing

\* Statements that leave rows and trails alone.
LEMMA StatementKeepsTrail ==
    ASSUME Sound, AuditSound, NEW c \in Callers,
           \/ SelectForUpdate(c) \/ UpdateAccountIndex(c) \/ UpdateHashIndex(c) \/ Leave(c)
           \/ \E i \in Intents, q \in Asked : Begin(c, i, q)
    PROVE  AuditSound'
<1> DEFINE t == txn[c]
<1>1. CASE \E i \in Intents, q \in Asked : Begin(c, i, q)
  <2>1. PICK i \in Intents, q \in Asked : Begin(c, i, q)
    BY <1>1
  <2>2. PICK b : txn' = [txn EXCEPT ![c] = [pc |-> "select", id |-> i, req |-> q, blob |-> b,
                                            current |-> "CREATED", outcome |-> "none"]]
    BY <2>1 DEF Begin
  <2> DEFINE n == [pc |-> "select", id |-> i, req |-> q, blob |-> b,
                   current |-> "CREATED", outcome |-> "none"]
  <2>3. t.pc = "idle" /\ row' = row /\ audit' = audit
    BY <2>1 DEF Begin
  <2>4. n.pc = "select" /\ txn' = [txn EXCEPT ![c] = n]
    BY <2>2
  <2> HIDE DEF n
  <2> QED BY <2>3, <2>4, AuditRests DEF Writing
<1>2. CASE Leave(c)
  <2>1. txn' = [txn EXCEPT ![c] = Closed(t.outcome)] /\ Closed(t.outcome).pc = "idle"
    BY <1>2 DEF Leave, End, Closed
  <2> QED BY <1>2, <2>1, AuditRests DEF Leave, Writing
<1>3. CASE SelectForUpdate(c)
  <2>1. t.pc = "select" /\ t \in Txn /\ row' = row /\ audit' = audit
    BY <1>3, OpenIsTxn DEF SelectForUpdate, Sound, TableTyped
  <2> DEFINE gone == [t EXCEPT !.pc = "leave", !.current = row[t.id].status, !.outcome = "undefined"]
             bad == [t EXCEPT !.pc = "rollback", !.current = row[t.id].status, !.outcome = "illegal"]
             good == [t EXCEPT !.pc = "update", !.current = row[t.id].status]
  <2>2. \E n \in {gone, bad, good} : txn' = [txn EXCEPT ![c] = n]
    BY <1>3 DEF SelectForUpdate
  <2>3. \A n \in {gone, bad, good} : n.pc # "commit" /\ n.current = row[t.id].status /\ n.id = t.id
    BY <2>1 DEF Txn
  <2> HIDE DEF gone, bad, good
  <2> QED BY <2>1, <2>2, <2>3, AuditRests
<1>4. CASE UpdateAccountIndex(c) \/ UpdateHashIndex(c)
  <2>1. t.pc \in {"update", "index"} /\ t \in Txn /\ row' = row /\ audit' = audit
    BY <1>4, OpenIsTxn DEF UpdateAccountIndex, UpdateHashIndex, Sound, TableTyped
  <2>2. PICK n \in Txn \cup AllClosed :
            /\ txn' = [txn EXCEPT ![c] = n]
            /\ n.pc # "commit"
            /\ n.current = t.current /\ n.id = t.id
    <3>1. CASE UpdateAccountIndex(c)
      <4>1. \/ txn' = [txn EXCEPT ![c] = [t EXCEPT !.pc = "index"]]
            \/ txn' = [txn EXCEPT ![c] = [t EXCEPT !.pc = "rollback", !.outcome = "busy"]]
        BY <3>1 DEF UpdateAccountIndex
      <4> QED BY <2>1, <4>1 DEF Txn, Statements, Outcomes
    <3>2. CASE UpdateHashIndex(c)
      <4>1. \/ txn' = [txn EXCEPT ![c] = [t EXCEPT !.pc = "audit"]]
            \/ txn' = [txn EXCEPT ![c] = [t EXCEPT !.pc = "rollback", !.outcome = "hash"]]
        BY <3>2 DEF UpdateHashIndex
      <4> QED BY <2>1, <4>1 DEF Txn, Statements, Outcomes
    <3> QED BY <1>4, <3>1, <3>2
  <2>3. t.current = row[t.id].status
    BY <2>1 DEF AuditSound, Writing
  <2> QED BY <2>1, <2>2, <2>3, AuditRests
<1> QED BY <1>1, <1>2, <1>3, <1>4

\* Every step keeps the trails sound.
LEMMA NextAuditSound ==
    ASSUME Sound, AuditSound, TransitionsAssumption, [TransitionsNext]_tableVars
    PROVE  AuditSound'
<1>1. CASE UNCHANGED tableVars
  BY <1>1 DEF tableVars, AuditSound, Uncommitted, Trail, History
<1>2. ASSUME NEW c \in Callers, Rollback(c) \/ Fail(c) PROVE AuditSound'
  BY <1>2, DiscardKeepsTrail DEF Rollback, Fail
<1> QED BY <1>1, <1>2, StatementKeepsTrail, InsertAuditKeepsTrail, CommitKeepsTrail DEF TransitionsNext, Step

\* What TrailIsAppendOnly asks of one step.
TrailsGrow ==
    \A i \in Intents :
        /\ Trail(i) \subseteq Trail(i)'
        /\ \A e \in Trail(i)' \ Trail(i), d \in Trail(i) : d.id < e.id

\* Only COMMIT shows its readers a new entry.
LEMMA NextGrowsTrails ==
    ASSUME Sound, AuditSound, TransitionsAssumption, [TransitionsNext]_tableVars
    PROVE  TrailsGrow
<1>1. CASE audit' = audit
  BY <1>1 DEF TrailsGrow, Trail
<1>2. ASSUME NEW c \in Callers, Commit(c) PROVE TrailsGrow
  <2>1. PICK i : i = txn[c].id
    OBVIOUS
  <2>2. /\ \E new : /\ Trail(i)' = Trail(i) \cup {new}
                    /\ \A d \in Trail(i) : d.id < new.id
        /\ \A j \in Intents \ {i} : audit'[j] = audit[j]
    BY <1>2, <2>1, CommitAddsOne
  <2>3. \A j \in Intents \ {i} : Trail(j)' = Trail(j)
    BY <2>2 DEF Trail
  <2> QED BY <2>2, <2>3 DEF TrailsGrow
<1>3. ASSUME NEW c \in Callers, Rollback(c) \/ Fail(c) PROVE TrailsGrow
  <2>1. audit' = [i \in Intents |-> {e \in audit[i] : e.by # c}] /\ c # Nobody
    BY <1>3 DEF Rollback, Fail, Discard, TransitionsAssumption
  <2>2. \A i \in Intents : Trail(i)' = Trail(i)
    BY <2>1 DEF Trail
  <2> QED BY <2>2 DEF TrailsGrow
<1>4. ASSUME NEW c \in Callers, InsertAudit(c) PROVE TrailsGrow
  <2> DEFINE i == txn[c].id
             new == [id |-> NextId(audit[i]), from |-> txn[c].current, to |-> txn[c].req.to, by |-> c]
  <2>1. audit' = [audit EXCEPT ![i] = audit[i] \cup {new}] /\ new.by = c /\ c # Nobody
    BY <1>4 DEF InsertAudit, Drawn, TransitionsAssumption
  <2> HIDE DEF i, new
  <2>2. ASSUME NEW j \in Intents PROVE Trail(j)' = Trail(j)
    <3>1. audit'[j] = audit[j] \/ audit'[j] = audit[j] \cup {new}
      BY <2>1 DEF AuditSound
    <3> QED BY <2>1, <3>1 DEF Trail
  <2> QED BY <2>2 DEF TrailsGrow
<1> QED BY <1>1, <1>2, <1>3, <1>4 DEF TransitionsNext, Step, Begin, SelectForUpdate, UpdateAccountIndex,
           UpdateHashIndex, Leave, tableVars

\* The trails are sound in every reachable state.
LEMMA TrailsAreSound == TransitionsSpec => [](Sound /\ AuditSound)
<1>1. ASSUME Sound, AuditSound, [TransitionsNext]_tableVars PROVE AuditSound'
  BY <1>1, NextAuditSound, TransitionsAssumption
<1> QED BY <1>1, InitAuditSound, TransitionsAreSound, TransitionsAssumption, PTL DEF TransitionsSpec

\* Rows, locks, audit rows and open transactions always have their form, whichever
\* statements failed: ids are numbers, and a status column holds a status, never a
\* reason code (transitions.repository.ts:15-37).
THEOREM TransitionsTyped == TransitionsSpec => []TransitionsTypeOK
<1>1. Sound /\ AuditSound => TransitionsTypeOK
  BY DEF Sound, TableTyped, AuditSound, TransitionsTypeOK, AllClosed
<1> QED BY <1>1, TrailsAreSound, PTL

\* The committed trail of every intent is the history of its row, however many
\* transactions are open on it (intents.repository.ts:101-141, ARCHITECTURE.md:21).
THEOREM TrailsAreHistories == TransitionsSpec => []TrailIsHistory
<1>1. AuditSound => TrailIsHistory
  BY DEF AuditSound, History, TrailIsHistory
<1> QED BY <1>1, TrailsAreSound, PTL

\* No step loses, changes or inserts an entry before one that was read
\* (ARCHITECTURE.md:153).
THEOREM TrailsOnlyGrow == TransitionsSpec => TrailIsAppendOnly
<1>1. ASSUME Sound, AuditSound, [TransitionsNext]_tableVars PROVE [TrailsGrow]_tableVars
  BY <1>1, NextGrowsTrails, TransitionsAssumption
<1>2. [][TrailsGrow]_tableVars => TrailIsAppendOnly
  BY PTL DEF TrailIsAppendOnly, TrailsGrow
<1> QED BY <1>1, <1>2, TrailsAreSound, PTL DEF TransitionsSpec
=============================================================================
