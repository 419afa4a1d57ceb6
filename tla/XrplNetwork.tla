----------------------------- MODULE XrplNetwork -----------------------------
(***************************************************************************)
(* What the service can observe of the XRP Ledger through its endpoints,   *)
(* and the external signer.  Nothing here is code of the repository: it is *)
(* modelled from the calls src/xrpl/ledger.service.ts makes and the fields *)
(* src/xrpl/types.ts reads.                                                *)
(*                                                                         *)
(* A blob may be broadcast by anyone who holds it, so any signed           *)
(* transaction can enter any ledger the protocol allows it in, whether or  *)
(* not the service submitted it.  An endpoint may lag the network: a read  *)
(* answers from a view, and two reads in a row may reach two endpoints     *)
(* with two views, in either order.                                        *)
(***************************************************************************)
EXTENDS Naturals, FiniteSets

CONSTANTS
    Intents,          \* ids, ordered like created_at
    Accounts,         \* source accounts
    Payloads,         \* canonical intent payloads
    Keys,             \* keys a signer may hold
    AuthorizedKeys,   \* master or regular keys the ledger accepts
    NoTx,             \* SQL null in a transaction column
    MaxLedger,        \* bound: the last ledger the network closes
    MaxLag,           \* bound: how far a reading endpoint may lag
    MaxExternal       \* bound: transactions not made from an intent

ASSUME NetworkAssumption ==
    /\ Intents \subseteq Nat
    /\ IsFiniteSet(Accounts)
    /\ AuthorizedKeys \subseteq Keys
    /\ MaxLedger \in Nat \ {0}
    /\ MaxLag \in Nat
    /\ MaxExternal \in Nat

VARIABLES
    closed,     \* index of the last validated ledger
    chain,      \* the transactions of the validated ledgers
    minted,     \* the transactions a signer has signed
    banned      \* malformed transactions: no ledger ever includes them

networkVars == <<closed, chain, minted, banned>>

\* The part of a signed transaction the service tells apart.  Two blobs of one
\* prepared transaction differ only in key.
Tx == [acct : Accounts, pay : Payloads, seq : Nat, lls : Nat, key : Keys]

ASSUME NoTxAssumption == NoTx \notin Tx

Entry == [acct : Accounts, at : Nat, tx : Tx \cup {NoTx}, deletes : BOOLEAN]

NetworkTypeOK ==
    /\ closed \in 1..MaxLedger
    /\ chain \subseteq Entry
    /\ minted \subseteq Tx
    /\ banned \subseteq minted

NetworkInit ==
    /\ closed = 1
    /\ chain = {}
    /\ minted = {}
    /\ banned = {}

\* The validated ledger an answering endpoint is at.
Views == {v \in 1..closed : closed <= v + MaxLag}

\* account_info of a validated ledger: the Sequence, and whether the account exists.
SeqAt(a, v) == 1 + Cardinality({e \in chain : e.acct = a /\ e.at <= v})
ExistsAt(a, v) == ~\E e \in chain : e.acct = a /\ e.at <= v /\ e.deletes

\* Where a transaction is found by an endpoint whose view is v.
FoundAt(t, v) == {e \in chain : e.tx = t /\ e.at <= v}
Included(t) == \E e \in chain : e.tx = t

External == {e \in chain : e.tx = NoTx}

\* What ledger number at can hold for the protocol: the next Sequence of a live
\* account, an authorized key, LastLedgerSequence not passed.
Candidates(at) ==
    {[acct |-> t.acct, at |-> at, tx |-> t, deletes |-> FALSE] :
        t \in {m \in minted \ banned : /\ m.key \in AuthorizedKeys
                                       /\ m.seq = SeqAt(m.acct, closed)
                                       /\ ExistsAt(m.acct, closed)
                                       /\ at <= m.lls}}
    \cup
    {[acct |-> a, at |-> at, tx |-> NoTx, deletes |-> d] :
        a \in {b \in Accounts : ExistsAt(b, closed) /\ Cardinality(External) < MaxExternal},
        d \in BOOLEAN}

\* A validated ledger closes with at most one of them per account.
CloseLedger ==
    /\ closed < MaxLedger
    /\ closed' = closed + 1
    /\ \E S \in SUBSET Candidates(closed + 1) :
          /\ \A e, f \in S : e.acct = f.acct => e = f
          /\ chain' = chain \cup S
    /\ UNCHANGED <<minted, banned>>
==============================================================================
