--------------------------- MODULE ArtifactIntegrity ---------------------------
(***************************************************************************)
(* One intent from its payload to its outcome, when every reply of the     *)
(* ledger may be incomplete, of the wrong type, or about something else.   *)
(* Each action is one await resolved with a raw reply, and what the        *)
(* service does with it up to the next await.  The services' loops only    *)
(* take these steps one after the other, so every step ends at "idle".     *)
(* Interleavings of several requests are Orchestrator's subject.           *)
(***************************************************************************)
EXTENDS Artifact, IntentState

CONSTANTS
    Networks,                  \* values of XRPL_NETWORK_ID
    Payloads,                  \* accepted intents
    Keys,                      \* of the signers
    ServerReplies, FormatReplies, AccountReplies, KeyReplies, CurrentReplies,
    LedgerIndexReplies, FeeReplies, SubmitReplies,
    SimulateReplies(_),        \* to the transaction that was sent
    TxReplies(_),              \* for the row that is looked up
    SignedTexts(_)             \* what clients post for a row

\* Engine results of the classes tes and tec.
FinalResults == {"tesSUCCESS", "tecPATH_DRY"}

\* Only a payment has a destination tag; a key, a code or a result is there.
ASSUME IntegrityAssumption ==
    /\ Networks \subseteq Nat
    /\ \A p \in Payloads : p.type # "PAYMENT" => p.tag = Absent
    /\ {Absent, Bad} \cap (Keys \cup FailureCodes \cup FinalResults) = {}

VARIABLES
    network,   \* config.networkId
    server,    \* server_info of the endpoint in use, as it was received
    payload,   \* row.intentPayload
    row,       \* the other columns
    pc,        \* the await the service is at
    local,     \* what it holds over it
    wire,      \* every blob that was sent
    basis      \* raw replies the signature and the outcome rest on (history)

vars == <<network, server, payload, row, pc, local, wire, basis>>

NoLocal == [seq |-> Absent, index |-> Absent, ledger |-> Absent, blob |-> Absent, account |-> Absent,
            tx |-> Absent, budget |-> 1]

Init ==
    /\ network \in Networks /\ payload \in Payloads
    /\ server = Absent /\ pc = "offline" /\ local = NoLocal /\ wire = {}
    /\ row = [status |-> "CREATED", json |-> Absent, blob |-> Absent, prep |-> Absent, seq |-> Absent,
              lls |-> Absent, sim |-> Absent, signed |-> Absent, key |-> Absent,
              result |-> Absent, failure |-> Absent]
    /\ basis = [account |-> Absent, ledger |-> Absent, tx |-> Absent, proof |-> Absent]

-------------------------------------------------------------------------------
Await(point, held) == pc' = point /\ local' = held
Return == Await("idle", NoLocal)

\* transition() with no rival, and the end of the step.
Becomes(new) == row' = new /\ Return

\* Mutant: the failure code is left out of the patch.
FailSilently(code) == Becomes([row EXCEPT !.status = "FAILED"])

Fail(code) == Becomes([row EXCEPT !.status = "FAILED", !.failure = code])

Keep == UNCHANGED <<network, payload>>

\* The request throws: the row keeps its status, and the next request retries from it.
Throw == Return /\ UNCHANGED row

\* bootstrap(): at the start, and when switchEndpoint() asks the other endpoint.
Bootstrapped(info, definitions) ==
    /\ pc \in {"offline", "switch"}
    /\ CheckServerInfo(info, network) /\ CheckDefinitions(definitions)
    /\ server' = info
    /\ IF pc = "switch" THEN Await("tx", local) ELSE Return
    /\ Keep /\ UNCHANGED <<row, wire, basis>>

Unusable(info, definitions) ==
    /\ pc = "switch"
    /\ ~(CheckServerInfo(info, network) /\ CheckDefinitions(definitions))
    /\ server' = Absent /\ Await("offline", NoLocal)
    /\ Keep /\ UNCHANGED <<row, wire, basis>>

-------------------------------------------------------------------------------
(* PreparationService.                                                     *)

Prepare ==
    /\ pc = "idle" /\ row.status \in {"CREATED", "PREPARED"}
    /\ Await(IF row.status = "CREATED" THEN "account" ELSE "simulateLedger", NoLocal)
    /\ Keep /\ UNCHANGED <<server, row, wire, basis>>

AccountAnswered(r) ==
    /\ pc = "account"
    /\ LET info == ValidatedAccountInfo(r)
       IN  \/ info \in {Bad, Absent} /\ Throw
           \/ info \notin {Bad, Absent} /\ Await("current", [local EXCEPT !.seq = info.seq]) /\ UNCHANGED row
    /\ Keep /\ UNCHANGED <<server, wire, basis>>

CurrentAnswered(r) ==
    /\ pc = "current"
    /\ LET info      == CurrentAccountInfo(r)
           quiescent == info # Bad /\ info.seq = local.seq /\ info.queued = 0
       IN  IF quiescent THEN Await("prepareLedger", local) /\ UNCHANGED row ELSE Throw
    /\ Keep /\ UNCHANGED <<server, wire, basis>>

PrepareLedgerAnswered(r) ==
    /\ pc = "prepareLedger"
    /\ LET index == ValidatedLedgerIndex(r)
       IN  IF index = Bad THEN Throw ELSE Await("fee", [local EXCEPT !.index = index]) /\ UNCHANGED row
    /\ Keep /\ UNCHANGED <<server, wire, basis>>

\* Everything is known: build, encode and store.
FeeAnswered(r) ==
    /\ pc = "fee"
    /\ LET fee  == CappedOpenLedgerFee(r)
           lls  == local.index + LastLedgerOffset
           json == BuildTransaction(payload, [fee |-> fee, seq |-> local.seq, lls |-> lls, networkId |-> network])
           blob == EncodeTransaction(json)
       IN  IF fee = Bad \/ blob = Bad THEN Throw
           ELSE Becomes([row EXCEPT !.status = "PREPARED", !.json = json, !.blob = blob, !.prep = local.index,
                                    !.seq = local.seq, !.lls = lls])
    /\ Keep /\ UNCHANGED <<server, wire, basis>>

SimulateLedgerAnswered(r) ==
    /\ pc = "simulateLedger"
    /\ LET index == ValidatedLedgerIndex(r)
       IN  \/ index = Bad /\ Throw
           \/ index # Bad /\ index > row.lls /\ Becomes([row EXCEPT !.status = "EXPIRED"])
           \/ index # Bad /\ index <= row.lls /\ Await("simulate", local) /\ UNCHANGED row
    /\ Keep /\ UNCHANGED <<server, wire, basis>>

\* The reply is stored as it came, on a mismatch too.
Simulated(r) ==
    /\ pc = "simulate"
    /\ LET result == Simulate(r)
       IN  IF result = Bad THEN Throw
           ELSE IF SimulationMatchesPrepared(row.json, result.tx)
           THEN Becomes([row EXCEPT !.status = "SIMULATED", !.sim = r])
           ELSE Becomes([row EXCEPT !.status = "FAILED", !.sim = r, !.failure = "SIMULATION_ARTIFACT_MISMATCH"])
    /\ Keep /\ UNCHANGED <<server, wire, basis>>

CompleteSimulation ==
    /\ pc = "idle" /\ row.status = "SIMULATED"
    /\ Becomes([row EXCEPT !.status = IF row.sim.engine = "tesSUCCESS" THEN "AWAITING_SIGNATURE" ELSE "REJECTED"])
    /\ Keep /\ UNCHANGED <<server, wire, basis>>

-------------------------------------------------------------------------------
(* SigningService.                                                         *)

AttachSignature(text) ==
    /\ pc = "idle" /\ row.status = "AWAITING_SIGNATURE" /\ Verify(text, row.blob)
    /\ Await("signAccount", [NoLocal EXCEPT !.blob = text])
    /\ Keep /\ UNCHANGED <<server, row, wire, basis>>

\* The rest of attachSignature() once the account and the ledger index are known.
Accept(r, info, index) ==
    LET key == local.blob.SigningPubKey
    IN  \/ index > row.lls /\ Becomes([row EXCEPT !.status = "EXPIRED"]) /\ UNCHANGED basis
        \/ index <= row.lls /\ ~AssertAuthorized(key, info) /\ Throw /\ UNCHANGED basis
        \/ /\ index <= row.lls /\ AssertAuthorized(key, info) /\ info.seq # row.seq
           /\ Fail(IF info.seq > row.seq THEN "SEQUENCE_CONFLICT" ELSE "SEQUENCE_REGRESSION")
           /\ UNCHANGED basis
        \/ /\ index <= row.lls /\ AssertAuthorized(key, info) /\ info.seq = row.seq
           /\ Becomes([row EXCEPT !.status = "SIGNED", !.signed = local.blob, !.key = key])
           /\ basis' = [basis EXCEPT !.account = r]

SignAccountAnswered(r) ==
    /\ pc = "signAccount"
    /\ LET info == ValidatedAccountInfo(r)
       IN  \/ info \in {Bad, Absent} /\ Throw /\ UNCHANGED basis
           \/ /\ info \notin {Bad, Absent} /\ info.index = Absent
              /\ Await("signLedger", [local EXCEPT !.account = r]) /\ UNCHANGED <<row, basis>>
           \/ info \notin {Bad, Absent} /\ info.index # Absent /\ Accept(r, info, info.index)
    /\ Keep /\ UNCHANGED <<server, wire>>

\* account_info did not say of which ledger it is.
SignLedgerAnswered(r) ==
    /\ pc = "signLedger"
    /\ LET index == ValidatedLedgerIndex(r)
       IN  IF index = Bad THEN Throw /\ UNCHANGED basis
           ELSE Accept(local.account, ValidatedAccountInfo(local.account), index)
    /\ Keep /\ UNCHANGED <<server, wire>>

-------------------------------------------------------------------------------
(* SubmissionService.                                                      *)

Submit ==
    /\ pc = "idle" /\ row.status \in SignedActive
    /\ Await("submitLedger", NoLocal)
    /\ Keep /\ UNCHANGED <<server, row, wire, basis>>

\* Past the window the outcome is resolved; before it the stored blob is sent.
SubmitLedgerAnswered(r) ==
    /\ pc = "submitLedger"
    /\ LET index == ValidatedLedgerIndex(r)
       IN  \/ index = Bad /\ Throw /\ UNCHANGED wire
           \/ index # Bad /\ index > row.lls /\ Await("tx", [local EXCEPT !.ledger = r]) /\ UNCHANGED <<row, wire>>
           \/ index # Bad /\ index <= row.lls /\ Await("submit", local) /\ UNCHANGED row
              /\ wire' = wire \cup {row.signed}
    /\ Keep /\ UNCHANGED <<server, basis>>

SubmitAnswered(r) ==
    /\ pc = "submit"
    /\ LET engine == SubmitEngineResult(r)
       IN  IF engine = Bad \/ row.status = "SUBMITTED" THEN Throw
           ELSE Becomes([row EXCEPT !.status = IF engine = "temMALFORMED" THEN "REJECTED" ELSE "SUBMITTED"])
    /\ Keep /\ UNCHANGED <<server, wire, basis>>

-------------------------------------------------------------------------------
(* FinalityService.                                                        *)

Cycle ==
    /\ pc = "idle" /\ row.status \in UnsignedActive \cup SignedActive
    /\ Await("cycleLedger", NoLocal)
    /\ Keep /\ UNCHANGED <<server, row, wire, basis>>

CycleLedgerAnswered(r) ==
    /\ pc = "cycleLedger"
    /\ LET index == ValidatedLedgerIndex(r)
       IN  \/ index = Bad /\ Throw
           \/ index # Bad /\ row.status \in UnsignedActive /\ index <= row.lls /\ Throw
           \/ index # Bad /\ row.status \in UnsignedActive /\ index > row.lls /\ Becomes([row EXCEPT !.status = "EXPIRED"])
           \/ index # Bad /\ row.status \in SignedActive /\ Await("tx", [local EXCEPT !.ledger = r]) /\ UNCHANGED row
    /\ Keep /\ UNCHANGED <<server, wire, basis>>

HashOf(blob) == <<"hash", blob>>
Settle(r, proof) == basis' = [basis EXCEPT !.ledger = local.ledger, !.tx = r, !.proof = proof]

\* applyFound().
ApplyFound(r, lookup) ==
    LET consistent == /\ lookup.hash = HashOf(row.signed) /\ lookup.index # Absent
                      /\ row.prep < lookup.index /\ lookup.index <= row.lls
        final      == lookup.result \in FinalResults
    IN  \/ ~lookup.validated /\ Throw /\ UNCHANGED basis
        \/ lookup.validated /\ ~consistent /\ Fail("FINALITY_INTEGRITY_ERROR") /\ Settle(r, Absent)
        \/ lookup.validated /\ consistent /\ ~final /\ Fail("UNEXPECTED_VALIDATED_RESULT") /\ Settle(r, Absent)
        \/ /\ lookup.validated /\ consistent /\ final
           /\ Becomes([row EXCEPT !.status = "VALIDATED", !.result = lookup.result]) /\ Settle(r, Absent)

\* resolveSigned() and applySearch().
TxAnswered(r) ==
    /\ pc = "tx"
    /\ LET search == TxSearch(r)
           past   == ValidatedLedgerIndex(local.ledger) > row.lls
       IN  \/ search = Bad /\ Throw /\ UNCHANGED basis
           \/ search # Bad /\ search.found /\ ApplyFound(r, search)
           \/ search # Bad /\ ~search.found /\ ~past /\ Throw /\ UNCHANGED basis
           \/ /\ search # Bad /\ ~search.found /\ past /\ ~search.searchedAll /\ UNCHANGED <<row, basis>>
              /\ IF local.budget = 0 THEN Return ELSE Await("switch", [local EXCEPT !.budget = 0])
           \/ /\ search # Bad /\ ~search.found /\ past /\ search.searchedAll
              /\ Await("proof", [local EXCEPT !.tx = r]) /\ UNCHANGED <<row, basis>>
    /\ Keep /\ UNCHANGED <<server, wire>>

\* applyProvenAbsent(): an account of no stated ledger proves nothing.
ProofAnswered(r) ==
    /\ pc = "proof"
    /\ LET info == ValidatedAccountInfo(r)
       IN  \/ info = Bad /\ Throw /\ UNCHANGED basis
           \/ info = Absent /\ Fail("SEQUENCE_CONFLICT") /\ Settle(local.tx, r)
           \/ info \notin {Bad, Absent} /\ Else(info.index, 0) <= row.lls /\ Throw /\ UNCHANGED basis
           \/ /\ info \notin {Bad, Absent} /\ Else(info.index, 0) > row.lls /\ Settle(local.tx, r)
              /\ \/ info.seq = row.seq /\ Becomes([row EXCEPT !.status = "EXPIRED"])
                 \/ info.seq > row.seq /\ Fail("SEQUENCE_CONFLICT")
                 \/ info.seq < row.seq /\ Fail("SEQUENCE_REGRESSION")
    /\ Keep /\ UNCHANGED <<server, wire>>

-------------------------------------------------------------------------------
Next ==
    \/ \E info \in ServerReplies, d \in FormatReplies : Bootstrapped(info, d) \/ Unusable(info, d)
    \/ Prepare \/ CompleteSimulation \/ Submit \/ Cycle
    \/ \E r \in AccountReplies : AccountAnswered(r) \/ ProofAnswered(r)
    \/ \E r \in CurrentReplies : CurrentAnswered(r)
    \/ \E r \in LedgerIndexReplies :
          \/ PrepareLedgerAnswered(r) \/ SimulateLedgerAnswered(r) \/ SignLedgerAnswered(r)
          \/ SubmitLedgerAnswered(r) \/ CycleLedgerAnswered(r)
    \/ \E r \in FeeReplies : FeeAnswered(r)
    \/ pc = "simulate" /\ \E r \in SimulateReplies(ToCanonicalForm(row.json)) : Simulated(r)
    \/ row.status = "AWAITING_SIGNATURE" /\ \E text \in SignedTexts(row) : AttachSignature(text)
    \/ \E r \in KeyReplies : SignAccountAnswered(r)
    \/ \E r \in SubmitReplies : SubmitAnswered(r)
    \/ pc = "tx" /\ \E r \in TxReplies(row) : TxAnswered(r)

ArtifactSpec == Init /\ [][Next]_vars

-------------------------------------------------------------------------------
(* Properties.                                                             *)

\* Columns appear with the step that fills them and stay: an unsigned row has no
\* blob of a signer, a row past PREPARED has all its transaction columns.
ArtifactTypeOK ==
    /\ (row.json = Absent) <=> (row.status = "CREATED")
    /\ Absent \in {row.json, row.blob, row.prep, row.seq, row.lls} => row.status = "CREATED"
    /\ row.status \in SignedActive \cup {"VALIDATED"} => Absent \notin {row.signed, row.key}
    /\ row.signed = Absent => wire = {}
    /\ (row.status = "FAILED") <=> (row.failure # Absent)
    /\ (row.status = "VALIDATED") <=> (row.result # Absent)

\* The blob has this field, with this value.
Has(blob, field, value) == field \in DOMAIN blob /\ blob[field] = value

\* The payload and the configured network say what the transaction has to be, every
\* field that is there and its value.
Realises(blob) ==
    /\ Value(payload.amount) =
          (IF payload.type = "PAYMENT" THEN blob.Amount ELSE blob.LimitAmount)
    /\ blob.TransactionType = IF payload.type = "PAYMENT" THEN "Payment" ELSE "TrustSet"
    /\ blob.Parties = payload.parties /\ blob.Flags = 0
    /\ blob.Fee \in 1..MaxFeeDrops /\ blob.Sequence = row.seq
    /\ blob.LastLedgerSequence = row.lls /\ row.lls = row.prep + LastLedgerOffset
    /\ IF payload.tag = Absent THEN "DestinationTag" \notin DOMAIN blob
       ELSE Has(blob, "DestinationTag", payload.tag)
    /\ IF network > NetworkIdThreshold THEN Has(blob, "NetworkID", network)
       ELSE "NetworkID" \notin DOMAIN blob
    /\ DOMAIN blob \cap {"Extra", "Signers"} = {}

\* Every blob that reaches the network, through whatever replies it came about and
\* whatever text the client posted, is the prepared transaction plus one signature, has
\* the intent's type, amount, parties and destination tag, a fee within the cap and the
\* configured network's id where that network needs one, and goes to that network
\* (SignedBlobService.verify, the builders, checkFee, checkServerInfo).
SentIsIntended ==
    \A blob \in wire :
        /\ Without(blob, SignatureFields) = row.blob /\ Realises(row.blob)
        /\ blob.TxnSignature = Signature(blob, row.key)
        /\ pc = "submit" => server.networkId = network

\* Whoever signs the transaction the API shows gets it accepted: the stored JSON, the
\* presenter, the signer's canonical form and the stored blob agree for every payload
\* (toCanonicalForm, orderedTransaction, encodeTransaction, verify).
ShownIsSignable ==
    row.status = "AWAITING_SIGNATURE" =>
        \A key \in Keys : Verify(SignedBy(key, OrderedTransaction(row.json)), row.blob)

\* A row is open for a signature only after a simulation that said tesSUCCESS about this
\* very transaction; a mismatch is recorded only for a reply that was about another one
\* or about none (simulationMatchesPrepared).
SimulatedIsPrepared ==
    LET same == /\ row.sim.tx \notin {Absent, Bad}
                /\ EncodeComparable(ToCanonicalForm(row.sim.tx)) = row.blob
    IN  /\ row.sim # Absent => (same <=> row.failure # "SIMULATION_ARTIFACT_MISMATCH")
        /\ row.status \in SignedActive \cup {"AWAITING_SIGNATURE"} => row.sim.engine = "tesSUCCESS"

\* The key of an attached signature was shown to be entitled by an account_info that
\* called itself validated: the regular key, or a master key that neither account_flags
\* nor, in its absence, the Flags bits disable; with both absent parseAccountInfo takes
\* the key for enabled (parseAccountInfo, assertAuthorized).
SignerIsEntitled ==
    row.signed # Absent =>
        LET r == basis.account
        IN  /\ r.validated = TRUE /\ r.seq = row.seq
            /\ \/ row.key = "master" /\ r.flag # TRUE
                  /\ (r.flag = FALSE \/ r.bits # "lsfDisableMaster")
               \/ row.key # "master" /\ r.regular = row.key

\* VALIDATED, and EXPIRED of a signed row, rest on what replies stated, never on what
\* they left out: VALIDATED on a validated transaction with the row's own hash in a
\* ledger of its window, EXPIRED on a complete search, a validated ledger past the
\* window, and a validated account of a later ledger whose Sequence is still free
\* (applyFound, applyProvenAbsent).  FAILED is another matter: a validated reply without
\* hash or ledger_index fails the row with FINALITY_INTEGRITY_ERROR.
OutcomeIsStated ==
    LET tx == basis.tx  proof == basis.proof
    IN  /\ row.status = "VALIDATED" =>
              /\ tx.validated = TRUE /\ tx.hash = HashOf(row.signed)
              /\ tx.index \in (row.prep + 1)..row.lls /\ tx.result = row.result
        /\ row.status = "EXPIRED" /\ row.signed # Absent =>
              /\ basis.ledger.validated = TRUE
              /\ tx.error = "txnNotFound" /\ tx.searchedAll = TRUE
              /\ proof.validated = TRUE /\ proof.seq = row.seq
              /\ Else(proof.index, proof.currentIndex) > row.lls
==============================================================================
