----------------------- MODULE ArtifactIntegrityProofs -----------------------
(***************************************************************************)
(* The integrity of the artifact, whatever the replies and the posted      *)
(* texts are: the constants that stand for them are any sets at all.  The  *)
(* argument: what a step stores is what it has just checked, the columns a *)
(* check was about do not change after it, and the forms of a transaction  *)
(* (JSON, as shown, canonical, blob) are one function on field names.      *)
(***************************************************************************)
EXTENDS ArtifactIntegrity, TLAPS

\* undefined has no fields, and neither has an answer that was an exception.  TLA+
\* leaves the domain of a value that is no function open, so that a theorem which
\* needs to tell a record from Absent or Bad says it.
NullsHaveNoFields == DOMAIN Absent = {} /\ DOMAIN Bad = {}

-------------------------------------------------------------------------------
(* The forms of a transaction.                                             *)

IsFunction(f) == f = [x \in DOMAIN f |-> f[x]]

LEMMA SameFunction ==
    ASSUME NEW f, NEW g, IsFunction(f), IsFunction(g), DOMAIN f = DOMAIN g,
           \A x \in DOMAIN f : f[x] = g[x]
    PROVE  f = g
BY DEF IsFunction

LEMMA WithoutIs ==
    ASSUME NEW tx, NEW fields
    PROVE  IsFunction(Without(tx, fields)) /\ DOMAIN Without(tx, fields) = DOMAIN tx \ fields
BY DEF Without, IsFunction

LEMMA WithoutKeeps ==
    ASSUME NEW tx, NEW fields, NEW f \in DOMAIN tx \ fields
    PROVE  Without(tx, fields)[f] = tx[f]
BY DEF Without

\* new has the fields of tx and those of `fields`.
Adds(new, tx, fields) ==
    /\ IsFunction(new) /\ DOMAIN new = DOMAIN tx \cup fields
    /\ \A f \in DOMAIN tx : new[f] = tx[f]

LEMMA WithAdds ==
    ASSUME NEW tx, NEW field, NEW value, field \notin DOMAIN tx
    PROVE  Adds(With(tx, field, value), tx, {field}) /\ With(tx, field, value)[field] = value
BY DEF With, Merge, IsFunction, Adds

\* Fields that are not there can be left out.
LEMMA WithoutNothing ==
    ASSUME NEW tx, IsFunction(tx), NEW fields, DOMAIN tx \cap fields = {}
    PROVE  Without(tx, fields) = tx
<1>1. DOMAIN tx \ fields = DOMAIN tx
  OBVIOUS
<1>2. /\ IsFunction(Without(tx, fields)) /\ DOMAIN Without(tx, fields) = DOMAIN tx
      /\ \A f \in DOMAIN tx : Without(tx, fields)[f] = tx[f]
  BY <1>1, WithoutIs, WithoutKeeps
<1> QED BY <1>2, SameFunction

BaseFields == {"TransactionType", "Parties", "Flags", "Fee", "Sequence", "LastLedgerSequence"}
OptionalFields == {"DestinationTag", "NetworkID"}

\* What a builder makes of an intent, field by field.
BuiltFrom(tx, intent, params) ==
    /\ IsFunction(tx)
    /\ \/ /\ intent.type = "PAYMENT" /\ tx.TransactionType = "Payment" /\ tx.DeliverMax = intent.amount
          /\ BaseFields \cup {"DeliverMax"} \subseteq DOMAIN tx
          /\ DOMAIN tx \subseteq BaseFields \cup {"DeliverMax"} \cup OptionalFields
       \/ /\ intent.type # "PAYMENT" /\ tx.TransactionType = "TrustSet" /\ tx.LimitAmount = intent.amount
          /\ BaseFields \cup {"LimitAmount"} \subseteq DOMAIN tx
          /\ DOMAIN tx \subseteq BaseFields \cup {"LimitAmount"} \cup OptionalFields
    /\ tx.Parties = intent.parties /\ tx.Flags = 0 /\ tx.Fee = params.fee /\ tx.Sequence = params.seq
    /\ tx.LastLedgerSequence = params.lls
    /\ ("DestinationTag" \in DOMAIN tx) <=> (intent.type = "PAYMENT" /\ intent.tag # Absent)
    /\ "DestinationTag" \in DOMAIN tx => tx.DestinationTag = intent.tag
    /\ ("NetworkID" \in DOMAIN tx) <=> (params.networkId > NetworkIdThreshold)
    /\ "NetworkID" \in DOMAIN tx => tx.NetworkID = params.networkId

\* networkIdField() adds at most one field, the configured network.
LEMMA NetworkIdAdds ==
    ASSUME NEW tx, IsFunction(tx), NEW networkId, "NetworkID" \notin DOMAIN tx
    PROVE  /\ Adds(NetworkIdField(tx, networkId), tx,
                   IF networkId > NetworkIdThreshold THEN {"NetworkID"} ELSE {})
           /\ networkId > NetworkIdThreshold => NetworkIdField(tx, networkId).NetworkID = networkId
<1>1. CASE networkId > NetworkIdThreshold
  BY <1>1, WithAdds DEF NetworkIdField
<1>2. CASE ~(networkId > NetworkIdThreshold)
  BY <1>2 DEF NetworkIdField, Adds
<1> QED BY <1>1, <1>2

LEMMA BuildTransactionIs ==
    ASSUME NEW intent, NEW params
    PROVE  BuiltFrom(BuildTransaction(intent, params), intent, params)
<1>1. CASE intent.type = "PAYMENT"
  <2> DEFINE tx == [TransactionType |-> "Payment", Parties |-> intent.parties, DeliverMax |-> intent.amount,
                    Flags |-> 0, Fee |-> params.fee, Sequence |-> params.seq,
                    LastLedgerSequence |-> params.lls]
             tagged == IF intent.tag = Absent THEN tx ELSE With(tx, "DestinationTag", intent.tag)
  <2>1. /\ IsFunction(tx) /\ DOMAIN tx = BaseFields \cup {"DeliverMax"}
        /\ tx.TransactionType = "Payment" /\ tx.Parties = intent.parties /\ tx.DeliverMax = intent.amount
        /\ tx.Flags = 0 /\ tx.Fee = params.fee /\ tx.Sequence = params.seq /\ tx.LastLedgerSequence = params.lls
    BY DEF IsFunction, BaseFields
  <2>2. BuildTransaction(intent, params) = NetworkIdField(tagged, params.networkId)
    BY <1>1 DEF BuildTransaction, BuildPayment
  <2> HIDE DEF tx
  <2> DEFINE tag == IF intent.tag = Absent THEN {} ELSE {"DestinationTag"}
  <2>3. Adds(tagged, tx, tag) /\ (intent.tag # Absent => tagged.DestinationTag = intent.tag)
    <3>1. "DestinationTag" \notin DOMAIN tx
      BY <2>1 DEF BaseFields
    <3>2. CASE intent.tag = Absent
      BY <2>1, <3>2 DEF Adds
    <3>3. CASE intent.tag # Absent
      BY <3>1, <3>3, WithAdds
    <3> QED BY <3>2, <3>3
  <2> DEFINE net == IF params.networkId > NetworkIdThreshold THEN {"NetworkID"} ELSE {}
  <2> HIDE DEF tagged
  <2>4. "NetworkID" \notin DOMAIN tagged
    BY <2>1, <2>3 DEF BaseFields, Adds
  <2> DEFINE built == NetworkIdField(tagged, params.networkId)
  <2>5. /\ Adds(built, tagged, net)
        /\ params.networkId > NetworkIdThreshold => built.NetworkID = params.networkId
    BY <2>3, <2>4, NetworkIdAdds DEF Adds
  <2> HIDE DEF built
  <2>6. /\ IsFunction(built) /\ DOMAIN built = BaseFields \cup {"DeliverMax"} \cup tag \cup net
        /\ \A f \in BaseFields \cup {"DeliverMax"} : built[f] = tx[f]
        /\ intent.tag # Absent => built.DestinationTag = intent.tag
    BY <2>1, <2>3, <2>5 DEF Adds
  <2>7. BuiltFrom(built, intent, params)
    BY <1>1, <2>1, <2>5, <2>6 DEF BuiltFrom, BaseFields, OptionalFields
  <2> QED BY <2>2, <2>7 DEF built
<1>2. CASE intent.type # "PAYMENT"
  <2> DEFINE tx == [TransactionType |-> "TrustSet", Parties |-> intent.parties, LimitAmount |-> intent.amount,
                    Flags |-> 0, Fee |-> params.fee, Sequence |-> params.seq,
                    LastLedgerSequence |-> params.lls]
  <2>1. /\ IsFunction(tx) /\ DOMAIN tx = BaseFields \cup {"LimitAmount"}
        /\ tx.TransactionType = "TrustSet" /\ tx.Parties = intent.parties /\ tx.LimitAmount = intent.amount
        /\ tx.Flags = 0 /\ tx.Fee = params.fee /\ tx.Sequence = params.seq /\ tx.LastLedgerSequence = params.lls
    BY DEF IsFunction, BaseFields
  <2>2. BuildTransaction(intent, params) = NetworkIdField(tx, params.networkId)
    BY <1>2 DEF BuildTransaction, BuildTrustSet
  <2> HIDE DEF tx
  <2>4. "NetworkID" \notin DOMAIN tx
    BY <2>1 DEF BaseFields
  <2> DEFINE built == NetworkIdField(tx, params.networkId)
  <2>5. /\ Adds(built, tx, IF params.networkId > NetworkIdThreshold THEN {"NetworkID"} ELSE {})
        /\ params.networkId > NetworkIdThreshold => built.NetworkID = params.networkId
    BY <2>1, <2>4, NetworkIdAdds
  <2> HIDE DEF built
  <2>7. BuiltFrom(built, intent, params)
    BY <1>2, <2>1, <2>5 DEF Adds, BuiltFrom, BaseFields, OptionalFields
  <2> QED BY <2>2, <2>7 DEF built
<1> QED BY <1>1, <1>2

\* The canonical form of the same transaction.
CanonicalOf(tx, intent, params) ==
    /\ IsFunction(tx)
    /\ BaseFields \subseteq DOMAIN tx /\ DOMAIN tx \subseteq BaseFields \cup AmountFields \cup OptionalFields
    /\ \/ /\ intent.type = "PAYMENT" /\ tx.TransactionType = "Payment"
          /\ "Amount" \in DOMAIN tx /\ tx.Amount = intent.amount
       \/ /\ intent.type # "PAYMENT" /\ tx.TransactionType = "TrustSet"
          /\ "LimitAmount" \in DOMAIN tx /\ tx.LimitAmount = intent.amount
    /\ tx.Parties = intent.parties /\ tx.Flags = 0 /\ tx.Fee = params.fee /\ tx.Sequence = params.seq
    /\ tx.LastLedgerSequence = params.lls
    /\ ("DestinationTag" \in DOMAIN tx) <=> (intent.type = "PAYMENT" /\ intent.tag # Absent)
    /\ "DestinationTag" \in DOMAIN tx => tx.DestinationTag = intent.tag
    /\ ("NetworkID" \in DOMAIN tx) <=> (params.networkId > NetworkIdThreshold)
    /\ "NetworkID" \in DOMAIN tx => tx.NetworkID = params.networkId

\* The signer's way from what the API shows to the canonical form.
Canonicalised(tx) ==
    IF "DeliverMax" \in DOMAIN tx THEN With(Without(tx, {"DeliverMax"}), "Amount", tx.DeliverMax) ELSE tx

\* The service and the signer come to one canonical form.
LEMMA CanonicalIs ==
    ASSUME NEW tx, NEW intent, NEW params, BuiltFrom(tx, intent, params)
    PROVE  /\ CanonicalOf(ToCanonicalForm(tx), intent, params)
           /\ Canonicalised(tx) = ToCanonicalForm(tx)
<1>1. CASE intent.type = "PAYMENT"
  <2> DEFINE rest == Without(tx, {"DeliverMax"})
  <2>1. /\ IsFunction(tx) /\ tx.TransactionType = "Payment" /\ tx.DeliverMax = intent.amount
        /\ "DeliverMax" \in DOMAIN tx /\ "Amount" \notin DOMAIN tx
        /\ BaseFields \subseteq DOMAIN tx /\ DOMAIN tx \ {"DeliverMax"} \subseteq BaseFields \cup OptionalFields
    BY <1>1 DEF BuiltFrom, BaseFields, OptionalFields
  <2>2. Without(tx, {"DeliverMax", "Amount"}) = rest
    <3>1. DOMAIN tx \ {"DeliverMax", "Amount"} = DOMAIN tx \ {"DeliverMax"}
      BY <2>1
    <3> QED BY <3>1 DEF Without
  <2>3. ToCanonicalForm(tx) = With(rest, "Amount", tx.DeliverMax)
    BY <2>1, <2>2 DEF ToCanonicalForm
  <2>4. Canonicalised(tx) = With(rest, "Amount", tx.DeliverMax)
    BY <2>1 DEF Canonicalised
  <2>5. /\ IsFunction(rest) /\ DOMAIN rest = DOMAIN tx \ {"DeliverMax"}
        /\ \A f \in DOMAIN tx \ {"DeliverMax"} : rest[f] = tx[f]
    BY WithoutIs, WithoutKeeps
  <2> HIDE DEF rest
  <2> DEFINE new == With(rest, "Amount", tx.DeliverMax)
  <2>6. Adds(new, rest, {"Amount"}) /\ new.Amount = tx.DeliverMax
    BY <2>1, <2>5, WithAdds
  <2> HIDE DEF new
  <2>7. /\ IsFunction(new) /\ DOMAIN new = (DOMAIN tx \ {"DeliverMax"}) \cup {"Amount"}
        /\ \A f \in DOMAIN tx \ {"DeliverMax"} : new[f] = tx[f]
    BY <2>5, <2>6 DEF Adds
  <2>8. /\ new.TransactionType = tx.TransactionType /\ new.Parties = tx.Parties /\ new.Flags = tx.Flags
        /\ new.Fee = tx.Fee /\ new.Sequence = tx.Sequence /\ new.LastLedgerSequence = tx.LastLedgerSequence
        /\ \A f \in OptionalFields \cap DOMAIN new : f \in DOMAIN tx /\ new[f] = tx[f]
    BY <2>1, <2>7 DEF BaseFields, OptionalFields
  <2>9. CanonicalOf(new, intent, params)
    BY <1>1, <2>1, <2>6, <2>7, <2>8 DEF CanonicalOf, BuiltFrom, BaseFields, OptionalFields, AmountFields
  <2> QED BY <2>3, <2>4, <2>9 DEF new
<1>2. CASE intent.type # "PAYMENT"
  <2>1. /\ tx.TransactionType = "TrustSet" /\ "DeliverMax" \notin DOMAIN tx
        /\ DOMAIN tx \subseteq BaseFields \cup {"LimitAmount"} \cup OptionalFields
    BY <1>2 DEF BuiltFrom, BaseFields, OptionalFields
  <2>2. ToCanonicalForm(tx) = tx /\ Canonicalised(tx) = tx
    BY <2>1 DEF ToCanonicalForm, Canonicalised
  <2>3. CanonicalOf(tx, intent, params)
    BY <1>2, <2>1 DEF CanonicalOf, BuiltFrom, BaseFields, OptionalFields, AmountFields
  <2> QED BY <2>2, <2>3
<1> QED BY <1>1, <1>2

\* The presenter shows the stored JSON itself, whatever order it puts the fields in.
LEMMA OrderedIsSame ==
    ASSUME NEW tx, IsFunction(tx)
    PROVE  OrderedTransaction(tx) = tx
<1> DEFINE first == Without(tx, DOMAIN tx \ TransactionFieldOrder)
           last == Without(tx, TransactionFieldOrder)
<1>1. /\ DOMAIN first = DOMAIN tx \cap TransactionFieldOrder /\ DOMAIN last = DOMAIN tx \ TransactionFieldOrder
      /\ \A f \in DOMAIN first : first[f] = tx[f]
      /\ \A f \in DOMAIN last : last[f] = tx[f]
  BY DEF Without
<1> HIDE DEF first, last
<1>2. OrderedTransaction(tx) = Merge(first, last)
  BY DEF OrderedTransaction, first, last
<1>3. /\ IsFunction(Merge(first, last)) /\ DOMAIN Merge(first, last) = DOMAIN tx
      /\ \A f \in DOMAIN tx : Merge(first, last)[f] = tx[f]
  BY <1>1 DEF Merge, IsFunction
<1> QED BY <1>2, <1>3, SameFunction

LEMMA EncodeIs ==
    ASSUME NEW tx, Encode(tx) # Bad
    PROVE  /\ tx # Bad
           /\ IsFunction(Encode(tx)) /\ DOMAIN Encode(tx) = DOMAIN tx \cap CodecFields
           /\ \A f \in DOMAIN tx \cap CodecFields :
                 Encode(tx)[f] = IF f \in AmountFields THEN Value(tx[f]) ELSE tx[f]
BY DEF Encode, IsFunction

\* What a comparison of blobs leaves out is not in a prepared transaction.
LEMMA ComparableIs ==
    ASSUME NEW tx, NEW intent, NEW params, CanonicalOf(tx, intent, params), Encode(tx) # Bad
    PROVE  EncodeComparable(tx) = Encode(tx)
<1>1. IsFunction(tx) /\ DOMAIN tx \cap (SignatureFields \cup {"hash"}) = {}
  BY DEF CanonicalOf, BaseFields, OptionalFields, AmountFields, SignatureFields
<1>2. Without(tx, SignatureFields \cup {"hash"}) = tx
  BY <1>1, WithoutNothing
<1>3. tx # Bad
  BY EncodeIs
<1> QED BY <1>2, <1>3 DEF EncodeComparable

\* The blob of a prepared transaction has its fields, all of them of the codec.
LEMMA BlobIs ==
    ASSUME NEW tx, NEW intent, NEW params, CanonicalOf(tx, intent, params), Encode(tx) # Bad
    PROVE  /\ IsFunction(Encode(tx)) /\ DOMAIN Encode(tx) = DOMAIN tx
           /\ \A f \in DOMAIN tx : Encode(tx)[f] = IF f \in AmountFields THEN Value(tx[f]) ELSE tx[f]
<1>1. DOMAIN tx \cap CodecFields = DOMAIN tx
  BY DEF CanonicalOf, BaseFields, OptionalFields, AmountFields, CodecFields
<1> QED BY <1>1, EncodeIs

\* A signature over a blob is accepted for that blob.
LEMMA SignedVerifies ==
    ASSUME NullsHaveNoFields, NEW blob, IsFunction(blob),
           DOMAIN blob \cap (SignatureFields \cup ForbiddenSignedFields) = {},
           NEW key, key \notin {Absent, Bad}
    PROVE  LET keyed == With(blob, "SigningPubKey", key)
           IN  Verify(With(keyed, "TxnSignature", Signature(keyed, key)), blob)
<1> DEFINE keyed == With(blob, "SigningPubKey", key)
           signature == Signature(keyed, key)
           signed == With(keyed, "TxnSignature", signature)
<1>1. Adds(keyed, blob, {"SigningPubKey"}) /\ keyed.SigningPubKey = key
  BY WithAdds DEF SignatureFields
<1>2. signature = <<key, Without(keyed, {"TxnSignature"})>>
  BY DEF Signature
<1>3. signature \notin {Absent, Bad}
  <2>1. DOMAIN signature = {1, 2}
    BY <1>2
  <2> QED BY <2>1 DEF NullsHaveNoFields
<1> HIDE DEF keyed, signature
<1>4. Adds(signed, keyed, {"TxnSignature"}) /\ signed.TxnSignature = signature
  <2>1. "TxnSignature" \notin DOMAIN keyed
    BY <1>1 DEF Adds, SignatureFields
  <2> QED BY <2>1, WithAdds
<1> HIDE DEF signed
<1>5. /\ IsFunction(signed) /\ DOMAIN signed = DOMAIN blob \cup SignatureFields
      /\ signed.SigningPubKey = key /\ signed.TxnSignature = signature
      /\ \A f \in DOMAIN blob : signed[f] = blob[f]
  BY <1>1, <1>4 DEF Adds, SignatureFields
<1>6. signed # Bad
  BY <1>5 DEF NullsHaveNoFields, SignatureFields
<1>7. Without(signed, SignatureFields) = blob
  <2>1. DOMAIN signed \ SignatureFields = DOMAIN blob
    BY <1>5
  <2>2. /\ IsFunction(Without(signed, SignatureFields)) /\ DOMAIN Without(signed, SignatureFields) = DOMAIN blob
        /\ \A f \in DOMAIN blob : Without(signed, SignatureFields)[f] = blob[f]
    BY <1>5, <2>1, WithoutIs, WithoutKeeps
  <2> QED BY <2>2, SameFunction
<1>8. Without(signed, {"TxnSignature"}) = Without(keyed, {"TxnSignature"})
  <2>1. DOMAIN signed \ {"TxnSignature"} = DOMAIN keyed \ {"TxnSignature"}
    BY <1>4 DEF Adds
  <2>2. \A f \in DOMAIN keyed \ {"TxnSignature"} : signed[f] = keyed[f]
    BY <1>4 DEF Adds
  <2> QED BY <2>1, <2>2 DEF Without
<1>9. signed.TxnSignature = Signature(signed, signed.SigningPubKey)
  BY <1>2, <1>5, <1>8 DEF Signature
<1>10. Bad \notin {Str(signed.TxnSignature), Str(signed.SigningPubKey)}
  BY <1>3, <1>5 DEF Str
<1>11. Verify(signed, blob)
  BY <1>5, <1>6, <1>7, <1>9, <1>10 DEF Verify, SignatureFields, ForbiddenSignedFields
<1> QED BY <1>11 DEF signed, signature, keyed

-------------------------------------------------------------------------------
(* The invariant.                                                          *)

RowFields == {"status", "json", "blob", "prep", "seq", "lls", "sim", "signed", "key", "result", "failure"}
LocalFields == {"seq", "index", "ledger", "blob", "account", "tx", "budget"}
BasisFields == {"account", "ledger", "tx", "proof"}

Unsigned == {"CREATED"} \cup UnsignedActive

\* The transaction columns are what the builder made of the payload, and its blob.
Prepared ==
    /\ row.prep \in Nat /\ row.seq \in Nat /\ row.lls = row.prep + LastLedgerOffset
    /\ \E fee \in 1..MaxFeeDrops :
          BuiltFrom(row.json, payload,
                    [fee |-> fee, seq |-> row.seq, lls |-> row.lls, networkId |-> network])
    /\ row.blob = EncodeTransaction(row.json) /\ row.blob # Bad

\* The reply that was stored is about the prepared transaction.
SimulatedSame ==
    /\ row.sim.tx \notin {Absent, Bad}
    /\ EncodeComparable(ToCanonicalForm(row.sim.tx)) = row.blob

Simulations ==
    /\ row.status \in {"CREATED", "PREPARED"} => row.sim = Absent
    /\ row.sim # Absent => (SimulatedSame <=> row.failure # "SIMULATION_ARTIFACT_MISMATCH")
    /\ row.status \in SignedActive \cup {"AWAITING_SIGNATURE"} => row.sim.engine = "tesSUCCESS"

\* The stored signature was verified, and so was the right of its key.
Signed == Verify(row.signed, row.blob) /\ row.key = row.signed.SigningPubKey

Entitled ==
    LET r == basis.account
    IN  /\ r.validated = TRUE /\ r.seq = row.seq
        /\ \/ row.key = "master" /\ r.flag # TRUE
              /\ (r.flag = FALSE \/ r.bits # "lsfDisableMaster")
           \/ row.key # "master" /\ r.regular = row.key

Signatures ==
    /\ row.status \in Unsigned => row.signed = Absent /\ wire = {}
    /\ row.signed # Absent => Signed /\ Entitled
    /\ row.status \in SignedActive \cup {"VALIDATED"} => Signed
    /\ wire # {} => Signed
    /\ wire \subseteq {row.signed}

\* What an outcome rests on, an answer of the wrong type being none.
Outcomes ==
    LET tx == basis.tx  proof == basis.proof
    IN  /\ row.status = "VALIDATED" =>
              /\ tx.validated = TRUE /\ OptionalStr(tx.hash) = HashOf(row.signed)
              /\ tx.index \in (row.prep + 1)..row.lls /\ tx.result = row.result /\ row.result \in FinalResults
        /\ row.status = "EXPIRED" /\ row.signed # Absent =>
              /\ basis.ledger.validated = TRUE
              /\ tx.error = "txnNotFound" /\ tx.searchedAll = TRUE
              /\ proof.validated = TRUE /\ proof.seq = row.seq
              /\ Else(proof.index, proof.currentIndex) > row.lls

\* What the service has learnt when it is at an await.
AtAwait ==
    /\ pc \in {"account", "current", "prepareLedger", "fee"} => row.status = "CREATED"
    /\ pc \in {"current", "prepareLedger", "fee"} => local.seq \in Nat
    /\ pc = "fee" => local.index \in Nat
    /\ pc \in {"simulateLedger", "simulate"} => row.status = "PREPARED"
    /\ pc \in {"signAccount", "signLedger"} =>
          row.status = "AWAITING_SIGNATURE" /\ Verify(local.blob, row.blob)
    /\ pc = "signLedger" => ValidatedAccountInfo(local.account) \notin {Bad, Absent}
    /\ pc \in {"submitLedger", "submit", "tx", "switch", "proof"} => row.status \in SignedActive
    /\ pc = "cycleLedger" => row.status \in UnsignedActive \cup SignedActive
    /\ pc \in {"tx", "switch", "proof"} => ValidatedLedgerIndex(local.ledger) # Bad
    /\ pc = "proof" => local.tx.error = "txnNotFound" /\ local.tx.searchedAll = TRUE
    /\ pc # "offline" => server.networkId = network

IntegrityInv ==
    /\ network \in Nat /\ payload \in Payloads
    /\ DOMAIN row = RowFields /\ DOMAIN local = LocalFields /\ DOMAIN basis = BasisFields
    /\ row.status \in IntentStatuses
    /\ row.status = "CREATED" => /\ row.json = Absent /\ row.blob = Absent /\ row.prep = Absent
                                 /\ row.seq = Absent /\ row.lls = Absent
    /\ row.status # "CREATED" => Prepared
    /\ IF row.status = "FAILED" THEN row.failure \in FailureCodes ELSE row.failure = Absent
    /\ row.status # "VALIDATED" => row.result = Absent
    /\ Simulations /\ Signatures /\ Outcomes /\ AtAwait

-------------------------------------------------------------------------------
(* How steps keep it.                                                      *)

LEMMA InitIntegrity == Init /\ IntegrityAssumption => IntegrityInv
<1> SUFFICES ASSUME Init, IntegrityAssumption PROVE IntegrityInv
  OBVIOUS
<1>1. /\ DOMAIN row = RowFields /\ DOMAIN local = LocalFields /\ DOMAIN basis = BasisFields
      /\ network \in Nat /\ payload \in Payloads
  BY DEF Init, IntegrityAssumption, NoLocal, RowFields, LocalFields, BasisFields
<1>2. /\ row.status = "CREATED" /\ row.json = Absent /\ row.blob = Absent /\ row.prep = Absent
      /\ row.seq = Absent /\ row.lls = Absent /\ row.sim = Absent /\ row.signed = Absent
      /\ row.result = Absent /\ row.failure = Absent /\ pc = "offline" /\ wire = {}
  BY DEF Init
<1>3. Simulations
  BY <1>2 DEF Simulations, SignedActive
<1>4. Signatures
  BY <1>2 DEF Signatures, SignedActive
<1>5. Outcomes
  BY <1>2 DEF Outcomes
<1>6. AtAwait
  BY <1>2 DEF AtAwait
<1> QED BY <1>1, <1>2, <1>3, <1>4, <1>5, <1>6 DEF IntegrityInv, IntentStatuses

\* A step that only goes to an await has to know there what AtAwait says.
LEMMA Awaits ==
    ASSUME IntegrityInv, UNCHANGED <<network, payload, row, wire, basis>>,
           DOMAIN local' = LocalFields, AtAwait'
    PROVE  IntegrityInv'
<1>1. Prepared => Prepared'
  BY DEF Prepared
<1>2. Simulations => Simulations'
  BY DEF Simulations, SimulatedSame
<1>3. Signatures => Signatures'
  BY DEF Signatures, Signed, Entitled
<1>4. Outcomes => Outcomes'
  BY DEF Outcomes
<1> QED BY <1>1, <1>2, <1>3, <1>4 DEF IntegrityInv

\* Nothing is known at the end of a step.
LEMMA Returns ==
    ASSUME IntegrityInv, pc # "offline", Return, UNCHANGED <<network, server>>
    PROVE  AtAwait' /\ DOMAIN local' = LocalFields
BY DEF IntegrityInv, AtAwait, Return, Await, NoLocal, LocalFields

LEMMA Throws ==
    ASSUME IntegrityInv, pc # "offline", Throw, UNCHANGED <<network, payload, server, wire, basis>>
    PROVE  IntegrityInv'
BY Returns, Awaits DEF Throw

\* The status moves and every other column stays.
LEMMA StatusMoves ==
    ASSUME IntegrityInv, pc # "offline", Return, UNCHANGED <<network, payload, server, wire>>,
           DOMAIN basis' = BasisFields, basis'.account = basis.account,
           row.status \notin {"CREATED", "FAILED", "VALIDATED"},
           NEW s \in IntentStatuses \ {"CREATED", "PREPARED", "FAILED", "VALIDATED"},
           row' = [row EXCEPT !.status = s],
           s \in UnsignedActive => row.signed = Absent /\ wire = {},
           s \in SignedActive => Signed,
           s \in SignedActive \cup {"AWAITING_SIGNATURE"} => row.sim.engine = "tesSUCCESS",
           s = "EXPIRED" => Outcomes'
    PROVE  IntegrityInv'
<1>1. /\ DOMAIN row' = RowFields /\ row'.status = s /\ row'.json = row.json /\ row'.blob = row.blob
      /\ row'.prep = row.prep /\ row'.seq = row.seq /\ row'.lls = row.lls /\ row'.sim = row.sim
      /\ row'.signed = row.signed /\ row'.key = row.key /\ row'.result = row.result
      /\ row'.failure = row.failure
  BY DEF IntegrityInv, RowFields
<1>2. Prepared'
  BY <1>1 DEF IntegrityInv, Prepared
<1>3. Simulations'
  BY <1>1 DEF IntegrityInv, Simulations, SimulatedSame
<1>4. Signatures'
  BY <1>1 DEF IntegrityInv, Signatures, Signed, Entitled, Unsigned
<1>5. Outcomes'
  BY <1>1 DEF Outcomes
<1>6. AtAwait' /\ DOMAIN local' = LocalFields
  BY Returns
<1> QED BY <1>1, <1>2, <1>3, <1>4, <1>5, <1>6 DEF IntegrityInv

\* A failure is recorded once, with its code.
LEMMA Fails ==
    ASSUME IntegrityInv, pc # "offline", UNCHANGED <<network, payload, server, wire>>,
           DOMAIN basis' = BasisFields, basis'.account = basis.account,
           row.status \notin {"CREATED", "FAILED", "VALIDATED"},
           NEW code \in FailureCodes \ {"SIMULATION_ARTIFACT_MISMATCH"}, Fail(code)
    PROVE  IntegrityInv'
<1>1. /\ DOMAIN row' = RowFields /\ row'.status = "FAILED" /\ row'.json = row.json /\ row'.blob = row.blob
      /\ row'.prep = row.prep /\ row'.seq = row.seq /\ row'.lls = row.lls /\ row'.sim = row.sim
      /\ row'.signed = row.signed /\ row'.key = row.key /\ row'.result = row.result
      /\ row'.failure = code
  BY DEF IntegrityInv, RowFields, Fail, Becomes
<1>2. Prepared'
  BY <1>1 DEF IntegrityInv, Prepared
<1>3. Simulations'
  <2>1. row.failure # "SIMULATION_ARTIFACT_MISMATCH" /\ code # "SIMULATION_ARTIFACT_MISMATCH"
    BY IntegrityAssumption DEF IntegrityInv, IntegrityAssumption, FailureCodes
  <2> QED BY <1>1, <2>1 DEF IntegrityInv, Simulations, SimulatedSame, SignedActive
<1>4. Signatures'
  BY <1>1 DEF IntegrityInv, Signatures, Signed, Entitled, Unsigned, UnsignedActive, SignedActive
<1>5. Outcomes'
  BY <1>1 DEF Outcomes
<1>6. AtAwait' /\ DOMAIN local' = LocalFields
  BY Returns DEF Fail, Becomes
<1> QED BY <1>1, <1>2, <1>3, <1>4, <1>5, <1>6 DEF IntegrityInv, IntentStatuses

\* What a parsed reply is, when it is one.
LEMMA AccountIs ==
    ASSUME NEW r, ValidatedAccountInfo(r) \notin {Bad, Absent}
    PROVE  LET info == ValidatedAccountInfo(r)
           IN  /\ info = [validated |-> TRUE, index |-> info.index, seq |-> r.seq,
                          regular |-> OptionalStr(r.regular), disabled |-> DisableMasterKey(r),
                          queued |-> Uint(Else(r.queued, 0))]
               /\ r.validated = TRUE /\ info.seq = r.seq /\ r.seq \in Nat
               /\ info.index = Else(OptionalUint(r.index), OptionalUint(r.currentIndex))
               /\ info.index # Bad /\ info.disabled # Bad
               /\ info.regular = OptionalStr(r.regular) /\ info.disabled = DisableMasterKey(r)
BY DEF ValidatedAccountInfo, ParseAccountInfo, IsTrue, Uint

LEMMA LedgerIndexIs ==
    ASSUME NEW r, ValidatedLedgerIndex(r) # Bad
    PROVE  ValidatedLedgerIndex(r) \in Nat /\ r.validated = TRUE
BY DEF ValidatedLedgerIndex, Call, ParseLedger, Uint, IsTrue

\* Network and server.
LEMMA BootstrappedKeeps ==
    ASSUME IntegrityInv, NEW info, NEW definitions, Bootstrapped(info, definitions) \/ Unusable(info, definitions)
    PROVE  IntegrityInv'
<1>1. CASE Bootstrapped(info, definitions)
  <2>1. info.networkId = network
    BY <1>1 DEF Bootstrapped, CheckServerInfo, Call, ParseServerInfo
  <2>2. AtAwait' /\ DOMAIN local' = LocalFields
    BY <1>1, <2>1 DEF Bootstrapped, Keep, Return, Await, NoLocal, LocalFields, AtAwait, IntegrityInv
  <2> QED BY <1>1, <2>2, Awaits DEF Bootstrapped, Keep
<1>2. CASE Unusable(info, definitions)
  <2>1. AtAwait' /\ DOMAIN local' = LocalFields
    BY <1>2 DEF Unusable, Keep, Await, NoLocal, LocalFields, AtAwait, IntegrityInv
  <2> QED BY <1>2, <2>1, Awaits DEF Unusable, Keep
<1> QED BY <1>1, <1>2

\* The awaits of POST prepare that store nothing.
LEMMA PrepareKeeps == ASSUME IntegrityInv, Prepare PROVE IntegrityInv'
<1>1. AtAwait' /\ DOMAIN local' = LocalFields
  BY DEF Prepare, Keep, Await, NoLocal, LocalFields, AtAwait, IntegrityInv
<1> QED BY <1>1, Awaits DEF Prepare, Keep

LEMMA AccountAnsweredKeeps == ASSUME IntegrityInv, NEW r, AccountAnswered(r) PROVE IntegrityInv'
<1> DEFINE info == ValidatedAccountInfo(r)
<1>1. pc = "account" /\ UNCHANGED <<network, payload, server, wire, basis>>
  BY DEF AccountAnswered, Keep
<1>2. CASE Throw
  BY <1>1, <1>2, Throws
<1>3. CASE /\ info \notin {Bad, Absent} /\ UNCHANGED row
           /\ Await("current", [local EXCEPT !.seq = info.seq])
  <2>1. info.seq \in Nat
    BY <1>3, AccountIs
  <2> HIDE DEF info
  <2>2. AtAwait' /\ DOMAIN local' = LocalFields
    BY <1>1, <1>3, <2>1 DEF Await, LocalFields, AtAwait, IntegrityInv
  <2> QED BY <1>1, <1>3, <2>2, Awaits
<1> QED BY <1>2, <1>3 DEF AccountAnswered

LEMMA CurrentAnsweredKeeps == ASSUME IntegrityInv, NEW r, CurrentAnswered(r) PROVE IntegrityInv'
<1>1. pc = "current" /\ UNCHANGED <<network, payload, server, wire, basis>>
  BY DEF CurrentAnswered, Keep
<1>2. CASE Throw
  BY <1>1, <1>2, Throws
<1>3. CASE Await("prepareLedger", local) /\ UNCHANGED row
  <2>1. AtAwait' /\ DOMAIN local' = LocalFields
    BY <1>1, <1>3 DEF Await, AtAwait, IntegrityInv
  <2> QED BY <1>1, <1>3, <2>1, Awaits
<1> QED BY <1>2, <1>3 DEF CurrentAnswered

LEMMA PrepareLedgerAnsweredKeeps == ASSUME IntegrityInv, NEW r, PrepareLedgerAnswered(r) PROVE IntegrityInv'
<1> DEFINE index == ValidatedLedgerIndex(r)
<1>1. pc = "prepareLedger" /\ UNCHANGED <<network, payload, server, wire, basis>>
  BY DEF PrepareLedgerAnswered, Keep
<1>2. CASE Throw
  BY <1>1, <1>2, Throws
<1>3. CASE index # Bad /\ Await("fee", [local EXCEPT !.index = index]) /\ UNCHANGED row
  <2>1. index \in Nat
    BY <1>3, LedgerIndexIs
  <2> HIDE DEF index
  <2>2. AtAwait' /\ DOMAIN local' = LocalFields
    BY <1>1, <1>3, <2>1 DEF Await, LocalFields, AtAwait, IntegrityInv
  <2> QED BY <1>1, <1>3, <2>2, Awaits
<1> QED BY <1>2, <1>3 DEF PrepareLedgerAnswered

\* What is stored is what was built from what was read.
LEMMA FeeAnsweredKeeps == ASSUME IntegrityInv, NEW r, FeeAnswered(r) PROVE IntegrityInv'
<1> DEFINE fee == CappedOpenLedgerFee(r)
           lls == local.index + LastLedgerOffset
           params == [fee |-> fee, seq |-> local.seq, lls |-> lls, networkId |-> network]
           json == BuildTransaction(payload, params)
           blob == EncodeTransaction(json)
<1>1. pc = "fee" /\ row.status = "CREATED" /\ local.index \in Nat /\ local.seq \in Nat
      /\ UNCHANGED <<network, payload, server, wire, basis>>
  BY DEF FeeAnswered, Keep, IntegrityInv, AtAwait
<1>2. CASE Throw
  BY <1>1, <1>2, Throws
<1>3. CASE /\ fee # Bad /\ blob # Bad
           /\ Becomes([row EXCEPT !.status = "PREPARED", !.json = json, !.blob = blob, !.prep = local.index,
                                  !.seq = local.seq, !.lls = lls])
  <2>1. fee \in 1..MaxFeeDrops
    BY <1>3 DEF CappedOpenLedgerFee, CheckFee
  <2>2. BuiltFrom(json, payload, params)
    BY BuildTransactionIs
  <2> HIDE DEF json, fee, lls
  <2>3. /\ DOMAIN row' = RowFields /\ row'.status = "PREPARED" /\ row'.json = json /\ row'.blob = blob
        /\ row'.prep = local.index /\ row'.seq = local.seq /\ row'.lls = lls /\ row'.sim = row.sim
        /\ row'.signed = row.signed /\ row'.key = row.key /\ row'.result = row.result
        /\ row'.failure = row.failure
    BY <1>3 DEF IntegrityInv, RowFields, Becomes
  <2>4. Prepared'
    <3>1. params = [fee |-> fee, seq |-> row'.seq, lls |-> row'.lls, networkId |-> network']
      BY <1>1, <2>3
    <3> QED BY <1>1, <1>3, <2>1, <2>2, <2>3, <3>1 DEF Prepared, lls
  <2>5. Simulations'
    BY <1>1, <2>3 DEF IntegrityInv, Simulations, SignedActive
  <2>6. Signatures' /\ Outcomes'
    BY <1>1, <2>3 DEF IntegrityInv, Signatures, Outcomes, SignedActive, Unsigned, UnsignedActive
  <2>7. AtAwait' /\ DOMAIN local' = LocalFields
    BY <1>1, <1>3, Returns DEF Becomes
  <2> QED BY <1>1, <2>3, <2>4, <2>5, <2>6, <2>7 DEF IntegrityInv, IntentStatuses
<1> QED BY <1>2, <1>3 DEF FeeAnswered

\* A row that is past its window unsigned expires.
LEMMA ExpiresUnsigned ==
    ASSUME IntegrityInv, pc # "offline", row.status \in UnsignedActive,
           UNCHANGED <<network, payload, server, wire, basis>>, Becomes([row EXCEPT !.status = "EXPIRED"])
    PROVE  IntegrityInv'
<1>1. row.signed = Absent /\ row'.signed = row.signed /\ row'.status = "EXPIRED"
  BY DEF IntegrityInv, Signatures, Unsigned, RowFields, Becomes
<1>2. Outcomes'
  BY <1>1 DEF Outcomes
<1>3. row' = [row EXCEPT !.status = "EXPIRED"] /\ Return /\ row.status \notin {"CREATED", "FAILED", "VALIDATED"}
      /\ "EXPIRED" \in IntentStatuses /\ "EXPIRED" \notin UnsignedActive \cup SignedActive
  BY DEF Becomes, UnsignedActive, SignedActive, IntentStatuses
<1>4. DOMAIN basis' = BasisFields
  BY DEF IntegrityInv
<1> QED BY <1>2, <1>3, <1>4, StatusMoves

LEMMA SimulateLedgerAnsweredKeeps == ASSUME IntegrityInv, NEW r, SimulateLedgerAnswered(r) PROVE IntegrityInv'
<1>1. pc = "simulateLedger" /\ row.status = "PREPARED" /\ UNCHANGED <<network, payload, server, wire, basis>>
  BY DEF SimulateLedgerAnswered, Keep, IntegrityInv, AtAwait
<1>2. CASE Throw
  BY <1>1, <1>2, Throws
<1>3. CASE Becomes([row EXCEPT !.status = "EXPIRED"])
  BY <1>1, <1>3, ExpiresUnsigned DEF UnsignedActive
<1>4. CASE Await("simulate", local) /\ UNCHANGED row
  <2>1. AtAwait' /\ DOMAIN local' = LocalFields
    BY <1>1, <1>4 DEF Await, AtAwait, IntegrityInv
  <2> QED BY <1>1, <1>4, <2>1, Awaits
<1> QED BY <1>2, <1>3, <1>4 DEF SimulateLedgerAnswered

\* The comparison that was made is the one the property asks for.
LEMMA MatchIsSame ==
    ASSUME Prepared, NEW simulated
    PROVE  SimulationMatchesPrepared(row.json, simulated) <=>
              simulated # Absent /\ EncodeComparable(ToCanonicalForm(simulated)) = row.blob
<1>1. PICK fee \in 1..MaxFeeDrops :
          BuiltFrom(row.json, payload,
                    [fee |-> fee, seq |-> row.seq, lls |-> row.lls, networkId |-> network])
  BY DEF Prepared
<1> DEFINE params == [fee |-> fee, seq |-> row.seq, lls |-> row.lls, networkId |-> network]
           canonical == ToCanonicalForm(row.json)
<1>2. CanonicalOf(canonical, payload, params)
  BY <1>1, CanonicalIs
<1> HIDE DEF params, canonical
<1>3. Encode(canonical) = row.blob /\ row.blob # Bad
  BY DEF Prepared, EncodeTransaction, canonical
<1>4. EncodeComparable(canonical) = row.blob
  BY <1>2, <1>3, ComparableIs
<1> QED BY <1>3, <1>4 DEF SimulationMatchesPrepared, canonical

LEMMA SimulatedKeeps == ASSUME IntegrityInv, NEW r, Simulated(r) PROVE IntegrityInv'
<1> DEFINE result == Simulate(r)
           match == SimulationMatchesPrepared(row.json, result.tx)
<1>1. pc = "simulate" /\ row.status = "PREPARED" /\ UNCHANGED <<network, payload, server, wire, basis>>
  BY DEF Simulated, Keep, IntegrityInv, AtAwait
<1>2. CASE Throw
  BY <1>1, <1>2, Throws
<1>3. ASSUME result # Bad,
             NEW status, NEW failure,
             \/ match /\ status = "SIMULATED" /\ failure = row.failure
             \/ ~match /\ status = "FAILED" /\ failure = "SIMULATION_ARTIFACT_MISMATCH",
             row' = [row EXCEPT !.status = status, !.sim = r, !.failure = failure], Return
      PROVE  IntegrityInv'
  <2>1. result = [engine |-> r.engine, tx |-> IF r.tx = Bad THEN Absent ELSE r.tx]
    BY <1>3 DEF Simulate, Call, ParseSimulation
  <2>2. result.tx = IF r.tx = Bad THEN Absent ELSE r.tx
    BY <2>1
  <2>3. Prepared
    BY <1>1 DEF IntegrityInv
  <2>4. match <=> /\ r.tx \notin {Absent, Bad}
                 /\ EncodeComparable(ToCanonicalForm(r.tx)) = row.blob
    BY <2>2, <2>3, MatchIsSame
  <2> HIDE DEF result, match
  <2>5. /\ DOMAIN row' = RowFields /\ row'.status = status /\ row'.json = row.json /\ row'.blob = row.blob
        /\ row'.prep = row.prep /\ row'.seq = row.seq /\ row'.lls = row.lls /\ row'.sim = r
        /\ row'.signed = row.signed /\ row'.key = row.key /\ row'.result = row.result
        /\ row'.failure = failure
    BY <1>3 DEF IntegrityInv, RowFields
  <2>6. row.failure = Absent /\ Absent # "SIMULATION_ARTIFACT_MISMATCH"
        /\ "SIMULATION_ARTIFACT_MISMATCH" \in FailureCodes
    BY <1>1, IntegrityAssumption DEF IntegrityInv, IntegrityAssumption, FailureCodes
  <2>7. Prepared'
    BY <1>1, <2>3, <2>5 DEF Prepared
  <2>8. Simulations'
    BY <1>3, <2>4, <2>5, <2>6 DEF Simulations, SimulatedSame, SignedActive
  <2>9. Signatures' /\ Outcomes'
    BY <1>1, <1>3, <2>5 DEF IntegrityInv, Signatures, Outcomes, SignedActive, Unsigned, UnsignedActive
  <2>10. AtAwait' /\ DOMAIN local' = LocalFields
    BY <1>1, <1>3, Returns
  <2> QED BY <1>1, <1>3, <2>5, <2>6, <2>7, <2>8, <2>9, <2>10 DEF IntegrityInv, IntentStatuses
<1>4. CASE result # Bad /\ match /\ Becomes([row EXCEPT !.status = "SIMULATED", !.sim = r])
  <2>1. [row EXCEPT !.status = "SIMULATED", !.sim = r]
        = [row EXCEPT !.status = "SIMULATED", !.sim = r, !.failure = row.failure]
    BY DEF IntegrityInv, RowFields
  <2> QED BY <1>3, <1>4, <2>1 DEF Becomes
<1>5. CASE result # Bad /\ ~match
           /\ Becomes([row EXCEPT !.status = "FAILED", !.sim = r, !.failure = "SIMULATION_ARTIFACT_MISMATCH"])
  BY <1>3, <1>5 DEF Becomes
<1> QED BY <1>2, <1>4, <1>5 DEF Simulated

LEMMA CompleteSimulationKeeps == ASSUME IntegrityInv, CompleteSimulation PROVE IntegrityInv'
<1> DEFINE s == IF row.sim.engine = "tesSUCCESS" THEN "AWAITING_SIGNATURE" ELSE "REJECTED"
<1>1. /\ pc = "idle" /\ row.status = "SIMULATED" /\ UNCHANGED <<network, payload, server, wire, basis>>
      /\ row' = [row EXCEPT !.status = s] /\ Return
  BY DEF CompleteSimulation, Keep, Becomes
<1>2. /\ s \in IntentStatuses \ {"CREATED", "PREPARED", "FAILED", "VALIDATED", "EXPIRED"} /\ s \notin SignedActive
      /\ s = "AWAITING_SIGNATURE" => row.sim.engine = "tesSUCCESS"
  BY DEF IntentStatuses, SignedActive
<1>3. row.signed = Absent /\ wire = {}
  BY <1>1 DEF IntegrityInv, Signatures, Unsigned, UnsignedActive
<1>4. DOMAIN basis' = BasisFields
  BY <1>1 DEF IntegrityInv
<1> HIDE DEF s
<1> QED BY <1>1, <1>2, <1>3, <1>4, StatusMoves

-------------------------------------------------------------------------------
(* Signing.                                                                *)

LEMMA AttachSignatureKeeps == ASSUME IntegrityInv, NEW text, AttachSignature(text) PROVE IntegrityInv'
<1>1. AtAwait' /\ DOMAIN local' = LocalFields
  BY DEF AttachSignature, Keep, Await, NoLocal, LocalFields, AtAwait, IntegrityInv
<1> QED BY <1>1, Awaits DEF AttachSignature, Keep

\* A key that was found to be entitled was said to be by the reply.
LEMMA EntitledIsStated ==
    ASSUME NEW r, NEW key, key \notin {Absent, Bad}, ValidatedAccountInfo(r) \notin {Bad, Absent},
           AssertAuthorized(key, ValidatedAccountInfo(r))
    PROVE  \/ key = "master" /\ r.flag # TRUE /\ (r.flag = FALSE \/ r.bits # "lsfDisableMaster")
           \/ key # "master" /\ r.regular = key
<1> DEFINE info == ValidatedAccountInfo(r)
<1>1. info.disabled = DisableMasterKey(r) /\ info.disabled # Bad /\ info.regular = OptionalStr(r.regular)
  BY AccountIs
<1>2. CASE key = "master"
  <2>1. ~info.disabled
    BY <1>2 DEF AssertAuthorized
  <2>2. CASE r.flag \in BOOLEAN
    BY <1>1, <1>2, <2>1, <2>2 DEF DisableMasterKey
  <2>3. CASE r.flag \notin BOOLEAN
    <3>1. r.bits # Bad
      BY <1>1, <2>3 DEF DisableMasterKey
    <3>2. DisableMasterKey(r) = (r.bits = "lsfDisableMaster")
      BY <2>3, <3>1 DEF DisableMasterKey
    <3>3. r.bits # "lsfDisableMaster"
      BY <1>1, <2>1, <3>2
    <3> QED BY <1>2, <2>3, <3>3
  <2> QED BY <2>2, <2>3
<1>3. CASE key # "master"
  BY <1>1, <1>3 DEF AssertAuthorized, OptionalStr
<1> QED BY <1>2, <1>3

\* The accepting end of POST signature.
LEMMA AcceptKeeps ==
    ASSUME IntegrityInv, NEW r, NEW index, Accept(r, ValidatedAccountInfo(r), index),
           ValidatedAccountInfo(r) \notin {Bad, Absent}, pc \in {"signAccount", "signLedger"},
           UNCHANGED <<network, payload, server, wire>>
    PROVE  IntegrityInv'
<1> DEFINE info == ValidatedAccountInfo(r)
           key == local.blob.SigningPubKey
<1>1. /\ row.status = "AWAITING_SIGNATURE" /\ Verify(local.blob, row.blob) /\ pc # "offline"
      /\ row.signed = Absent /\ wire = {} /\ row.sim.engine = "tesSUCCESS" /\ DOMAIN basis = BasisFields
  BY DEF IntegrityInv, AtAwait, Signatures, Simulations, Unsigned, UnsignedActive
<1>2. CASE Throw /\ UNCHANGED basis
  BY <1>1, <1>2, Throws
<1>3. CASE Becomes([row EXCEPT !.status = "EXPIRED"]) /\ UNCHANGED basis
  BY <1>1, <1>3, ExpiresUnsigned DEF UnsignedActive
<1>4. CASE Fail(IF info.seq > row.seq THEN "SEQUENCE_CONFLICT" ELSE "SEQUENCE_REGRESSION") /\ UNCHANGED basis
  <2> DEFINE code == IF info.seq > row.seq THEN "SEQUENCE_CONFLICT" ELSE "SEQUENCE_REGRESSION"
  <2>1. code \in FailureCodes \ {"SIMULATION_ARTIFACT_MISMATCH"}
    BY DEF FailureCodes
  <2> HIDE DEF code
  <2> QED BY <1>1, <1>4, <2>1, Fails DEF code
<1>5. CASE /\ AssertAuthorized(key, info) /\ info.seq = row.seq
           /\ Becomes([row EXCEPT !.status = "SIGNED", !.signed = local.blob, !.key = key])
           /\ basis' = [basis EXCEPT !.account = r]
  <2>1. r.validated = TRUE /\ r.seq = row.seq
    BY <1>5, AccountIs
  <2>2. key \notin {Absent, Bad}
    BY <1>1 DEF Verify, Str
  <2>3. \/ key = "master" /\ r.flag # TRUE /\ (r.flag = FALSE \/ r.bits # "lsfDisableMaster")
        \/ key # "master" /\ r.regular = key
    BY <1>5, <2>2, EntitledIsStated
  <2> HIDE DEF info, key
  <2>4. /\ DOMAIN row' = RowFields /\ row'.status = "SIGNED" /\ row'.json = row.json /\ row'.blob = row.blob
        /\ row'.prep = row.prep /\ row'.seq = row.seq /\ row'.lls = row.lls /\ row'.sim = row.sim
        /\ row'.signed = local.blob /\ row'.key = key /\ row'.result = row.result
        /\ row'.failure = row.failure
    BY <1>5 DEF IntegrityInv, RowFields, Becomes
  <2>5. DOMAIN basis' = BasisFields /\ basis'.account = r
    BY <1>1, <1>5 DEF BasisFields
  <2>6. Prepared' /\ Simulations'
    BY <1>1, <2>4 DEF IntegrityInv, Prepared, Simulations, SimulatedSame
  <2>7. Entitled'
    BY <2>1, <2>3, <2>4, <2>5 DEF Entitled
  <2>8. Signed'
    BY <1>1, <2>4 DEF Signed, key
  <2>9. Signatures'
    BY <1>1, <2>4, <2>7, <2>8 DEF Signatures, Unsigned, UnsignedActive
  <2>10. Outcomes'
    BY <2>4 DEF Outcomes
  <2>11. AtAwait' /\ DOMAIN local' = LocalFields
    BY <1>1, <1>5, Returns DEF Becomes
  <2> QED BY <1>1, <2>4, <2>5, <2>6, <2>9, <2>10, <2>11 DEF IntegrityInv, IntentStatuses
<1> QED BY <1>2, <1>3, <1>4, <1>5 DEF Accept

LEMMA SignAccountAnsweredKeeps == ASSUME IntegrityInv, NEW r, SignAccountAnswered(r) PROVE IntegrityInv'
<1> DEFINE info == ValidatedAccountInfo(r)
<1>1. pc = "signAccount" /\ UNCHANGED <<network, payload, server, wire>>
  BY DEF SignAccountAnswered, Keep
<1>2. CASE Throw /\ UNCHANGED basis
  BY <1>1, <1>2, Throws
<1>3. CASE /\ info \notin {Bad, Absent}
           /\ Await("signLedger", [local EXCEPT !.account = r]) /\ UNCHANGED <<row, basis>>
  <2>1. AtAwait' /\ DOMAIN local' = LocalFields
    BY <1>1, <1>3 DEF Await, LocalFields, AtAwait, IntegrityInv
  <2> QED BY <1>1, <1>3, <2>1, Awaits
<1>4. CASE info \notin {Bad, Absent} /\ Accept(r, info, info.index)
  BY <1>1, <1>4, AcceptKeeps
<1> QED BY <1>2, <1>3, <1>4 DEF SignAccountAnswered

LEMMA SignLedgerAnsweredKeeps == ASSUME IntegrityInv, NEW r, SignLedgerAnswered(r) PROVE IntegrityInv'
<1>1. /\ pc = "signLedger" /\ UNCHANGED <<network, payload, server, wire>>
      /\ ValidatedAccountInfo(local.account) \notin {Bad, Absent}
  BY DEF SignLedgerAnswered, Keep, IntegrityInv, AtAwait
<1>2. CASE Throw /\ UNCHANGED basis
  BY <1>1, <1>2, Throws
<1>3. CASE Accept(local.account, ValidatedAccountInfo(local.account), ValidatedLedgerIndex(r))
  BY <1>1, <1>3, AcceptKeeps
<1> QED BY <1>2, <1>3 DEF SignLedgerAnswered

-------------------------------------------------------------------------------
(* Submission and finality.                                                *)

LEMMA SubmitKeeps == ASSUME IntegrityInv, Submit PROVE IntegrityInv'
<1>1. AtAwait' /\ DOMAIN local' = LocalFields
  BY DEF Submit, Keep, Await, NoLocal, LocalFields, AtAwait, IntegrityInv
<1> QED BY <1>1, Awaits DEF Submit, Keep

LEMMA CycleKeeps == ASSUME IntegrityInv, Cycle PROVE IntegrityInv'
<1>1. AtAwait' /\ DOMAIN local' = LocalFields
  BY DEF Cycle, Keep, Await, NoLocal, LocalFields, AtAwait, IntegrityInv
<1> QED BY <1>1, Awaits DEF Cycle, Keep

\* Only a verified blob is sent.
LEMMA SubmitLedgerAnsweredKeeps == ASSUME IntegrityInv, NEW r, SubmitLedgerAnswered(r) PROVE IntegrityInv'
<1>1. /\ pc = "submitLedger" /\ row.status \in SignedActive
      /\ UNCHANGED <<network, payload, server, basis>>
  BY DEF SubmitLedgerAnswered, Keep, IntegrityInv, AtAwait
<1>2. CASE Throw /\ UNCHANGED wire
  BY <1>1, <1>2, Throws
<1>3. CASE /\ ValidatedLedgerIndex(r) # Bad
           /\ Await("tx", [local EXCEPT !.ledger = r]) /\ UNCHANGED <<row, wire>>
  <2>1. AtAwait' /\ DOMAIN local' = LocalFields
    BY <1>1, <1>3 DEF Await, LocalFields, AtAwait, IntegrityInv
  <2> QED BY <1>1, <1>3, <2>1, Awaits
<1>4. CASE Await("submit", local) /\ UNCHANGED row /\ wire' = wire \cup {row.signed}
  <2>1. AtAwait' /\ DOMAIN local' = LocalFields
    BY <1>1, <1>4 DEF Await, AtAwait, IntegrityInv
  <2>2. Signatures'
    BY <1>1, <1>4 DEF IntegrityInv, Signatures, Signed, Entitled, SignedActive, Unsigned, UnsignedActive
  <2>3. Prepared => Prepared'
    BY <1>1, <1>4 DEF Prepared
  <2>4. Simulations'
    BY <1>4 DEF IntegrityInv, Simulations, SimulatedSame
  <2>5. Outcomes'
    BY <1>1, <1>4 DEF IntegrityInv, Outcomes
  <2> QED BY <1>1, <1>4, <2>1, <2>2, <2>3, <2>4, <2>5 DEF IntegrityInv
<1> QED BY <1>2, <1>3, <1>4 DEF SubmitLedgerAnswered

LEMMA SubmitAnsweredKeeps == ASSUME IntegrityInv, NEW r, SubmitAnswered(r) PROVE IntegrityInv'
<1> DEFINE s == IF SubmitEngineResult(r) = "temMALFORMED" THEN "REJECTED" ELSE "SUBMITTED"
<1>1. /\ pc = "submit" /\ row.status \in SignedActive
      /\ UNCHANGED <<network, payload, server, wire, basis>>
  BY DEF SubmitAnswered, Keep, IntegrityInv, AtAwait
<1>2. CASE Throw
  BY <1>1, <1>2, Throws
<1>3. CASE Becomes([row EXCEPT !.status = s])
  <2>1. s \in IntentStatuses \ {"CREATED", "PREPARED", "FAILED", "VALIDATED", "EXPIRED", "AWAITING_SIGNATURE"}
        /\ s \notin UnsignedActive
    BY DEF IntentStatuses, UnsignedActive
  <2>2. /\ Signed /\ row.sim.engine = "tesSUCCESS" /\ row.status \notin {"CREATED", "FAILED", "VALIDATED"}
        /\ DOMAIN basis' = BasisFields
    BY <1>1 DEF IntegrityInv, Signatures, Simulations, SignedActive
  <2> HIDE DEF s
  <2> QED BY <1>1, <1>3, <2>1, <2>2, StatusMoves DEF Becomes
<1> QED BY <1>2, <1>3 DEF SubmitAnswered

LEMMA CycleLedgerAnsweredKeeps == ASSUME IntegrityInv, NEW r, CycleLedgerAnswered(r) PROVE IntegrityInv'
<1>1. pc = "cycleLedger" /\ UNCHANGED <<network, payload, server, wire, basis>>
  BY DEF CycleLedgerAnswered, Keep
<1>2. CASE Throw
  BY <1>1, <1>2, Throws
<1>3. CASE row.status \in UnsignedActive /\ Becomes([row EXCEPT !.status = "EXPIRED"])
  BY <1>1, <1>3, ExpiresUnsigned
<1>4. CASE /\ ValidatedLedgerIndex(r) # Bad /\ row.status \in SignedActive
           /\ Await("tx", [local EXCEPT !.ledger = r]) /\ UNCHANGED row
  <2>1. AtAwait' /\ DOMAIN local' = LocalFields
    BY <1>1, <1>4 DEF Await, LocalFields, AtAwait, IntegrityInv
  <2> QED BY <1>1, <1>4, <2>1, Awaits
<1> QED BY <1>2, <1>3, <1>4 DEF CycleLedgerAnswered

\* What a search answers, when it is an answer.
LEMMA SearchIs ==
    ASSUME NEW r, TxSearch(r) # Bad
    PROVE  LET search == TxSearch(r)
           IN  \/ /\ r.error = "txnNotFound" /\ search.found = FALSE
                  /\ search.searchedAll = (r.searchedAll = TRUE)
               \/ /\ search.found = TRUE /\ search.hash = OptionalStr(r.hash)
                  /\ search.validated = (r.validated = TRUE) /\ search.index = r.index
                  /\ r.index = Absent \/ r.index \in Nat
                  /\ search.result = OptionalStr(r.result)
BY DEF TxSearch, Call, ParseTx, IsTrue, OptionalUint, Uint

\* A found transaction decides with what it stated.
LEMMA ApplyFoundKeeps ==
    ASSUME IntegrityInv, NEW r, TxSearch(r) # Bad, TxSearch(r).found, ApplyFound(r, TxSearch(r)),
           pc = "tx", UNCHANGED <<network, payload, server, wire>>
    PROVE  IntegrityInv'
<1> DEFINE lookup == TxSearch(r)
<1>1. /\ lookup.hash = OptionalStr(r.hash) /\ lookup.validated = (r.validated = TRUE)
      /\ lookup.index = r.index /\ (r.index = Absent \/ r.index \in Nat)
      /\ lookup.result = OptionalStr(r.result)
  BY SearchIs
<1>2. /\ row.status \in SignedActive /\ Signed /\ Prepared /\ row.status \notin {"CREATED", "FAILED", "VALIDATED"}
      /\ DOMAIN basis = BasisFields
  BY DEF IntegrityInv, AtAwait, Signatures, SignedActive
<1> HIDE DEF lookup
<1>3. CASE Throw /\ UNCHANGED basis
  BY <1>3, Throws
<1>4. Settle(r, Absent) =>
          /\ DOMAIN basis' = BasisFields /\ basis'.account = basis.account /\ basis'.tx = r
          /\ basis'.ledger = local.ledger
  BY <1>2 DEF Settle, BasisFields
<1>5. ASSUME NEW code \in {"FINALITY_INTEGRITY_ERROR", "UNEXPECTED_VALIDATED_RESULT"}, Fail(code), Settle(r, Absent)
      PROVE  IntegrityInv'
  BY <1>2, <1>4, <1>5, Fails DEF FailureCodes
<1>6. CASE /\ lookup.validated /\ lookup.hash = HashOf(row.signed) /\ lookup.index # Absent
           /\ row.prep < lookup.index /\ lookup.index <= row.lls /\ lookup.result \in FinalResults
           /\ Becomes([row EXCEPT !.status = "VALIDATED", !.result = lookup.result]) /\ Settle(r, Absent)
  <2>1. /\ DOMAIN row' = RowFields /\ row'.status = "VALIDATED" /\ row'.json = row.json /\ row'.blob = row.blob
        /\ row'.prep = row.prep /\ row'.seq = row.seq /\ row'.lls = row.lls /\ row'.sim = row.sim
        /\ row'.signed = row.signed /\ row'.key = row.key /\ row'.result = lookup.result
        /\ row'.failure = row.failure
    BY <1>6 DEF IntegrityInv, RowFields, Becomes
  <2>2. r.result = lookup.result
    BY <1>1, <1>6, IntegrityAssumption DEF OptionalStr, IntegrityAssumption
  <2>3. /\ r.validated = TRUE /\ OptionalStr(r.hash) = HashOf(row.signed)
        /\ r.index \in (row.prep + 1)..row.lls
    <3>1. r.validated = TRUE /\ OptionalStr(r.hash) = HashOf(row.signed)
      BY <1>1, <1>6
    <3>2. row.prep \in Nat /\ row.lls \in Nat
      BY <1>2, ArtifactAssumption DEF Prepared, ArtifactAssumption
    <3>3. r.index \in Nat /\ row.prep < r.index /\ r.index <= row.lls
      BY <1>1, <1>6
    <3> QED BY <3>1, <3>2, <3>3
  <2>4. Outcomes'
    BY <1>4, <1>6, <2>1, <2>2, <2>3 DEF Outcomes, HashOf
  <2>5. Prepared'
    BY <1>2, <2>1 DEF Prepared
  <2>6. Simulations'
    BY <2>1 DEF IntegrityInv, Simulations, SimulatedSame, SignedActive
  <2>7. Signatures'
    BY <1>2, <1>4, <1>6, <2>1 DEF IntegrityInv, Signatures, Signed, Entitled, Unsigned, UnsignedActive, SignedActive
  <2>8. AtAwait' /\ DOMAIN local' = LocalFields
    BY <1>6, Returns DEF Becomes
  <2> QED BY <1>2, <1>4, <1>6, <2>1, <2>4, <2>5, <2>6, <2>7, <2>8 DEF IntegrityInv, IntentStatuses
<1> QED BY <1>3, <1>5, <1>6 DEF ApplyFound, lookup

LEMMA TxAnsweredKeeps == ASSUME IntegrityInv, NEW r, TxAnswered(r) PROVE IntegrityInv'
<1> DEFINE search == TxSearch(r)
<1>1. pc = "tx" /\ row.status \in SignedActive /\ UNCHANGED <<network, payload, server, wire>>
  BY DEF TxAnswered, Keep, IntegrityInv, AtAwait
<1>2. CASE Throw /\ UNCHANGED basis
  BY <1>1, <1>2, Throws
<1>3. CASE search # Bad /\ search.found /\ ApplyFound(r, search)
  BY <1>1, <1>3, ApplyFoundKeeps
<1>4. CASE Return /\ UNCHANGED <<row, basis>>
  BY <1>1, <1>4, Throws DEF Throw
<1>5. CASE Await("switch", [local EXCEPT !.budget = 0]) /\ UNCHANGED <<row, basis>>
  <2>1. AtAwait' /\ DOMAIN local' = LocalFields
    BY <1>1, <1>5 DEF Await, LocalFields, AtAwait, IntegrityInv
  <2> QED BY <1>1, <1>5, <2>1, Awaits
<1>6. CASE /\ search # Bad /\ ~search.found /\ search.searchedAll
           /\ Await("proof", [local EXCEPT !.tx = r]) /\ UNCHANGED <<row, basis>>
  <2>1. r.error = "txnNotFound" /\ r.searchedAll = TRUE
    BY <1>6, SearchIs
  <2> HIDE DEF search
  <2>2. AtAwait' /\ DOMAIN local' = LocalFields
    BY <1>1, <1>6, <2>1 DEF Await, LocalFields, AtAwait, IntegrityInv
  <2> QED BY <1>1, <1>6, <2>2, Awaits
<1> QED BY <1>2, <1>3, <1>4, <1>5, <1>6 DEF TxAnswered

\* EXPIRED rests on an account of a stated ledger past the window.
LEMMA ProofAnsweredKeeps == ASSUME IntegrityInv, NEW r, ProofAnswered(r) PROVE IntegrityInv'
<1> DEFINE info == ValidatedAccountInfo(r)
<1>1. /\ pc = "proof" /\ row.status \in SignedActive /\ UNCHANGED <<network, payload, server, wire>>
      /\ row.status \notin {"CREATED", "FAILED", "VALIDATED"} /\ DOMAIN basis = BasisFields
      /\ ValidatedLedgerIndex(local.ledger) # Bad
      /\ local.tx.error = "txnNotFound" /\ local.tx.searchedAll = TRUE /\ Prepared
  BY DEF ProofAnswered, Keep, IntegrityInv, AtAwait, SignedActive
<1>2. CASE Throw /\ UNCHANGED basis
  BY <1>1, <1>2, Throws
<1>3. Settle(local.tx, r) =>
          /\ DOMAIN basis' = BasisFields /\ basis'.account = basis.account /\ basis'.tx = local.tx
          /\ basis'.ledger = local.ledger /\ basis'.proof = r
  BY <1>1 DEF Settle, BasisFields
<1>4. ASSUME NEW code \in {"SEQUENCE_CONFLICT", "SEQUENCE_REGRESSION"}, Fail(code), Settle(local.tx, r)
      PROVE  IntegrityInv'
  BY <1>1, <1>3, <1>4, Fails DEF FailureCodes
<1>5. CASE /\ info \notin {Bad, Absent} /\ Else(info.index, 0) > row.lls /\ info.seq = row.seq
           /\ Settle(local.tx, r) /\ Becomes([row EXCEPT !.status = "EXPIRED"])
  <2>1. /\ r.validated = TRUE /\ r.seq = row.seq /\ info.index # Bad
        /\ info.index = Else(OptionalUint(r.index), OptionalUint(r.currentIndex))
    BY <1>5, AccountIs
  <2> HIDE DEF info
  <2>2. info.index # Absent /\ info.index > row.lls
    <3>1. row.lls \in Nat
      BY <1>1, ArtifactAssumption DEF Prepared, ArtifactAssumption
    <3> QED BY <1>5, <3>1 DEF Else
  <2>3. Else(r.index, r.currentIndex) = info.index
    BY <2>1, <2>2, RepliesAssumption DEF Else, OptionalUint, Uint, RepliesAssumption
  <2>4. local.ledger.validated = TRUE
    BY <1>1, LedgerIndexIs
  <2>5. row'.status = "EXPIRED" /\ row'.signed = row.signed /\ row'.seq = row.seq /\ row'.lls = row.lls
    BY <1>5 DEF Becomes, IntegrityInv, RowFields
  <2>6. Outcomes'
    BY <1>1, <1>3, <1>5, <2>1, <2>2, <2>3, <2>4, <2>5 DEF Outcomes
  <2>7. "EXPIRED" \in IntentStatuses /\ "EXPIRED" \notin UnsignedActive \cup SignedActive
    BY DEF IntentStatuses, UnsignedActive, SignedActive
  <2> QED BY <1>1, <1>3, <1>5, <2>6, <2>7, StatusMoves DEF Becomes
<1> QED BY <1>2, <1>4, <1>5 DEF ProofAnswered

-------------------------------------------------------------------------------
(* The theorems.                                                           *)

LEMMA NextIntegrity == ASSUME IntegrityInv, [Next]_vars PROVE IntegrityInv'
<1>1. CASE UNCHANGED vars
  <2>1. AtAwait' /\ DOMAIN local' = LocalFields
    BY <1>1 DEF vars, IntegrityInv, AtAwait
  <2> QED BY <1>1, <2>1, Awaits DEF vars
<1> QED BY <1>1, BootstrappedKeeps, PrepareKeeps, CompleteSimulationKeeps, SubmitKeeps, CycleKeeps,
           AccountAnsweredKeeps, ProofAnsweredKeeps, CurrentAnsweredKeeps, PrepareLedgerAnsweredKeeps,
           SimulateLedgerAnsweredKeeps, SignLedgerAnsweredKeeps, SubmitLedgerAnsweredKeeps,
           CycleLedgerAnsweredKeeps, FeeAnsweredKeeps, SimulatedKeeps, AttachSignatureKeeps,
           SignAccountAnsweredKeeps, SubmitAnsweredKeeps, TxAnsweredKeeps
       DEF Next

LEMMA IntegrityInvariance == ArtifactSpec => []IntegrityInv
BY InitIntegrity, NextIntegrity, IntegrityAssumption, PTL DEF ArtifactSpec

\* The blob of a prepared row does what the payload asks.
LEMMA PreparedRealises ==
    ASSUME Prepared, payload \in Payloads
    PROVE  /\ Realises(row.blob) /\ IsFunction(row.blob)
           /\ DOMAIN row.blob \cap (SignatureFields \cup ForbiddenSignedFields) = {}
<1>1. PICK fee \in 1..MaxFeeDrops :
          BuiltFrom(row.json, payload,
                    [fee |-> fee, seq |-> row.seq, lls |-> row.lls, networkId |-> network])
  BY DEF Prepared
<1> DEFINE params == [fee |-> fee, seq |-> row.seq, lls |-> row.lls, networkId |-> network]
           tx == ToCanonicalForm(row.json)
           blob == row.blob
<1>2. CanonicalOf(tx, payload, params)
  BY <1>1, CanonicalIs
<1>3. /\ params.fee = fee /\ params.seq = row.seq /\ params.lls = row.lls /\ params.networkId = network
  OBVIOUS
<1> HIDE DEF params, tx
<1>4. Encode(tx) = blob /\ blob # Bad
  BY DEF Prepared, EncodeTransaction, tx
<1>5. /\ IsFunction(blob) /\ DOMAIN blob = DOMAIN tx
      /\ \A f \in DOMAIN tx : blob[f] = IF f \in AmountFields THEN Value(tx[f]) ELSE tx[f]
  <2>1. Encode(tx) # Bad
    BY <1>4
  <2> QED BY <1>2, <1>4, <2>1, BlobIs
<1>6. /\ BaseFields \subseteq DOMAIN tx /\ DOMAIN tx \subseteq BaseFields \cup AmountFields \cup OptionalFields
  BY <1>2 DEF CanonicalOf
<1>7. /\ blob.TransactionType = tx.TransactionType /\ blob.Parties = tx.Parties /\ blob.Flags = tx.Flags
      /\ blob.Fee = tx.Fee /\ blob.Sequence = tx.Sequence /\ blob.LastLedgerSequence = tx.LastLedgerSequence
  BY <1>5, <1>6 DEF BaseFields, AmountFields
<1>8. Value(payload.amount) = IF payload.type = "PAYMENT" THEN blob.Amount ELSE blob.LimitAmount
  BY <1>2, <1>5 DEF CanonicalOf, AmountFields
<1>9. IF payload.tag = Absent THEN "DestinationTag" \notin DOMAIN blob
      ELSE Has(blob, "DestinationTag", payload.tag)
  BY <1>2, <1>5, IntegrityAssumption DEF CanonicalOf, AmountFields, IntegrityAssumption, Has
<1>10. IF network > NetworkIdThreshold THEN Has(blob, "NetworkID", network)
       ELSE "NetworkID" \notin DOMAIN blob
  BY <1>2, <1>3, <1>5 DEF CanonicalOf, AmountFields, Has
<1>11. DOMAIN blob \cap ({"Extra"} \cup SignatureFields \cup ForbiddenSignedFields) = {}
  BY <1>5, <1>6 DEF BaseFields, AmountFields, OptionalFields, SignatureFields, ForbiddenSignedFields
<1>12. DOMAIN blob \cap {"Extra", "Signers"} = {}
  BY <1>11 DEF ForbiddenSignedFields
<1>13. /\ blob.TransactionType = IF payload.type = "PAYMENT" THEN "Payment" ELSE "TrustSet"
       /\ blob.Parties = payload.parties /\ blob.Flags = 0 /\ blob.Fee \in 1..MaxFeeDrops
       /\ blob.Sequence = row.seq /\ blob.LastLedgerSequence = row.lls
  BY <1>2, <1>3, <1>7 DEF CanonicalOf
<1>14. row.lls = row.prep + LastLedgerOffset
  BY DEF Prepared
<1> QED BY <1>5, <1>8, <1>9, <1>10, <1>11, <1>12, <1>13, <1>14 DEF Realises

\* Whatever the replies and the posted texts are, every blob that reaches the network
\* is the prepared transaction with one signature of the stored key, has the intent's
\* amount, parties and destination tag and the configured network's id, and goes to that
\* network (signed-blob.service.ts:38-91, payment.builder.ts,
\* trust-set.builder.ts, capability.service.ts).
THEOREM SentBlobsAreIntended == ArtifactSpec => []SentIsIntended
<1>1. ASSUME IntegrityInv PROVE SentIsIntended
  <2>1. ASSUME NEW blob \in wire
        PROVE  /\ Without(blob, SignatureFields) = row.blob /\ Realises(row.blob)
               /\ blob.TxnSignature = Signature(blob, row.key)
               /\ pc = "submit" => server.networkId = network
    <3>1. blob = row.signed /\ Signed /\ row.status # "CREATED"
      BY <1>1, <2>1 DEF IntegrityInv, Signatures, Unsigned
    <3>2. Realises(row.blob)
      BY <1>1, <3>1, PreparedRealises DEF IntegrityInv
    <3>3. pc = "submit" => server.networkId = network
      BY <1>1 DEF IntegrityInv, AtAwait
    <3> QED BY <3>1, <3>2, <3>3 DEF Signed, Verify
  <2> QED BY <2>1 DEF SentIsIntended
<1> QED BY <1>1, IntegrityInvariance, PTL

\* A row is open for a signature only after a successful simulation of its own
\* transaction, whatever else simulations answered (simulation.service.ts).
THEOREM SimulationsAreOfPrepared == ArtifactSpec => []SimulatedIsPrepared
<1>1. IntegrityInv => SimulatedIsPrepared
  BY DEF IntegrityInv, Simulations, SimulatedSame, SimulatedIsPrepared
<1> QED BY <1>1, IntegrityInvariance, PTL

\* The key of a stored signature was entitled by an account_info that called itself
\* validated: the regular key it names, or the master key unless account_flags or, in
\* its absence, the Flags bits disable it (types.ts parseAccountInfo,
\* signer-authorization).
THEOREM SignersAreEntitled == ArtifactSpec => []SignerIsEntitled
<1>1. IntegrityInv => SignerIsEntitled
  BY DEF IntegrityInv, Signatures, Entitled, SignerIsEntitled
<1> QED BY <1>1, IntegrityInvariance, PTL

\* Whoever signs what the API shows is accepted, for every payload and every key.
THEOREM ShownTransactionsAreSignable == NullsHaveNoFields => (ArtifactSpec => []ShownIsSignable)
<1> SUFFICES ASSUME NullsHaveNoFields PROVE ArtifactSpec => []ShownIsSignable
  OBVIOUS
<1>1. ASSUME IntegrityInv PROVE ShownIsSignable
  <2>1. ASSUME row.status = "AWAITING_SIGNATURE", NEW key \in Keys
        PROVE  Verify(SignedBy(key, OrderedTransaction(row.json)), row.blob)
    <3>1. Prepared
      BY <1>1, <2>1 DEF IntegrityInv
    <3>2. PICK params : BuiltFrom(row.json, payload, params)
      BY <3>1 DEF Prepared
    <3>3. IsFunction(row.json) /\ OrderedTransaction(row.json) = row.json
      BY <3>2, OrderedIsSame DEF BuiltFrom
    <3>4. Encode(Canonicalised(row.json)) = row.blob
      BY <3>1, <3>2, CanonicalIs DEF Prepared, EncodeTransaction
    <3> DEFINE keyed == With(row.blob, "SigningPubKey", key)
    <3>5. SignedBy(key, row.json) = With(keyed, "TxnSignature", Signature(keyed, key))
      BY <3>4 DEF SignedBy, Canonicalised
    <3>6. /\ IsFunction(row.blob) /\ DOMAIN row.blob \cap (SignatureFields \cup ForbiddenSignedFields) = {}
      BY <1>1, <3>1, PreparedRealises DEF IntegrityInv
    <3>7. key \notin {Absent, Bad}
      BY <2>1, IntegrityAssumption DEF IntegrityAssumption
    <3>8. Verify(With(keyed, "TxnSignature", Signature(keyed, key)), row.blob)
      BY <3>6, <3>7, SignedVerifies
    <3> QED BY <3>3, <3>5, <3>8
  <2> QED BY <2>1 DEF ShownIsSignable
<1> QED BY <1>1, IntegrityInvariance, PTL

\* Columns appear with the step that fills them and stay, for every reply.
THEOREM ArtifactTyped == NullsHaveNoFields => (ArtifactSpec => []ArtifactTypeOK)
<1> SUFFICES ASSUME NullsHaveNoFields PROVE ArtifactSpec => []ArtifactTypeOK
  OBVIOUS
<1>1. ASSUME IntegrityInv PROVE ArtifactTypeOK
  <2>1. Prepared => Absent \notin {row.json, row.blob, row.prep, row.seq, row.lls}
    <3>1. ASSUME Prepared PROVE row.json # Absent
      <4>1. "Fee" \in DOMAIN row.json
        BY <3>1 DEF Prepared, BuiltFrom, BaseFields
      <4> QED BY <4>1 DEF NullsHaveNoFields
    <3>2. ASSUME Prepared PROVE row.blob # Absent
      <4>1. row.blob.Fee \in 1..MaxFeeDrops /\ "Fee" \in DOMAIN row.blob
        <5>1. PICK params : BuiltFrom(row.json, payload, params)
          BY <3>2 DEF Prepared
        <5>2. CanonicalOf(ToCanonicalForm(row.json), payload, params)
          BY <5>1, CanonicalIs
        <5>3. DOMAIN row.blob = DOMAIN ToCanonicalForm(row.json)
          BY <3>2, <5>2, BlobIs DEF Prepared, EncodeTransaction
        <5>4. "Fee" \in DOMAIN row.blob
          BY <5>2, <5>3 DEF CanonicalOf, BaseFields
        <5> QED BY <1>1, <3>2, <5>4, PreparedRealises DEF IntegrityInv, Realises
      <4> QED BY <4>1 DEF NullsHaveNoFields
    <3>3. ASSUME Prepared PROVE Absent \notin {row.prep, row.seq, row.lls}
      BY <3>3, RepliesAssumption, ArtifactAssumption DEF Prepared, RepliesAssumption, ArtifactAssumption
    <3> QED BY <3>1, <3>2, <3>3
  <2>2. Signed => Absent \notin {row.signed, row.key}
    <3>1. ASSUME Signed PROVE "TxnSignature" \in DOMAIN row.signed /\ row.key # Absent
      BY <3>1 DEF Signed, Verify, SignatureFields, Str
    <3> QED BY <3>1 DEF NullsHaveNoFields
  <2>3. /\ (row.json = Absent) <=> (row.status = "CREATED")
        /\ Absent \in {row.json, row.blob, row.prep, row.seq, row.lls} => row.status = "CREATED"
    BY <1>1, <2>1 DEF IntegrityInv
  <2>4. /\ row.status \in SignedActive \cup {"VALIDATED"} => Absent \notin {row.signed, row.key}
        /\ row.signed = Absent => wire = {}
    BY <1>1, <2>2 DEF IntegrityInv, Signatures
  <2>5. (row.status = "FAILED") <=> (row.failure # Absent)
    BY <1>1, IntegrityAssumption DEF IntegrityInv, IntegrityAssumption
  <2>6. (row.status = "VALIDATED") <=> (row.result # Absent)
    BY <1>1, IntegrityAssumption DEF IntegrityInv, IntegrityAssumption, Outcomes
  <2> QED BY <2>3, <2>4, <2>5, <2>6 DEF ArtifactTypeOK
<1> QED BY <1>1, IntegrityInvariance, PTL

\* VALIDATED and EXPIRED of a signed row rest on what replies stated, whatever they
\* left out (finality.service.ts applyFound, applyProvenAbsent).
THEOREM OutcomesAreStated == NullsHaveNoFields => (ArtifactSpec => []OutcomeIsStated)
<1> SUFFICES ASSUME NullsHaveNoFields PROVE ArtifactSpec => []OutcomeIsStated
  OBVIOUS
<1>1. ASSUME IntegrityInv PROVE OutcomeIsStated
  <2>1. HashOf(row.signed) # Absent
    <3>1. DOMAIN HashOf(row.signed) = {1, 2}
      BY DEF HashOf
    <3> QED BY <3>1 DEF NullsHaveNoFields
  <2>2. OptionalStr(basis.tx.hash) = HashOf(row.signed) => basis.tx.hash = HashOf(row.signed)
    BY <2>1 DEF OptionalStr
  <2> QED BY <1>1, <2>2 DEF IntegrityInv, Outcomes, OutcomeIsStated
<1> QED BY <1>1, IntegrityInvariance, PTL
===============================================================================
