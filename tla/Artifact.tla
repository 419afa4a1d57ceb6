------------------------------- MODULE Artifact -------------------------------
(***************************************************************************)
(* The transaction of an intent in its forms: JSON as the builders make it *)
(* and the presenter shows it, canonical JSON, the unsigned blob, and the  *)
(* signed blob.  JSON is a function on field names; a blob is what the     *)
(* codec can tell of it.  Account, Destination and issuer are one field,   *)
(* Parties; Extra stands for every other field the codec knows.            *)
(***************************************************************************)
EXTENDS LedgerReplies

CONSTANTS
    NetworkIdThreshold,   \* NETWORK_ID_FIELD_THRESHOLD
    LastLedgerOffset      \* LAST_LEDGER_OFFSET

ASSUME ArtifactAssumption == NetworkIdThreshold \in Nat /\ LastLedgerOffset \in Nat

Without(tx, fields) == [f \in DOMAIN tx \ fields |-> tx[f]]
Merge(tx, more) == [f \in DOMAIN tx \cup DOMAIN more |-> IF f \in DOMAIN tx THEN tx[f] ELSE more[f]]
With(tx, field, value) == Merge(tx, [f \in {field} |-> value])

-------------------------------------------------------------------------------
(* The binary codec and the keys of the xrpl library.                      *)

\* "1000.50" and "1000.5" are one value; one has more digits than the codec takes.
Spellings == {"1000.5", "1000.50"}
Unencodable == "more than 16 digits"
Value(spelling) == IF spelling \in Spellings THEN "1000.5" ELSE spelling

SignatureFields == {"SigningPubKey", "TxnSignature"}
AmountFields == {"Amount", "LimitAmount"}
CodecFields == AmountFields \cup SignatureFields \cup
    {"TransactionType", "Parties", "DestinationTag", "Flags", "Fee", "Sequence",
     "LastLedgerSequence", "NetworkID", "Extra", "Signers"}

\* encode(): a capitalised field it does not know is an error (DeliverMax is one),
\* any other unknown field (hash) is left out.
Encode(tx) ==
    IF \/ tx = Bad \/ "DeliverMax" \in DOMAIN tx
       \/ \E f \in DOMAIN tx \cap AmountFields : tx[f] = Unencodable
    THEN Bad
    ELSE [f \in DOMAIN tx \cap CodecFields |-> IF f \in AmountFields THEN Value(tx[f]) ELSE tx[f]]

\* A signature is over everything but itself, by the key that is named in it.
Signature(tx, key) == <<key, Without(tx, {"TxnSignature"})>>

-------------------------------------------------------------------------------
(* Builders and codec.ts.                                                  *)

NetworkIdField(tx, networkId) ==
    IF networkId > NetworkIdThreshold THEN With(tx, "NetworkID", networkId) ELSE tx

BuildPayment(intent, params) ==
    LET tx == [TransactionType |-> "Payment", Parties |-> intent.parties, DeliverMax |-> intent.amount, Flags |-> 0,
               Fee |-> params.fee, Sequence |-> params.seq, LastLedgerSequence |-> params.lls]
    IN  NetworkIdField(IF intent.tag = Absent THEN tx ELSE With(tx, "DestinationTag", intent.tag),
                       params.networkId)

BuildTrustSet(intent, params) ==
    LET tx == [TransactionType |-> "TrustSet", Parties |-> intent.parties, LimitAmount |-> intent.amount, Flags |-> 0,
               Fee |-> params.fee, Sequence |-> params.seq, LastLedgerSequence |-> params.lls]
    IN  NetworkIdField(tx, params.networkId)

BuildTransaction(intent, params) ==
    IF intent.type = "PAYMENT" THEN BuildPayment(intent, params) ELSE BuildTrustSet(intent, params)

\* DeliverMax is the API's name of Amount; both, with different values, is an error.
ToCanonicalForm(tx) ==
    IF tx.TransactionType # "Payment" \/ "DeliverMax" \notin DOMAIN tx THEN tx
    ELSE IF "Amount" \in DOMAIN tx /\ tx.Amount # tx.DeliverMax THEN Bad
    ELSE With(Without(tx, {"DeliverMax", "Amount"}), "Amount", tx.DeliverMax)

EncodeTransaction(tx) == Encode(ToCanonicalForm(tx))

EncodeComparable(tx) == IF tx = Bad THEN Bad ELSE Encode(Without(tx, SignatureFields \cup {"hash"}))

\* Mutant: a simulation without a transaction matches.
MatchesOrSilent(prepared, simulated) ==
    \/ simulated = Absent
    \/ EncodeComparable(ToCanonicalForm(prepared)) = EncodeComparable(ToCanonicalForm(simulated))

SimulationMatchesPrepared(prepared, simulated) ==
    /\ simulated # Absent
    /\ LET a == EncodeComparable(ToCanonicalForm(prepared))
           b == EncodeComparable(ToCanonicalForm(simulated))
       IN  a # Bad /\ b # Bad /\ a = b

-------------------------------------------------------------------------------
(* Signing.                                                                *)

ForbiddenSignedFields == {"Signers"}

TransactionFieldOrder ==
    {"TransactionType", "Parties", "DeliverMax", "DestinationTag", "LimitAmount", "Flags", "Fee",
     "Sequence", "LastLedgerSequence", "NetworkID"}

\* Mutant: only listed fields are shown, and NetworkID is not listed.
OrderedWithoutNetwork(tx) == Without(tx, DOMAIN tx \ (TransactionFieldOrder \ {"NetworkID"}))

\* The stored JSON as the API shows it: the builder's fields first, then the others.
OrderedTransaction(tx) ==
    Merge(Without(tx, DOMAIN tx \ TransactionFieldOrder), Without(tx, TransactionFieldOrder))

\* What a signer makes of the transaction the API shows: examples/testnet-signer.
SignedBy(key, shown) ==
    LET canonical == IF "DeliverMax" \in DOMAIN shown
                     THEN With(Without(shown, {"DeliverMax"}), "Amount", shown.DeliverMax) ELSE shown
        keyed     == With(Encode(canonical), "SigningPubKey", key)
    IN  With(keyed, "TxnSignature", Signature(keyed, key))

\* Mutant: fields the prepared transaction does not have are cut off before it is compared.
VerifyKnownFields(blob, preparedBlob) ==
    /\ blob # Bad /\ SignatureFields \subseteq DOMAIN blob
    /\ Bad \notin {Str(blob.TxnSignature), Str(blob.SigningPubKey)}
    /\ DOMAIN preparedBlob \subseteq DOMAIN blob
    /\ \A f \in DOMAIN preparedBlob : blob[f] = preparedBlob[f]
    /\ blob.TxnSignature = Signature(blob, blob.SigningPubKey)

\* SignedBlobService.verify(); Bad is a text that does not decode.
Verify(blob, preparedBlob) ==
    /\ blob # Bad /\ SignatureFields \subseteq DOMAIN blob
    /\ Bad \notin {Str(blob.TxnSignature), Str(blob.SigningPubKey)}
    /\ DOMAIN blob \cap ForbiddenSignedFields = {}
    /\ DOMAIN blob \ SignatureFields \subseteq DOMAIN preparedBlob
    /\ Without(blob, SignatureFields) = preparedBlob
    /\ blob.TxnSignature = Signature(blob, blob.SigningPubKey)

\* Mutant: a disabled master key still signs.
AuthorizedMaster(key, account) == key = "master" \/ account.regular = key

\* Only the master key derives to the source account.
AssertAuthorized(key, account) ==
    IF key = "master" THEN ~account.disabled ELSE account.regular = key

==============================================================================
