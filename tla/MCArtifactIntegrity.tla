------------------------- MODULE MCArtifactIntegrity -------------------------
(* Every field a service reads varies over a right value, a boundary, a     *)
(* missing and a mistyped one, at the reply where it decides something.     *)
EXTENDS ArtifactIntegrity

MCPayloads ==
    {[type |-> "PAYMENT", parties |-> "alice to bob", amount |-> "5 drops", tag |-> Absent],
     [type |-> "PAYMENT", parties |-> "alice to bob", amount |-> "1000.50", tag |-> 0],
     [type |-> "PAYMENT", parties |-> "alice to bob", amount |-> Unencodable, tag |-> Absent],
     [type |-> "TRUST_SET", parties |-> "alice trusts issuer", amount |-> "1000.50", tag |-> Absent]}

MCServerReplies ==
    [error : {"none", "noNetwork"}, networkId : {1024, 1025, Absent, Bad}, state : {"full", "connected", Absent},
     age : {MaxAge - 1, MaxAge, Absent}]
MCFormatReplies == [error : {"none"}, formats : {Absent, {"Payment"}, {"Payment", "TrustSet", "AMMBid"}}]

Account == [error |-> "none", validated |-> TRUE, index |-> 21, currentIndex |-> Absent, seq |-> 7,
            flag |-> FALSE, bits |-> Absent, regular |-> Absent, queued |-> Absent]
Faults == {[Account EXCEPT !.error = e] : e \in {"actNotFound", "noNetwork"}}
          \cup {[Account EXCEPT !.validated = v] : v \in {FALSE, Absent, Bad}}
          \cup {[Account EXCEPT !.index = Bad], [Account EXCEPT !.seq = Bad], [Account EXCEPT !.seq = Absent]}

MCAccountReplies ==
    Faults \cup {[Account EXCEPT !.seq = s, !.index = n, !.currentIndex = c] :
                    s \in {7, 8}, n \in {21, 22, Absent}, c \in {Absent, 22}}
MCCurrentReplies ==
    Faults \cup {[Account EXCEPT !.seq = s, !.queued = q, !.validated = Absent, !.index = Absent, !.currentIndex = 22] :
                    s \in {7, 8}, q \in {Absent, 0, 1, Bad}}
MCKeyReplies ==
    Faults \cup {[Account EXCEPT !.flag = f, !.bits = b, !.regular = k] :
                    f \in {TRUE, FALSE, Absent}, b \in {"lsfDisableMaster", Absent, Bad}, k \in {"regular", Bad}}
           \cup {[Account EXCEPT !.seq = s, !.index = n] : s \in {7, 8}, n \in {22, Absent}}

MCLedgerIndexReplies ==
    [error : {"none"}, validated : {TRUE}, index : {1, 21, 22, Bad}, nested : {Absent}]
    \cup [error : {"none"}, validated : {TRUE, Absent, Bad}, index : {Absent}, nested : {22, Absent}]
    \cup [error : {"noNetwork"}, validated : {TRUE}, index : {22}, nested : {Absent}]

MCFeeReplies == [error : {"none"}, fee : {0, 1, MaxFeeDrops, MaxFeeDrops + 1, Absent, Bad}]
                \cup [error : {"noNetwork"}, fee : {1}]

AmountField(tx) == IF tx.TransactionType = "Payment" THEN "Amount" ELSE "LimitAmount"
MCSimulateReplies(sent) ==
    LET amount == AmountField(sent)
        about == {sent, With(With(sent, "hash", "0"), "SigningPubKey", ""), [sent EXCEPT ![amount] = Value(@)],
                  Absent, Bad, [sent EXCEPT ![amount] = "6"], [sent EXCEPT !.Sequence = @ + 1],
                  With(sent, "Extra", 1), With(sent, "DeliverMax", sent[amount]), With(sent, "DeliverMax", "6"),
                  With(Without(sent, {amount}), "DeliverMax", sent[amount])}
    IN  [error : {"none"}, engine : {"tesSUCCESS", "tecPATH_DRY", Absent}, tx : about]
        \cup [error : {"noNetwork"}, engine : {Absent}, tx : {sent}]

\* A blob, a stray field in it, a key, and the key that really made the signature.
SignAs(tx, key, by) ==
    LET keyed == With(tx, "SigningPubKey", key) IN With(keyed, "TxnSignature", Signature(keyed, by))

MCSignedTexts(r) ==
    LET texts == {r.blob, With(r.blob, "Extra", 1), With(r.blob, "Signers", 1), [r.blob EXCEPT !.Fee = @ + 1],
                  Without(r.blob, {"Flags"})}
    IN  {SignAs(tx, key, by) : tx \in texts, key \in Keys, by \in Keys}
        \cup {Bad, r.blob, With(r.blob, "SigningPubKey", "master")}

MCSubmitReplies == [error : {"none"}, engine : {"tesSUCCESS", "terQUEUED", "temMALFORMED", Absent, Bad}]
                   \cup [error : {"noNetwork"}, engine : {Absent}]

MCTxReplies(r) ==
    LET Tx(error, all, validated, hash, index, result) ==
            [error |-> error, searchedAll |-> all, validated |-> validated, hash |-> hash,
             index |-> index, result |-> result]
        mine == HashOf(r.signed)
    IN  {Tx("txnNotFound", all, Absent, Absent, Absent, Absent) : all \in {TRUE, FALSE, Absent, Bad}}
        \cup {Tx("none", Absent, v, mine, 2, "tesSUCCESS") : v \in {TRUE, FALSE, Absent, Bad}}
        \cup {Tx("none", Absent, TRUE, h, 2, "tesSUCCESS") : h \in {HashOf(r.blob), Absent, Bad}}
        \cup {Tx("none", Absent, TRUE, mine, n, "tecPATH_DRY") : n \in {1, 21, 22, Absent, Bad}}
        \cup {Tx("none", Absent, TRUE, mine, 21, x) : x \in {"tefPAST_SEQ", Absent, Bad}}
        \cup {Tx("noNetwork", Absent, TRUE, mine, 2, "tesSUCCESS")}
==============================================================================
