SPECIFICATION ArtifactSpec
CONSTANTS
    Absent = Absent
    Bad = Bad
    MaxAge = 20
    MaxFeeDrops = 1000
    NetworkIdThreshold = 1024
    LastLedgerOffset = 20
    Networks = {1024, 1025}
    Keys = {"master", "regular"}
    Payloads <- MCPayloads
    ServerReplies <- MCServerReplies
    FormatReplies <- MCFormatReplies
    AccountReplies <- MCAccountReplies
    KeyReplies <- MCKeyReplies
    CurrentReplies <- MCCurrentReplies
    LedgerIndexReplies <- MCLedgerIndexReplies
    FeeReplies <- MCFeeReplies
    SubmitReplies <- MCSubmitReplies
    SimulateReplies <- MCSimulateReplies
    TxReplies <- MCTxReplies
    SignedTexts <- MCSignedTexts
INVARIANTS ArtifactTypeOK SentIsIntended ShownIsSignable SimulatedIsPrepared SignerIsEntitled OutcomeIsStated
CHECK_DEADLOCK FALSE
