SPECIFICATION Spec
SYMMETRY Symmetry
CONSTANTS
    Intents = {1}
    Accounts = {"acct"}
    Payloads = {"pay"}
    Keys = {"master","regular"}
    AuthorizedKeys = {"master", "regular"}
    NoTx = NoTx
    MaxLedger = 2
    MaxLag = 0
    MaxExternal = 0
    AccountOf <- SameAccount
    PayloadOf <- SamePayload
    Callers = {c1,c2}
    Worker = w
    LastLedgerOffset = 1
    FaultyReplies = TRUE
    MaxSends = 0
    MaxCrashes = 0
INVARIANTS
    AnswerIsStored
PROPERTIES
    ArtifactStable
