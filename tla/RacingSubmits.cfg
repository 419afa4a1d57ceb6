SPECIFICATION Spec
SYMMETRY Symmetry
CONSTANTS
    Intents = {1}
    Accounts = {"acct"}
    Payloads = {"pay"}
    Keys = {"master"}
    AuthorizedKeys = {"master"}
    NoTx = NoTx
    MaxLedger = 2
    MaxLag = 0
    MaxExternal = 0
    AccountOf <- SameAccount
    PayloadOf <- SamePayload
    Callers = {c1,c2}
    Worker = w
    LastLedgerOffset = 1
    FaultyReplies = FALSE
    MaxSends = 3
    MaxCrashes = 0
INVARIANTS
    LoopsSettle
    AttemptsNeverOvercounted
