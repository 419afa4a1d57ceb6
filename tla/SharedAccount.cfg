SPECIFICATION Spec
CONSTANTS
    Intents = {1,2}
    Accounts = {"acct"}
    Payloads = {"pay"}
    Keys = {"master"}
    AuthorizedKeys = {"master"}
    NoTx = NoTx
    MaxLedger = 3
    MaxLag = 0
    MaxExternal = 0
    AccountOf <- SameAccount
    PayloadOf <- SamePayload
    Callers = {c1}
    Worker = w
    LastLedgerOffset = 1
    FaultyReplies = FALSE
    MaxSends = 1
    MaxCrashes = 0
INVARIANTS
    OneSequenceOwner
PROPERTIES
    ImplementsLifecycle
