SPECIFICATION Spec
CONSTANTS
    Intents = {1}
    Accounts = {"acct"}
    Payloads = {"pay"}
    Keys = {"master", "stranger"}
    AuthorizedKeys = {"master"}
    NoTx = NoTx
    MaxLedger = 4
    MaxLag = 1
    MaxExternal = 1
    AccountOf <- SameAccount
    PayloadOf <- SamePayload
    Callers = {c1}
    Worker = w
    LastLedgerOffset = 1
    FaultyReplies = FALSE
    MaxSends = 1
    MaxCrashes = 0
INVARIANTS
    ExpiredIsPast
    ValidatedIsTrue
    SettledNeverLands
    FailuresAreReal
    ExpiredAnswerIsPast
