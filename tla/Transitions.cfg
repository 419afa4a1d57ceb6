SPECIFICATION TransitionsSpec
CONSTANTS
    Intents = {1, 2}
    Accounts = {"alice"}
    AccountOf <- MCAccountOf
    Blobs = {"b1"}
    NoTx = NoTx
    Callers = {c1, c2}
    Nobody = Nobody
    Asked <- MCAsked
INVARIANTS TransitionsTypeOK TrailIsHistory
PROPERTIES ImplementsTransition TrailIsAppendOnly TransitionsEnd
CHECK_DEADLOCK TRUE
