SPECIFICATION FairSpec
CONSTANTS
    Rows = {1, 2, 3}
    Holds <- MixedHistory
INVARIANTS
    TrackerTypeOK
    TriggersAreHonoured
    NoCycleAfterDestroy
    ReadyIsEarned
PROPERTIES
    ProvableRowsSettle
    RowsInFrontSettle
