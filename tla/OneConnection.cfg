SPECIFICATION FairSpec
CONSTANTS
    Clients = {k1, k2, k3, k4}
    Requests = {r1, r2}
    None = None
INVARIANTS
    ConnectionTypeOK
    OneServing
    ShutdownCloses
PROPERTIES
    NeverStranded
    RequestsEnd
