SPECIFICATION Spec
SYMMETRY Symmetry
CONSTANTS
    IdempotencyKeys = {key1, key2, key3}
    Bodies = {pay1, pay2}
    Ids = {1, 2, 3}
    Callers = {c1, c2}
    Limit = 1
    MaxTime = 1
INVARIANTS
    AnswersMatchTable
    AuditMatchesTable
    WalkSeesAll
