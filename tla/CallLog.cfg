CONSTANTS
    a1 = a1  a2 = a2  a3 = a3  t1 = t1
    NULL = NULL
    Thread = {t1}
    Args = {a1, a2, a3}
    Form <- MCForm
    Chunk = 4
    MaxCalls = 5
SPECIFICATION FairSpec
INVARIANTS TypeOK Layout OneRecordEach ExactCounts
PROPERTY CallReturns
CHECK_DEADLOCK FALSE
