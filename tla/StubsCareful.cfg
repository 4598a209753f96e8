CONSTANTS
    s1 = s1  s2 = s2  s3 = s3  s4 = s4
    NULL = NULL
    StubId = {s1, s2, s3, s4}
    SelfScope <- SelfS
    Scope <- MCScope
    Symbol <- MCSymbol
    Slot <- MCSlot
    SlotsOf <- MCSlotsOf
    Lazy <- MCLazy
    Real <- MCReal
    Careful = TRUE
SPECIFICATION Spec
INVARIANTS TypeOK NoDangling UnmockedIsOriginal CoveredIsIntercepted NameFindsNewest
SYMMETRY StubSymmetry
PROPERTY ImplementsInterposition
