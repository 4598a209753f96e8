CONSTANTS
    s1 = s1  s2 = s2  s3 = s3  s4 = s4
    NULL = NULL
    StubId = {s1, s2, s3}
    SelfScope <- SelfS
    Scope <- MCScopeAlias
    Symbol <- MCSymbol
    Slot <- MCSlot
    SlotsOf <- MCSlotsOfAlias
    Lazy <- MCLazy
    Real <- MCReal
    Careful = TRUE
SYMMETRY StubSymmetry
SPECIFICATION Spec
INVARIANTS UnmockedIsOriginal
