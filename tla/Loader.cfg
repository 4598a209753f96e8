CONSTANTS
    Program <- MCProgram
    Target <- MCTarget
    RelTables <- MCRelTables
    JmprelTables <- MCJmprelTables
    LazyTables <- MCLazyTables
    GotTables <- MCGotTables
    Imports <- MCImports
    Definer = {1, 2}
SPECIFICATION Spec
INVARIANTS PatchesTheTargetOnly CoversBothTables RefusedForAReason RoundTrip OffsetsFit
CHECK_DEADLOCK FALSE
