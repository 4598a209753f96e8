CONSTANTS
    Program <- ElfProgram
    Target <- MCTarget
    RelTables <- MCRelTables
    JmprelTables <- MCJmprelTables
    LazyTables <- MCLazyTables
    GotTables <- MCGotTables
    Imports <- MCImports
    Definer = {2}
SPECIFICATION Spec
INVARIANTS FirstDefinerPatched
CHECK_DEADLOCK FALSE
