CONSTANTS
    MMK_BITS = 4
    AddrSpan = 1024
    HighAddr = 1019
    Thread = {t1, t2}
    Program <- MCProgram
    Hashes <- MCHashes
    TableKinds <- MCTableKinds
    Missing <- MCMissing
SPECIFICATION MCSpec
INVARIANTS TypeOK ReadyOnReturn PanicCanSpeak VitalsAreReal FindsWhatIsThere
PROPERTIES InitEnds
CHECK_DEADLOCK FALSE
