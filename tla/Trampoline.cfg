CONSTANTS
    Thread = {t1, t2}
    Stub = {s1, s2}
    Page = {p1, p2}
    Arch <- MCArch
    Floating <- MCFloating
    MaxDepth = 2
    NULL = NULL
SPECIFICATION OwnerSpec
SYMMETRY TrampolineSymmetry
INVARIANTS TypeOK ArgsReachRoutine RoutineHasItsStub AskAnswers NoFault
