CONSTANTS
    foo = foo  bar = bar  baz = baz  t1 = t1  t2 = t2
    NULL = NULL
    Thread = {t1, t2}
    Mock = {foo, bar}
    StubFn = {baz}
    Variadic = {}
    Args <- MCArgs
    WhenExpr <- ContractWhen
    VerifyExpr <- ContractVerify
    Reenter = {"callback"}
    Misuse = FALSE
    ResetInUse = FALSE
    MaxDepth = 2
    MaxCalls = 2
    MaxContracts = 2
SPECIFICATION MCSpec
SYMMETRY ThreadSymmetry
INVARIANTS ModeIsolation OwnContext NoUseAfterFree
PROPERTY ImplementsContract
