CONSTANTS
    foo = foo  bar = bar  baz = baz  t1 = t1  t2 = t2
    NULL = NULL
    Thread = {t1}
    Mock = {foo, bar}
    StubFn = {}
    Variadic = {bar}
    Args <- VaArgs
    WhenExpr <- VaWhen
    VerifyExpr <- VaVerify
    Reenter = {}
    Misuse = FALSE
    ResetInUse = FALSE
    MaxDepth = 2
    MaxCalls = 2
    MaxContracts = 3
SPECIFICATION Spec
PROPERTY ImplementsContract
CHECK_DEADLOCK FALSE
