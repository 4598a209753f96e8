CONSTANTS
    foo = foo  bar = bar  baz = baz  t1 = t1  t2 = t2
    NULL = NULL
    Thread = {t1}
    Mock = {foo, bar}
    StubFn = {baz}
    Variadic = {bar}
    Args <- SmallArgs
    WhenExpr <- SmallWhen
    VerifyExpr <- SmallVerify
    Reenter = {"callback"}
    Misuse = TRUE
    ResetInUse = FALSE
    MaxDepth = 3
    MaxCalls = 2
    MaxContracts = 2
SPECIFICATION Spec
INVARIANTS TypeOK ModeIsolation NoMatcherLeak
PROPERTY OneCallPerExpression
CHECK_DEADLOCK FALSE
