CONSTANTS
    NULL = NULL
    Value = {0, 1, 2}
    MaxArgs = 3
    Serializer <- MCSerializer
    Limit = {0, 1, 2}
    Count = {0, 1, 2, 3}
    Matching <- MCMatching
    Type <- MCType
    Parameters <- MCParameters
SPECIFICATION MCSpec
INVARIANTS MatchesAsWritten VerdictAsDocumented EachParameterOnce BodyFitsSignature
CHECK_DEADLOCK FALSE
