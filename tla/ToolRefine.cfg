SPECIFICATION Spec

CONSTANTS
    q1 = q1
    q2 = q2
    Query <- MCQuery
    ShortQuery <- MCShort
    UnsummedQuery <- MCNone
    PrefixLength = 3
    AnswerRoom = 1
    MaxAnswer = 2
    MaxShift = 5
    Setting <- MCUnbalanced

INVARIANTS
    RefinedQueryIsSearched
CHECK_DEADLOCK FALSE
