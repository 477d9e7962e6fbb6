SPECIFICATION Spec

CONSTANTS
    q1 = q1
    q2 = q2
    hm = hm
    Args <- MCArgs
    Query <- MCQuery
    Thought <- MCThought
    Text <- MCText
    GoldQuery <- MCGold
    UnsummedQuery <- MCShort
    ShortQuery <- MCShort

INVARIANTS
    TypeOK
    ResultsFollowTheirSearch
    PromptIsIterativeContext
    StepsReplay
    RewardsAreEarned
    LossIsOwn
PROPERTIES
    RolloutEnds
CHECK_DEADLOCK FALSE
