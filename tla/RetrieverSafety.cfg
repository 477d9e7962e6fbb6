SPECIFICATION SafeSpec

CONSTANTS
    r1 = r1
    r2 = r2
    r3 = r3
    q1 = q1
    q2 = q2
    Request = {r1, r2, r3}
    Query <- MCQuery
    Row <- MCRow
    CorpusRow <- MCCorpusRow
    NoRow <- MCNoRow
    Ranking <- MCRanking
    BadRow <- MCBadRow
    MaxTopN = 2
    QueryBatchSize = 2
    PoolSize = 3
    SearchMayFail = TRUE

INVARIANTS
    TypeOK
    OwnAnswer
PROPERTIES
    CompletedOnce
    ServesTheLine
CHECK_DEADLOCK FALSE
