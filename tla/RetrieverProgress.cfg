SPECIFICATION Spec

CONSTANTS
    r1 = r1
    r2 = r2
    r3 = r3
    q1 = q1
    q2 = q2
    Request = {r1, r2, r3}
    Query <- MCOneQuery
    Row <- MCRow
    CorpusRow <- MCCorpusRow
    NoRow <- MCNoRow
    Ranking <- MCRanking
    BadRow <- MCNoBadRow
    MaxTopN = 2
    QueryBatchSize = 2
    PoolSize = 2
    SearchMayFail = TRUE

PROPERTIES
    ServiceContinues
CHECK_DEADLOCK FALSE
