SPECIFICATION Spec

CONSTANTS
    r1 = r1
    r2 = r2
    q1 = q1
    q2 = q2
    Request = {r1, r2}
    Query <- MCQuery
    Row <- MCRow
    CorpusRow <- MCCorpusRow
    NoRow <- MCNoRow
    Ranking <- MCRanking
    BadRow <- MCBadRow
    MaxTopN = 2
    QueryBatchSize = 2
    PoolSize = 2
    SearchMayFail = FALSE

PROPERTIES
    CallsReturn
CHECK_DEADLOCK FALSE
