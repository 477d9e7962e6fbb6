SPECIFICATION Spec

CONSTANTS
    Settings <- MCSettings
    TotalSteps = 2

INVARIANTS
    TypeOK
    RowsStayAligned
    GroupsAreWhole
    TrainedOncePerEpoch
    UpdatesWeighOne
    WorkIsBalanced
    ValidationCoversAll
    RaisesOnlyWhen
    NoRankWaits
