SPECIFICATION Spec

CONSTANTS
    NumProcesses = 3
    NumExamples = 7
    TrainBatchSize = 1
    NumEpochs = 2
    MaxSteps = 4
    GradAccum = 2
    EvalSteps = 2
    SaveSteps = 3
    HasEval = TRUE
    MaySkip = TRUE

INVARIANTS
    TypeOK
    Lockstep
    CheckpointBeforeLeaving
    WholeUpdates
    MismatchOnlyAtTheEnd
PROPERTIES
    EndsOrRunsApart
CHECK_DEADLOCK FALSE
