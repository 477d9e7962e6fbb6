SPECIFICATION Spec

CONSTANTS
    NumProcesses = 2
    NumExamples = 4
    TrainBatchSize = 1
    NumEpochs = 1
    MaxSteps = 0
    GradAccum = 2
    EvalSteps = 2
    SaveSteps = 3
    HasEval = TRUE
    MaySkip = TRUE

PROPERTIES
    TrainingEnds
CHECK_DEADLOCK FALSE
