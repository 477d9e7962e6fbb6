SPECIFICATION Spec

CONSTANTS
    Settings <- MCPipelines
    TotalSteps = 1

INVARIANTS
    PipelineKeepsOrder
