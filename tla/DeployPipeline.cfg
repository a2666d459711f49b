SPECIFICATION Spec
CONSTANTS
    MaxDeploys = 7
INVARIANTS
    PipelineTypeOK
    LiveReleasesExist
PROPERTIES
    RollbackUndoesTheCutover
    ImplementsRollout
CHECK_DEADLOCK FALSE
