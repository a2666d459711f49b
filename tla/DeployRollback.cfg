SPECIFICATION Spec
CONSTANTS
    MaxDeploys = 7
PROPERTIES
    RollbackEndsVerified
CHECK_DEADLOCK FALSE
