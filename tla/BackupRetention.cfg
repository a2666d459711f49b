SPECIFICATION Spec
CONSTANTS
    MaxSnapshots = 8
PROPERTIES
    RetainsMinimum
CHECK_DEADLOCK FALSE
