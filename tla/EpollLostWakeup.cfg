SPECIFICATION Spec
CONSTANTS
    NFds = 1
    GoneBatch = 100
INVARIANTS
    NoLostReadiness
CHECK_DEADLOCK FALSE
