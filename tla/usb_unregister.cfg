SPECIFICATION Spec
CONSTANTS
    Modes = {"sink"}
    MaxChanges = 2
    MaxCalls = 2
    Faults = FALSE
CHECK_DEADLOCK FALSE
PROPERTIES
    DestroyEndsThread
