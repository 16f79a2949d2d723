SPECIFICATION Spec
CONSTANTS
    Texts <- MCTexts
    Later <- MCLater
    Printed <- MCPrinted
    MaxTexts = 2
    max_depth = 3
INVARIANTS
    SameAsOneCall
    PrintedIsRead
CHECK_DEADLOCK FALSE
