SPECIFICATION Spec
CONSTANTS
    SwapList <- MCSwapList
    Names <- MCNames
    MaxEntries = 5
INVARIANT SwapIsTwinExchange
CHECK_DEADLOCK FALSE
