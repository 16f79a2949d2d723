SPECIFICATION OtaSpec
CONSTANTS
    l1 = l1
    l2 = l2
    tz = tz
    hyp = hyp
    xbl = xbl
    NoLun = NoLun
    Luns <- UfsLuns
    Parts <- UfsParts
    LunOf <- UfsLunOf
    BakLunOf <- UfsBakLunOf
    BootParts = {xbl}
    IsUfs = TRUE
    LookupFails = {"twins", "xbl"}
    TornBlocks = FALSE
    MaxFaults = 3
INVARIANTS
    DoneIsComplete
PROPERTIES
    UpdateCompletes
CHECK_DEADLOCK FALSE
