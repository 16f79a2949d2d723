SPECIFICATION Spec
CONSTANTS
    l1 = l1
    l2 = l2
    tz = tz
    hyp = hyp
    abl = abl
    devcfg = devcfg
    xbl = xbl
    NoLun = NoLun
    Luns <- UfsLuns
    Parts <- UfsParts
    LunOf <- UfsLunOf
    BakLunOf <- UfsBakLunOf
    BootParts = {xbl}
    IsUfs = TRUE
    LookupFails = {"xbl"}
    TornBlocks = TRUE
INVARIANTS
    Failsafe
    XblBackupFailsafe
    FinalizeRestores
    MixedOnlyAfterMain
PROPERTIES
    ImplementsFailsafeUpdate
