SPECIFICATION Spec
CONSTANTS
    l1 = l1
    l2 = l2
    tz = tz
    hyp = hyp
    abl = abl
    devcfg = devcfg
    xbl = xbl
    NoLun = NoLun
    Luns <- SingleLuns
    Parts <- SingleParts
    LunOf <- SingleLunOf
    BakLunOf <- SingleBakLunOf
    BootParts = {xbl}
    IsUfs = TRUE
    LookupFails = {}
    TornBlocks = FALSE
INVARIANT ReadyMeansBackupXbl
