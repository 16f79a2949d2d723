SPECIFICATION Spec
CONSTANTS
    l1 = l1
    l2 = l2
    tz = tz
    hyp = hyp
    abl = abl
    devcfg = devcfg
    xbl = xbl
    NoLun = NoLun
    Luns <- MixedLuns
    Parts <- MixedParts
    LunOf <- MixedLunOf
    BakLunOf <- MixedBakLunOf
    BootParts = {xbl}
    IsUfs = TRUE
    LookupFails = {"twins", "xbl"}
    TornBlocks = TRUE
INVARIANT Inv
PROPERTIES
    UnbackedUntouched
    CorruptHeaderFrozen
