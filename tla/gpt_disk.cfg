SPECIFICATION Spec
CONSTANTS
    l1 = l1
    l2 = l2
    boot = boot
    dtbo = dtbo
    modem = modem
    odm = odm
    NoLun = NoLun
    Null = Null
    Luns = {l1, l2}
    Parts <- DiskParts
    LunOf <- DiskLunOf
    PtnList <- DiskList
    MaxFaults = 2
INVARIANTS
    TypeOK
    PrimaryDamagedOnlyByFault
    OneActiveSlot
    SuccessMeansSwitched
    RetrySucceeds
PROPERTIES
    ImplementsSlotTables
