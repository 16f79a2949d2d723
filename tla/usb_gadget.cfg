SPECIFICATION Spec
CONSTANTS
    Threads = {t1, t2}
    Requests <- GadgetRequests
    Vendor <- GadgetVendor
    MaxCalls = 2
    MaxDaemon = 2
    PortHal = TRUE
    Faults = TRUE
INVARIANTS
    TypeOK
    SuccessMeansPulledUp
    AnsweredOnce
PROPERTIES
    MonitorPullsUpWhole
    EveryCallReturns
