SPECIFICATION Spec
CONSTANTS
    Modes = {"sink"}
    MaxChanges = 2
    MaxCalls = 3
    Faults = TRUE
INVARIANTS
    TypeOK
    NoLostPartnerSignal
    ReportedModeInForce
    NoWorkerWithoutCallback
PROPERTIES
    NotificationsInOrder
    StatusFollowsAck
    EveryChangeReported
CHECK_DEADLOCK FALSE
