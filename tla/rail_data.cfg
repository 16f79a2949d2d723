SPECIFICATION Spec
CONSTANTS
    d1 = d1
    d2 = d2
    vdd = vdd
    cam = cam
    disp = disp
    Devices <- Monitors
    RailsOf <- MonitorRails
    Pollers = {"poll1", "poll2"}
    Calls <- ClientCalls
    MAX_QUEUE_SIZE = 2
    MAX_SAMPLING_RATE = 2
    Second = 4
    Word = 16
    MaxCalls = 2
    MaxClock = 2
    MaxMisread = 1
    Faults = TRUE
INVARIANTS
    QueueAliveWhileUsed
    SamplesAreWhole
PROPERTIES
    NothingHangs
    ImplementsEnergyStreams
CHECK_DEADLOCK FALSE
