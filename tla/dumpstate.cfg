SPECIFICATION Spec
CONSTANTS
    MaxLogs = 3
    LogLimit = 2
    maxFileNum = 1
    IsUserBuild = FALSE
    MaxDumps = 2
    MaxFaults = 1
    Absent = Absent
    NoTar = NoTar
INVARIANTS
    TypeOK
    SwitchesRestored
    ReportIsOfThisDump
    NewestLogsReported
PROPERTY EveryDumpReturns
CHECK_DEADLOCK FALSE
