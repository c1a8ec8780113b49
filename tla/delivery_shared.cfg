\* Two runs started with the same approval; a write fails, a signal or a kill arrives.
SPECIFICATION FairSpec
CONSTANTS
    r1 = r1
    r2 = r2
    a1 = a1
    Runs = {r1, r2}
    Approvals = {a1}
    ApprovalOf <- MCSameApproval
    ApprovedAt <- MCApprovedAt
    MaxAge = 9
    MaxSkew = 9
    InitialDevices <- MCConfigured
    DeadlineTicks = 1
    RecoveryTicks = 10
    CommandTicks = 1
    InstallTicks = 6
    QuickTicks = 1
    MaxClock = 1
    Faults = {"write", "signal", "kill"}
    MaxFaults = 1
INVARIANTS
    OneExecutorPerApproval
PROPERTIES
    OneUse
    EndedRecordIsFinal
    EveryRunEnds
CHECK_DEADLOCK FALSE
