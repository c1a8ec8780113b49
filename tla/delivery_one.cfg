\* One run at a time, up to two faults of any kind.
SPECIFICATION Spec
CONSTANTS
    r1 = r1
    r2 = r2
    a1 = a1
    Runs = {r1}
    Approvals = {a1}
    ApprovalOf <- MCOneRun
    ApprovedAt <- MCApprovedAt
    MaxAge = 0
    MaxSkew = 0
    InitialDevices <- MCDevices
    DeadlineTicks = 2
    RecoveryTicks = 10
    CommandTicks = 1
    InstallTicks = 6
    QuickTicks = 1
    MaxClock = 3
    Faults = {"command", "validator", "write", "signal", "kill", "clock"}
    MaxFaults = 2
INVARIANTS
    TypeOK
    ReceiptOnDiskValid
    RecordedBeforeTouched
    RecoveryNeverStarved
    RolledBackIsRestored
    ExitZeroMeansAccepted
    RecordsAgree
CHECK_DEADLOCK FALSE
