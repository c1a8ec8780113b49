\* One command does not reach the device.
SPECIFICATION Spec
CONSTANTS
    r1 = r1
    r2 = r2
    a1 = a1
    Runs = {r1}
    Approvals = {a1}
    ApprovalOf <- MCOneRun
    ApprovedAt <- MCApprovedAt
    MaxAge = 0
    MaxSkew = 0
    InitialDevices <- MCConfigured
    DeadlineTicks = 2
    RecoveryTicks = 10
    CommandTicks = 1
    InstallTicks = 6
    QuickTicks = 1
    MaxClock = 3
    Faults = {"command"}
    MaxFaults = 1
INVARIANT
    PriorConfigCaptured
CHECK_DEADLOCK FALSE
