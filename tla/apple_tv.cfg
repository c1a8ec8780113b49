\* One edit and a loss of power; two of: a failing read, a failing write, a
\* refused audio session, an interruption and a kill.
SPECIFICATION FairSpec
CONSTANTS
    loud = loud
    mute = mute
    huge = huge
    torn = torn
    NoFile = NoFile
    Defaults = Defaults
    Accepted = {loud, mute}
    Oversized = {huge}
    Invalid = {torn}
    TickOf <- MCTickOf
    Faults = {"read", "write", "kill", "audio", "interruption"}
    MaxFaults = 2
    MaxEdits = 1
    MaxBoots = 1
INVARIANTS
    TypeOK
    NeverLost
    RestAgrees
PROPERTIES
    KeepsLastGood
    PickedUp
CHECK_DEADLOCK FALSE
