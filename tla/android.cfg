\* Two edits and a reboot; a failing read, a failing write and a kill.
SPECIFICATION FairSpec
CONSTANTS
    show24 = show24
    stayOff = stayOff
    huge = huge
    torn = torn
    NoFile = NoFile
    Defaults = Defaults
    Accepted = {show24, stayOff}
    Oversized = {huge}
    Invalid = {torn}
    NoAutoStart = {stayOff}
    Faults = {"read", "write", "kill"}
    MaxEdits = 2
    MaxBoots = 1
INVARIANTS
    TypeOK
    StatusTellsTheScreen
    NoHijack
PROPERTIES
    KeepsLastGood
    PickedUp
    ComesUp
CHECK_DEADLOCK FALSE
