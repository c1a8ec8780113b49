\* Three edits with two times, a restart, a failing read and write.
SPECIFICATION FairSpec
CONSTANTS
    plain = plain
    silver = silver
    huge = huge
    torn = torn
    NoFile = NoFile
    Defaults = Defaults
    Accepted = {plain, silver}
    Oversized = {huge}
    Invalid = {torn}
    Stamps = {1, 2}
    Faults = {"read", "write", "kill"}
    MaxEdits = 3
    MaxStarts = 2
INVARIANTS
    TypeOK
    StatusTellsTheScreen
PROPERTIES
    KeepsLastGood
    PickedUp
CHECK_DEADLOCK FALSE
