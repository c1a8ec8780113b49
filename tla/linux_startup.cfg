\* The kiosk starts beside an accepted document that nobody touches.
SPECIFICATION FairSpec
CONSTANTS
    plain = plain
    silver = silver
    huge = huge
    torn = torn
    NoFile = NoFile
    Defaults = Defaults
    Accepted = {plain, silver}
    Oversized = {huge}
    Invalid = {torn}
    Stamps = {1}
    Faults = {}
    MaxEdits = 0
    MaxStarts = 1
PROPERTY
    ShowsTheFile
CHECK_DEADLOCK FALSE
