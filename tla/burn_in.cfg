\* Seven hours around the local epoch.
SPECIFICATION Spec
CONSTANTS
    First <- MCFirst
    Last <- MCLast
    Bounds = {0, 1, 2, 3, 4, 5, 6, 7, 8}
INVARIANTS
    TypeOK
    WithinAmplitude
    UniformCoverage
    TwinsAgree
PROPERTIES
    MovesEveryMinute
    StepIsOnePixel
CHECK_DEADLOCK FALSE
