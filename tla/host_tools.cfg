SPECIFICATION HostSpec
CONSTANTS
    Words = {"area", "home", "users", "localhost", "long", "utc"}
    LongWords = {"long"}
    HiddenLow = {"home"}
    HiddenTitle = {"users"}
    Endpoints = {"localhost"}
    Utc = "utc"
    ConfigInputs <- MCConfigInputs
    OtherInputs <- MCOtherInputs
    MaxRounds = 2
    Targets = {"one", "two"}
    AdbDir = "adb-dir"
    Situations <- MCSituations
    SkewBound = 10
    Timeout = 1
    MaxReplugs = 2
    MaxFaults = 1
    Commits = {"main", "docs", "bumped", "native"}
    Branch = "main"
    Runs = {"tag", "branch"}
    GroupOf <- MCGroupOf
    ContentOf <- MCContentOf
    Tag = "1"
    Installed <- MCInstalled
    Pins = "pins"
    Packages = {"platforms", "build-tools", "cmdline-tools"}
    MaxMoves = 1
INVARIANTS
    HostTypesOK
    AlwaysAVerdict
    SchemaMatchesIngestion
    CanonicalSettles
    AcceptedMeetsAll
    QualifiedIsAccepted
    ReleaseTellsTheTruth
CHECK_DEADLOCK FALSE
