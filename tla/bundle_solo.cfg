\* One process, two commands; operations fail and the process dies.
SPECIFICATION Spec
CONSTANTS
    Proc = {cli}
    cli = cli
    Rom = {"disc", "wii", "cart"}
    Title = {"d", "w", "c"}
    Source <- MCSource
    TitleOf <- MCTitleOf
    Disc = {"disc", "wii"}
    Planned <- MCPlanned
    Modes <- MCBothModes
    NoFile = NoFile
    MaxRuns = 2
    MaxFaults = 2
    MaxCrashes = 1
INVARIANTS SourceSurvives BundledIsWhole NoTempLeft
PROPERTIES MarkedInPlace
CHECK_DEADLOCK FALSE
