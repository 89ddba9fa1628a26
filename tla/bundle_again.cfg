\* A disc bundled as it is and bundled again with conversion.
SPECIFICATION Spec
CONSTANTS
    Proc = {cli}
    cli = cli
    Rom = {"disc", "wii", "cart"}
    Title = {"d", "w", "c"}
    Source <- MCSource
    TitleOf <- MCTitleOf
    Disc = {"disc", "wii"}
    Planned <- MCPlanned
    Modes <- MCBothModes
    NoFile = NoFile
    MaxRuns = 2
    MaxFaults = 0
    MaxCrashes = 0
INVARIANTS DiscIsThere
CHECK_DEADLOCK FALSE
