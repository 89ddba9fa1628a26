\* One process, moves and copies that overwrite, one failure and one crash.
SPECIFICATION Spec
CONSTANTS
    Proc = {cli}
    cli = cli
    FileId = {1, 2}
    Packed = {}
    Path = {"a", "b", "c", ".backup", ".copy"}
    NoPath = NoPath
    Content = {"rom1", "rom2"}
    NoFile = NoFile
    Disk0 <- MCDisk0
    Home <- MCHome
    Targets <- MCTargets
    Suffixed <- MCSuffixed
    Stash <- MCStash
    Stage <- MCStage
    Foreign = {}
    Ops = {"move", "copy"}
    Strategies = {"overwrite"}
    Undoes = {"all", "one"}
    Gaps = {1}
    MaxOps = 3
    MaxFaults = 1
    MaxCrashes = 1
INVARIANTS NothingLeftBehind
PROPERTIES OverwriteIsAtomic OnlyTheReplacedIsLost
CHECK_DEADLOCK FALSE
