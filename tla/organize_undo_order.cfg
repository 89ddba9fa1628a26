\* As organize_solo, but entries may be recorded within one second.
SPECIFICATION Spec
CONSTANTS
    Proc = {cli}
    cli = cli
    FileId = {1, 2}
    Packed = {2}
    Path = {"a", "b", "c", "c_1"}
    NoPath = NoPath
    Content = {"rom1", "rom2"}
    NoFile = NoFile
    Disk0 <- MCDisk0
    Home <- MCHome
    Targets <- MCTargets
    Suffixed <- MCSuffixed
    Stash <- MCNone
    Stage <- MCNone
    Foreign = {}
    Ops = {"move"}
    Strategies = {"skip", "rename", "ask"}
    Undoes = {"all", "last"}
    Gaps = {0, 1}
    MaxOps = 4
    MaxFaults = 0
    MaxCrashes = 0
INVARIANTS ReverseOrder
CHECK_DEADLOCK FALSE
