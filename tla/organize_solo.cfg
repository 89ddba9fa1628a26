\* One process, moves only, distinct seconds, no failure.
SPECIFICATION FairSpec
CONSTANTS
    Proc = {cli}
    cli = cli
    FileId = {1, 2}
    Packed = {2}
    Path = {"a", "b", "c", "c_1"}
    NoPath = NoPath
    Content = {"rom1", "rom2"}
    NoFile = NoFile
    Disk0 <- MCDisk0
    Home <- MCHome
    Targets <- MCTargets
    Suffixed <- MCSuffixed
    Stash <- MCNone
    Stage <- MCNone
    Foreign = {}
    Ops = {"move"}
    Strategies = {"skip", "rename", "ask"}
    Undoes = {"all", "last"}
    Gaps = {1}
    MaxOps = 4
    MaxFaults = 0
    MaxCrashes = 0
INVARIANTS TypeOK RowsFollowFiles UndoAllRestores
PROPERTIES ImplementsUndoLog UndoAllSucceeds
CHECK_DEADLOCK FALSE
