\* Two processes, moves only, entries of one second; a failure, a crash or a
\* foreign file.
SPECIFICATION Spec
CONSTANTS
    Proc = {cli, gui}
    cli = cli
    gui = gui
    FileId = {1, 2}
    Packed = {}
    Path = {"a", "b", "c", "c_1"}
    NoPath = NoPath
    Content = {"rom1", "rom2", "other"}
    NoFile = NoFile
    Disk0 <- MCDisk0
    Home <- MCHome
    Targets <- MCTargets
    Suffixed <- MCSuffixed
    Stash <- MCNone
    Stage <- MCNone
    Foreign = {"other"}
    Ops = {"move"}
    Strategies = {"rename"}
    Undoes = {"all"}
    Gaps = {0}
    MaxOps = 2
    MaxFaults = 1
    MaxCrashes = 1
SYMMETRY ProcSymmetry
INVARIANTS OneCopyEach EveryMoveIsLogged
PROPERTIES MovesKeepEveryFile
CONSTRAINT OneDisturbance
CHECK_DEADLOCK FALSE
