\* One process, moves and copies that overwrite; nothing fails.
SPECIFICATION Spec
CONSTANTS
    Proc = {cli}
    cli = cli
    FileId = {1, 2}
    Packed = {}
    Path = {"a", "b", "c", ".backup", ".copy"}
    NoPath = NoPath
    Content = {"rom1", "rom2"}
    NoFile = NoFile
    Disk0 <- MCDisk0
    Home <- MCHome
    Targets <- MCSwapped
    Suffixed <- MCSuffixed
    Stash <- MCStash
    Stage <- MCStage
    Foreign = {}
    Ops = {"move", "copy"}
    Strategies = {"overwrite"}
    Undoes = {"all"}
    Gaps = {1}
    MaxOps = 3
    MaxFaults = 0
    MaxCrashes = 0
INVARIANTS UndoneCopyIsTheCopied
CHECK_DEADLOCK FALSE
