\* Two processes; one crash, one ingest that renames an entry.
SPECIFICATION Spec
CONSTANTS
    Proc = {cli, gui}
    cli = cli
    gui = gui
    File = {"game.bin"}
    Parent <- MCParent
    Unfinished = {}
    Digest = {"d1", "d2"}
    Identity = {"usa", "japan"}
    None = None
    Content0 <- MCContent0
    Catalog0 <- MCCatalog0
    Online <- MCOnline
    MaxGames = 2
    MaxEdits = 1
    MaxIngests = 1
    MaxFaults = 0
    MaxCrashes = 1
SYMMETRY ProcSymmetry
INVARIANTS ConfirmedIsNamed TitleIsOfEntry
PROPERTIES MatchLeavesNone
CHECK_DEADLOCK FALSE
