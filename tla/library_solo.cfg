\* One process; files change, statements fail and the process dies.
SPECIFICATION Spec
CONSTANTS
    Proc = {cli}
    cli = cli
    File = {"game.bin", "game.cue"}
    Parent <- MCParent
    Unfinished = {"game.cue"}
    Digest = {"d1", "d2"}
    Identity = {"usa", "japan"}
    None = None
    Content0 <- MCContent0
    Catalog0 <- MCCatalog0
    Online <- MCOnline
    MaxGames = 3
    MaxEdits = 1
    MaxIngests = 1
    MaxFaults = 1
    MaxCrashes = 1
INVARIANTS TypeOK EntryIsOfHashes
CHECK_DEADLOCK FALSE
