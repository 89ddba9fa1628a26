\* A library that an earlier version made is opened.
SPECIFICATION Spec
CONSTANTS
    Engine = {e1, e2}
    Verifier = {e1}
    DatSystem = {"nes"}
    RomFile = {1, 2, 3}
    SystemOf <- MCSystemOf
    DigestsOf <- MCDigestsOf
    Digest = {"s1", "s2", "c1", "c2"}
    TypeOf <- MCTypeOf
    PreferredType <- MCPreferred
    DatEntry <- MCDatEntry
    DatFiles <- MCDatFiles
    PatchFiles <- MCPatchFiles
    CatalogStates <- MCCatalogStates
    MaxImports = 2
    MaxIngests = 1
    MaxVerifyFaults = 1
    Installed = {"flatpak"}
    Batches <- MCBatches
    OutputOf <- MCOutputOf
    ExtOf <- MCExtOf
    Large = {"b.iso"}
    Supported = {"cue", "iso", "gdi"}
    OutputsBefore <- MCOutputsBefore
    MaxBatches = 2
    MaxCancels = 2
    ToolSets = {{}, {"flips", "applyppf"}}
    PatchOutputs = {"base", "out"}
    MaxPatches = 2
    MaxPatchFaults = 1
    MaxJobs = 3
    MaxEditions = 4
    SystemName = {"A", "B"}
    CanonicalId <- MCCanonicalId
    Ref = {"f1", "f2", "g1"}
    FileRef = {"f1", "f2"}
    Detected <- MCDetected
    LegacyDisks <- MCLegacyDisks
    MaxOpens = 2
    Process = {p1, p2}
    Scripts <- MCScripts
    Seeds <- MCSeeds
    MaxInits = 3
    Worker = {p1, p2}
    Disc = {1, 2, 3}
    Label <- MCLabel
    Signature <- MCSignature
    ConfirmedAs <- MCConfirmedAs
    Dats <- MCDats
    Scanned = {1, 2}
    Known = {2}
    MaxIngestions = 1
    MaxRebuilds = 2
    MaxDiscFaults = 1
    Member = {"a", "b", "c"}
    Archives <- MCArchives
    MaxExtractions = 2
    MaxExtractFaults = 3
    Fetcher = {p1, p2}
    Slugs <- MCSlugs
    FetchCalls <- MCFetchCalls
    MaxReleases = 2
    MaxFetches = 2
    MaxFetchFaults = 1
    Enricher = {p1, p2}
    Owned = {"g1"}
    HashKeys <- MCHashKeys
    Answers <- MCAnswers
    EnrichOptions = {{}, {"online"}, {"online", "deep"}, {"online", "dry"}}
    MaxPasses = 2
    MaxEnrichFaults = 1
    Components = {"library"}
INVARIANTS
    OpenedHasEveryColumn
CHECK_DEADLOCK FALSE
