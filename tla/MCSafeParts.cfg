SPECIFICATION Spec
CONSTANTS
    Picked = {"forced", "service", "cutover", "rdqm", "nativeha", "probes", "console", "relays"}
    m1 = m1
    m2 = m2
    obs = obs
    probe = probe
    dns = dns
    g1 = g1
    g2 = g2
    timeout = timeout
    t1 = t1
    f1 = f1
    f2 = f2
    Trees = {1, 2}
    TreeEdits = 1
    Commands = 2
    Refs = {"r1", "r2"}
    Plain = {"snapshots"}
    BuildOps = 2
    CutMsgs = 3
    CutFaults = 2
    CutRuns = 3
    Attempts = 2
    Strays = {8, 9}
    Unresolvable = {8}
    SvcFaults = 2
    Operators = {t1}
    LabStacks <- MCStacks
    Oses <- MCRefs
    FamilyOf <- MCFamilyOf
    Pin <- MCPin
    NeedsV3 = {"r10"}
    OsFamily <- MCOsFamily
    Catalog0 <- MCCatalog0
    Legacy = {"nha"}
    CatalogEdits = 1
    CatalogVerbs = 2
    MediaVerbs = {"bootstrap", "fetch"}
    MqPins = {1, 2}
    MediaRuns = 2
    MediaFaults = 2
    RdqmNodes = 2
    RdqmChanges = 2
    RdqmLosses = 1
    HaInstances = 3
    HaObservers = {1, 2}
    HaChanges = 2
    HaLosses = 0
    ForcedSeqs = 2
    ForcedServes = 1
    ForcedFloor <- MCFloor
    ProbeKinds = {"authz", "reconnect", "drill"}
    ProbeBounds <- MCProbeBounds
    OpenBounds <- MCOpenBounds
    HealBounds <- MCHealBounds
    PoolBase = "base"
    PoolFat = {f1, f2}
    PoolRetired = {"old"}
    PoolGuests = {"g1"}
    PoolClock = 4
    PoolEdits = 1
    BootVms <- MCAllVms
    BootInfra = {dns}
    BootBoxOf <- MCBoxOf
    BootBatch = 3
    BootAttempts = 3
    BootStepMode = TRUE
CHECK_DEADLOCK FALSE
INVARIANTS
    ForcedReportTrue
    ServiceExact
    CutoverSound
    BoardsTrue
    CoherentFile
    ProbesTrue
    ForwardsSound
PROPERTIES
    BannerSound
