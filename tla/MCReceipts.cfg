SPECIFICATION MCSpec
CONSTANTS
    i1 = i1
    i2 = i2
    b1 = b1
    NoToken = NoToken
    Ids = {i1, i2}
    Tokens = {b1}
    Budgets = {3, 6}
    MaxSafe = 15
    Requests <- MCRequests
    PaperRequests <- MCPaperRequests
    SigningKey = SigningKey
    Other = Other
    Absent = Absent
    MaxPaperEdits = 2
    k1 = k1
    k2 = k2
    h1 = h1
    h2 = h2
    Handlers = {h1, h2}
    Bodies <- MCBodies
    SignerConfigs <- MCSignerConfigs
    Keys = {k1, k2}
    Null = Null
    Responses = {"signed", "wrong_id", "unsigned"}
    MaxFaultsC = 2
    MaxEditsC = 1
    Tenants = {"A", "B"}
    SignerRecords <- MCSignerRecords
    ReuseAllowed = FALSE
    MaxSets = 2
    MaxEditsR = 4
    MaxIssued = 2
    r1 = r1
    r2 = r2
    leak = leak
    q1 = q1
    q2 = q2
    Revisions = {r1, r2, leak}
    VersionOf <- MCVersionOf
    Copied <- MCCopied
    Generated = {"wrapper"}
    Fixed = Fixed
    AllowedPaths = {"server", "wrapper", "provenance"}
    Verifier = "verifier"
    Manifest = "manifest"
    Signature = "signature"
    Provenance = "provenance"
    BuildKeys = {q1, q2}
    NoFile = NoFile
    Severed = Severed
    Garbage = Garbage
    Environment <- MCEnvironment
    MaxRepoEdits = 2
    ForbiddenNames = {}
    ForbiddenTexts = {leak}
    SizeOf <- MCSizeOf
    pol1 = pol1
    pol2 = pol2
    Policies = {pol1, pol2}
    NoPolicy = NoPolicy
    Nothing = Nothing
    Torn = Torn
    BrokenPolicies = {"missing"}
    Configs <- MCConfigs
    proc1 = proc1
    proc2 = proc2
    Procs = {proc1, proc2}
    Files = {"provenance"}
    LockFile = "lock"
    HostFiles = {"host"}
    InPackage = FALSE
    DisabledAllowed = FALSE
    MaxCount = 1
    MaxFiles = 2
    MaxStarts = 2
    MaxEdits = 1
    MaxFaults = 2
SYMMETRY MCSymmetry
INVARIANT AllowedOnce
INVARIANT BudgetKept
INVARIANT AllowWithinPolicy
INVARIANT ReplayOnlyDriftsByStores
INVARIANT EditsDetected
INVARIANT DistributionsWhole
INVARIANT ZipWhole
INVARIANT AnswersRecorded
INVARIANT RotationSafe
INVARIANT LockedUnlessEdited
INVARIANT ReceiptsKept
INVARIANT LogKeepsNewest
CHECK_DEADLOCK FALSE
