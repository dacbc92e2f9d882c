SPECIFICATION SpecOfParts
CONSTANTS
    p1 = p1
    p2 = p2
    p3 = p3
    alice = alice
    bob = bob
    Pid = {p1, p2, p3}
    NoPid = NoPid
    User = {alice}
    Owner <- SameOwner
    LEASE = 3
    MaxDelay = 2
    MaxRequests = 1
    Crashes = TRUE
    ReusePids = TRUE
    Foreign = TRUE
    Prompt = FALSE
    Operator = TRUE
    Byte = {0, 1}
    NHASH = 2
    Hash <- HashDef
    Limit = 2
    Overhead = 2
    Source <- SourceDef
    Target <- TargetDef
    Other <- OtherDef
INVARIANTS
    TypeOK
    AtMostOneWorker
    EditsTransform
    MergeKeepsChanges
    DeltaRestores
PROPERTIES
    SpacedByLeaseLessDelay
SYMMETRY SymmetryDef
