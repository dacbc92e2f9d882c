SPECIFICATION SpecOfParts
CONSTANTS
    base = base
    dm = dm
    root = root
    p1 = p1
    p2 = p2
    Artifact = {root, base, dm}
    None = None
    Proc = {p1, p2}
    Baseline <- BaselineDef
    Parent <- ParentDef
    DeltaSource <- Sendable
    Setup <- Setups
    Stopping = TRUE
    Item = {"a", "b", "c"}
    Announced = {"b"}
    Similar <- Alike
    ItemSource <- Deltas
    Shunnable = {"b"}
    MaxRid = 3
    MaxItem = 2
INVARIANTS
    TypeOK
    CachesAgree
    ReadableIsLinked
    WrongHasCause
    ReadBackIsRight
    NothingIsLost
    ReadableIsRight
PROPERTIES
    ContentIsDurable
