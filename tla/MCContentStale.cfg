SPECIFICATION Spec
CONSTANTS
    base = base
    dm = dm
    root = root
    p1 = p1
    p2 = p2
    Artifact = {root, base, dm}
    None = None
    Proc = {p1, p2}
    Baseline <- BaselineDef
    Parent <- ParentDef
    DeltaSource <- Sendable
    Setup <- Unkilled
    Stopping = FALSE
INVARIANTS
    OrphansWaitForPhantoms
