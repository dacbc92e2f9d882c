SPECIFICATION SpecOfParts
CONSTANTS
    CheckIn <- CheckIns
    Control <- Controls
    Nil = Nil
    Parent <- ParentDef
    Merged <- MergedDef
    Value <- Values
    Trunk = "trunk"
    Card <- CardDef
    Order <- OrderDef
    Key <- Keys
    Growth = 6
    ShrinkAbove = 10
    p1 = p1
    p2 = p2
    k1 = k1
    k2 = k2
    Proc = {p1, p2}
    Artifact = {k1, k2}
    Checkin = {k1}
    MaxNest = 2
    MaxTxn <- MaxTxnDef
    None = None
    f = f
    g = g
    Path = {f, g}
    Root = root
    Leaf = {k1, k2}
    File <- FileDef
    Commands = {"update", "overwrite", "revert", "merge", "merge2", "apply", "pop", "drop",
                "goto", "save", "checkout", "undo", "redo", "undofile"}
    Excused = {"goto", "merge2", "overwrite"}
    StashRemoved = FALSE
    MaxEdits = 2
    MaxStash = 1
    MaxFaults = 1
    MaxTurns = 2
INVARIANTS
    TypeOK
    TagsMatchArtifacts
    LeafTableExact
    IterationComplete
    UndoRestores
    FailureChangesNothing
    EditsSurvive
    DerivedIsRight
PROPERTIES
    BehavesAsSet
    IsAtomic
CHECK_DEADLOCK FALSE
