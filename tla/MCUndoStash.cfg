SPECIFICATION UndoSpec
CONSTANTS
    f = f
    g = g
    r = r
    a = a
    b = b
    Path = {f, g}
    Root = r
    Leaf = {a, b}
    File <- MCFile
    Commands = {"save"}
    Excused = {"goto", "merge2", "overwrite"}
    StashRemoved = TRUE
    MaxEdits = 1
    MaxStash = 1
    MaxFaults = 0
    MaxTurns = 2
INVARIANTS
    EditsSurvive
CHECK_DEADLOCK FALSE
