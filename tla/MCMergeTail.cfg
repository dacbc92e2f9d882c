SPECIFICATION Spec
CONSTANTS
    Line = {"a", "bb", "ccc", "}"}
    Width <- Widths
    Core <- Cores
    Wide = {"bb", "ccc"}
    Task <- Tasks
INVARIANTS
    EveryLineMerged
CHECK_DEADLOCK FALSE
