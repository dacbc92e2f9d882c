SPECIFICATION Spec
CONSTANTS
    Artifact = {"a", "b", "c"}
    Announced = {}
    DeltaSource = {}
    Similar <- Alike
    Shunnable = {}
    MaxRid = 3
    MaxItem = 3
INVARIANTS
    EverythingComesBack
CHECK_DEADLOCK FALSE
