SPECIFICATION AlertsSpec
CONSTANTS
    p = p
    q = q
    att = att
    file = file
    x = x
    ann = ann
    mod = mod
    day = day
    None = None
    Rid = {1, 2, 3, 4}
    Artifact = {p, q, x, att, file}
    FileOf <- FileDef
    Post = {p, q}
    Attached <- AttachedDef
    Remote = {x}
    Casts <- CastsDef
    Subscriber = {ann, mod, day}
    Moderators = {mod}
    DigestOnly = {day}
    MaxCrashes = 1
INVARIANTS
    ReceiptsSucceed
CHECK_DEADLOCK FALSE
