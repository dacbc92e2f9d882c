SPECIFICATION SpecOfParts
CONSTANTS
    alice = alice
    bob = bob
    MaxFaults = 1
    Client = {alice, bob}
    Server = server
    Busy = {alice}
    Root <- RootDef
    Notes <- NotesDef
    MaxCommits <- MaxCommitsDef
    OneMessage = TRUE
    p = p
    q = q
    att = att
    file = file
    x = x
    ann = ann
    mod = mod
    day = day
    None = None
    Rid = {1, 2, 3, 4}
    Artifact = {p, q, x, att, file}
    FileOf <- FileDef
    Post = {p, q}
    Attached <- AttachedDef
    Remote = {x}
    Casts <- CastsDef
    Subscriber = {ann, mod, day}
    Moderators = {mod}
    DigestOnly = {day}
    MaxCrashes = 1
    DAY = 2
    WAIT = 1
    MaxTime = 5
    MaxReceipts = 3
    MaxKills = 1
INVARIANTS
    TypeOK
    ForksAreExcused
    OutsidersSeeApproved
    MailedOnce
PROPERTIES
    EveryCommitArrives
    EverybodyIsTold
    ReceiptsAreHeard
CHECK_DEADLOCK FALSE
