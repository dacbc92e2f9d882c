SPECIFICATION SpecOfParts
CONSTANTS
    alice = alice
    bob = bob
    f = f
    g = g
    Client = {alice, bob}
    Server = server
    File <- ArtifactsDef
    Refs <- RefsDef
    Commits <- CommitsDef
    Modes <- ModesDef
    MinCluster = 2
    Budget = 1
    ClientReq = 1
    ServerReq = 1
    MaxFaults = 1
    Name = {f, g}
    Edits <- EditsDef
    Writers = {alice, bob}
    Reverters = {bob}
    Room = 1
INVARIANTS
    TypeOK
    Announced
PROPERTIES
    SyncComplete
    SyncEnds
    Converges
    SyncKeepsNewest
    UvConverges
