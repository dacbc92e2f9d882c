CONSTANTS
    alice = alice
    bob = bob
    server = server
    f = f
    Client = {alice, bob}
    Server = server
    Name = {f}
    Edits <- EditsTouch
    Writers = {alice, bob}
    Reverters = {}
    Room = 1
    MaxFaults = 0
SPECIFICATION Spec
CHECK_DEADLOCK FALSE
INVARIANT
    RowsHaveContent
