SPECIFICATION Spec
CONSTANTS
    p1 = p1
    p2 = p2
    p3 = p3
    alice = alice
    Pid = {p1, p2, p3}
    NoPid = NoPid
    User = {alice}
    Owner <- SameOwner
    MaxDelay = 1
    MaxRequests = 1
PROPERTIES
    OnDeckLeavesDeck
    RequestsAreServed
