CONSTANTS
    d1 = d1
    d2 = d2
    NoName = NoName
    Devices = {d1, d2}
    EndpointLists <- MCEndpointLists
    MaxRequests = 2
    MaxPerformed = 4
SPECIFICATION Spec
INVARIANTS AwaitsAnswer DoneInOrder
PROPERTIES BootstrapEnds
CHECK_DEADLOCK FALSE
