SPECIFICATION Spec
CONSTANTS
    Window = 1
    Resending <- MCResending
    MaxRetransmit = 1
    MaxTries = 2
    MaxRandoms = 10
    MaxWrites <- MCMaxWrites
    MaxFaults = 2
INVARIANTS
    ConnectedIsAgreed
    HandedUpOnce
    CopiesAreSound
PROPERTIES
    Heard
CHECK_DEADLOCK FALSE
