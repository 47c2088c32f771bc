\* Registrations in blocks; a crashed server stops.
SPECIFICATION Spec
CONSTANTS
    d1 = d1
    d2 = d2
    u1 = u1
    u2 = u2
    Devices = {d1, d2}
    Uris = {u1, u2}
    MaxClients = 2
    MaxRegistrations = 3
    MaxCalls = 3
    NoName = NoName
    Nothing = Nothing
SYMMETRY Interchangeable
INVARIANTS RegistrationResets
CHECK_DEADLOCK FALSE
