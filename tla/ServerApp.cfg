\* Two devices; two registrations and two commands; then it may stop.
SPECIFICATION Spec
CONSTANTS
    d1 = d1
    d2 = d2
    Devices = {d1, d2}
    MaxClients = 2
    MaxRegistrations = 2
    MaxCommands = 2
    MaxInBlocks = 1
    Nobody = Nobody
INVARIANTS OneStepAtATime OnlyTheRegistered OneExecution ExecutesWhereAsked DownloadedFirst
PROPERTIES SequenceEnds
CHECK_DEADLOCK FALSE
