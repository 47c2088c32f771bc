\* One server, two URIs.
SPECIFICATION Spec
CONSTANTS
    LWM2M_MAX_ID = 65535
    Instances = {1, 2}
    ResourceIds = {7}
    Uris <- MCUris
    Servers = {s1}
    s1 = s1
    Values = {0, 2}
    Attributes <- MCAttributes
    MaxPeriod = 2
    MaxSleep = 2
    MaxRequests = 3
    MaxChanges = 2
    MaxEvents = 4
INVARIANTS NoLostChange NoMissedCrossing WakesInTime NoStrayWatcher
PROPERTIES EventuallyTold
