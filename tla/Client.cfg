\* Two servers and a bootstrap server; the program may end.
SPECIFICATION ClientSpec
CONSTANTS
    Servers = {1, 2}
    Bootstrap = 0
    Accounts <- BothAccounts
    Default <- Gone
    HoldOff = 1
    Touched = {2}
    Provisioned <- Starts
    COAP_MAX_TRANSMIT_WAIT = 3
    COAP_EXCHANGE_LIFETIME = 2
    Latency = 0
    MaxSleep = 2
    MaxCalls = 1
    MaxCommands = 1
    MaxEvents = 1
INVARIANTS KnownToServer 
PROPERTIES FailsWhenSpent StagesEnd
CHECK_DEADLOCK FALSE
