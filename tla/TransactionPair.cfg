\* Two requests to two peers, and requests by the callbacks of those that are
\* given up; late datagrams of an earlier run; the endpoint may be closed, and
\* stops then.
SPECIFICATION SafeSpec
CONSTANTS
    p = p
    q = q
    Peers = {p, q}
    MaxRequests = 3
    COAP_RESPONSE_TIMEOUT = 1
    COAP_MAX_RETRANSMIT = 1
    MaxSleep = 2
    MaxStart = 0
    MaxTime = 3
    MaxDup = 1
    Replies <- PiggybackedReplies
    Stale <- StaleAnswers
INVARIANTS CallbackOnce NeverOverdue
PROPERTIES KeepsPromise
CHECK_DEADLOCK FALSE
