\* One request, every reply, enough copies for a denial to be retried,
\* under fairness of the loop; the endpoint may be closed, and stops then.
SPECIFICATION Spec
CONSTANTS
    p = p
    q = q
    Peers = {p}
    MaxRequests = 1
    COAP_RESPONSE_TIMEOUT = 1
    COAP_MAX_RETRANSMIT = 3
    MaxSleep = 3
    MaxStart = 0
    MaxTime = 21
    MaxDup = 0
    Replies <- AllReplies
    Stale <- NoAnswers
INVARIANTS GivenUpWhenExhausted OverInTime
PROPERTIES EndsAsPromised
CHECK_DEADLOCK FALSE
