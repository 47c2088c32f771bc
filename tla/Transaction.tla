---------------------------- MODULE Transaction ----------------------------
(***************************************************************************)
(* The reliable request of the library: coap/transaction.c, with the part  *)
(* of lwm2m_handle_packet (core/packet.c) that feeds it answers, the       *)
(* sleep of the application's loop around lwm2m_step, and lwm2m_close.     *)
(*                                                                         *)
(* The endpoint puts a confirmable request on transactionList, sends it,   *)
(* and sends it again on a doubling delay until an ACK or a reset with its *)
(* message id comes, an answer with its id and token comes, or it gives    *)
(* up.  The user's callback must run exactly once, whatever the network    *)
(* does.                                                                   *)
(*                                                                         *)
(* The network loses, delays, duplicates and reorders: a datagram of       *)
(* answers may stay there for ever, and MaxDup deliveries leave theirs     *)
(* behind.  Two copies of one datagram are one element; a peer that        *)
(* handles the request once more sends it again.  The network may          *)
(* also hold, from the start, datagrams meant for an earlier run of        *)
(* this endpoint (Stale).                                                  *)
(*                                                                         *)
(* A message id is the rank of its request: nextMID starts at a random     *)
(* value and is a uint16_t, and MaxRequests bounds the requests far below  *)
(* its wrap-around.  transactionList is sorted by id and ids are distinct, *)
(* so the list is its set of ids.                                          *)
(***************************************************************************)
EXTENDS Naturals, FiniteSets

CONSTANTS
    Peers,                  \* sessions the endpoint talks to
    MaxRequests,            \* bound: requests one run of the endpoint issues
    COAP_RESPONSE_TIMEOUT,  \* er-coap-13.h: 2 seconds
    COAP_MAX_RETRANSMIT,    \* er-coap-13.h: 4
    MaxSleep,               \* the longest select() of the application's loop
    MaxStart,               \* bound: the last second a caller makes a request in;
                            \* callbacks of transaction_step make theirs later
    MaxTime,                \* bound on the clock, late enough for all to end
    MaxDup,                 \* bound on duplicated deliveries
    Replies,                \* what peers do with a request they receive
    Stale                   \* datagrams for an earlier run, still in the network

Mids == 1..MaxRequests

\* A message id that none of this run's requests has, and the token of a
\* message that carries none, or one of an earlier run.
NoMid == 0
NoToken == 0

Messages == [type : {"ACK", "CON", "RST"}, mid : Mids \cup {NoMid}, peer : Peers,
             token : Mids \cup {NoToken}, code : {"empty", "ok", "401"}]

ReplyKinds == {"piggyback", "denied", "separate", "reset"}

ASSUME BoundsAssumption ==
    /\ MaxRequests \in Nat /\ MaxStart \in Nat /\ MaxTime \in Nat /\ MaxDup \in Nat
    /\ COAP_MAX_RETRANSMIT \in Nat
    /\ COAP_RESPONSE_TIMEOUT \in Nat \ {0}
    /\ MaxSleep \in Nat \ {0}

\* Powers of two are positive numbers that double, and so grow.
ASSUME PowersAssumption ==
    \A n \in 0..(COAP_MAX_RETRANSMIT + 1) :
        /\ 2 ^ n \in Nat \ {0} /\ 2 ^ (n + 1) = 2 * (2 ^ n)
        /\ 2 ^ n <= 2 ^ (COAP_MAX_RETRANSMIT + 1)

ASSUME PeerAssumption ==
    /\ Peers # {}
    /\ Replies \subseteq ReplyKinds
    /\ Stale \subseteq {d \in Messages : d.token = NoToken}

VARIABLES
    now,               \* lwm2m_gettime()
    wake,              \* when the current select() times out
    running,           \* what the thread runs: see Places
    transacP,          \* where the walk of transaction_step is, NoMid at its end
    timeoutP,          \* the sleep it has found so far
    nextMID,           \* contextP->nextMID
    transactionList,   \* ids of the transactions in contextP->transactionList
    transaction,       \* the lwm2m_transaction_t of each id
    result,            \* what the callback of each request was told
    calls,             \* how often it ran
    closed,            \* lwm2m_close has run
    net,               \* datagrams on their way to the endpoint
    sent,              \* copies of each request given to the network
    handled,           \* copies of each request its peer has handled
    answers,           \* what its peer has answered each request
    dups               \* duplicated deliveries so far

walk == <<running, transacP, timeoutP>>
loop == <<now, wake, closed, walk>>
list == <<nextMID, transactionList, transaction>>
callbacks == <<result, calls>>
peers == <<handled, answers>>
vars == <<loop, list, callbacks, net, sent, peers, dups>>

\* "loop": between two handlers.  "step": in transaction_step.  "callback": in
\* the callback of a transaction transaction_step has given up.
Places == {"loop", "step", "callback"}

Transactions == [peer : Peers, tokened : BOOLEAN, ack_received : BOOLEAN,
                 retrans_counter : 0..(COAP_MAX_RETRANSMIT + 2),
                 retrans_time : Nat, start : Nat]

\* "none": still awaited, or never issued.  "refused": the call that issued
\* the request returned an error.  "acked": a request without token ended by
\* the first ACK with its id.  "timeout": the callback got NULL.
Results == {"none", "refused", "ok", "401", "empty", "acked", "reset", "timeout"}

Issued == 1..(nextMID - 1)

-----------------------------------------------------------------------------
(* transaction.c *)

\* transaction_new: nothing sent yet.
NewTransaction(p, tokened) ==
    [peer |-> p, tokened |-> tokened, ack_received |-> FALSE,
     retrans_counter |-> 0, retrans_time |-> 0, start |-> now]

\* Mutants: gives up one copy late; ignores the token; sleeps to an absolute
\* time.
MutGivesUpLate(x) == x.ack_received \/ x.retrans_counter > COAP_MAX_RETRANSMIT + 2
MutCheckFinishedById(m, x, d) == d.mid = m
MutInterval(x) == x.retrans_time

\* transaction_send gives up on an acknowledged request whose answer did not
\* come in time, and on one that was sent often enough.
GivesUp(x) == x.ack_received \/ x.retrans_counter > COAP_MAX_RETRANSMIT + 1

\* transaction_send on a transaction it does not give up: one copy goes out,
\* and the next is planned after twice the previous delay.
Send(x) ==
    IF x.retrans_counter = 0
    THEN [x EXCEPT !.retrans_time = now + COAP_RESPONSE_TIMEOUT,
                   !.retrans_counter = 2]
    ELSE [x EXCEPT !.retrans_time = @ + COAP_RESPONSE_TIMEOUT * 2 ^ (x.retrans_counter - 1),
                   !.retrans_counter = @ + 1]

\* prv_checkFinished: an answer has the request's id and, when the request has
\* one, its token.
CheckFinished(m, x, d) ==
    /\ d.mid = m
    /\ IF x.tokened THEN d.token = m ELSE x.ack_received

\* What the callback reads in the message that ends the transaction.
Verdict(x, d) ==
    IF d.type = "RST" THEN "reset" ELSE IF x.tokened THEN d.code ELSE "acked"

\* The callbacks of the requests of ms run, and are told r.
CallbackEach(ms, r) ==
    /\ result' = [m \in Mids |-> IF m \in ms THEN r ELSE result[m]]
    /\ calls' = [m \in Mids |-> IF m \in ms THEN calls[m] + 1 ELSE calls[m]]

-----------------------------------------------------------------------------
Init ==
    /\ now = 0 /\ wake = 0 /\ closed = FALSE
    /\ running = "loop" /\ transacP = NoMid /\ timeoutP = MaxSleep
    /\ nextMID = 1
    /\ transactionList = {}
    /\ transaction = [m \in Mids |-> NewTransaction(CHOOSE p \in Peers : TRUE, FALSE)]
    /\ result = [m \in Mids |-> "none"]
    /\ calls = [m \in Mids |-> 0]
    /\ net \in SUBSET Stale
    /\ sent = [m \in Mids |-> 0]
    /\ handled = [m \in Mids |-> 0]
    /\ answers = [m \in Mids |-> {}]
    /\ dups = 0

-----------------------------------------------------------------------------
(* The endpoint: one thread, whose loop calls lwm2m_step and then sleeps.  *)

\* Callers make requests between two handlers, and the callback of a request
\* that was given up may make some before transaction_step goes on.
MayRequest ==
    /\ ~closed /\ nextMID \in Mids
    /\ running \in {"loop", "callback"}
    /\ running = "loop" => now <= MaxStart

\* Mutant: the list as it was before the callback is put back after it.
MutRequest(p, tokened) ==
    /\ MayRequest
    /\ nextMID' = nextMID + 1
    /\ transactionList' = IF running = "callback" THEN transactionList
                          ELSE transactionList \cup {nextMID}
    /\ transaction' = [transaction EXCEPT ![nextMID] = Send(NewTransaction(p, tokened))]
    /\ sent' = [sent EXCEPT ![nextMID] = 1]
    /\ wake' = now
    /\ UNCHANGED <<now, closed, walk, callbacks, net, peers, dups>>

\* A caller makes a transaction, puts it on the list and sends it
\* (prv_makeOperation, lwm2m_observe, prv_register...).  The loop reaches
\* lwm2m_step before any time passes.
Request(p, tokened) ==
    /\ MayRequest
    /\ nextMID' = nextMID + 1
    /\ transactionList' = transactionList \cup {nextMID}
    /\ transaction' = [transaction EXCEPT ![nextMID] = Send(NewTransaction(p, tokened))]
    /\ sent' = [sent EXCEPT ![nextMID] = 1]
    /\ wake' = now
    /\ UNCHANGED <<now, closed, walk, callbacks, net, peers, dups>>

\* The same, when the request cannot be serialized: transaction_send removes
\* the transaction and returns an error, and no callback runs.
RequestRefused ==
    /\ MayRequest
    /\ nextMID' = nextMID + 1
    /\ result' = [result EXCEPT ![nextMID] = "refused"]
    /\ wake' = now
    /\ UNCHANGED <<now, closed, walk, transactionList, transaction, calls, net, sent, peers, dups>>

\* transaction_handleResponse on a message for the listed transaction m.  Ids
\* are distinct, so the transaction with the message's id is the only one the
\* code can stop at.
Found(m, d) == ~transaction[m].ack_received /\ d.type \in {"ACK", "RST"}

Reset(m, d) == Found(m, d) /\ d.type = "RST"

Seen(m, d) == [transaction[m] EXCEPT !.ack_received = @ \/ Found(m, d)]

Finishes(m, d) == Reset(m, d) \/ CheckFinished(m, Seen(m, d), d)

\* A denial is taken for an answer that overtook the registration's: the
\* request will be sent again.
Denies(m, d) ==
    /\ ~Reset(m, d) /\ d.code = "401"
    /\ transaction[m].retrans_counter < COAP_MAX_RETRANSMIT

Rearm(m, x, time) ==
    /\ transaction' = [transaction EXCEPT ![m] = [x EXCEPT !.retrans_time = time]]
    /\ UNCHANGED <<transactionList, callbacks>>

HandleResponse(m, d) ==
    LET x == Seen(m, d)
    IN  \/ /\ Finishes(m, d) /\ Denies(m, d)
           /\ Rearm(m, [x EXCEPT !.ack_received = FALSE],
                    x.retrans_time + COAP_RESPONSE_TIMEOUT)
        \/ /\ Finishes(m, d) /\ ~Denies(m, d)
           /\ transaction' = [transaction EXCEPT ![m] = x]
           /\ transactionList' = transactionList \ {m}
           /\ CallbackEach({m}, Verdict(x, d))
        \/ /\ ~Finishes(m, d) /\ Found(m, d)
           /\ Rearm(m, x, now + COAP_RESPONSE_TIMEOUT * x.retrans_counter)
        \/ /\ ~Finishes(m, d) /\ ~Found(m, d)
           /\ UNCHANGED <<transaction, transactionList, callbacks>>

\* lwm2m_handle_packet on an answer.  The requests its callback makes follow
\* as those of any caller: the list is not walked on.  An answer that ends nothing has no other
\* effect here; a confirmable one is acknowledged all the same.  The network
\* may keep the datagram, to deliver it again.
Receive(d, keep) ==
    /\ ~closed /\ running = "loop"
    /\ IF d.mid \in transactionList /\ transaction[d.mid].peer = d.peer
       THEN HandleResponse(d.mid, d)
       ELSE UNCHANGED <<transaction, transactionList, callbacks>>
    /\ keep => dups < MaxDup
    /\ dups' = IF keep THEN dups + 1 ELSE dups
    /\ net' = IF keep THEN net ELSE net \ {d}
    /\ wake' = now
    /\ UNCHANGED <<now, closed, walk, nextMID, sent, peers>>

\* transaction_step walks the list, which is sorted, and keeps the successor of
\* the transaction it looks at (nextP) before it does anything to it.
WalkTo(ms) ==
    IF ms = {} THEN transacP' = NoMid
    ELSE transacP' \in ms /\ \A m \in ms : transacP' <= m

WalkOn == WalkTo({m \in transactionList : m > transacP})

\* lwm2m_step, when select() has returned, comes to transaction_step.
StepBegins ==
    /\ ~closed /\ running = "loop" /\ now = wake
    /\ running' = "step"
    /\ WalkTo(transactionList)
    /\ timeoutP' = MaxSleep
    /\ UNCHANGED <<now, wake, closed, list, callbacks, net, sent, peers, dups>>

\* Mutant: an acknowledged transaction waits for its answer, however long.
MutDue(x) == x.retrans_time <= now /\ ~x.ack_received

Due(x) == x.retrans_time <= now

\* What is left of a delay, at least 1.
Interval(x) == IF x.retrans_time > now THEN x.retrans_time - now ELSE 1

\* transaction_step comes to a transaction, and leaves x of it.
Visiting == running # "loop" /\ transacP # NoMid

PassedOver(x) ==
    /\ running' = "step"
    /\ WalkOn
    /\ timeoutP' = IF Interval(x) < timeoutP THEN Interval(x) ELSE timeoutP
    /\ UNCHANGED <<now, wake, closed, nextMID, transactionList, callbacks, net, peers, dups>>

\* One that is not due stays as it is.
PassBy ==
    /\ Visiting
    /\ ~Due(transaction[transacP])
    /\ PassedOver(transaction[transacP])
    /\ UNCHANGED <<transaction, sent>>

\* One that is due is sent again.
SendAgain ==
    /\ Visiting
    /\ Due(transaction[transacP]) /\ ~GivesUp(transaction[transacP])
    /\ PassedOver(Send(transaction[transacP]))
    /\ transaction' = [transaction EXCEPT ![transacP] = Send(@)]
    /\ sent' = [sent EXCEPT ![transacP] = @ + 1]

\* One that was sent often enough, or waited for its answer, is given up: its
\* callback is told, and may make requests before the walk goes on to nextP.
GiveUp ==
    /\ Visiting
    /\ Due(transaction[transacP]) /\ GivesUp(transaction[transacP])
    /\ running' = "callback"
    /\ WalkOn
    /\ timeoutP' = 1
    /\ transactionList' = transactionList \ {transacP}
    /\ CallbackEach({transacP}, "timeout")
    /\ UNCHANGED <<now, wake, closed, nextMID, transaction, net, sent, peers, dups>>

\* The walk is over, and select() sleeps as long as it allows.
StepEnds ==
    /\ running # "loop" /\ transacP = NoMid
    /\ running' = "loop"
    /\ wake' = now + timeoutP
    /\ UNCHANGED <<now, closed, transacP, timeoutP, list, callbacks, net, sent, peers, dups>>

Walk == StepBegins \/ PassBy \/ SendAgain \/ GiveUp \/ StepEnds

\* select() sleeps.
Tick ==
    /\ ~closed /\ running = "loop" /\ now < wake /\ now < MaxTime
    /\ now' = now + 1
    /\ UNCHANGED <<wake, closed, walk, list, callbacks, net, sent, peers, dups>>

\* lwm2m_close: prv_deleteTransactionList tells every callback NULL.
Close ==
    /\ ~closed /\ running = "loop"
    /\ closed' = TRUE
    /\ transactionList' = {}
    /\ CallbackEach(transactionList, "timeout")
    /\ UNCHANGED <<now, wake, walk, nextMID, transaction, net, sent, peers, dups>>

-----------------------------------------------------------------------------
(* The peers.  A CoAP server answers a confirmable request in the ACK (as   *)
(* this library does: "piggyback", "denied"), or acknowledges it and        *)
(* answers in a confirmable message with an id of its own ("separate"), or  *)
(* rejects it ("reset").  One that stays silent handles nothing.  Peers do  *)
(* not remember ids: each copy is handled afresh.                           *)

Datagram(type, m, mid, code) ==
    [type |-> type, mid |-> mid, peer |-> transaction[m].peer, code |-> code,
     token |-> IF code \in {"ok", "401"} /\ transaction[m].tokened THEN m ELSE NoToken]

Handle(m, reply) ==
    /\ handled[m] < sent[m]
    /\ handled' = [handled EXCEPT ![m] = @ + 1]
    /\ \/ /\ reply = "piggyback"
          /\ net' = net \cup {Datagram("ACK", m, m, "ok")}
          /\ answers' = [answers EXCEPT ![m] = @ \cup {"ok"}]
       \/ /\ reply = "denied"
          /\ net' = net \cup {Datagram("ACK", m, m, "401")}
          /\ answers' = [answers EXCEPT ![m] = @ \cup {"401"}]
       \/ /\ reply = "separate"
          /\ \E mid \in Mids \cup {NoMid} :
                net' = net \cup {Datagram("ACK", m, m, "empty"), Datagram("CON", m, mid, "ok")}
          /\ answers' = [answers EXCEPT ![m] = @ \cup {"ok"}]
       \/ /\ reply = "reset"
          /\ net' = net \cup {Datagram("RST", m, m, "empty")}
          /\ UNCHANGED answers
    /\ UNCHANGED <<loop, list, callbacks, sent, dups>>

-----------------------------------------------------------------------------
Endpoint ==
    \/ \E p \in Peers, tokened \in BOOLEAN : Request(p, tokened)
    \/ RequestRefused
    \/ \E d \in net, keep \in BOOLEAN : Receive(d, keep)
    \/ Walk
    \/ Tick
    \/ Close

Next == Endpoint \/ \E m \in Mids, reply \in Replies : Handle(m, reply)

SafeSpec == Init /\ [][Next]_vars

\* The loop calls lwm2m_step again and again, and its sleep ends.  Nothing is
\* assumed of the peers or of the network.
Spec ==
    /\ SafeSpec
    /\ WF_vars(Tick)
    /\ WF_vars(Walk)

-----------------------------------------------------------------------------
(* Properties *)

\* Every variable has its type, and a listed transaction is one whose first
\* copy was sent; the walk is at a listed one.
TypeOK ==
    /\ now \in Nat /\ wake \in Nat /\ closed \in BOOLEAN
    /\ running \in Places /\ timeoutP \in Nat \ {0}
    /\ running # "loop" => ~closed /\ transacP \in transactionList \cup {NoMid}
    /\ nextMID \in 1..(MaxRequests + 1)
    /\ transactionList \subseteq Issued
    /\ transaction \in [Mids -> Transactions]
    /\ \A m \in transactionList : transaction[m].retrans_counter >= 2
    /\ result \in [Mids -> Results]
    /\ calls \in [Mids -> Nat]
    /\ net \subseteq Messages
    /\ sent \in [Mids -> Nat] /\ handled \in [Mids -> Nat]
    /\ answers \in [Mids -> SUBSET {"ok", "401"}]
    /\ dups \in Nat

\* The callback of a request runs exactly once: not while the transaction is
\* on the list, once when it has left it (transaction_handleResponse,
\* transaction_send and prv_deleteTransactionList each end transactions), and
\* never when the caller was told of an error instead.  A request that a
\* callback makes while transaction_step walks the list is no exception.
CallbackOnce ==
    \A m \in Mids :
        calls[m] = IF m \in Issued \ transactionList /\ result[m] # "refused" THEN 1 ELSE 0

\* The loop never sleeps past a transaction's deadline: what transaction_step
\* leaves in *timeoutP and what transaction_handleResponse and
\* transaction_send do to retrans_time agree.
NeverOverdue ==
    /\ now <= wake
    /\ \A m \in transactionList : wake <= transaction[m].retrans_time

\* A request that never got an ACK is not given up before all of its
\* 1 + COAP_MAX_RETRANSMIT copies were sent (except by lwm2m_close), and no
\* request is sent more often than that.
GivenUpWhenExhausted ==
    \A m \in Mids :
        /\ sent[m] <= COAP_MAX_RETRANSMIT + 1
        /\ result[m] = "timeout" /\ ~transaction[m].ack_received /\ ~closed
              => sent[m] = COAP_MAX_RETRANSMIT + 1

\* COAP_MAX_TRANSMIT_WAIT, the margin registration_step leaves for an update,
\* is long enough: unless it is denied, by its peer or by what an earlier run
\* left in the network, a request is over by then, or was acknowledged, which
\* gives it at most (COAP_MAX_RETRANSMIT + 2) more timeouts.  The code's margin
\* is half as long again (COAP_ACK_RANDOM_FACTOR, which nothing else uses): the
\* request does not need that.
COAP_MAX_TRANSMIT_WAIT == COAP_RESPONSE_TIMEOUT * (2 ^ (COAP_MAX_RETRANSMIT + 1) - 1)

Denied(m) == "401" \in answers[m] \/ \E d \in Stale : d.mid = m /\ d.code = "401"

OverInTime ==
    \A m \in transactionList :
        ~Denied(m) =>
            now - transaction[m].start <=
                COAP_MAX_TRANSMIT_WAIT +
                (IF transaction[m].ack_received
                 THEN COAP_RESPONSE_TIMEOUT * (COAP_MAX_RETRANSMIT + 2) ELSE 0)

\* A reliable request is what ReliableRequest promises.
Promise == INSTANCE ReliableRequest WITH
    Ids <- Mids,
    state <- [m \in Mids |-> IF m \in transactionList THEN "waiting"
                             ELSE IF result[m] = "none" THEN "idle" ELSE result[m]]

KeepsPromise == Promise!SafeSpec

\* ... and it ends, even with a silent peer on a dead network.
EndsAsPromised == Promise!Spec
=============================================================================
