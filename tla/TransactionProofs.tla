------------------------- MODULE TransactionProofs -------------------------
(***************************************************************************)
(* Theorems about Transaction, for every value of its constants.  The      *)
(* invariants are proved one after the other, each action by action, and   *)
(* each from the ones before it.                                           *)
(***************************************************************************)
EXTENDS Transaction, TLAPS

-----------------------------------------------------------------------------
(* Lemmas on the operators of the model. *)

\* A transaction made for a peer and sent once is well formed, and its next
\* copy is due one timeout from now.
LEMMA SendNewType ==
    ASSUME now \in Nat, NEW p \in Peers, NEW tokened \in BOOLEAN
    PROVE  /\ Send(NewTransaction(p, tokened)) \in Transactions
           /\ Send(NewTransaction(p, tokened)).retrans_counter = 2
           /\ Send(NewTransaction(p, tokened)).retrans_time = now + COAP_RESPONSE_TIMEOUT
<1> DEFINE y == [peer |-> p, tokened |-> tokened, ack_received |-> FALSE,
                 retrans_counter |-> 2, retrans_time |-> now + COAP_RESPONSE_TIMEOUT,
                 start |-> now]
<1>1. Send(NewTransaction(p, tokened)) = y
      BY DEF Send, NewTransaction
<1>2. y \in Transactions
      BY BoundsAssumption DEF BoundsAssumption, Transactions
<1>. QED
     BY <1>1, <1>2

\* Sending once more what is not given up keeps a transaction well formed,
\* counts the copy and moves the deadline at least one second on.
LEMMA SendAgainType ==
    ASSUME now \in Nat, NEW x \in Transactions, x.retrans_counter >= 2, ~GivesUp(x)
    PROVE  /\ Send(x) \in Transactions
           /\ Send(x).retrans_counter = x.retrans_counter + 1
           /\ Send(x).retrans_time > x.retrans_time
           /\ Send(x).ack_received = x.ack_received
           /\ Send(x).tokened = x.tokened
           /\ Send(x).peer = x.peer
<1> DEFINE n == x.retrans_counter - 1
           wait == COAP_RESPONSE_TIMEOUT * 2 ^ n
<1>1. n \in 0..(COAP_MAX_RETRANSMIT + 1) /\ x.retrans_counter <= COAP_MAX_RETRANSMIT + 1
      BY BoundsAssumption DEF BoundsAssumption, Transactions, GivesUp
<1>2. wait \in Nat \ {0}
  <2>1. 2 ^ n \in Nat \ {0}
        BY <1>1, PowersAssumption DEF PowersAssumption
  <2>2. ASSUME NEW k \in Nat \ {0}
        PROVE  COAP_RESPONSE_TIMEOUT * k \in Nat \ {0}
        BY <2>2, BoundsAssumption DEF BoundsAssumption
  <2>. QED
       BY <2>1, <2>2
<1>3. Send(x) = [x EXCEPT !.retrans_time = @ + wait, !.retrans_counter = @ + 1]
      BY DEF Send, Transactions
<1>. HIDE DEF wait, n
<1>4. /\ x.retrans_counter + 1 \in 0..(COAP_MAX_RETRANSMIT + 2)
      /\ x.retrans_time + wait \in Nat
      /\ x.retrans_time + wait > x.retrans_time
      BY <1>1, <1>2, BoundsAssumption DEF BoundsAssumption, Transactions
<1>5. Send(x) = [peer |-> x.peer, tokened |-> x.tokened, ack_received |-> x.ack_received,
                 retrans_counter |-> x.retrans_counter + 1,
                 retrans_time |-> x.retrans_time + wait, start |-> x.start]
      BY <1>3 DEF Transactions
<1>. QED
     BY <1>4, <1>5 DEF Transactions

-----------------------------------------------------------------------------
(* Types *)

\* A message that ends a transaction gives its callback one of the results.
LEMMA VerdictType ==
    ASSUME NEW x \in Transactions, NEW d \in Messages
    PROVE  Verdict(x, d) \in Results \ {"none", "refused", "timeout"}
BY DEF Verdict, Messages, Results

\* What transaction_handleResponse does to the transaction it finds keeps the
\* transaction well formed and sends nothing.
LEMMA RearmType ==
    ASSUME NEW x \in Transactions, NEW b \in BOOLEAN, NEW t \in Nat
    PROVE  /\ [x EXCEPT !.ack_received = b] \in Transactions
           /\ [x EXCEPT !.retrans_time = t] \in Transactions
BY DEF Transactions

LEMMA HandleResponseType ==
    ASSUME TypeOK, NEW m \in transactionList, NEW d \in Messages, HandleResponse(m, d)
    PROVE  /\ transaction' \in [Mids -> Transactions]
           /\ \A k \in Mids :
                 transaction'[k].retrans_counter = transaction[k].retrans_counter
           /\ transactionList' \subseteq transactionList
           /\ result' \in [Mids -> Results] /\ calls' \in [Mids -> Nat]
<1> DEFINE x == Seen(m, d)
<1>1. m \in Mids /\ transaction[m] \in Transactions
      BY BoundsAssumption DEF BoundsAssumption, TypeOK, Issued, Mids
<1>2. x \in Transactions /\ x.retrans_counter = transaction[m].retrans_counter
  <2>1. (transaction[m].ack_received \/ Found(m, d)) \in BOOLEAN
        BY DEF Found
  <2>. QED
       BY <1>1, <2>1, RearmType DEF Seen, Transactions
<1>. HIDE DEF x
<1>3. /\ x.retrans_time + COAP_RESPONSE_TIMEOUT \in Nat
      /\ now + COAP_RESPONSE_TIMEOUT * x.retrans_counter \in Nat
  <2>1. x.retrans_time \in Nat /\ x.retrans_counter \in Nat
        BY <1>2, BoundsAssumption DEF BoundsAssumption, Transactions
  <2>2. ASSUME NEW k \in Nat
        PROVE  COAP_RESPONSE_TIMEOUT * k \in Nat
        BY BoundsAssumption DEF BoundsAssumption
  <2>3. COAP_RESPONSE_TIMEOUT * x.retrans_counter \in Nat
        BY <2>1, <2>2
  <2>. QED
       BY <2>1, <2>3, BoundsAssumption DEF BoundsAssumption, TypeOK
<1>4. ASSUME NEW y \in Transactions, NEW t \in Nat, Rearm(m, y, t),
             y.retrans_counter = transaction[m].retrans_counter
      PROVE  /\ transaction' \in [Mids -> Transactions]
             /\ \A k \in Mids :
                   transaction'[k].retrans_counter = transaction[k].retrans_counter
             /\ UNCHANGED <<transactionList, callbacks>>
  <2>1. /\ [y EXCEPT !.retrans_time = t] \in Transactions
        /\ [y EXCEPT !.retrans_time = t].retrans_counter = y.retrans_counter
        BY RearmType DEF Transactions
  <2>. QED
       BY <1>1, <1>4, <2>1 DEF Rearm, TypeOK
<1>5. CASE Rearm(m, [x EXCEPT !.ack_received = FALSE], x.retrans_time + COAP_RESPONSE_TIMEOUT)
  <2>1. /\ [x EXCEPT !.ack_received = FALSE] \in Transactions
        /\ [x EXCEPT !.ack_received = FALSE].retrans_counter = x.retrans_counter
        BY <1>2, RearmType DEF Transactions
  <2>. QED
       BY <1>2, <1>3, <1>4, <1>5, <2>1 DEF TypeOK, callbacks
<1>6. CASE Rearm(m, x, now + COAP_RESPONSE_TIMEOUT * x.retrans_counter)
      BY <1>2, <1>3, <1>4, <1>6 DEF TypeOK, callbacks
<1>7. CASE /\ transaction' = [transaction EXCEPT ![m] = x]
           /\ transactionList' = transactionList \ {m}
           /\ CallbackEach({m}, Verdict(x, d))
      BY <1>1, <1>2, <1>7, VerdictType DEF CallbackEach, TypeOK
<1>8. CASE UNCHANGED <<transaction, transactionList, callbacks>>
      BY <1>8 DEF TypeOK, callbacks
<1>. QED
     BY <1>5, <1>6, <1>7, <1>8 DEF HandleResponse, x

\* A request that goes out is a well-formed transaction.
LEMMA RequestType ==
    ASSUME TypeOK, NEW p \in Peers, NEW tokened \in BOOLEAN, Request(p, tokened)
    PROVE  TypeOK'
<1>1. /\ Send(NewTransaction(p, tokened)) \in Transactions
      /\ Send(NewTransaction(p, tokened)).retrans_counter = 2
      BY SendNewType DEF TypeOK
<1>2. /\ nextMID \in Mids /\ nextMID' = nextMID + 1
      /\ transactionList' = transactionList \cup {nextMID}
      /\ transaction' = [transaction EXCEPT ![nextMID] = Send(NewTransaction(p, tokened))]
      BY DEF Request, MayRequest
<1>3. /\ nextMID' \in 1..(MaxRequests + 1)
      /\ transactionList' \subseteq Issued'
      BY <1>2, BoundsAssumption DEF BoundsAssumption, TypeOK, Issued, Mids
<1>4. transaction' \in [Mids -> Transactions]
      BY <1>1, <1>2 DEF TypeOK
<1>5. ASSUME NEW m \in transactionList'
      PROVE  transaction'[m].retrans_counter >= 2
  <2>1. CASE m = nextMID
    <3>1. transaction'[m].retrans_counter = 2
          BY <2>1, <1>1, <1>2 DEF TypeOK
    <3>. QED
         BY <3>1
  <2>2. CASE m \in transactionList /\ m # nextMID
        BY <2>2, <1>2, BoundsAssumption DEF BoundsAssumption, TypeOK, Issued, Mids
  <2>. QED
       BY <2>1, <2>2, <1>2
<1>6. /\ sent' \in [Mids -> Nat] /\ wake' = now
      /\ UNCHANGED <<now, closed, callbacks, net, peers, dups>>
      BY DEF Request, MayRequest, TypeOK
<1>7. UNCHANGED <<running, transacP, timeoutP>>
      BY DEF Request, walk
<1>8. running' # "loop" => ~closed' /\ transacP' \in transactionList' \cup {NoMid}
      BY <1>2, <1>6, <1>7 DEF TypeOK
<1>. QED
     BY <1>3, <1>4, <1>5, <1>6, <1>7, <1>8 DEF TypeOK, callbacks, peers

\* A delivered datagram leaves everything well formed.
LEMMA ReceiveType ==
    ASSUME TypeOK, NEW d \in net, NEW keep \in BOOLEAN, Receive(d, keep)
    PROVE  TypeOK'
<1>1. d \in Messages
      BY DEF TypeOK
<1>2. /\ transaction' \in [Mids -> Transactions]
      /\ \A k \in Mids : transaction'[k].retrans_counter = transaction[k].retrans_counter
      /\ transactionList' \subseteq transactionList
      /\ result' \in [Mids -> Results] /\ calls' \in [Mids -> Nat]
  <2>1. CASE d.mid \in transactionList /\ HandleResponse(d.mid, d)
        BY <2>1, <1>1, HandleResponseType
  <2>2. CASE UNCHANGED <<transaction, transactionList, callbacks>>
        BY <2>2 DEF TypeOK, callbacks
  <2>. QED
       BY <2>1, <2>2 DEF Receive
<1>3. net' \subseteq net /\ dups' \in Nat
      BY DEF Receive, TypeOK
<1>4. /\ wake' = now /\ running' = "loop" /\ timeoutP' = timeoutP
      /\ UNCHANGED <<now, closed, nextMID, sent, peers>>
      BY DEF Receive, walk
<1>5. transactionList \subseteq Mids
      BY BoundsAssumption DEF BoundsAssumption, TypeOK, Issued, Mids
<1>. QED
     BY <1>2, <1>3, <1>4, <1>5 DEF TypeOK, Issued, Places, peers

\* Ids are numbers, and the one of nothing is none of them.
LEMMA ListedIds ==
    ASSUME TypeOK
    PROVE  transactionList \subseteq Mids /\ NoMid \notin Mids /\ Mids \subseteq Nat
BY BoundsAssumption DEF BoundsAssumption, TypeOK, Issued, Mids, NoMid

\* The walk goes on to a listed transaction behind the one it is at, or ends,
\* and passes none over.
LEMMA WalkOnPasses ==
    ASSUME TypeOK, transacP \in Mids, WalkOn
    PROVE  /\ transacP' \in (transactionList \ {transacP}) \cup {NoMid}
           /\ \A m \in transactionList : transacP' = NoMid \/ m < transacP' => m <= transacP
<1> DEFINE behind == {m \in transactionList : m > transacP}
<1>1. transactionList \subseteq Mids /\ NoMid \notin Mids /\ Mids \subseteq Nat
      BY ListedIds
<1>2. CASE behind = {}
  <2>1. transacP' = NoMid
        BY <1>2 DEF WalkOn, WalkTo
  <2>2. \A m \in transactionList : ~(m > transacP)
        BY <1>2
  <2>. QED
       BY <1>1, <2>1, <2>2
<1>3. CASE behind # {}
  <2>1. transacP' \in behind /\ \A m \in behind : transacP' <= m
        BY <1>3 DEF WalkOn, WalkTo
  <2>2. transacP' \in transactionList /\ transacP' > transacP /\ transacP' \in Nat
        BY <1>1, <2>1
  <2>3. ASSUME NEW m \in transactionList, m < transacP'
        PROVE  m <= transacP
        BY <1>1, <2>1, <2>2, <2>3
  <2>. QED
       BY <1>1, <2>2, <2>3
<1>. QED
     BY <1>2, <1>3

\* What a step of the walk does to the transaction it is at: it sends it again,
Resends(m) ==
    /\ m \in transactionList /\ ~GivesUp(transaction[m]) /\ transaction[m].retrans_time <= now
    /\ transaction' = [transaction EXCEPT ![m] = Send(transaction[m])]
    /\ sent' = [sent EXCEPT ![m] = @ + 1]
    /\ UNCHANGED <<transactionList, callbacks>>

\* or gives it up.
Expires(m) ==
    /\ m \in transactionList /\ GivesUp(transaction[m])
    /\ transactionList' = transactionList \ {m}
    /\ CallbackEach({m}, "timeout")
    /\ UNCHANGED <<transaction, sent>>

LEMMA WalkEffect ==
    ASSUME TypeOK, Walk
    PROVE  /\ UNCHANGED <<now, closed, nextMID, net, peers, dups>>
           /\ \/ UNCHANGED <<transactionList, transaction, callbacks, sent>>
              \/ Resends(transacP)
              \/ Expires(transacP)
<1>1. CASE StepBegins
      BY <1>1 DEF StepBegins, list
<1>2. CASE PassBy
      BY <1>2 DEF PassBy, PassedOver
<1>3. CASE SendAgain
  <2>1. transacP \in transactionList
        BY <1>3 DEF SendAgain, Visiting, TypeOK
  <2>. QED
       BY <1>3, <2>1 DEF SendAgain, PassedOver, Resends, Due
<1>4. CASE GiveUp
  <2>1. transacP \in transactionList
        BY <1>4 DEF GiveUp, Visiting, TypeOK
  <2>. QED
       BY <1>4, <2>1 DEF GiveUp, Expires
<1>5. CASE StepEnds
      BY <1>5 DEF StepEnds, list
<1>. QED
     BY <1>1, <1>2, <1>3, <1>4, <1>5 DEF Walk

\* The walk leaves the list, the copies and the sleep well formed.
LEMMA WalkType ==
    ASSUME TypeOK, Walk
    PROVE  TypeOK'
<1>1. transactionList \subseteq Mids /\ NoMid \notin Mids /\ Mids \subseteq Nat
      BY ListedIds
<1>2. UNCHANGED <<now, closed, nextMID, net, peers, dups>>
      BY WalkEffect
<1>3. /\ transaction' \in [Mids -> Transactions] /\ sent' \in [Mids -> Nat]
      /\ transactionList' \subseteq transactionList
      /\ \A m \in transactionList' : transaction'[m].retrans_counter >= 2
      /\ result' \in [Mids -> Results] /\ calls' \in [Mids -> Nat]
  <2>1. CASE UNCHANGED <<transactionList, transaction, callbacks, sent>>
        BY <2>1 DEF TypeOK, callbacks
  <2>2. CASE Resends(transacP)
    <3>1. /\ transaction[transacP] \in Transactions
          /\ transaction[transacP].retrans_counter >= 2
          BY <1>1, <2>2 DEF Resends, TypeOK
    <3>2. /\ Send(transaction[transacP]) \in Transactions
          /\ Send(transaction[transacP]).retrans_counter = transaction[transacP].retrans_counter + 1
          BY <2>2, <3>1, SendAgainType DEF Resends, TypeOK
    <3>3. transaction[transacP].retrans_counter \in Nat
          BY <3>1, BoundsAssumption DEF BoundsAssumption, Transactions
    <3>4. Send(transaction[transacP]).retrans_counter >= 2
          BY <3>1, <3>2, <3>3
    <3>5. ASSUME NEW m \in transactionList
          PROVE  transaction'[m].retrans_counter >= 2
          BY <1>1, <2>2, <3>4 DEF Resends, TypeOK
    <3>6. transaction' \in [Mids -> Transactions]
          BY <2>2, <3>2 DEF Resends, TypeOK
    <3>7. sent' \in [Mids -> Nat]
      <4>1. transacP \in Mids /\ sent' = [sent EXCEPT ![transacP] = @ + 1]
            BY <1>1, <2>2 DEF Resends
      <4>2. sent \in [Mids -> Nat]
            BY DEF TypeOK
      <4>3. sent[transacP] + 1 \in Nat
            BY <4>1, <4>2
      <4>. QED
           BY <4>1, <4>2, <4>3
    <3>. QED
         BY <2>2, <3>5, <3>6, <3>7 DEF Resends, TypeOK, callbacks
  <2>3. CASE Expires(transacP)
        BY <2>3 DEF Expires, TypeOK, CallbackEach, Results
  <2>. QED
       BY <2>1, <2>2, <2>3, WalkEffect
<1>4. /\ running' \in Places /\ timeoutP' \in Nat \ {0} /\ wake' \in Nat
      /\ running' # "loop" => ~closed /\ transacP' \in transactionList' \cup {NoMid}
  <2>1. CASE StepBegins
    <3>1. transacP' \in transactionList \cup {NoMid}
          BY <2>1 DEF StepBegins, WalkTo
    <3>. QED
         BY <2>1, <3>1, BoundsAssumption DEF BoundsAssumption, StepBegins, Places, TypeOK, list
  <2>2. ASSUME NEW x \in Transactions, PassedOver(x), Visiting
        PROVE  /\ running' \in Places /\ timeoutP' \in Nat \ {0} /\ wake' \in Nat
               /\ running' # "loop" => ~closed /\ transacP' \in transactionList' \cup {NoMid}
    <3>1. transacP \in Mids /\ WalkOn /\ ~closed /\ transactionList' = transactionList
          BY <1>1, <2>2 DEF PassedOver, Visiting, TypeOK
    <3>2. Interval(x) \in Nat \ {0}
          BY DEF Interval, Transactions, TypeOK
    <3>3. transacP' \in transactionList \cup {NoMid}
          BY <3>1, WalkOnPasses
    <3>. QED
         BY <2>2, <3>1, <3>2, <3>3 DEF PassedOver, Places, TypeOK
  <2>3. CASE PassBy
    <3>1. transaction[transacP] \in Transactions
          BY <1>1, <2>3 DEF PassBy, Visiting, TypeOK
    <3>. QED
         BY <2>2, <2>3, <3>1 DEF PassBy
  <2>4. CASE SendAgain
    <3>1. /\ transacP \in transactionList /\ transaction[transacP] \in Transactions
          /\ transaction[transacP].retrans_counter >= 2 /\ now \in Nat
          BY <1>1, <2>4 DEF SendAgain, Visiting, TypeOK
    <3>2. Send(transaction[transacP]) \in Transactions
          BY <2>4, <3>1, SendAgainType DEF SendAgain
    <3>. QED
         BY <2>2, <2>4, <3>2 DEF SendAgain
  <2>5. CASE GiveUp
    <3>1. transacP \in Mids /\ WalkOn /\ ~closed /\ transactionList' = transactionList \ {transacP}
          BY <1>1, <2>5 DEF GiveUp, Visiting, TypeOK
    <3>2. transacP' \in (transactionList \ {transacP}) \cup {NoMid}
          BY <3>1, WalkOnPasses
    <3>. QED
         BY <2>5, <3>1, <3>2 DEF GiveUp, Places, TypeOK
  <2>6. CASE StepEnds
        BY <2>6 DEF StepEnds, Places, TypeOK
  <2>. QED
       BY <2>1, <2>3, <2>4, <2>5, <2>6 DEF Walk
<1>. QED
     BY <1>2, <1>3, <1>4 DEF TypeOK, peers, Issued

\* A datagram a peer sends is a message.
LEMMA DatagramType ==
    ASSUME TypeOK, NEW m \in Mids, NEW type \in {"ACK", "CON", "RST"},
           NEW mid \in Mids \cup {NoMid}, NEW code \in {"empty", "ok", "401"}
    PROVE  /\ Datagram(type, m, mid, code) \in Messages
           /\ Datagram(type, m, mid, code).token \in {m, NoToken}
           /\ Datagram(type, m, mid, code).code = code
BY DEF TypeOK, Datagram, Messages, Transactions

\* A peer that handles a copy changes nothing of the endpoint, leaves messages
\* in the network, and gives the answers it records.
LEMMA HandleType ==
    ASSUME TypeOK, NEW m \in Mids, NEW reply \in Replies, Handle(m, reply)
    PROVE  TypeOK'
<1>1. ASSUME NEW type \in {"ACK", "CON", "RST"}, NEW mid \in Mids \cup {NoMid},
             NEW code \in {"empty", "ok", "401"}
      PROVE  Datagram(type, m, mid, code) \in Messages
      BY DatagramType
<1>2. net' \subseteq Messages /\ answers' \in [Mids -> SUBSET {"ok", "401"}]
  <2>1. CASE reply = "piggyback"
        BY <2>1, <1>1 DEF Handle, TypeOK
  <2>2. CASE reply = "denied"
        BY <2>2, <1>1 DEF Handle, TypeOK
  <2>3. CASE reply = "separate"
        BY <2>3, <1>1 DEF Handle, TypeOK
  <2>4. CASE reply = "reset"
        BY <2>4, <1>1 DEF Handle, TypeOK
  <2>. QED
       BY <2>1, <2>2, <2>3, <2>4 DEF Handle
<1>3. handled' \in [Mids -> Nat] /\ UNCHANGED <<loop, list, callbacks, sent, dups>>
      BY DEF Handle, TypeOK
<1>4. UNCHANGED <<now, wake, closed, running, transacP, timeoutP>>
      BY <1>3 DEF loop, walk
<1>. QED
     BY <1>2, <1>3, <1>4 DEF TypeOK, list, callbacks, Issued

\* Every variable keeps its type in every run: what the code stores in a
\* transaction and on its list stays in range.
THEOREM TypeCorrect == SafeSpec => []TypeOK
<1>1. Init => TypeOK
  <2> SUFFICES ASSUME Init PROVE TypeOK
      OBVIOUS
  <2>1. ASSUME NEW p \in Peers
        PROVE  NewTransaction(p, FALSE) \in Transactions
        BY BoundsAssumption DEF BoundsAssumption, NewTransaction, Transactions, Init
  <2>2. (CHOOSE p \in Peers : TRUE) \in Peers
        BY PeerAssumption DEF PeerAssumption
  <2>3. transaction \in [Mids -> Transactions]
        BY <2>1, <2>2 DEF Init
  <2>4. net \subseteq Messages
        BY PeerAssumption DEF PeerAssumption, Init
  <2>5. nextMID \in 1..(MaxRequests + 1) /\ transactionList = {}
        BY BoundsAssumption DEF BoundsAssumption, Init
  <2>6. result \in [Mids -> Results] /\ answers \in [Mids -> SUBSET {"ok", "401"}]
        BY DEF Init, Results
  <2>7. /\ calls \in [Mids -> Nat] /\ sent \in [Mids -> Nat] /\ handled \in [Mids -> Nat]
        /\ now \in Nat /\ wake \in Nat /\ dups \in Nat /\ closed \in BOOLEAN
        /\ running = "loop" /\ running \in Places /\ timeoutP \in Nat \ {0}
        BY BoundsAssumption DEF BoundsAssumption, Init, Places
  <2>. QED
       BY <2>3, <2>4, <2>5, <2>6, <2>7 DEF TypeOK
<1>2. TypeOK /\ [Next]_vars => TypeOK'
  <2> SUFFICES ASSUME TypeOK, [Next]_vars PROVE TypeOK'
      OBVIOUS
  <2>1. ASSUME NEW p \in Peers, NEW tokened \in BOOLEAN, Request(p, tokened)
        PROVE  TypeOK'
        BY <2>1, RequestType
  <2>2. CASE RequestRefused
    <3>1. /\ nextMID' \in 1..(MaxRequests + 1) /\ transactionList \subseteq Issued'
          /\ nextMID' = nextMID + 1 /\ result' \in [Mids -> Results] /\ wake' = now
          BY <2>2, BoundsAssumption
          DEF BoundsAssumption, RequestRefused, MayRequest, TypeOK, Results, Issued, Mids
    <3>2. UNCHANGED <<now, closed, running, transacP, timeoutP, transactionList, transaction,
                      calls, net, sent, handled, answers, dups>>
          BY <2>2 DEF RequestRefused, walk, peers
    <3>. QED
         BY <3>1, <3>2 DEF TypeOK
  <2>3. ASSUME NEW d \in net, NEW keep \in BOOLEAN, Receive(d, keep)
        PROVE  TypeOK'
        BY <2>3, ReceiveType
  <2>4. CASE Walk
        BY <2>4, WalkType
  <2>5. CASE Tick
        BY <2>5 DEF Tick, TypeOK, walk, list, callbacks, peers, Issued
  <2>6. CASE Close
        BY <2>6 DEF Close, CallbackEach, TypeOK, Results, walk, peers, Issued
  <2>7. ASSUME NEW m \in Mids, NEW reply \in Replies, Handle(m, reply)
        PROVE  TypeOK'
        BY <2>7, HandleType
  <2>8. CASE UNCHANGED vars
        BY <2>8 DEF vars, loop, walk, list, callbacks, peers, TypeOK, Issued
  <2>. QED
       BY <2>1, <2>2, <2>3, <2>4, <2>5, <2>6, <2>7, <2>8 DEF Next, Endpoint
<1>. QED
     BY <1>1, <1>2, PTL DEF SafeSpec

\* Ids are given out in order, and a listed one was given out.
LEMMA Ids ==
    ASSUME TypeOK
    PROVE  /\ transactionList \subseteq Mids /\ transactionList \subseteq Issued
           /\ nextMID \notin Issued
           /\ nextMID \in Mids /\ nextMID' = nextMID + 1 => Issued' = Issued \cup {nextMID}
<1>1. nextMID \in Nat /\ 1 <= nextMID /\ nextMID <= MaxRequests + 1 /\ MaxRequests \in Nat
      BY BoundsAssumption DEF BoundsAssumption, TypeOK
<1>2. transactionList \subseteq Issued
      BY DEF TypeOK
<1>3. Issued \subseteq Mids /\ nextMID \notin Issued
      BY <1>1 DEF Issued, Mids
<1>4. ASSUME nextMID' = nextMID + 1
      PROVE  Issued' = Issued \cup {nextMID}
      BY <1>1, <1>4 DEF Issued
<1>. QED
     BY <1>2, <1>3, <1>4

LEMMA IdsNext ==
    ASSUME TypeOK'
    PROVE  transactionList' \subseteq Mids
<1>1. nextMID' \in Nat /\ nextMID' <= MaxRequests + 1 /\ MaxRequests \in Nat
      BY BoundsAssumption DEF BoundsAssumption, TypeOK
<1>2. Issued' = 1..(nextMID' - 1) /\ Mids = 1..MaxRequests
      BY DEF Issued, Mids
<1>3. ASSUME NEW k \in Nat, NEW n \in Nat, k <= n + 1
      PROVE  1..(k - 1) \subseteq 1..n
      BY <1>3
<1>4. Issued' \subseteq Mids
      BY <1>1, <1>2, <1>3
<1>. QED
     BY <1>4 DEF TypeOK

-----------------------------------------------------------------------------
(* What the longest action does, without how. *)

\* A delivered datagram ends at most one request, which it names, and tells
\* its callback of an answer only when it carries that answer and the
\* request's token.  It counts no copy, and what it postpones, it postpones
\* from now.
LEMMA ReceiveEffect ==
    ASSUME TypeOK, NEW d \in net, NEW keep \in BOOLEAN, Receive(d, keep)
    PROVE  /\ ~closed /\ wake' = now /\ net' \subseteq net
           /\ UNCHANGED <<now, closed, nextMID, sent, peers>>
           /\ \A m \in Mids : m \notin transactionList => transaction'[m] = transaction[m]
           /\ \A m \in transactionList :
                 /\ transaction'[m].retrans_counter = transaction[m].retrans_counter
                 /\ transaction'[m].retrans_time >= transaction[m].retrans_time
                       \/ transaction'[m].retrans_time >= now
           /\ \/ UNCHANGED <<transactionList, callbacks>>
              \/ \E m \in transactionList, r \in Results \ {"none", "refused", "timeout"} :
                    /\ transactionList' = transactionList \ {m}
                    /\ CallbackEach({m}, r)
                    /\ r \in {"ok", "401"} => d.token = m /\ d.code = r
<1> DEFINE n == d.mid
           x == Seen(n, d)
<1>1. d \in Messages /\ transactionList \subseteq Mids
      BY BoundsAssumption DEF BoundsAssumption, TypeOK, Issued, Mids
<1>2. /\ ~closed /\ wake' = now /\ net' \subseteq net
      /\ UNCHANGED <<now, closed, nextMID, sent, peers>>
      BY DEF Receive
<1>3. CASE UNCHANGED <<transaction, transactionList, callbacks>>
  <2>1. ASSUME NEW m \in transactionList
        PROVE  transaction[m].retrans_time >= transaction[m].retrans_time
    <3>1. transaction[m].retrans_time \in Nat
          BY <1>1 DEF TypeOK, Transactions
    <3>. QED
         BY <3>1
  <2>. QED
       BY <1>2, <1>3, <2>1
<1>4. CASE n \in transactionList /\ HandleResponse(n, d)
  <2>. USE <1>4
  <2>1. /\ transaction[n] \in Transactions /\ x \in Transactions
        /\ x.retrans_counter = transaction[n].retrans_counter
        /\ x.retrans_time = transaction[n].retrans_time
        /\ x.tokened = transaction[n].tokened
    <3>1. transaction[n] \in Transactions
          BY <1>1 DEF TypeOK
    <3>2. (transaction[n].ack_received \/ Found(n, d)) \in BOOLEAN
          BY DEF Found
    <3>. QED
         BY <3>1, <3>2, RearmType DEF Seen, Transactions
  <2>. HIDE DEF x
  <2>2. ASSUME NEW y \in Transactions, NEW t \in Nat, Rearm(n, y, t),
               y.retrans_counter = transaction[n].retrans_counter,
               t >= transaction[n].retrans_time \/ t >= now
        PROVE  /\ \A m \in Mids : m \notin transactionList => transaction'[m] = transaction[m]
               /\ \A m \in transactionList :
                     /\ transaction'[m].retrans_counter = transaction[m].retrans_counter
                     /\ transaction'[m].retrans_time >= transaction[m].retrans_time
                           \/ transaction'[m].retrans_time >= now
               /\ UNCHANGED <<transactionList, callbacks>>
    <3>1. /\ [y EXCEPT !.retrans_time = t].retrans_time = t
          /\ [y EXCEPT !.retrans_time = t].retrans_counter = y.retrans_counter
          BY DEF Transactions
    <3>2. \A m \in Mids : transaction'[m] = IF m = n THEN [y EXCEPT !.retrans_time = t]
                                             ELSE transaction[m]
          BY <2>2, <1>1 DEF Rearm, TypeOK
    <3>3. \A m \in transactionList : transaction[m].retrans_time \in Nat
          BY <1>1 DEF TypeOK, Transactions
    <3>4. ASSUME NEW m \in transactionList
          PROVE  /\ transaction'[m].retrans_counter = transaction[m].retrans_counter
                 /\ transaction'[m].retrans_time >= transaction[m].retrans_time
                       \/ transaction'[m].retrans_time >= now
      <4>1. CASE m = n
            BY <4>1, <3>1, <3>2, <2>2, <1>1
      <4>2. CASE m # n
        <5>1. transaction'[m] = transaction[m]
              BY <4>2, <3>2, <1>1
        <5>. QED
             BY <5>1, <3>3
      <4>. QED
           BY <4>1, <4>2
    <3>. QED
         BY <3>2, <3>4, <2>2, <1>1 DEF Rearm
  <2>3. CASE Rearm(n, [x EXCEPT !.ack_received = FALSE], x.retrans_time + COAP_RESPONSE_TIMEOUT)
    <3>1. /\ [x EXCEPT !.ack_received = FALSE] \in Transactions
          /\ [x EXCEPT !.ack_received = FALSE].retrans_counter = x.retrans_counter
          BY <2>1, RearmType DEF Transactions
    <3>2. x.retrans_time \in Nat
          BY <2>1 DEF Transactions
    <3>3. /\ x.retrans_time + COAP_RESPONSE_TIMEOUT \in Nat
          /\ x.retrans_time + COAP_RESPONSE_TIMEOUT >= x.retrans_time
          BY <3>2, BoundsAssumption DEF BoundsAssumption
    <3>. QED
         BY <1>2, <2>1, <2>2, <2>3, <3>1, <3>3
  <2>4. CASE Rearm(n, x, now + COAP_RESPONSE_TIMEOUT * x.retrans_counter)
    <3>1. x.retrans_counter \in Nat
          BY <2>1, BoundsAssumption DEF BoundsAssumption, Transactions
    <3>2. ASSUME NEW k \in Nat
          PROVE  COAP_RESPONSE_TIMEOUT * k \in Nat
          BY BoundsAssumption DEF BoundsAssumption
    <3>3. COAP_RESPONSE_TIMEOUT * x.retrans_counter \in Nat
          BY <3>1, <3>2
    <3>4. /\ now + COAP_RESPONSE_TIMEOUT * x.retrans_counter \in Nat
          /\ now + COAP_RESPONSE_TIMEOUT * x.retrans_counter >= now
          BY <3>3 DEF TypeOK
    <3>. QED
         BY <1>2, <2>1, <2>2, <2>4, <3>4
  <2>5. CASE /\ Finishes(n, d) /\ ~Denies(n, d)
             /\ transaction' = [transaction EXCEPT ![n] = x]
             /\ transactionList' = transactionList \ {n}
             /\ CallbackEach({n}, Verdict(x, d))
    <3>1. \A m \in Mids : transaction'[m] = IF m = n THEN x ELSE transaction[m]
          BY <2>5, <1>1 DEF TypeOK
    <3>2. \A m \in transactionList : transaction[m].retrans_time \in Nat
          BY <1>1 DEF TypeOK, Transactions
    <3>3. ASSUME NEW m \in transactionList
          PROVE  /\ transaction'[m].retrans_counter = transaction[m].retrans_counter
                 /\ transaction'[m].retrans_time >= transaction[m].retrans_time
      <4>1. /\ transaction'[m].retrans_counter = transaction[m].retrans_counter
            /\ transaction'[m].retrans_time = transaction[m].retrans_time
            BY <3>1, <2>1, <1>1
      <4>. QED
           BY <4>1, <3>2
    <3>4. Verdict(x, d) \in {"ok", "401"} => d.token = n /\ d.code = Verdict(x, d)
      <4>1. Verdict(x, d) \in {"ok", "401"} => x.tokened /\ d.type # "RST" /\ d.code = Verdict(x, d)
            BY DEF Verdict
      <4>2. d.type # "RST" => CheckFinished(n, x, d)
            BY <2>5 DEF Finishes, Reset, x
      <4>. QED
           BY <4>1, <4>2 DEF CheckFinished
    <3>5. Verdict(x, d) \in Results \ {"none", "refused", "timeout"}
          BY <1>1, <2>1, VerdictType
    <3>. QED
         BY <1>1, <1>2, <2>5, <3>1, <3>3, <3>4, <3>5
  <2>. QED
       BY <1>3, <2>3, <2>4, <2>5 DEF HandleResponse, x
<1>. QED
     BY <1>3, <1>4 DEF Receive

-----------------------------------------------------------------------------
(* Safety *)

\* In every run the callback of a request runs exactly once, when its
\* transaction leaves the list.
THEOREM CallbackRunsOnce == SafeSpec => []CallbackOnce
<1>1. Init => CallbackOnce
      BY BoundsAssumption DEF BoundsAssumption, Init, CallbackOnce, Issued
<1>2. TypeOK /\ TypeOK' /\ CallbackOnce /\ [Next]_vars => CallbackOnce'
  <2> SUFFICES ASSUME TypeOK, TypeOK', CallbackOnce, [Next]_vars
               PROVE  CallbackOnce'
      OBVIOUS
  <2>1. ASSUME NEW p \in Peers, NEW tokened \in BOOLEAN, Request(p, tokened)
        PROVE  CallbackOnce'
    <3>1. Issued' = Issued \cup {nextMID}
          BY <2>1, Ids DEF Request, MayRequest
    <3>. QED
         BY <2>1, <3>1, Ids DEF Request, MayRequest, CallbackOnce, callbacks
  <2>2. CASE RequestRefused
    <3>1. Issued' = Issued \cup {nextMID}
          BY <2>2, Ids DEF RequestRefused, MayRequest
    <3>. QED
         BY <2>2, <3>1, Ids DEF RequestRefused, MayRequest, CallbackOnce, TypeOK
  <2>3. ASSUME NEW d \in net, NEW keep \in BOOLEAN, Receive(d, keep)
        PROVE  CallbackOnce'
    <3>1. Issued' = Issued
          BY <2>3, ReceiveEffect DEF Issued
    <3>2. CASE UNCHANGED <<transactionList, callbacks>>
          BY <3>1, <3>2 DEF CallbackOnce, callbacks
    <3>3. CASE \E m \in transactionList, r \in Results \ {"none", "refused", "timeout"} :
                  transactionList' = transactionList \ {m} /\ CallbackEach({m}, r)
      <4>. PICK m \in transactionList, r \in Results \ {"none", "refused", "timeout"} :
              transactionList' = transactionList \ {m} /\ CallbackEach({m}, r)
           BY <3>3
      <4>1. ASSUME NEW k \in Mids
            PROVE  /\ result'[k] = IF k = m THEN r ELSE result[k]
                   /\ calls'[k] = IF k = m THEN calls[k] + 1 ELSE calls[k]
            BY DEF CallbackEach
      <4>2. ASSUME NEW k \in Mids
            PROVE  calls'[k] = IF k \in Issued' \ transactionList' /\ result'[k] # "refused"
                               THEN 1 ELSE 0
        <5>1. calls[k] = IF k \in Issued \ transactionList /\ result[k] # "refused" THEN 1 ELSE 0
              BY DEF CallbackOnce
        <5>2. CASE k = m
              BY <5>1, <5>2, <4>1, <3>1, Ids
        <5>3. CASE k # m
              BY <5>1, <5>3, <4>1, <3>1
        <5>. QED
             BY <5>2, <5>3
      <4>. QED
           BY <4>2 DEF CallbackOnce
    <3>4. \/ UNCHANGED <<transactionList, callbacks>>
          \/ \E m \in transactionList, r \in Results \ {"none", "refused", "timeout"} :
                transactionList' = transactionList \ {m} /\ CallbackEach({m}, r)
          BY <2>3, ReceiveEffect
    <3>. QED
         BY <3>2, <3>3, <3>4
  <2>4. CASE Walk
    <3>1. Issued' = Issued
          BY <2>4, WalkEffect DEF Issued
    <3>2. CASE UNCHANGED <<transactionList, callbacks>>
          BY <3>1, <3>2 DEF CallbackOnce, callbacks
    <3>3. CASE Expires(transacP)
      <4>1. ASSUME NEW m \in Mids
            PROVE  /\ result'[m] = IF m = transacP THEN "timeout" ELSE result[m]
                   /\ calls'[m] = IF m = transacP THEN calls[m] + 1 ELSE calls[m]
            BY <3>3 DEF Expires, CallbackEach
      <4>2. ASSUME NEW m \in Mids
            PROVE  calls'[m] = IF m \in Issued' \ transactionList' /\ result'[m] # "refused"
                               THEN 1 ELSE 0
        <5>1. calls[m] = IF m \in Issued \ transactionList /\ result[m] # "refused" THEN 1 ELSE 0
              BY DEF CallbackOnce
        <5>2. transactionList' = transactionList \ {transacP} /\ transacP \in transactionList
              BY <3>3 DEF Expires
        <5>. QED
             BY <5>1, <5>2, <4>1, <3>1, Ids
      <4>. QED
           BY <4>2 DEF CallbackOnce
    <3>. QED
         BY <2>4, <3>2, <3>3, WalkEffect DEF Resends
  <2>5. CASE Tick
        BY <2>5 DEF Tick, CallbackOnce, Issued, list, callbacks
  <2>6. CASE Close
    <3>1. transactionList' = {} /\ Issued' = Issued
          BY <2>6 DEF Close, Issued
    <3>2. ASSUME NEW m \in Mids
          PROVE  /\ result'[m] = IF m \in transactionList THEN "timeout" ELSE result[m]
                 /\ calls'[m] = IF m \in transactionList THEN calls[m] + 1 ELSE calls[m]
          BY <2>6 DEF Close, CallbackEach
    <3>3. ASSUME NEW m \in Mids
          PROVE  calls'[m] = IF m \in Issued' \ transactionList' /\ result'[m] # "refused"
                             THEN 1 ELSE 0
      <4>1. calls[m] = IF m \in Issued \ transactionList /\ result[m] # "refused" THEN 1 ELSE 0
            BY DEF CallbackOnce
      <4>. QED
           BY <4>1, <3>1, <3>2, Ids
    <3>. QED
         BY <3>3 DEF CallbackOnce
  <2>7. ASSUME NEW m \in Mids, NEW reply \in Replies, Handle(m, reply)
        PROVE  CallbackOnce'
        BY <2>7 DEF Handle, CallbackOnce, Issued, list, callbacks
  <2>8. CASE UNCHANGED vars
        BY <2>8 DEF vars, list, callbacks, CallbackOnce, Issued
  <2>. QED
       BY <2>1, <2>2, <2>3, <2>4, <2>5, <2>6, <2>7, <2>8 DEF Next, Endpoint
<1>. QED
     BY <1>1, <1>2, TypeCorrect, PTL DEF SafeSpec

\* While transaction_step walks the list, no time has passed since the loop woke
\* up, and the sleep found so far suits every transaction it has passed; after a
\* callback it is one second, which suits those that the callback makes.
Behind(m) == transacP = NoMid \/ m < transacP

WalkOK ==
    running # "loop" =>
        /\ now = wake
        /\ \A m \in transactionList :
              Behind(m) => now + timeoutP <= transaction[m].retrans_time
        /\ running = "callback" => timeoutP = 1

\* The walk goes on from a transaction it leaves due later than now.
LEMMA SleepSuits ==
    ASSUME TypeOK, NeverOverdue, WalkOK, Visiting, NEW x \in Transactions, PassedOver(x),
           x.retrans_time > now, transaction'[transacP] = x,
           \A m \in transactionList \ {transacP} : transaction'[m] = transaction[m]
    PROVE  NeverOverdue' /\ WalkOK'
<1>1. /\ transacP \in Mids /\ transactionList \subseteq Mids /\ Mids \subseteq Nat
      /\ now \in Nat /\ timeoutP \in Nat /\ x.retrans_time \in Nat /\ now = wake
      BY ListedIds DEF Visiting, TypeOK, Transactions, WalkOK
<1>2. \A m \in transactionList : transaction[m].retrans_time \in Nat
      BY <1>1 DEF TypeOK, Transactions
<1>3. /\ UNCHANGED <<now, wake, transactionList>> /\ running' = "step"
      /\ timeoutP' \in Nat /\ timeoutP' <= timeoutP /\ timeoutP' <= x.retrans_time - now
      BY <1>1 DEF PassedOver, Interval
<1>4. \A m \in transactionList : Behind(m)' => m <= transacP
      BY <1>1, WalkOnPasses DEF PassedOver, Behind
<1>5. ASSUME NEW m \in transactionList
      PROVE  /\ wake' <= transaction'[m].retrans_time
             /\ Behind(m)' => now + timeoutP' <= transaction'[m].retrans_time
  <2>1. CASE m = transacP
        BY <2>1, <1>1, <1>3
  <2>2. CASE m # transacP
    <3>1. wake <= transaction[m].retrans_time /\ transaction'[m] = transaction[m]
          BY <2>2 DEF NeverOverdue
    <3>2. Behind(m)' => Behind(m)
          BY <2>2, <1>1, <1>4 DEF Behind
    <3>3. Behind(m)' => now + timeoutP <= transaction[m].retrans_time
          BY <3>2 DEF WalkOK, Visiting
    <3>. QED
         BY <3>1, <3>3, <1>1, <1>2, <1>3
  <2>. QED
       BY <2>1, <2>2
<1>. QED
     BY <1>1, <1>3, <1>5 DEF NeverOverdue, WalkOK

\* In every run the loop never sleeps past a deadline.
THEOREM NeverSleepsPast == SafeSpec => []NeverOverdue
<1>1. Init => NeverOverdue /\ WalkOK
      BY DEF Init, NeverOverdue, WalkOK
<1>2. TypeOK /\ TypeOK' /\ NeverOverdue /\ WalkOK /\ [Next]_vars => NeverOverdue' /\ WalkOK'
  <2> SUFFICES ASSUME TypeOK, TypeOK', NeverOverdue, WalkOK, [Next]_vars
               PROVE  NeverOverdue' /\ WalkOK'
      OBVIOUS
  <2>. now \in Nat /\ wake \in Nat /\ now' \in Nat /\ wake' \in Nat /\ timeoutP \in Nat \ {0}
       BY DEF TypeOK
  <2>a. /\ \A m \in transactionList : transaction[m].retrans_time \in Nat
        /\ \A m \in transactionList' : transaction'[m].retrans_time \in Nat
    <3>1. transactionList \subseteq Mids /\ transactionList' \subseteq Mids
          BY Ids, IdsNext
    <3>. QED
         BY <3>1 DEF TypeOK, Transactions
  <2>1. ASSUME NEW p \in Peers, NEW tokened \in BOOLEAN, Request(p, tokened)
        PROVE  NeverOverdue' /\ WalkOK'
    <3>1. /\ transactionList' = transactionList \cup {nextMID} /\ now' = now /\ wake' = now
          /\ nextMID \in Mids /\ running \in {"loop", "callback"}
          /\ transaction' = [transaction EXCEPT ![nextMID] = Send(NewTransaction(p, tokened))]
          /\ UNCHANGED <<running, transacP, timeoutP>>
          BY <2>1 DEF Request, MayRequest, walk
    <3>2. Send(NewTransaction(p, tokened)).retrans_time = now + COAP_RESPONSE_TIMEOUT
          BY SendNewType
    <3>3. now + 1 <= now + COAP_RESPONSE_TIMEOUT /\ now <= now + COAP_RESPONSE_TIMEOUT
          BY BoundsAssumption DEF BoundsAssumption
    <3>4. transaction'[nextMID].retrans_time = now + COAP_RESPONSE_TIMEOUT
          BY <3>1, <3>2 DEF TypeOK
    <3>5. ASSUME NEW m \in transactionList
          PROVE  transaction'[m].retrans_time = transaction[m].retrans_time
          BY <3>1, Ids DEF TypeOK
    <3>6. NeverOverdue'
          BY <3>1, <3>3, <3>4, <3>5, <2>a DEF NeverOverdue
    <3>7. CASE running = "callback"
      <4>1. timeoutP' = 1 /\ now = wake
            BY <3>1, <3>7 DEF WalkOK
      <4>2. ASSUME NEW m \in transactionList', Behind(m)'
            PROVE  now' + timeoutP' <= transaction'[m].retrans_time
        <5>1. CASE m = nextMID
              BY <5>1, <4>1, <3>1, <3>3, <3>4
        <5>2. CASE m \in transactionList
          <6>1. Behind(m)
                BY <4>2, <3>1 DEF Behind
          <6>. QED
               BY <5>2, <6>1, <3>1, <3>5, <3>7 DEF WalkOK
        <5>. QED
             BY <5>1, <5>2, <3>1
      <4>. QED
           BY <4>1, <4>2, <3>1, <3>6 DEF WalkOK
    <3>. QED
         BY <3>1, <3>6, <3>7 DEF WalkOK
  <2>2. CASE RequestRefused
    <3>1. /\ wake' = now /\ UNCHANGED <<now, running, transacP, timeoutP, transactionList, transaction>>
          BY <2>2 DEF RequestRefused, MayRequest, walk
    <3>2. \A m : Behind(m)' <=> Behind(m)
          BY <3>1 DEF Behind
    <3>. QED
         BY <3>1, <3>2, <2>a DEF NeverOverdue, WalkOK
  <2>3. ASSUME NEW d \in net, NEW keep \in BOOLEAN, Receive(d, keep)
        PROVE  NeverOverdue' /\ WalkOK'
    <3>1. /\ wake' = now /\ now' = now /\ transactionList' \subseteq transactionList
          BY <2>3, ReceiveEffect DEF callbacks
    <3>2. \A m \in transactionList :
             transaction'[m].retrans_time >= transaction[m].retrans_time
                \/ transaction'[m].retrans_time >= now
          BY <2>3, ReceiveEffect
    <3>3. running' = "loop"
          BY <2>3 DEF Receive, walk
    <3>. QED
         BY <3>1, <3>2, <3>3, <2>a DEF NeverOverdue, WalkOK
  <2>4. CASE StepBegins
    <3>1. /\ now = wake /\ UNCHANGED <<now, wake, transactionList, transaction>>
          /\ WalkTo(transactionList) /\ running' = "step"
          BY <2>4 DEF StepBegins, list
    <3>2. ASSUME NEW m \in transactionList
          PROVE  ~Behind(m)'
      <4>1. transacP' \in transactionList /\ transacP' <= m
            BY <3>1 DEF WalkTo
      <4>2. transactionList \subseteq Nat /\ NoMid \notin transactionList
            BY ListedIds
      <4>. QED
           BY <4>1, <4>2 DEF Behind
    <3>. QED
         BY <3>1, <3>2 DEF NeverOverdue, WalkOK
  <2>5. CASE PassBy
    <3>1. transacP \in transactionList /\ transaction[transacP] \in Transactions
          BY <2>5, ListedIds DEF PassBy, Visiting, TypeOK
    <3>2. transaction[transacP].retrans_time > now
          BY <2>5, <2>a, <3>1 DEF PassBy, Due
    <3>. QED
         BY <2>5, <3>1, <3>2, SleepSuits DEF PassBy
  <2>6. CASE SendAgain
    <3>. DEFINE x == transaction[transacP]
    <3>1. /\ transacP \in transactionList /\ transacP \in Mids /\ x \in Transactions
          /\ x.retrans_counter >= 2
          BY <2>6, ListedIds DEF SendAgain, Visiting, TypeOK
    <3>2. Send(x) \in Transactions /\ Send(x).retrans_time > x.retrans_time
          BY <2>6, <3>1, SendAgainType DEF SendAgain
    <3>3. Send(x).retrans_time > now
      <4>1. Send(x).retrans_time \in Nat
            BY <3>2 DEF Transactions
      <4>2. now <= x.retrans_time
            BY <3>1, <2>a DEF NeverOverdue
      <4>. QED
           BY <4>1, <4>2, <3>1, <3>2, <2>a
    <3>4. /\ transaction'[transacP] = Send(x)
          /\ \A m \in transactionList \ {transacP} : transaction'[m] = transaction[m]
          BY <2>6, <3>1, Ids DEF SendAgain, TypeOK
    <3>. QED
         BY <2>6, <3>2, <3>3, <3>4, SleepSuits DEF SendAgain
  <2>7. CASE GiveUp
    <3>1. /\ UNCHANGED <<now, wake, transaction>> /\ timeoutP' = 1 /\ now = wake
          /\ transactionList' = transactionList \ {transacP}
          /\ transacP \in Mids /\ WalkOn /\ running # "loop"
          BY <2>7, ListedIds DEF GiveUp, Visiting, WalkOK, TypeOK
    <3>2. ASSUME NEW m \in transactionList', Behind(m)'
          PROVE  now' + timeoutP' <= transaction'[m].retrans_time
      <4>1. m \in transactionList /\ m # transacP /\ m \in Nat /\ transacP \in Nat
            BY <3>1, ListedIds
      <4>2. m <= transacP
            BY <3>1, <3>2, <4>1, WalkOnPasses DEF Behind
      <4>3. Behind(m)
            BY <4>1, <4>2 DEF Behind
      <4>4. now + timeoutP <= transaction[m].retrans_time
            BY <3>1, <4>1, <4>3 DEF WalkOK
      <4>. QED
           BY <3>1, <4>1, <4>4, <2>a
    <3>. QED
         BY <3>1, <3>2 DEF NeverOverdue, WalkOK
  <2>8. CASE StepEnds
    <3>1. /\ UNCHANGED <<now, transactionList, transaction>> /\ running' = "loop"
          /\ wake' = now + timeoutP /\ running # "loop" /\ transacP = NoMid
          BY <2>8 DEF StepEnds, list
    <3>2. \A m \in transactionList : now + timeoutP <= transaction[m].retrans_time
          BY <3>1 DEF WalkOK, Behind
    <3>. QED
         BY <3>1, <3>2 DEF NeverOverdue, WalkOK
  <2>9. CASE Tick
        BY <2>9 DEF Tick, NeverOverdue, WalkOK, walk, list
  <2>10. CASE Close
         BY <2>10 DEF Close, NeverOverdue, WalkOK, walk
  <2>11. ASSUME NEW m \in Mids, NEW reply \in Replies, Handle(m, reply)
         PROVE  NeverOverdue' /\ WalkOK'
    <3>1. UNCHANGED <<now, wake, running, transacP, timeoutP, transactionList, transaction>>
          BY <2>11 DEF Handle, loop, walk, list
    <3>. QED
         BY <3>1 DEF NeverOverdue, WalkOK, Behind
  <2>12. CASE UNCHANGED vars
    <3>1. UNCHANGED <<now, wake, running, transacP, timeoutP, transactionList, transaction>>
          BY <2>12 DEF vars, loop, walk, list
    <3>. QED
         BY <3>1 DEF NeverOverdue, WalkOK, Behind
  <2>. QED
       BY <2>1, <2>2, <2>3, <2>4, <2>5, <2>6, <2>7, <2>8, <2>9, <2>10, <2>11, <2>12
       DEF Next, Endpoint, Walk
<1>. QED
     BY <1>1, <1>2, TypeCorrect, PTL DEF SafeSpec

-----------------------------------------------------------------------------
(* What a request's state says of its past: the copies it counted, how it   *)
(* ended, and what is in the network for it.                                *)

\* A listed request counts one more than its copies; a peer handles no more
\* copies than were sent, and one that was never issued, or refused, has none.
Counted(m) ==
    /\ m \in transactionList => sent[m] = transaction[m].retrans_counter - 1
    /\ handled[m] <= sent[m]
    /\ m \notin Issued \/ result[m] = "refused" => sent[m] = 0
    /\ m \notin Issued => answers[m] = {}

\* A request has a result when it was issued and has left the list.
ResultFits(m) == result[m] = "none" <=> m \in transactionList \/ m \notin Issued

\* Who gives up has sent everything, and nothing is sent after the end.
GivenUpLate(m) ==
    m \notin transactionList =>
        /\ sent[m] <= COAP_MAX_RETRANSMIT + 1
        /\ result[m] = "timeout" /\ ~transaction[m].ack_received /\ ~closed
              => sent[m] = COAP_MAX_RETRANSMIT + 1

Accounted(m) == Counted(m) /\ ResultFits(m) /\ GivenUpLate(m)

\* A datagram with a request's token carries an answer its peer gave, and one
\* that denies a request comes from its peer or from an earlier run.
AnswersGenuine ==
    \A d \in net :
        /\ d.token # NoToken => d.code \in answers[d.token]
        /\ d.code = "401" /\ d.mid # NoMid => Denied(d.mid)

AccountOK == (\A m \in Mids : Accounted(m)) /\ AnswersGenuine

\* A step that leaves a request alone leaves its account as it was.
LEMMA Untouched ==
    ASSUME NEW m \in Mids, Accounted(m),
           m \in transactionList' <=> m \in transactionList,
           m \in Issued' <=> m \in Issued,
           transaction'[m] = transaction[m], sent'[m] = sent[m], result'[m] = result[m],
           handled'[m] = handled[m], answers'[m] = answers[m], closed => closed'
    PROVE  Accounted(m)'
BY DEF Accounted, Counted, ResultFits, GivenUpLate

\* A request that is issued, and sent once, by the caller or by a callback.
LEMMA IssuedOnce ==
    ASSUME TypeOK, NEW m \in Mids, Accounted(m), m \notin Issued,
           m \in transactionList', m \in Issued',
           transaction'[m].retrans_counter = 2, sent'[m] = sent[m] + 1,
           result'[m] = result[m], handled'[m] = handled[m], answers'[m] = answers[m]
    PROVE  Accounted(m)'
<1>1. sent[m] = 0 /\ handled[m] = 0 /\ answers[m] = {} /\ result[m] = "none"
      BY DEF Accounted, Counted, ResultFits, TypeOK
<1>2. sent'[m] = 1 /\ handled'[m] <= sent'[m] /\ sent'[m] = transaction'[m].retrans_counter - 1
      BY <1>1
<1>. QED
     BY <1>1, <1>2 DEF Accounted, Counted, ResultFits, GivenUpLate

\* A listed request has at most its 1 + COAP_MAX_RETRANSMIT copies, and all of
\* them when it is given up without an ACK.
LEMMA ListedCopies ==
    ASSUME TypeOK, NEW m \in transactionList, Accounted(m)
    PROVE  /\ m \in Mids /\ sent[m] <= COAP_MAX_RETRANSMIT + 1 /\ result[m] = "none"
           /\ GivesUp(transaction[m]) /\ ~transaction[m].ack_received =>
                 sent[m] = COAP_MAX_RETRANSMIT + 1
<1>1. m \in Mids
      BY Ids
<1>2. transaction[m].retrans_counter \in 0..(COAP_MAX_RETRANSMIT + 2)
      BY <1>1 DEF TypeOK, Transactions
<1>3. sent[m] = transaction[m].retrans_counter - 1 /\ result[m] = "none"
      BY <1>1 DEF Accounted, Counted, ResultFits
<1>. QED
     BY <1>1, <1>2, <1>3, BoundsAssumption DEF BoundsAssumption, GivesUp

\* A request that leaves the list with a result has sent no more than it may.
LEMMA EndedOnce ==
    ASSUME TypeOK, NEW m \in transactionList, Accounted(m),
           m \notin transactionList', m \in Issued', sent'[m] = sent[m],
           handled'[m] = handled[m], answers'[m] = answers[m],
           result'[m] \notin {"none", "refused"},
           \/ result'[m] # "timeout" \/ closed'
           \/ GivesUp(transaction[m]) /\ transaction'[m] = transaction[m]
    PROVE  Accounted(m)'
BY ListedCopies DEF Accounted, Counted, ResultFits, GivenUpLate

\* A peer that handles a copy says what it says in datagrams with the request's
\* token or none, and denies it in one with its id.
HandleAdds(m, said) ==
    /\ answers' = [answers EXCEPT ![m] = @ \cup said]
    /\ net \subseteq net'
    /\ \A k \in Mids : answers[k] \subseteq answers'[k]
    /\ \A k \in Mids : k # m => answers'[k] = answers[k]
    /\ \A d \in net' \ net :
          /\ d.token # NoToken => d.token = m /\ d.code \in answers'[m]
          /\ d.code = "401" => d.mid = m /\ "401" \in answers'[m]

LEMMA HandleEffect ==
    ASSUME TypeOK, NEW m \in Mids, NEW reply \in Replies, Handle(m, reply)
    PROVE  /\ handled[m] < sent[m] /\ UNCHANGED <<transactionList, result>>
           /\ \E said \in {{}, {"ok"}, {"401"}} : HandleAdds(m, said)
<1>0. handled[m] < sent[m] /\ UNCHANGED <<transactionList, result>>
      BY DEF Handle, list, callbacks
<1>1. answers \in [Mids -> SUBSET {"ok", "401"}]
      BY DEF TypeOK
<1>2. ASSUME NEW said \in {{}, {"ok"}, {"401"}}, answers' = [answers EXCEPT ![m] = @ \cup said]
      PROVE  /\ answers'[m] = answers[m] \cup said
             /\ \A k \in Mids : answers[k] \subseteq answers'[k]
             /\ \A k \in Mids : k # m => answers'[k] = answers[k]
      BY <1>1, <1>2
<1>3. CASE /\ net' = net \cup {Datagram("ACK", m, m, "ok")}
           /\ answers' = [answers EXCEPT ![m] = @ \cup {"ok"}]
  <2>1. HandleAdds(m, {"ok"})
    <3>1. \A d \in net' \ net : d = Datagram("ACK", m, m, "ok")
          BY <1>3
    <3>2. ASSUME NEW d \in net' \ net
          PROVE  /\ d.token # NoToken => d.token = m /\ d.code \in answers'[m]
                 /\ d.code = "401" => d.mid = m /\ "401" \in answers'[m]
          BY <1>2, <1>3, <3>1 DEF Datagram
    <3>. QED
         BY <1>2, <1>3, <3>2 DEF HandleAdds
  <2>. QED
       BY <2>1, <1>0
<1>4. CASE /\ net' = net \cup {Datagram("ACK", m, m, "401")}
           /\ answers' = [answers EXCEPT ![m] = @ \cup {"401"}]
  <2>1. HandleAdds(m, {"401"})
    <3>1. \A d \in net' \ net : d = Datagram("ACK", m, m, "401")
          BY <1>4
    <3>2. ASSUME NEW d \in net' \ net
          PROVE  /\ d.token # NoToken => d.token = m /\ d.code \in answers'[m]
                 /\ d.code = "401" => d.mid = m /\ "401" \in answers'[m]
          BY <1>2, <1>4, <3>1 DEF Datagram
    <3>. QED
         BY <1>2, <1>4, <3>2 DEF HandleAdds
  <2>. QED
       BY <2>1, <1>0
<1>5. CASE /\ \E mid \in Mids \cup {NoMid} :
                 net' = net \cup {Datagram("ACK", m, m, "empty"), Datagram("CON", m, mid, "ok")}
           /\ answers' = [answers EXCEPT ![m] = @ \cup {"ok"}]
  <2>1. HandleAdds(m, {"ok"})
    <3>1. \A d \in net' \ net : \E mid \in Mids \cup {NoMid} :
             d \in {Datagram("ACK", m, m, "empty"), Datagram("CON", m, mid, "ok")}
          BY <1>5
    <3>2. ASSUME NEW d \in net' \ net
          PROVE  /\ d.token # NoToken => d.token = m /\ d.code \in answers'[m]
                 /\ d.code = "401" => d.mid = m /\ "401" \in answers'[m]
          BY <1>2, <1>5, <3>1 DEF Datagram
    <3>. QED
         BY <1>2, <1>5, <3>2 DEF HandleAdds
  <2>. QED
       BY <2>1, <1>0
<1>6. CASE net' = net \cup {Datagram("RST", m, m, "empty")} /\ UNCHANGED answers
  <2>1. answers' = [answers EXCEPT ![m] = @ \cup {}]
        BY <1>1, <1>6
  <2>2. HandleAdds(m, {})
    <3>1. \A d \in net' \ net : d = Datagram("RST", m, m, "empty")
          BY <1>6
    <3>2. ASSUME NEW d \in net' \ net
          PROVE  d.token = NoToken /\ d.code # "401"
          BY <3>1 DEF Datagram
    <3>. QED
         BY <1>2, <1>6, <2>1, <3>2 DEF HandleAdds
  <2>. QED
       BY <2>2, <1>0
<1>. QED
     BY <1>3, <1>4, <1>5, <1>6 DEF Handle

\* Every step keeps copies, results and the network in agreement.
LEMMA AccountsStep ==
    ASSUME TypeOK, TypeOK', AccountOK, [Next]_vars
    PROVE  AccountOK'
<1>0. \A m \in Mids : Accounted(m)
      BY DEF AccountOK
<1>a. ASSUME net' \subseteq net, UNCHANGED answers
      PROVE  AnswersGenuine'
      BY <1>a DEF AccountOK, AnswersGenuine, Denied
<1>1. ASSUME NEW p \in Peers, NEW tokened \in BOOLEAN, Request(p, tokened)
      PROVE  AccountOK'
  <2>1. /\ nextMID \in Mids /\ nextMID' = nextMID + 1
        /\ transactionList' = transactionList \cup {nextMID}
        /\ transaction' = [transaction EXCEPT ![nextMID] = Send(NewTransaction(p, tokened))]
        /\ sent' = [sent EXCEPT ![nextMID] = 1]
        /\ UNCHANGED <<closed, result, net, handled, answers>>
        BY <1>1 DEF Request, MayRequest, callbacks, peers
  <2>2. Issued' = Issued \cup {nextMID} /\ nextMID \notin Issued
        BY <2>1, Ids
  <2>3. Send(NewTransaction(p, tokened)).retrans_counter = 2
        BY SendNewType DEF TypeOK
  <2>4. ASSUME NEW m \in Mids
        PROVE  Accounted(m)'
    <3>1. Accounted(m)
          BY <1>0
    <3>2. CASE m = nextMID
      <4>1. transaction'[m].retrans_counter = 2
            BY <2>1, <2>3, <3>2 DEF TypeOK
      <4>2. sent'[m] = sent[m] + 1
        <5>1. sent[m] = 0
              BY <2>2, <3>1, <3>2 DEF Accounted, Counted
        <5>2. sent'[m] = 1
              BY <2>1, <3>2 DEF TypeOK
        <5>. QED
             BY <5>1, <5>2
      <4>. QED
           BY <2>1, <2>2, <3>1, <3>2, <4>1, <4>2, IssuedOnce
    <3>3. CASE m # nextMID
          BY <2>1, <2>2, <3>1, <3>3, Untouched DEF TypeOK
    <3>. QED
         BY <3>2, <3>3
  <2>. QED
       BY <2>1, <2>4, <1>a DEF AccountOK
<1>2. CASE RequestRefused
  <2>1. /\ nextMID \in Mids /\ nextMID' = nextMID + 1
        /\ result' = [result EXCEPT ![nextMID] = "refused"]
        /\ UNCHANGED <<closed, transactionList, transaction, sent, net, handled, answers>>
        BY <1>2 DEF RequestRefused, MayRequest, peers
  <2>2. Issued' = Issued \cup {nextMID} /\ nextMID \notin Issued
        /\ transactionList \subseteq Issued
        BY <2>1, Ids
  <2>3. ASSUME NEW m \in Mids
        PROVE  Accounted(m)'
    <3>1. Accounted(m)
          BY <1>0
    <3>2. CASE m = nextMID
      <4>1. sent[m] = 0 /\ handled[m] = 0 /\ result'[m] = "refused" /\ m \notin transactionList
            BY <2>1, <2>2, <3>1, <3>2 DEF Accounted, Counted, TypeOK
      <4>2. 0 <= COAP_MAX_RETRANSMIT + 1
            BY BoundsAssumption DEF BoundsAssumption
      <4>. QED
           BY <2>1, <2>2, <3>2, <4>1, <4>2 DEF Accounted, Counted, ResultFits, GivenUpLate
    <3>3. CASE m # nextMID
          BY <2>1, <2>2, <3>1, <3>3, Untouched DEF TypeOK
    <3>. QED
         BY <3>2, <3>3
  <2>. QED
       BY <2>1, <2>3, <1>a DEF AccountOK
<1>3. ASSUME NEW d \in net, NEW keep \in BOOLEAN, Receive(d, keep)
      PROVE  AccountOK'
  <2>1. /\ net' \subseteq net
        /\ UNCHANGED <<closed, nextMID, sent, handled, answers>>
        /\ \A m \in Mids : m \notin transactionList => transaction'[m] = transaction[m]
        /\ \A m \in transactionList :
              transaction'[m].retrans_counter = transaction[m].retrans_counter
        BY <1>3, ReceiveEffect DEF peers
  <2>2. Issued' = Issued
        BY <2>1 DEF Issued
  <2>3. ASSUME NEW m \in Mids, m \in transactionList' <=> m \in transactionList,
               result'[m] = result[m]
        PROVE  Accounted(m)'
    <3>1. Accounted(m)
          BY <1>0
    <3>2. CASE m \in transactionList
          BY <2>1, <2>2, <2>3, <3>1, <3>2 DEF Accounted, Counted, ResultFits, GivenUpLate
    <3>3. CASE m \notin transactionList
          BY <2>1, <2>2, <2>3, <3>1, <3>3, Untouched
    <3>. QED
         BY <3>2, <3>3
  <2>4. CASE UNCHANGED <<transactionList, callbacks>>
        BY <2>1, <2>3, <2>4, <1>a DEF AccountOK, callbacks
  <2>5. CASE \E m \in transactionList, r \in Results \ {"none", "refused", "timeout"} :
                 transactionList' = transactionList \ {m} /\ CallbackEach({m}, r)
    <3>. PICK n \in transactionList, r \in Results \ {"none", "refused", "timeout"} :
            transactionList' = transactionList \ {n} /\ CallbackEach({n}, r)
         BY <2>5
    <3>1. \A m \in Mids : result'[m] = IF m = n THEN r ELSE result[m]
          BY DEF CallbackEach
    <3>2. ASSUME NEW m \in Mids
          PROVE  Accounted(m)'
      <4>1. CASE m = n
        <5>1. m \in transactionList /\ m \notin transactionList' /\ Accounted(m)
              BY <4>1, <1>0
        <5>2. result'[m] \notin {"none", "refused", "timeout"} /\ m \in Issued'
              BY <3>1, <4>1, <2>2, Ids
        <5>. QED
             BY <2>1, <5>1, <5>2, EndedOnce
      <4>2. CASE m # n
            BY <2>3, <3>1, <4>2
      <4>. QED
           BY <4>1, <4>2
    <3>. QED
         BY <2>1, <3>2, <1>a DEF AccountOK
  <2>. QED
       BY <1>3, <2>4, <2>5, ReceiveEffect
<1>4. CASE Walk
  <2>1. /\ UNCHANGED <<closed, nextMID, net, handled, answers>>
        /\ \/ UNCHANGED <<transactionList, transaction, callbacks, sent>>
           \/ Resends(transacP)
           \/ Expires(transacP)
        BY <1>4, WalkEffect DEF peers
  <2>2. Issued' = Issued
        BY <2>1 DEF Issued
  <2>3. CASE UNCHANGED <<transactionList, transaction, callbacks, sent>>
        BY <2>1, <2>2, <2>3, <1>0, <1>a, Untouched DEF AccountOK, callbacks
  <2>4. CASE Resends(transacP)
    <3>. DEFINE n == transacP
    <3>1. /\ n \in transactionList /\ n \in Mids /\ ~GivesUp(transaction[n])
          /\ transaction' = [transaction EXCEPT ![n] = Send(transaction[n])]
          /\ sent' = [sent EXCEPT ![n] = @ + 1]
          /\ UNCHANGED <<transactionList, result>>
          BY <2>4, Ids DEF Resends, callbacks
    <3>2. /\ transaction[n] \in Transactions /\ transaction[n].retrans_counter >= 2
          /\ sent[n] \in Nat /\ handled[n] \in Nat
          BY <3>1 DEF TypeOK
    <3>3. Send(transaction[n]).retrans_counter = transaction[n].retrans_counter + 1
          BY <3>1, <3>2, SendAgainType DEF TypeOK
    <3>4. ASSUME NEW m \in Mids
          PROVE  Accounted(m)'
      <4>1. CASE m = n
        <5>1. sent[n] = transaction[n].retrans_counter - 1 /\ handled[n] <= sent[n] /\ result[n] = "none"
              BY <3>1, <1>0 DEF Accounted, Counted, ResultFits
        <5>2. transaction'[n].retrans_counter = transaction[n].retrans_counter + 1 /\ sent'[n] = sent[n] + 1
              BY <3>1, <3>3 DEF TypeOK
        <5>3. transaction[n].retrans_counter \in Nat
              BY <3>2, BoundsAssumption DEF BoundsAssumption, Transactions
        <5>4. sent'[n] = transaction'[n].retrans_counter - 1 /\ handled'[n] <= sent'[n]
              BY <5>1, <5>2, <5>3, <3>2, <2>1
        <5>5. n \in Issued'
              BY <2>2, <3>1, Ids
        <5>. QED
             BY <4>1, <5>1, <5>4, <5>5, <3>1 DEF Accounted, Counted, ResultFits, GivenUpLate
      <4>2. CASE m # n
        <5>1. transaction'[m] = transaction[m] /\ sent'[m] = sent[m]
              BY <3>1, <4>2 DEF TypeOK
        <5>. QED
             BY <5>1, <3>1, <2>1, <2>2, <1>0, Untouched
      <4>. QED
           BY <4>1, <4>2
    <3>. QED
         BY <2>1, <3>4, <1>a DEF AccountOK
  <2>5. CASE Expires(transacP)
    <3>1. /\ transacP \in transactionList /\ GivesUp(transaction[transacP])
          /\ transactionList' = transactionList \ {transacP}
          /\ UNCHANGED <<transaction, sent>>
          /\ \A m \in Mids : result'[m] = IF m = transacP THEN "timeout" ELSE result[m]
          BY <2>5 DEF Expires, CallbackEach
    <3>2. ASSUME NEW m \in Mids
          PROVE  Accounted(m)'
      <4>1. CASE m = transacP
        <5>1. m \in transactionList /\ m \notin transactionList' /\ m \in Issued' /\ Accounted(m)
              BY <3>1, <4>1, <2>2, <1>0, Ids
        <5>2. result'[m] \notin {"none", "refused"}
              BY <3>1, <4>1
        <5>. QED
             BY <2>1, <3>1, <4>1, <5>1, <5>2, EndedOnce
      <4>2. CASE m # transacP
            BY <2>1, <2>2, <3>1, <4>2, <1>0, Untouched
      <4>. QED
           BY <4>1, <4>2
    <3>. QED
         BY <2>1, <3>2, <1>a DEF AccountOK
  <2>. QED
       BY <2>1, <2>3, <2>4, <2>5
<1>5. CASE Tick
  <2>1. UNCHANGED <<closed, nextMID, transactionList, transaction, result, net, sent, handled, answers>>
        BY <1>5 DEF Tick, list, callbacks, peers
  <2>2. Issued' = Issued
        BY <2>1 DEF Issued
  <2>. QED
       BY <2>1, <2>2, <1>0, <1>a, Untouched DEF AccountOK
<1>6. CASE Close
  <2>1. /\ closed' = TRUE /\ transactionList' = {}
        /\ UNCHANGED <<nextMID, transaction, net, sent, handled, answers>>
        /\ \A m \in Mids : result'[m] = IF m \in transactionList THEN "timeout" ELSE result[m]
        BY <1>6 DEF Close, CallbackEach, peers
  <2>2. Issued' = Issued
        BY <2>1 DEF Issued
  <2>3. ASSUME NEW m \in Mids
        PROVE  Accounted(m)'
    <3>1. Accounted(m)
          BY <1>0
    <3>2. CASE m \in transactionList
      <4>1. m \notin transactionList' /\ m \in Issued' /\ result'[m] = "timeout" /\ closed'
            BY <2>1, <2>2, <3>2, Ids
      <4>. QED
           BY <2>1, <3>1, <3>2, <4>1, EndedOnce
    <3>3. CASE m \notin transactionList
          BY <2>1, <2>2, <3>1, <3>3, Untouched
    <3>. QED
         BY <3>2, <3>3
  <2>. QED
       BY <2>1, <2>3, <1>a DEF AccountOK
<1>7. ASSUME NEW m \in Mids, NEW reply \in Replies, Handle(m, reply)
      PROVE  AccountOK'
  <2>1. /\ UNCHANGED <<closed, nextMID, transactionList, transaction, result, sent>>
        /\ handled[m] < sent[m] /\ handled' = [handled EXCEPT ![m] = @ + 1]
        BY <1>7 DEF Handle, loop, list, callbacks
  <2>2. Issued' = Issued
        BY <2>1 DEF Issued
  <2>3. \E said \in {{}, {"ok"}, {"401"}} : HandleAdds(m, said)
        BY <1>7, HandleEffect
  <2>. PICK said \in {{}, {"ok"}, {"401"}} : HandleAdds(m, said)
       BY <2>3
  <2>4. ASSUME NEW k \in Mids
        PROVE  Accounted(k)'
    <3>1. Accounted(k)
          BY <1>0
    <3>2. CASE k = m
      <4>1. handled[m] \in Nat /\ sent[m] \in Nat
            BY DEF TypeOK
      <4>2. handled'[m] <= sent'[m] /\ sent[m] # 0
        <5>1. handled'[m] = handled[m] + 1
              BY <2>1 DEF TypeOK
        <5>. QED
             BY <2>1, <4>1, <5>1
      <4>3. m \in Issued
            BY <3>1, <3>2, <4>2 DEF Accounted, Counted
      <4>. QED
           BY <2>1, <2>2, <3>1, <3>2, <4>2, <4>3 DEF Accounted, Counted, ResultFits, GivenUpLate
    <3>3. CASE k # m
      <4>1. handled'[k] = handled[k] /\ answers'[k] = answers[k]
            BY <2>1, <3>3 DEF TypeOK, HandleAdds
      <4>. QED
           BY <2>1, <2>2, <3>1, <4>1, Untouched
    <3>. QED
         BY <3>2, <3>3
  <2>5. AnswersGenuine'
    <3>1. \A k \in Mids : answers[k] \subseteq answers'[k]
          BY DEF HandleAdds
    <3>2. ASSUME NEW d \in net'
          PROVE  /\ d.token # NoToken => d.code \in answers'[d.token]
                 /\ d.code = "401" /\ d.mid # NoMid => Denied(d.mid)'
      <4>1. CASE d \in net
        <5>1. d.mid \in Mids \cup {NoMid} /\ d.token \in Mids \cup {NoToken}
              BY <4>1 DEF TypeOK, Messages
        <5>. QED
             BY <3>1, <4>1, <5>1 DEF AccountOK, AnswersGenuine, Denied
      <4>2. CASE d \notin net
            BY <4>2 DEF HandleAdds, Denied
      <4>. QED
           BY <4>1, <4>2
    <3>. QED
         BY <3>2 DEF AnswersGenuine
  <2>. QED
       BY <2>4, <2>5 DEF AccountOK
<1>8. CASE UNCHANGED vars
  <2>1. UNCHANGED <<closed, nextMID, transactionList, transaction, result, net, sent, handled, answers>>
        BY <1>8 DEF vars, loop, list, callbacks, peers
  <2>2. Issued' = Issued
        BY <2>1 DEF Issued
  <2>. QED
       BY <2>1, <2>2, <1>0, <1>a, Untouched DEF AccountOK
<1>. QED
     BY <1>1, <1>2, <1>3, <1>4, <1>5, <1>6, <1>7, <1>8 DEF Next, Endpoint

LEMMA AccountsAgree == SafeSpec => []AccountOK
<1>1. Init => AccountOK
  <2> SUFFICES ASSUME Init PROVE AccountOK
      OBVIOUS
  <2>1. Issued = {}
        BY DEF Init, Issued
  <2>2. ASSUME NEW m \in Mids
        PROVE  Accounted(m)
    <3>1. /\ m \notin transactionList /\ m \notin Issued /\ result[m] = "none"
          /\ sent[m] = 0 /\ handled[m] = 0 /\ answers[m] = {}
          BY <2>1 DEF Init
    <3>2. 0 <= COAP_MAX_RETRANSMIT + 1
          BY BoundsAssumption DEF BoundsAssumption
    <3>. QED
         BY <3>1, <3>2 DEF Accounted, Counted, ResultFits, GivenUpLate
  <2>3. AnswersGenuine
        BY PeerAssumption DEF PeerAssumption, Init, AnswersGenuine, Denied
  <2>. QED
       BY <2>2, <2>3 DEF AccountOK
<1>. QED
     BY <1>1, AccountsStep, TypeCorrect, PTL DEF SafeSpec

\* In every run, a request that got no ACK is given up only when all of its
\* copies were sent, and none is sent more often.
THEOREM GivesUpLast == SafeSpec => []GivenUpWhenExhausted
<1>1. TypeOK /\ AccountOK => GivenUpWhenExhausted
  <2> SUFFICES ASSUME TypeOK, AccountOK, NEW m \in Mids
               PROVE  /\ sent[m] <= COAP_MAX_RETRANSMIT + 1
                      /\ result[m] = "timeout" /\ ~transaction[m].ack_received /\ ~closed
                            => sent[m] = COAP_MAX_RETRANSMIT + 1
      BY DEF GivenUpWhenExhausted
  <2>1. Accounted(m)
        BY DEF AccountOK
  <2>2. CASE m \in transactionList
        BY <2>1, <2>2, ListedCopies
  <2>3. CASE m \notin transactionList
        BY <2>1, <2>3 DEF Accounted, GivenUpLate
  <2>. QED
       BY <2>2, <2>3
<1>. QED
     BY <1>1, TypeCorrect, AccountsAgree, PTL

-----------------------------------------------------------------------------
(* What a caller is promised *)

\* A request in the promise's terms.
State(m) == IF m \in transactionList THEN "waiting"
            ELSE IF result[m] = "none" THEN "idle" ELSE result[m]

\* Requests that are issued, refused or ended in one step, while no peer
\* answers, move as promised.
LEMMA Progresses ==
    ASSUME TypeOK', UNCHANGED answers,
           \A m \in Mids :
              \/ State(m)' = State(m)
              \/ State(m) = "idle" /\ State(m)' \in {"waiting", "refused"}
              \/ /\ State(m) = "waiting"
                 /\ State(m)' \in Results \ {"none", "refused"}
                 /\ State(m)' \in {"ok", "401"} => State(m)' \in answers[m]
    PROVE  Promise!Next
<1>1. ASSUME NEW m \in Mids
      PROVE  State(m)' \in Promise!States
      BY DEF State, Promise!States, Promise!Outcomes, TypeOK, Results
<1>2. ASSUME NEW m \in Mids
      PROVE  State(m)' = State(m) \/ Promise!Moves(m)
      BY DEF State, Promise!Moves, Promise!Outcomes, Results
<1>3. Promise!Progress
      BY <1>1, <1>2 DEF Promise!Progress, State
<1>. QED
     BY <1>3 DEF Promise!Next

\* In every run, requests wait and end as promised: each once, and with an
\* answer only when its peer gave it.
THEOREM ImplementsPromise == SafeSpec => KeepsPromise
<1>1. Init => Promise!Init
      BY DEF Init, Promise!Init
<1>2. TypeOK /\ TypeOK' /\ AccountOK /\ [Next]_vars => [Promise!Next]_Promise!vars
  <2> SUFFICES ASSUME TypeOK, TypeOK', AccountOK, [Next]_vars
               PROVE  Promise!Next \/ UNCHANGED Promise!vars
      OBVIOUS
  <2>0. ASSUME NEW m \in Mids
        PROVE  /\ m \in Issued \/ m \in transactionList \/ State(m) = "idle"
               /\ result[m] = "none" <=> m \in transactionList \/ m \notin Issued
        BY DEF AccountOK, Accounted, ResultFits, State
  <2>a. ASSUME UNCHANGED <<transactionList, result, answers>>
        PROVE  UNCHANGED Promise!vars
        BY <2>a DEF Promise!vars
  <2>1. ASSUME NEW p \in Peers, NEW tokened \in BOOLEAN, Request(p, tokened)
        PROVE  Promise!Next
    <3>1. /\ transactionList' = transactionList \cup {nextMID} /\ nextMID \notin Issued
          /\ UNCHANGED <<result, answers>>
          BY <2>1, Ids DEF Request, MayRequest, callbacks, peers
    <3>2. ASSUME NEW m \in Mids
          PROVE  \/ State(m)' = State(m)
                 \/ State(m) = "idle" /\ State(m)' = "waiting"
          BY <3>1, <2>0, Ids DEF State
    <3>. QED
         BY <3>1, <3>2, Progresses
  <2>2. CASE RequestRefused
    <3>1. /\ nextMID \notin Issued /\ result' = [result EXCEPT ![nextMID] = "refused"]
          /\ UNCHANGED <<transactionList, answers>>
          BY <2>2, Ids DEF RequestRefused, MayRequest, peers
    <3>2. ASSUME NEW m \in Mids
          PROVE  \/ State(m)' = State(m)
                 \/ State(m) = "idle" /\ State(m)' = "refused"
          BY <3>1, <2>0, Ids DEF State, TypeOK
    <3>. QED
         BY <3>1, <3>2, Progresses
  <2>3. ASSUME NEW d \in net, NEW keep \in BOOLEAN, Receive(d, keep)
        PROVE  Promise!Next \/ UNCHANGED Promise!vars
    <3>1. UNCHANGED answers
          BY <2>3, ReceiveEffect DEF peers
    <3>2. CASE UNCHANGED <<transactionList, callbacks>>
          BY <3>1, <3>2, <2>a DEF callbacks
    <3>3. CASE \E m \in transactionList, r \in Results \ {"none", "refused", "timeout"} :
                  /\ transactionList' = transactionList \ {m}
                  /\ CallbackEach({m}, r)
                  /\ r \in {"ok", "401"} => d.token = m /\ d.code = r
      <4>. PICK n \in transactionList, r \in Results \ {"none", "refused", "timeout"} :
              /\ transactionList' = transactionList \ {n}
              /\ CallbackEach({n}, r)
              /\ r \in {"ok", "401"} => d.token = n /\ d.code = r
           BY <3>3
      <4>1. n \in Mids /\ n # NoToken
            BY Ids DEF Mids, NoToken
      <4>2. r \in {"ok", "401"} => r \in answers[n]
            BY <4>1 DEF AccountOK, AnswersGenuine
      <4>3. \A m \in Mids : result'[m] = IF m = n THEN r ELSE result[m]
            BY DEF CallbackEach
      <4>4. ASSUME NEW m \in Mids
            PROVE  \/ State(m)' = State(m)
                   \/ /\ State(m) = "waiting"
                      /\ State(m)' \in Results \ {"none", "refused"}
                      /\ State(m)' \in {"ok", "401"} => State(m)' \in answers[m]
            BY <4>2, <4>3 DEF State, TypeOK, Results
      <4>. QED
           BY <3>1, <4>4, Progresses
    <3>. QED
         BY <2>3, <3>2, <3>3, ReceiveEffect
  <2>4. CASE Walk
    <3>1. /\ UNCHANGED answers
          /\ \/ UNCHANGED <<transactionList, result>>
             \/ Expires(transacP)
          BY <2>4, WalkEffect DEF peers, callbacks, Resends
    <3>2. CASE UNCHANGED <<transactionList, result>>
          BY <3>1, <3>2, <2>a
    <3>3. CASE Expires(transacP)
      <4>1. /\ transactionList' = transactionList \ {transacP} /\ transacP \in transactionList
            /\ \A m \in Mids : result'[m] = IF m = transacP THEN "timeout" ELSE result[m]
            BY <3>3 DEF Expires, CallbackEach
      <4>2. ASSUME NEW m \in Mids
            PROVE  \/ State(m)' = State(m)
                   \/ State(m) = "waiting" /\ State(m)' = "timeout"
            BY <4>1 DEF State
      <4>. QED
           BY <3>1, <4>2, Progresses DEF Results
    <3>. QED
         BY <3>1, <3>2, <3>3
  <2>5. CASE Tick
        BY <2>5, <2>a DEF Tick, list, callbacks, peers
  <2>6. CASE Close
    <3>1. /\ transactionList' = {} /\ UNCHANGED answers
          /\ \A m \in Mids : result'[m] = IF m \in transactionList THEN "timeout" ELSE result[m]
          BY <2>6 DEF Close, CallbackEach, peers
    <3>2. ASSUME NEW m \in Mids
          PROVE  \/ State(m)' = State(m)
                 \/ State(m) = "waiting" /\ State(m)' = "timeout"
          BY <3>1 DEF State
    <3>. QED
         BY <3>1, <3>2, Progresses DEF Results
  <2>7. ASSUME NEW m \in Mids, NEW reply \in Replies, Handle(m, reply)
        PROVE  Promise!Next \/ UNCHANGED Promise!vars
    <3>1. /\ handled[m] < sent[m] /\ UNCHANGED <<transactionList, result>>
          /\ \E said \in {{}, {"ok"}, {"401"}} : HandleAdds(m, said)
          BY <2>7, HandleEffect
    <3>. PICK said \in {{}, {"ok"}, {"401"}} : answers' = [answers EXCEPT ![m] = @ \cup said]
         BY <3>1 DEF HandleAdds
    <3>2. sent[m] # 0
          BY <3>1 DEF TypeOK
    <3>3. State(m) \notin {"idle", "refused"}
      <4>1. Accounted(m)
            BY DEF AccountOK
      <4>2. m \in Issued /\ result[m] # "refused"
            BY <3>2, <4>1 DEF Accounted, Counted
      <4>3. m \in transactionList \/ result[m] # "none"
            BY <4>1, <4>2 DEF Accounted, ResultFits
      <4>. QED
           BY <4>2, <4>3 DEF State, TypeOK, Results
    <3>4. CASE said = {}
          BY <3>1, <3>4, <2>a DEF TypeOK
    <3>5. CASE said # {}
      <4>1. Promise!Answer(m)
            BY <3>1, <3>3, <3>5 DEF Promise!Answer, State
      <4>. QED
           BY <4>1 DEF Promise!Next
    <3>. QED
         BY <3>4, <3>5
  <2>8. CASE UNCHANGED vars
        BY <2>8, <2>a DEF vars, list, callbacks, peers
  <2>. QED
       BY <2>1, <2>2, <2>3, <2>4, <2>5, <2>6, <2>7, <2>8 DEF Next, Endpoint
<1>. QED
     BY <1>1, <1>2, TypeCorrect, AccountsAgree, PTL DEF SafeSpec, KeepsPromise, Promise!SafeSpec

-----------------------------------------------------------------------------
(* How long a request takes *)

\* When x's next copy is due, if every copy went out when it was due and x is
\* not acknowledged: after 1, 3, 7... timeouts.
Planned(x) == x.start + COAP_RESPONSE_TIMEOUT * (2 ^ (x.retrans_counter - 1) - 1)

LastWait == COAP_RESPONSE_TIMEOUT * (COAP_MAX_RETRANSMIT + 2)

\* A transaction is due where its copies put it or, once acknowledged, one last
\* wait after that at most.
Punctual(x) ==
    IF x.ack_received
    THEN x.retrans_time <= x.start + COAP_MAX_TRANSMIT_WAIT + LastWait
    ELSE x.retrans_time = Planned(x)

\* ... as long as it was not denied.
OnSchedule == \A m \in transactionList : Denied(m) \/ Punctual(transaction[m])

\* The plan ends with COAP_MAX_TRANSMIT_WAIT.
LEMMA PlanEnds ==
    ASSUME NEW x \in Transactions, x.retrans_counter >= 2
    PROVE  /\ Planned(x) \in Nat /\ Planned(x) <= x.start + COAP_MAX_TRANSMIT_WAIT
           /\ COAP_MAX_TRANSMIT_WAIT \in Nat /\ LastWait \in Nat
           /\ COAP_RESPONSE_TIMEOUT * x.retrans_counter \in Nat
           /\ COAP_RESPONSE_TIMEOUT * x.retrans_counter <= LastWait
<1> DEFINE n == x.retrans_counter - 1
<1>1. /\ x.retrans_counter \in 2..(COAP_MAX_RETRANSMIT + 2) /\ x.start \in Nat
      /\ COAP_MAX_RETRANSMIT \in Nat /\ COAP_RESPONSE_TIMEOUT \in Nat
      BY BoundsAssumption DEF BoundsAssumption, Transactions
<1>2. /\ n \in 0..(COAP_MAX_RETRANSMIT + 1)
      /\ COAP_MAX_RETRANSMIT + 1 \in 0..(COAP_MAX_RETRANSMIT + 1)
      BY <1>1
<1>3. /\ 2 ^ n \in Nat \ {0} /\ 2 ^ (COAP_MAX_RETRANSMIT + 1) \in Nat \ {0}
      /\ 2 ^ n <= 2 ^ (COAP_MAX_RETRANSMIT + 1)
      BY <1>2, PowersAssumption DEF PowersAssumption
<1>4. ASSUME NEW t \in Nat, NEW a \in Nat, NEW b \in Nat, a <= b
      PROVE  t * a \in Nat /\ t * b \in Nat /\ t * a <= t * b
  <2>1. t * b = t * a + t * (b - a) /\ t * (b - a) \in Nat /\ t * a \in Nat
        BY <1>4
  <2>. QED
       BY <2>1
<1>5. PICK a \in Nat, b \in Nat : /\ a = 2 ^ n - 1 /\ a <= b
                                 /\ b = 2 ^ (COAP_MAX_RETRANSMIT + 1) - 1
  <2>1. ASSUME NEW k \in Nat \ {0}, NEW l \in Nat \ {0}, k <= l
        PROVE  k - 1 \in Nat /\ l - 1 \in Nat /\ k - 1 <= l - 1
        BY <2>1
  <2>. QED
       BY <1>3, <2>1
<1>6. /\ COAP_RESPONSE_TIMEOUT * a \in Nat /\ COAP_RESPONSE_TIMEOUT * b \in Nat
      /\ COAP_RESPONSE_TIMEOUT * a <= COAP_RESPONSE_TIMEOUT * b
      BY <1>1, <1>4, <1>5
<1>7. /\ COAP_RESPONSE_TIMEOUT * x.retrans_counter \in Nat
      /\ COAP_RESPONSE_TIMEOUT * (COAP_MAX_RETRANSMIT + 2) \in Nat
      /\ COAP_RESPONSE_TIMEOUT * x.retrans_counter <=
            COAP_RESPONSE_TIMEOUT * (COAP_MAX_RETRANSMIT + 2)
  <2>1. /\ x.retrans_counter \in Nat /\ COAP_MAX_RETRANSMIT + 2 \in Nat
        /\ x.retrans_counter <= COAP_MAX_RETRANSMIT + 2
        BY <1>1
  <2>. QED
       BY <1>1, <1>4, <2>1
<1>8. Planned(x) = x.start + COAP_RESPONSE_TIMEOUT * a
      BY <1>5 DEF Planned
<1>9. COAP_MAX_TRANSMIT_WAIT = COAP_RESPONSE_TIMEOUT * b
      BY <1>5 DEF COAP_MAX_TRANSMIT_WAIT
<1>10. ASSUME NEW u \in Nat, NEW v \in Nat, NEW w \in Nat, v <= w
       PROVE  u + v \in Nat /\ u + v <= u + w
       BY <1>10
<1>. QED
     BY <1>1, <1>6, <1>7, <1>8, <1>9, <1>10 DEF LastWait

\* A transaction just made and sent is punctual.
LEMMA NewPunctual ==
    ASSUME now \in Nat, NEW p \in Peers, NEW tokened \in BOOLEAN
    PROVE  Punctual(Send(NewTransaction(p, tokened)))
<1> DEFINE y == [peer |-> p, tokened |-> tokened, ack_received |-> FALSE,
                 retrans_counter |-> 2, retrans_time |-> now + COAP_RESPONSE_TIMEOUT,
                 start |-> now]
<1>1. Send(NewTransaction(p, tokened)) = y
      BY DEF Send, NewTransaction
<1>2. 2 ^ 1 = 2
      BY PowersAssumption, BoundsAssumption DEF PowersAssumption, BoundsAssumption
<1>3. Planned(y) = now + COAP_RESPONSE_TIMEOUT
      BY <1>2, BoundsAssumption DEF BoundsAssumption, Planned
<1>. QED
     BY <1>1, <1>3 DEF Punctual

\* A punctual one that is sent again stays punctual.
LEMMA AgainPunctual ==
    ASSUME NEW x \in Transactions, x.retrans_counter >= 2, ~GivesUp(x), Punctual(x)
    PROVE  Punctual(Send(x))
<1> DEFINE n == x.retrans_counter - 1
           y == [peer |-> x.peer, tokened |-> x.tokened, ack_received |-> x.ack_received,
                 retrans_counter |-> x.retrans_counter + 1,
                 retrans_time |-> x.retrans_time + COAP_RESPONSE_TIMEOUT * 2 ^ n,
                 start |-> x.start]
<1>1. /\ x.retrans_counter \in Nat /\ n \in 0..(COAP_MAX_RETRANSMIT + 1)
      /\ x.start \in Nat /\ COAP_RESPONSE_TIMEOUT \in Nat
      BY BoundsAssumption DEF BoundsAssumption, Transactions
<1>2. Send(x) = y
  <2>1. x.retrans_counter # 0
        BY <1>1
  <2>. QED
       BY <2>1 DEF Send, Transactions
<1>3. PICK k \in Nat \ {0} : k = 2 ^ n /\ 2 ^ (n + 1) = 2 * k
      BY <1>1, PowersAssumption DEF PowersAssumption
<1>4. ~x.ack_received /\ x.retrans_time = x.start + COAP_RESPONSE_TIMEOUT * (k - 1)
      BY <1>3 DEF GivesUp, Punctual, Planned
<1>5. y.retrans_counter - 1 = n + 1
      BY <1>1
<1>6. Planned(y) = x.start + COAP_RESPONSE_TIMEOUT * (2 * k - 1)
      BY <1>3, <1>5 DEF Planned
<1>7. ASSUME NEW s \in Nat, NEW t \in Nat
      PROVE  s + t * (k - 1) + t * k = s + t * (2 * k - 1)
      OBVIOUS
<1>8. y.retrans_time = x.start + COAP_RESPONSE_TIMEOUT * (k - 1) + COAP_RESPONSE_TIMEOUT * k
      BY <1>3, <1>4
<1>9. y.retrans_time = Planned(y)
      BY <1>1, <1>6, <1>7, <1>8
<1>. QED
     BY <1>2, <1>4, <1>9 DEF Punctual

\* What a delivered datagram does to the transactions that stay: it leaves
\* them alone, or acknowledges the one it names and gives it a last wait, or
\* denies it.
LEMMA ReceiveTimes ==
    ASSUME TypeOK, NEW d \in net, NEW keep \in BOOLEAN, Receive(d, keep),
           NEW m \in transactionList'
    PROVE  /\ m \in transactionList /\ m \in Mids
           /\ \/ transaction'[m] = transaction[m]
              \/ d.mid = m /\ d.code = "401"
              \/ /\ ~transaction[m].ack_received
                 /\ transaction'[m] =
                       [transaction[m] EXCEPT
                          !.ack_received = TRUE,
                          !.retrans_time =
                             now + COAP_RESPONSE_TIMEOUT * transaction[m].retrans_counter]
<1> DEFINE n == d.mid
           x == Seen(n, d)
<1>1. m \in transactionList /\ transactionList \subseteq Mids
      BY ReceiveEffect, Ids
<1>2. CASE UNCHANGED <<transaction, transactionList, callbacks>>
      BY <1>1, <1>2
<1>3. CASE n \in transactionList /\ HandleResponse(n, d)
  <2>1. transaction[n] \in Transactions
        BY <1>1, <1>3 DEF TypeOK
  <2>2. ASSUME NEW y, NEW t, Rearm(n, y, t), m # n
        PROVE  transaction'[m] = transaction[m]
        BY <1>1, <2>2 DEF Rearm, TypeOK
  <2>3. CASE /\ Finishes(n, d) /\ Denies(n, d)
             /\ Rearm(n, [x EXCEPT !.ack_received = FALSE],
                      x.retrans_time + COAP_RESPONSE_TIMEOUT)
        BY <1>1, <2>2, <2>3 DEF Denies
  <2>4. CASE /\ transaction' = [transaction EXCEPT ![n] = x]
             /\ transactionList' = transactionList \ {n}
        BY <1>1, <2>4 DEF TypeOK
  <2>5. CASE Found(n, d) /\ Rearm(n, x, now + COAP_RESPONSE_TIMEOUT * x.retrans_counter)
    <3>1. x = [transaction[n] EXCEPT !.ack_received = TRUE] /\ ~transaction[n].ack_received
          BY <2>1, <2>5 DEF Seen, Found, Transactions
    <3>2. x.retrans_counter = transaction[n].retrans_counter
          BY <2>1, <3>1 DEF Transactions
    <3>3. CASE m = n
      <4>1. transaction'[n] = [x EXCEPT !.retrans_time =
                                  now + COAP_RESPONSE_TIMEOUT * x.retrans_counter]
            BY <1>1, <1>3, <2>5 DEF Rearm, TypeOK
      <4>. QED
           BY <1>1, <2>1, <3>1, <3>2, <3>3, <4>1 DEF Transactions
    <3>. QED
         BY <1>1, <2>2, <2>5, <3>3
  <2>. QED
       BY <1>1, <1>2, <1>3, <2>3, <2>4, <2>5 DEF HandleResponse
<1>. QED
     BY <1>2, <1>3 DEF Receive

LEMMA ScheduleKept ==
    ASSUME TypeOK, TypeOK', AccountOK, NeverOverdue, OnSchedule, [Next]_vars
    PROVE  OnSchedule'
<1>0. /\ transactionList \subseteq Mids /\ now \in Nat /\ wake \in Nat
      /\ transaction \in [Mids -> Transactions]
      BY Ids DEF TypeOK
<1>a. ASSUME UNCHANGED <<transactionList, transaction, answers>>
      PROVE  OnSchedule'
      BY <1>a DEF OnSchedule, Denied
<1>b. ASSUME NEW m \in transactionList, UNCHANGED answers, transaction'[m] = transaction[m]
      PROVE  Denied(m)' \/ Punctual(transaction'[m])
      BY <1>b DEF OnSchedule, Denied
<1>1. ASSUME NEW p \in Peers, NEW tokened \in BOOLEAN, Request(p, tokened)
      PROVE  OnSchedule'
  <2>1. /\ transactionList' = transactionList \cup {nextMID} /\ nextMID \in Mids
        /\ transaction' = [transaction EXCEPT ![nextMID] = Send(NewTransaction(p, tokened))]
        /\ UNCHANGED answers
        BY <1>1 DEF Request, MayRequest, peers
  <2>2. ASSUME NEW m \in transactionList'
        PROVE  Denied(m)' \/ Punctual(transaction'[m])
    <3>1. CASE m = nextMID
      <4>1. transaction'[m] = Send(NewTransaction(p, tokened))
            BY <2>1, <3>1, <1>0
      <4>. QED
           BY <4>1, <1>0, NewPunctual
    <3>2. CASE m # nextMID
      <4>1. m \in transactionList /\ transaction'[m] = transaction[m]
            BY <2>1, <2>2, <3>2, <1>0
      <4>. QED
           BY <4>1, <2>1, <1>b
    <3>. QED
         BY <3>1, <3>2
  <2>. QED
       BY <2>2 DEF OnSchedule, Punctual, Planned
<1>2. ASSUME NEW d \in net, NEW keep \in BOOLEAN, Receive(d, keep)
      PROVE  OnSchedule'
  <2>1. UNCHANGED answers
        BY <1>2, ReceiveEffect DEF peers
  <2>2. ASSUME NEW m \in transactionList'
        PROVE  Denied(m)' \/ Punctual(transaction'[m])
    <3>1. m \in transactionList /\ m \in Mids /\ m # NoMid
      <4>1. m \in transactionList /\ m \in Mids
            BY <1>2, ReceiveTimes
      <4>. QED
           BY <4>1, BoundsAssumption DEF BoundsAssumption, Mids, NoMid
    <3>2. CASE transaction'[m] = transaction[m]
          BY <2>1, <3>1, <3>2, <1>b
    <3>3. CASE d.mid = m /\ d.code = "401"
          BY <2>1, <3>1, <3>3 DEF AccountOK, AnswersGenuine, Denied
    <3>4. CASE /\ ~transaction[m].ack_received
               /\ transaction'[m] =
                     [transaction[m] EXCEPT
                        !.ack_received = TRUE,
                        !.retrans_time =
                           now + COAP_RESPONSE_TIMEOUT * transaction[m].retrans_counter]
      <4>. PICK x \in Transactions : x = transaction[m]
           BY <3>1, <1>0
      <4>. PICK y : y = transaction'[m]
           OBVIOUS
      <4>1. /\ x.retrans_counter >= 2 /\ now <= wake /\ wake <= x.retrans_time
            /\ x.retrans_time \in Nat /\ x.start \in Nat
            BY <3>1 DEF TypeOK, NeverOverdue, Transactions
      <4>2. CASE Denied(m)
            BY <4>2, <2>1 DEF Denied
      <4>3. CASE Punctual(x)
        <5>1. x.retrans_time = Planned(x)
              BY <3>4, <4>3 DEF Punctual
        <5>2. PICK w \in Nat, l \in Nat, c \in Nat :
                 /\ w = COAP_MAX_TRANSMIT_WAIT /\ l = LastWait
                 /\ c = COAP_RESPONSE_TIMEOUT * x.retrans_counter /\ c <= l
                 /\ Planned(x) <= x.start + w
              BY <4>1, PlanEnds
        <5>3. y.ack_received /\ y.retrans_time = now + c /\ y.start = x.start
              BY <3>4, <5>2 DEF Transactions
        <5>4. now + c <= x.start + w + l
              BY <1>0, <4>1, <5>1, <5>2
        <5>. QED
             BY <5>2, <5>3, <5>4 DEF Punctual
      <4>. QED
           BY <3>1, <4>2, <4>3 DEF OnSchedule
    <3>. QED
         BY <1>2, <3>2, <3>3, <3>4, ReceiveTimes
  <2>. QED
       BY <2>2 DEF OnSchedule, Punctual, Planned
<1>3. CASE Walk
  <2>1. /\ UNCHANGED answers
        /\ \/ UNCHANGED <<transactionList, transaction>>
           \/ Resends(transacP)
           \/ Expires(transacP)
        BY <1>3, WalkEffect DEF peers
  <2>2. CASE UNCHANGED <<transactionList, transaction>>
        BY <2>1, <2>2, <1>a
  <2>3. CASE Resends(transacP)
    <3>1. ASSUME NEW m \in transactionList'
          PROVE  Denied(m)' \/ Punctual(transaction'[m])
      <4>1. CASE m = transacP
        <5>1. /\ m \in transactionList /\ ~GivesUp(transaction[m])
              /\ transaction'[m] = Send(transaction[m])
              BY <2>3, <4>1, <1>0 DEF Resends
        <5>2. transaction[m] \in Transactions /\ transaction[m].retrans_counter >= 2
              BY <5>1, <1>0 DEF TypeOK
        <5>3. CASE Denied(m)
              BY <5>3, <2>1 DEF Denied
        <5>4. CASE Punctual(transaction[m])
              BY <5>1, <5>2, <5>4, AgainPunctual
        <5>. QED
             BY <5>1, <5>3, <5>4 DEF OnSchedule
      <4>2. CASE m # transacP
        <5>1. m \in transactionList /\ transaction'[m] = transaction[m]
              BY <2>3, <4>2, <1>0 DEF Resends
        <5>. QED
             BY <5>1, <2>1, <1>b
      <4>. QED
           BY <4>1, <4>2
    <3>. QED
         BY <3>1 DEF OnSchedule, Punctual, Planned
  <2>4. CASE Expires(transacP)
    <3>1. ASSUME NEW m \in transactionList'
          PROVE  Denied(m)' \/ Punctual(transaction'[m])
      <4>1. m \in transactionList /\ transaction'[m] = transaction[m]
            BY <2>4 DEF Expires
      <4>. QED
           BY <4>1, <2>1, <1>b
    <3>. QED
         BY <3>1 DEF OnSchedule, Punctual, Planned
  <2>. QED
       BY <2>1, <2>2, <2>3, <2>4
<1>4. CASE RequestRefused
      BY <1>4, <1>a DEF RequestRefused, MayRequest, peers
<1>5. CASE Tick
      BY <1>5, <1>a DEF Tick, list, peers
<1>6. CASE Close
      BY <1>6 DEF Close, OnSchedule
<1>7. ASSUME NEW m \in Mids, NEW reply \in Replies, Handle(m, reply)
      PROVE  OnSchedule'
  <2>1. /\ UNCHANGED <<transactionList, transaction>>
        /\ \A k \in Mids : answers[k] \subseteq answers'[k]
        BY <1>7, HandleEffect DEF HandleAdds, Handle, list
  <2>. QED
       BY <2>1, <1>0 DEF OnSchedule, Denied
<1>8. CASE UNCHANGED vars
      BY <1>8, <1>a DEF vars, list, peers
<1>. QED
     BY <1>1, <1>2, <1>3, <1>4, <1>5, <1>6, <1>7, <1>8 DEF Next, Endpoint

\* In every run, a request that was not denied is over within
\* COAP_MAX_TRANSMIT_WAIT, and one last wait when it was acknowledged.
THEOREM EndsInTime == SafeSpec => []OverInTime
<1>1. Init => OnSchedule
      BY DEF Init, OnSchedule
<1>2. TypeOK /\ NeverOverdue /\ OnSchedule => OverInTime
  <2> SUFFICES ASSUME TypeOK, NeverOverdue, OnSchedule,
                      NEW m \in transactionList, ~Denied(m)
               PROVE  now - transaction[m].start <=
                         COAP_MAX_TRANSMIT_WAIT +
                         (IF transaction[m].ack_received THEN LastWait ELSE 0)
      BY DEF OverInTime, LastWait
  <2>. PICK x \in Transactions : x = transaction[m]
       BY Ids DEF TypeOK
  <2>1. /\ x.retrans_counter >= 2 /\ now <= wake /\ wake <= x.retrans_time
        /\ now \in Nat /\ wake \in Nat /\ x.retrans_time \in Nat /\ x.start \in Nat
        BY DEF TypeOK, NeverOverdue, Transactions
  <2>2. PICK w \in Nat, l \in Nat :
           /\ w = COAP_MAX_TRANSMIT_WAIT /\ l = LastWait /\ Planned(x) <= x.start + w
        BY <2>1, PlanEnds
  <2>3. Punctual(x)
        BY DEF OnSchedule
  <2>4. CASE x.ack_received
    <3>1. x.retrans_time <= x.start + w + l
          BY <2>2, <2>3, <2>4 DEF Punctual
    <3>2. now - x.start <= w + l
          BY <2>1, <3>1
    <3>. QED
         BY <2>2, <2>4, <3>2
  <2>5. CASE ~x.ack_received
    <3>1. x.retrans_time <= x.start + w
          BY <2>2, <2>3, <2>5 DEF Punctual
    <3>2. now - x.start <= w + 0
          BY <2>1, <3>1
    <3>. QED
         BY <2>2, <2>5, <3>2
  <2>. QED
       BY <2>4, <2>5
<1>. QED
     BY <1>1, <1>2, ScheduleKept, TypeCorrect, AccountsAgree, NeverSleepsPast, PTL DEF SafeSpec
=============================================================================
