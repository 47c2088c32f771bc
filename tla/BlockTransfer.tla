--------------------------- MODULE BlockTransfer ---------------------------
(***************************************************************************)
(* Writing a long payload in blocks (CoAP Block1): the sender's half of    *)
(* core/packet.c (prv_send_new_block1 and its callers), the receiver's     *)
(* coap_block1_handler (coap/block.c) and the part of lwm2m_handle_packet  *)
(* around it.  Both ends run this library, a server that writes and a      *)
(* client that is written to, on one URI.                                  *)
(*                                                                         *)
(* A payload is the sequence of its units; a unit is the smallest block,   *)
(* 16 bytes, and stands for the transfer and the place it is from.  Each   *)
(* block is a reliable request of its own (Transaction): it may be sent    *)
(* again until it ends, and ends once.                                     *)
(*                                                                         *)
(* orderly tells two environments apart.  In the orderly one the user      *)
(* writes to the URI again when the write before is over, and requests do  *)
(* not overtake one another; otherwise neither holds.  Both lose           *)
(* datagrams.  Memory does not run out.                                    *)
(***************************************************************************)
EXTENDS Naturals, Sequences, FiniteSets

CONSTANTS
    MaxTransfers,   \* bound: writes of the user
    Lengths,        \* payload lengths, in units
    BlockSize,      \* the sender's lwm2m_get_coap_block_size()
    PeerBlockSizes, \* the receiver's
    MaxCopies       \* bound: requests sent again, in each environment

Transfers == 1..MaxTransfers

ASSUME SizesAssumption ==
    /\ MaxTransfers \in Nat /\ MaxCopies \in [BOOLEAN -> Nat]
    /\ BlockSize \in Nat \ {0}
    /\ PeerBlockSizes \subseteq Nat \ {0}
    /\ Lengths \subseteq Nat \ {0}

VARIABLES
    orderly,        \* the environment
    peerBlockSize,  \* the receiver's block size
    length,         \* the payload length of each write so far
    nextMID,        \* contextP->nextMID
    transactionList, \* the requests that are not over
    told,           \* what the callback of each write was told last
    copies,         \* requests sent again so far
    requests,       \* requests on their way, the oldest first
    answers,        \* answers on their way
    blockData,      \* the receiver's lwm2m_block_data_t of the URI
    delivered       \* the payloads given to handle_request

sender == <<length, nextMID, transactionList, told, copies>>
receiver == <<blockData, delivered>>
vars == <<orderly, peerBlockSize, sender, requests, answers, receiver>>

Transaction == [mid : Nat, transfer : Transfers, block1 : BOOLEAN, num : Nat, size : Nat]
Codes == {"continue", "ok", "error", "incomplete", "too large"}
Answer == [mid : Nat, code : Codes, block1 : BOOLEAN, num : Nat, size : Nat]
NoBlock == [num |-> 0, units |-> <<>>]

Payload(t) == [k \in 1..length[t] |-> <<t, k>>]

Least(a, b) == IF a < b THEN a ELSE b

\* Mutant of what says whether more follow: this block is counted twice.
MutMore(x) ==
    (IF x.block1 THEN (x.num + 2) * x.size ELSE length[x.transfer]) < length[x.transfer]

\* The units a request carries, and whether more follow it.
First(x) == IF x.block1 THEN x.num * x.size ELSE 0
Last(x) == IF x.block1 THEN Least(First(x) + x.size, length[x.transfer]) ELSE length[x.transfer]
Units(x) == SubSeq(Payload(x.transfer), First(x) + 1, Last(x))
More(x) == Last(x) < length[x.transfer]

-----------------------------------------------------------------------------
Init ==
    /\ orderly \in BOOLEAN
    /\ peerBlockSize \in PeerBlockSizes
    /\ length = <<>>
    /\ nextMID = 1
    /\ transactionList = {}
    /\ told = [t \in Transfers |-> "none"]
    /\ copies = 0
    /\ requests = <<>> /\ answers = {}
    /\ blockData = NoBlock
    /\ delivered = {}

-----------------------------------------------------------------------------
(* The sender *)

\* The requests of xs, at most one, are sent and may be lost; one that others
\* overtake may as well stay on its way for ever.
Transmit(xs) ==
    \/ (xs = {} \/ orderly) /\ UNCHANGED requests
    \/ \E x \in xs : requests' = Append(requests, x)

\* lwm2m_dm_write, with transaction_set_payload: a long payload's first block.
Write(n) ==
    LET t == Len(length) + 1
        x == [mid |-> nextMID, transfer |-> t, block1 |-> n > BlockSize,
              num |-> 0, size |-> IF n > BlockSize THEN BlockSize ELSE 0]
    IN  /\ t \in Transfers
        /\ orderly => transactionList = {}
        /\ length' = Append(length, n)
        /\ nextMID' = nextMID + 1
        /\ transactionList' = transactionList \cup {x}
        /\ Transmit({x})
        /\ UNCHANGED <<orderly, peerBlockSize, told, copies, answers, receiver>>

\* An answer to a request that is over changes nothing, and is left out.
Others(x) == {a \in answers : a.mid # x.mid}
Awaited(x) == \E y \in transactionList : y.mid = x.mid

\* transaction_step sends a request again, or gives it up.
Again(x) ==
    /\ copies < MaxCopies[orderly]
    /\ copies' = copies + 1
    /\ requests' = Append(requests, x)
    /\ UNCHANGED <<orderly, peerBlockSize, length, nextMID, transactionList, told, answers, receiver>>

GiveUp(x) ==
    /\ transactionList' = transactionList \ {x}
    /\ told' = [told EXCEPT ![x.transfer] = "timeout"]
    /\ answers' = Others(x)
    /\ UNCHANGED <<orderly, peerBlockSize, length, nextMID, copies, requests, receiver>>

\* Mutant: the last block is left out.
MutNewBlock1Short(x, num, size) ==
    IF (num + 1) * size >= length[x.transfer] THEN {}
    ELSE {[mid |-> nextMID, transfer |-> x.transfer, block1 |-> TRUE, num |-> num, size |-> size]}

\* What comes next of the transfer of x, block num of blocks of that size:
\* a clone of x, or nothing when the payload is at its end.
NewBlock1(x, num, size) ==
    IF num * size >= length[x.transfer] THEN {}
    ELSE {[mid |-> nextMID, transfer |-> x.transfer, block1 |-> TRUE, num |-> num, size |-> size]}

\* prv_send_next_block1.  The first answer may ask for smaller blocks.
NextBlock1(x, size) ==
    LET s == IF size > x.size \/ size = 0 THEN x.size ELSE size
    IN  NewBlock1(x, IF x.num = 0 THEN x.size \div s ELSE x.num + 1, s)

\* prv_retry_block1: the same again in smaller blocks.
RetryBlock1(x, size) ==
    LET s == IF size = x.size /\ size > 1 THEN size \div 2 ELSE size
    IN  IF ~x.block1 THEN NewBlock1(x, 0, size)
        ELSE IF s >= x.size \/ s = 0 THEN {} ELSE NewBlock1(x, x.num, s)

\* lwm2m_handle_packet on the ACK of x: the next request goes out first, then
\* the callback is told of this one.
Following(x, a) ==
    IF ~a.block1 THEN {}
    ELSE IF a.code \in {"ok", "continue"} THEN NextBlock1(x, a.size)
    ELSE IF a.code = "too large" /\ a.num = 0 THEN RetryBlock1(x, a.size)
    ELSE {}

\* Mutant: the request that was answered stays on the list.
MutReceiveAnswer(a) ==
    \E x \in transactionList :
        /\ x.mid = a.mid
        /\ answers' = Others(x)
        /\ transactionList' = transactionList \cup Following(x, a)
        /\ nextMID' = nextMID + Cardinality(Following(x, a))
        /\ told' = [told EXCEPT ![x.transfer] = a.code]
        /\ Transmit(Following(x, a))
        /\ UNCHANGED <<orderly, peerBlockSize, length, copies, receiver>>

ReceiveAnswer(a) ==
    \E x \in transactionList :
        /\ x.mid = a.mid
        /\ answers' = Others(x)
        /\ transactionList' = (transactionList \ {x}) \cup Following(x, a)
        /\ nextMID' = nextMID + Cardinality(Following(x, a))
        /\ told' = [told EXCEPT ![x.transfer] = a.code]
        /\ Transmit(Following(x, a))
        /\ UNCHANGED <<orderly, peerBlockSize, length, copies, receiver>>

-----------------------------------------------------------------------------
(* The receiver *)

\* prv_coap_block_handler on block x.  A number that is not past the last one
\* is taken for a retransmission; one that skips some is not stored.
Fresh(x) == x.num = 0
Repeated(x) == x.num > 0 /\ blockData.units # <<>> /\ x.num <= blockData.num
Appends(x) ==
    /\ x.num > 0 /\ x.num = blockData.num + 1
    /\ Len(blockData.units) = x.size * x.num
Incomplete(x) ==
    /\ x.num > 0
    /\ \/ blockData.units = <<>>
       \/ x.num = blockData.num + 1 /\ ~Appends(x)

Stored(x) ==
    IF Fresh(x) THEN [num |-> 0, units |-> Units(x)]
    ELSE IF Appends(x) THEN [num |-> x.num, units |-> blockData.units \o Units(x)]
    ELSE blockData

\* The answer to x; its size is at most the receiver's.
Reply(x, code) ==
    [mid |-> x.mid, code |-> code, block1 |-> x.block1 \/ code = "too large", num |-> x.num,
     size |-> IF code = "too large" THEN peerBlockSize ELSE Least(x.size, peerBlockSize)]

\* handle_request gets a payload, and does what it says or reports an error.
Deliver(units, code) ==
    /\ code \in {"ok", "error"}
    /\ delivered' = delivered \cup {units}

\* lwm2m_handle_packet on request x, which is answered with code.
Handle(x, code) ==
    \/ /\ Len(Units(x)) > peerBlockSize
       /\ code = "too large"
       /\ UNCHANGED receiver
    \/ /\ Len(Units(x)) <= peerBlockSize /\ ~x.block1
       /\ Deliver(Units(x), code)
       /\ UNCHANGED blockData
    \/ /\ Len(Units(x)) <= peerBlockSize /\ x.block1 /\ Incomplete(x)
       /\ code = "incomplete"
       /\ UNCHANGED receiver
    \/ /\ Len(Units(x)) <= peerBlockSize /\ x.block1 /\ ~Incomplete(x) /\ Repeated(x)
       /\ code = IF More(x) THEN "continue" ELSE "ok"
       /\ UNCHANGED receiver
    \/ /\ Len(Units(x)) <= peerBlockSize /\ x.block1 /\ ~Incomplete(x) /\ ~Repeated(x)
       /\ blockData' = Stored(x)
       /\ IF More(x)
          THEN code = "continue" /\ UNCHANGED delivered
          ELSE Deliver(Stored(x).units, code)

Without(s, i) == SubSeq(s, 1, i - 1) \o SubSeq(s, i + 1, Len(s))

\* The i-th request on its way arrives; the answer may never do.
ReceiveRequest(i, code) ==
    /\ orderly => i = 1
    /\ requests' = Without(requests, i)
    /\ Handle(requests[i], code)
    /\ answers' = IF Awaited(requests[i]) THEN answers \cup {Reply(requests[i], code)} ELSE answers
    /\ UNCHANGED <<orderly, peerBlockSize, sender>>

-----------------------------------------------------------------------------
Next ==
    \/ \E n \in Lengths : Write(n)
    \/ \E x \in transactionList : Again(x) \/ GiveUp(x)
    \/ \E a \in answers : ReceiveAnswer(a)
    \/ \E i \in DOMAIN requests, code \in Codes : ReceiveRequest(i, code)

Spec == Init /\ [][Next]_vars
-----------------------------------------------------------------------------
(* Properties *)

Blocks(t) == {x \in transactionList : x.transfer = t}

\* A transfer has one block on the way at a time, whatever is sent again,
\* answered twice or late, and however many transfers there are: the clone
\* prv_send_new_block1 makes takes the place of the request that was answered.
\* And none is empty, at the end of a payload that fills its blocks either.
OneBlockAtATime ==
    /\ \A t \in Transfers : Cardinality(Blocks(t)) <= 1
    /\ \A x \in transactionList : Units(x) # <<>>

\* In the orderly environment handle_request gets whole payloads, as they were
\* written, in spite of losses, copies, a block size that is too large and the
\* block data earlier transfers left (coap_block1_handler).
Intact == orderly => \A units \in delivered : \E t \in DOMAIN length : units = Payload(t)

\* The last word on a write is not that it goes on (2.31); and in the orderly
\* environment it is a success only if the peer was given the payload.
WriteOutcome ==
    \A t \in DOMAIN length :
        Blocks(t) = {} =>
            /\ told[t] \notin {"none", "continue"}
            /\ orderly /\ told[t] = "ok" => Payload(t) \in delivered

=============================================================================
