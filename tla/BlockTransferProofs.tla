------------------------ MODULE BlockTransferProofs ------------------------
(***************************************************************************)
(* Theorems about BlockTransfer, for every value of its constants.  In     *)
(* both environments: what is known of the requests that were sent and of  *)
(* their answers.  In the orderly one, moreover: how far the receiver is,  *)
(* told from the requests that are still on their way to it.               *)
(***************************************************************************)
EXTENDS BlockTransfer, SequenceTheorems, FiniteSetTheorems, TLAPS

\* The first n units of the payload of transfer t.
Prefix(t, n) == [k \in 1..n |-> <<t, k>>]

\* The requests there are: on their way, or not over.
OnTheWay == {requests[i] : i \in DOMAIN requests}
Sent == OnTheWay \cup transactionList

Unit == Transfers \X Nat

TypeOK ==
    /\ orderly \in BOOLEAN /\ peerBlockSize \in PeerBlockSizes
    /\ length \in Seq(Lengths) /\ Len(length) <= MaxTransfers
    /\ nextMID \in Nat
    /\ transactionList \subseteq Transaction
    /\ told \in [Transfers -> Codes \cup {"none", "timeout"}]
    /\ copies \in Nat
    /\ requests \in Seq(Transaction)
    /\ answers \subseteq Answer
    /\ blockData \in [num : Nat, units : Seq(Unit)]

\* A request is about a transfer there is, and has units of it; one that is not
\* a first block is as small as the receiver's, and a first one that is larger
\* is full.  The message ids tell them apart, and a transfer has one at a time.
SentOK ==
    /\ \A x \in Sent :
          /\ x.mid < nextMID /\ x.transfer \in DOMAIN length
          /\ x.block1 =>
                /\ x.size > 0 /\ x.num * x.size < length[x.transfer]
                /\ x.size <= peerBlockSize \/ (x.num = 0 /\ x.size <= length[x.transfer])
          /\ ~x.block1 => x.num = 0
    /\ \A x, y \in Sent : x.mid = y.mid => x = y
    /\ \A x, y \in transactionList : x.transfer = y.transfer => x = y

\* An answer to a request that is not over tells of that request.
AnswersOK ==
    /\ \A a \in answers : a.mid < nextMID
    /\ \A a \in answers, x \in transactionList :
          a.mid = x.mid =>
             /\ a.num = x.num
             /\ a.block1 <=> x.block1 \/ a.code = "too large"
             /\ a.code \in {"ok", "continue"} /\ x.block1 => a.size = x.size /\ x.size <= peerBlockSize
             /\ a.code = "continue" => x.block1 /\ More(x)
             /\ a.code = "too large" => a.size = peerBlockSize /\ (x.block1 => x.size > peerBlockSize)

\* What is over has been told so.
EndedOK == \A t \in DOMAIN length : Blocks(t) = {} => told[t] \notin {"none", "continue"}

\* The orderly environment: one request that is not over, the newest; requests
\* are on their way in the order of their ids; and when one that is not over has
\* been answered, nothing but copies of it is on the way.
QueueOK ==
    orderly =>
        /\ \A x, y \in transactionList : x = y
        /\ \A i, j \in DOMAIN requests : i < j => requests[i].mid <= requests[j].mid
        /\ \A x \in transactionList, y \in OnTheWay : y.mid <= x.mid
        /\ \A a \in answers, x \in transactionList, y \in OnTheWay : a.mid = x.mid => y = x

\* The receiver's block data when it has stored block x, and before that.
After(x) == [num |-> x.num, units |-> Prefix(x.transfer, Last(x))]
Before(x) == [num |-> x.num - 1, units |-> Prefix(x.transfer, First(x))]
Later(x) == x.block1 /\ x.num > 0

\* In it, a block that is not the first finds the block data that the one before
\* it left, or that it left itself; before it come only copies of the one before.
Precedes(y, x) == y.block1 /\ y.transfer = x.transfer /\ y.num = x.num - 1 /\ y.size = x.size
Reaches(x) ==
    /\ \/ blockData = Before(x)
       \/ blockData = After(x) /\ \A y \in OnTheWay : ~(y.mid < x.mid)
    /\ blockData = After(x) /\ ~More(x) => Payload(x.transfer) \in delivered
    /\ \A y \in OnTheWay : y.mid < x.mid => Precedes(y, x)

\* An answer of success is about a block that is stored, or about a payload
\* that was delivered; and so is what the user is told in the end.
Holds(a, x) ==
    /\ a.code \in {"ok", "continue"} /\ x.block1 => blockData = After(x)
    /\ a.code = "ok" => Payload(x.transfer) \in delivered
Succeeds(t) == Blocks(t) = {} /\ told[t] = "ok" => Payload(t) \in delivered

ReceiverOK ==
    orderly =>
        /\ \A x \in Sent : Later(x) => Reaches(x)
        /\ \A a \in answers, x \in transactionList : a.mid = x.mid => Holds(a, x)
        /\ Intact
        /\ \A t \in DOMAIN length : Succeeds(t)

BlocksOK == SentOK /\ AnswersOK /\ EndedOK /\ QueueOK /\ ReceiverOK

-----------------------------------------------------------------------------
(* Numbers *)

LEMMA OneMore == ASSUME NEW a \in Nat, NEW b \in Nat PROVE a * b \in Nat /\ (a + 1) * b = a * b + b
OBVIOUS

LEMMA OneWhole == ASSUME NEW b \in Nat \ {0} PROVE b \div b = 1
OBVIOUS

-----------------------------------------------------------------------------
(* Units *)

\* A request that may be sent: what SentOK says of one by itself.
Fits(x) ==
    /\ x \in Transaction /\ x.transfer \in DOMAIN length
    /\ x.block1 =>
          /\ x.size > 0 /\ x.num * x.size < length[x.transfer]
          /\ x.size <= peerBlockSize \/ (x.num = 0 /\ x.size <= length[x.transfer])
    /\ ~x.block1 => x.num = 0

LEMMA LengthFacts ==
    ASSUME TypeOK, NEW t \in DOMAIN length
    PROVE  length[t] \in Nat /\ length[t] > 0 /\ t \in Transfers
<1>1. length[t] \in Lengths
    BY ElementOfSeq DEF TypeOK
<1>2. DOMAIN length = 1..Len(length) /\ Len(length) \in Nat
    BY LenProperties DEF TypeOK
<1>3. length[t] \in Nat /\ length[t] > 0
    <2>1. Lengths \subseteq Nat \ {0}
        BY SizesAssumption, Zenon DEF SizesAssumption
    <2>2. length[t] \in Nat \ {0}
        BY <1>1, <2>1, Zenon
    <2>3. QED
        BY <2>2
<1>4. Len(length) <= MaxTransfers /\ MaxTransfers \in Nat
    BY SizesAssumption DEF SizesAssumption, TypeOK
<1>5. t \in Transfers
    BY <1>2, <1>4 DEF Transfers
<1>6. QED
    BY <1>3, <1>5

\* Where a request's units begin and end.
LEMMA Bounds ==
    ASSUME TypeOK, NEW x, Fits(x)
    PROVE  /\ First(x) \in Nat /\ Last(x) \in Nat
           /\ First(x) < Last(x) /\ Last(x) <= length[x.transfer]
           /\ x.block1 => Last(x) - First(x) <= x.size
           /\ x.num = 0 => First(x) = 0
           /\ x.num = 0 /\ x.block1 /\ x.size <= length[x.transfer] => Last(x) = x.size
           /\ ~x.block1 => First(x) = 0 /\ Last(x) = length[x.transfer]
           /\ x.block1 => /\ More(x) <=> (x.num + 1) * x.size < length[x.transfer]
                          /\ First(x) = x.num * x.size
                          /\ (x.num + 1) * x.size <= length[x.transfer] => Last(x) = (x.num + 1) * x.size
           /\ ~More(x) => Last(x) = length[x.transfer]
<1>1. length[x.transfer] \in Nat /\ length[x.transfer] > 0
    BY LengthFacts DEF Fits
<1>2. x.num \in Nat /\ x.size \in Nat /\ x.block1 \in BOOLEAN
    BY DEF Fits, Transaction
<1>3. PICK m \in Nat : m = x.num * x.size /\ (x.num + 1) * x.size = m + x.size
    BY <1>2, OneMore
<1>4. CASE x.block1
    <2>1. x.size > 0 /\ m < length[x.transfer]
        BY <1>3, <1>4 DEF Fits
    <2>2. First(x) = m /\ Last(x) = Least(m + x.size, length[x.transfer])
        BY <1>3, <1>4 DEF First, Last
    <2>3. x.num = 0 => m = 0
        BY <1>2, <1>3
    <2>4. More(x) <=> Last(x) < length[x.transfer]
        BY DEF More
    <2>5. QED
        BY <1>1, <1>2, <1>3, <1>4, <2>1, <2>2, <2>3, <2>4 DEF Least
<1>5. CASE ~x.block1
    BY <1>1, <1>5 DEF First, Last, More
<1>6. QED
    BY <1>2, <1>4, <1>5

LEMMA PrefixFacts ==
    ASSUME NEW t \in Transfers, NEW n \in Nat
    PROVE  /\ Prefix(t, n) \in Seq(Unit) /\ Len(Prefix(t, n)) = n
           /\ DOMAIN Prefix(t, n) = 1..n /\ \A k \in 1..n : Prefix(t, n)[k] = <<t, k>>
<1>1. Prefix(t, n) \in [1..n -> Unit]
    BY DEF Prefix, Unit
<1>2. Prefix(t, n) \in Seq(Unit)
    BY <1>1, SeqDef
<1>3. DOMAIN Prefix(t, n) = 1..n /\ \A k \in 1..n : Prefix(t, n)[k] = <<t, k>>
    BY DEF Prefix
<1>4. QED
    BY <1>2, <1>3, LenProperties

\* A request's units continue the payload from where they begin.
LEMMA UnitsFacts ==
    ASSUME TypeOK, NEW x, Fits(x)
    PROVE  /\ Units(x) \in Seq(Unit) /\ Len(Units(x)) = Last(x) - First(x)
           /\ Units(x) # <<>>
           /\ Prefix(x.transfer, First(x)) \o Units(x) = Prefix(x.transfer, Last(x))
           /\ First(x) = 0 => Units(x) = Prefix(x.transfer, Last(x))
<1> DEFINE t == x.transfer
           f == First(x)
           l == Last(x)
           p == Prefix(t, length[t])
<1>1. /\ t \in Transfers /\ f \in Nat /\ l \in Nat /\ f < l /\ l <= length[t] /\ length[t] \in Nat
    BY Bounds, LengthFacts DEF Fits
<1>2. Units(x) = SubSeq(p, f + 1, l)
    BY DEF Units, Payload, Prefix
<1>. HIDE DEF t, f, l
<1>3. p \in Seq(Unit) /\ Len(p) = length[t] /\ \A k \in 1..length[t] : p[k] = <<t, k>>
    BY <1>1, PrefixFacts
<1>. HIDE DEF p
<1>4. /\ f + 1 \in 1..(Len(p) + 1) /\ l \in f..Len(p) /\ f + 1 <= l + 1
    BY <1>1, <1>3
<1>5. /\ Units(x) \in Seq(Unit)
      /\ Len(Units(x)) = l - f
      /\ \A i \in 1..(l - f) : Units(x)[i] = p[f + i]
    <2>1. /\ SubSeq(p, f + 1, l) \in Seq(Unit)
          /\ Len(SubSeq(p, f + 1, l)) = IF f + 1 <= l THEN l - (f + 1) + 1 ELSE 0
          /\ \A i \in 1..(l - (f + 1) + 1) : SubSeq(p, f + 1, l)[i] = p[(f + 1) + i - 1]
        BY <1>1, <1>3, <1>4, SubSeqProperties
    <2>2. QED
        BY <1>1, <1>2, <2>1
<1>6. ASSUME NEW i \in 1..(l - f) PROVE Units(x)[i] = <<t, f + i>>
    <2>1. f + i \in 1..length[t]
        BY <1>1
    <2>2. QED
        BY <1>3, <1>5, <2>1
<1>7. Units(x) # <<>>
    BY <1>1, <1>5
<1>8. Prefix(t, f) \o Units(x) = Prefix(t, l)
    <2> DEFINE q == Prefix(t, f)
               c == q \o Units(x)
    <2>1. q \in Seq(Unit) /\ Len(q) = f /\ \A k \in 1..f : q[k] = <<t, k>>
        BY <1>1, PrefixFacts
    <2>. HIDE DEF q
    <2>2. /\ c \in Seq(Unit) /\ Len(c) = l
          /\ \A k \in 1..f : c[k] = q[k]
          /\ \A k \in (f + 1)..l : c[k] = Units(x)[k - f]
        BY <1>1, <1>5, <2>1, ConcatProperties
    <2>. HIDE DEF c
    <2>3. \A k \in 1..l : c[k] = <<t, k>>
        <3>1. ASSUME NEW k \in 1..l PROVE c[k] = <<t, k>>
            <4>1. CASE k <= f
                BY <1>1, <2>1, <2>2, <4>1
            <4>2. CASE ~(k <= f)
                <5>1. k - f \in 1..(l - f) /\ k \in (f + 1)..l /\ f + (k - f) = k
                    BY <1>1, <4>2
                <5>2. QED
                    BY <1>6, <2>2, <5>1
            <4>3. QED
                BY <4>1, <4>2
        <3>2. QED
            BY <3>1
    <2>4. Prefix(t, l) \in Seq(Unit) /\ Len(Prefix(t, l)) = l /\ \A k \in 1..l : Prefix(t, l)[k] = <<t, k>>
        BY <1>1, PrefixFacts
    <2>5. c = Prefix(t, l)
        BY <2>2, <2>3, <2>4, SeqEqual
    <2>6. QED
        BY <2>5 DEF c, q
<1>9. f = 0 => Units(x) = Prefix(t, l)
    <2>1. ASSUME f = 0 PROVE Units(x) = Prefix(t, l)
        <3>1. Len(Units(x)) = l /\ \A k \in 1..l : Units(x)[k] = <<t, k>>
            BY <1>1, <1>5, <1>6, <2>1
        <3>2. Prefix(t, l) \in Seq(Unit) /\ Len(Prefix(t, l)) = l /\ \A k \in 1..l : Prefix(t, l)[k] = <<t, k>>
            BY <1>1, PrefixFacts
        <3>3. QED
            BY <1>5, <3>1, <3>2, SeqEqual
    <2>2. QED
        BY <2>1
<1>10. QED
    BY <1>5, <1>7, <1>8, <1>9 DEF t, f, l

-----------------------------------------------------------------------------
(* What a step adds to the requests and takes from them *)

LEMMA SentFacts ==
    ASSUME TypeOK, SentOK, NEW x \in Sent
    PROVE  x \in Transaction /\ Fits(x)
<1>1. x \in Transaction
    BY ElementOfSeq DEF Sent, OnTheWay, TypeOK
<1>2. QED
    BY <1>1 DEF SentOK, Fits

LEMMA AppendFacts ==
    ASSUME requests \in Seq(Transaction), NEW y \in Transaction, requests' = Append(requests, y)
    PROVE  /\ requests' \in Seq(Transaction) /\ OnTheWay' = OnTheWay \cup {y}
           /\ DOMAIN requests' = 1..(Len(requests) + 1) /\ DOMAIN requests = 1..Len(requests) /\ Len(requests) \in Nat
           /\ \A i \in DOMAIN requests : requests'[i] = requests[i]
           /\ requests'[Len(requests) + 1] = y
<1>1. DOMAIN requests = 1..Len(requests) /\ Len(requests) \in Nat
    BY LenProperties
<1>2. /\ requests' \in Seq(Transaction)
      /\ Len(requests') = Len(requests) + 1
      /\ \A i \in 1..Len(requests) : requests'[i] = requests[i]
      /\ requests'[Len(requests) + 1] = y
    BY AppendProperties
<1>3. DOMAIN requests' = 1..(Len(requests) + 1)
    BY <1>1, <1>2, LenProperties
<1>4. OnTheWay' = OnTheWay \cup {y}
    <2>1. \A i \in 1..(Len(requests) + 1) : i \in 1..Len(requests) \/ i = Len(requests) + 1
        BY <1>1
    <2>2. Len(requests) + 1 \in 1..(Len(requests) + 1)
        BY <1>1
    <2>3. QED
        BY <1>1, <1>2, <1>3, <2>1, <2>2 DEF OnTheWay
<1>5. QED
    BY <1>1, <1>2, <1>3, <1>4

LEMMA WithoutFacts ==
    ASSUME requests \in Seq(Transaction), NEW i \in DOMAIN requests, requests' = Without(requests, i)
    PROVE  /\ requests' \in Seq(Transaction) /\ OnTheWay' \subseteq OnTheWay
           /\ i = 1 => /\ DOMAIN requests' = 1..(Len(requests) - 1) /\ DOMAIN requests = 1..Len(requests)
                       /\ Len(requests) \in Nat
                       /\ \A j \in DOMAIN requests' : requests'[j] = requests[j + 1]
<1> DEFINE n == Len(requests)
           a == SubSeq(requests, 1, i - 1)
           b == SubSeq(requests, i + 1, n)
<1>1. DOMAIN requests = 1..n /\ n \in Nat /\ i \in 1..n
    BY LenProperties
<1>2. \A j \in 1..n : requests[j] \in Transaction
    BY <1>1, ElementOfSeq
<1>3. requests' = a \o b
    BY DEF Without
<1>. HIDE DEF n
<1>4. /\ a \in Seq(Transaction) /\ Len(a) = i - 1
      /\ \A j \in 1..(i - 1) : a[j] = requests[j]
    <2>1. 1 \in Int /\ i - 1 \in Int /\ \A j \in 1..(i - 1) : requests[j] \in Transaction
        BY <1>1, <1>2
    <2>2. /\ a \in Seq(Transaction)
          /\ Len(a) = IF 1 <= i - 1 THEN (i - 1) - 1 + 1 ELSE 0
          /\ \A j \in 1..((i - 1) - 1 + 1) : a[j] = requests[1 + j - 1]
        BY <2>1, SubSeqProperties
    <2>3. QED
        BY <1>1, <2>2
<1>5. /\ b \in Seq(Transaction) /\ Len(b) = n - i
      /\ \A j \in 1..(n - i) : b[j] = requests[i + j]
    <2>1. i + 1 \in Int /\ n \in Int /\ \A j \in (i + 1)..n : requests[j] \in Transaction
        BY <1>1, <1>2
    <2>2. /\ b \in Seq(Transaction)
          /\ Len(b) = IF i + 1 <= n THEN n - (i + 1) + 1 ELSE 0
          /\ \A j \in 1..(n - (i + 1) + 1) : b[j] = requests[(i + 1) + j - 1]
        BY <2>1, SubSeqProperties
    <2>3. QED
        BY <1>1, <2>2
<1>. HIDE DEF a, b
<1>6. /\ requests' \in Seq(Transaction)
      /\ Len(requests') = (i - 1) + (n - i)
      /\ \A j \in 1..((i - 1) + (n - i)) : requests'[j] = IF j <= i - 1 THEN a[j] ELSE b[j - (i - 1)]
    BY <1>3, <1>4, <1>5, ConcatProperties
<1>7. DOMAIN requests' = 1..(n - 1)
    <2>1. DOMAIN requests' = 1..Len(requests')
        BY <1>6, LenProperties
    <2>2. QED
        BY <1>1, <1>6, <2>1
<1>8. ASSUME NEW j \in 1..(n - 1) PROVE requests'[j] = IF j <= i - 1 THEN requests[j] ELSE requests[j + 1]
    <2>1. requests'[j] = IF j <= i - 1 THEN a[j] ELSE b[j - (i - 1)]
        <3>1. (i - 1) + (n - i) = n - 1
            BY <1>1
        <3>2. QED
            BY <1>6, <3>1
    <2>2. CASE j <= i - 1
        <3>1. j \in 1..(i - 1)
            BY <1>1, <2>2
        <3>2. QED
            BY <1>4, <2>1, <2>2, <3>1
    <2>3. CASE ~(j <= i - 1)
        <3>1. j - (i - 1) \in 1..(n - i) /\ i + (j - (i - 1)) = j + 1
            BY <1>1, <2>3
        <3>2. QED
            BY <1>5, <2>1, <2>3, <3>1
    <2>4. QED
        BY <2>2, <2>3
<1>9. OnTheWay' \subseteq OnTheWay
    <2>1. ASSUME NEW j \in 1..(n - 1) PROVE \E k \in 1..n : requests'[j] = requests[k]
        BY <1>1, <1>8
    <2>2. QED
        BY <1>1, <1>7, <2>1 DEF OnTheWay
<1>10. i = 1 => \A j \in 1..(n - 1) : requests'[j] = requests[j + 1]
    BY <1>8
<1>11. QED
    BY <1>1, <1>6, <1>7, <1>9, <1>10 DEF n

\* What becomes of a payload's units when its length stays.
LEMMA SameUnits ==
    ASSUME NEW x, length'[x.transfer] = length[x.transfer]
    PROVE  /\ First(x)' = First(x) /\ Last(x)' = Last(x) /\ (More(x)' <=> More(x))
           /\ After(x)' = After(x) /\ Before(x)' = Before(x) /\ Payload(x.transfer)' = Payload(x.transfer)
<1>1. First(x)' = First(x) /\ Last(x)' = Last(x)
    BY DEF First, Last
<1>2. Payload(x.transfer)' = Payload(x.transfer)
    BY DEF Payload
<1>3. QED
    BY <1>1, <1>2 DEF More, After, Before, Prefix

\* The request that follows an answer.
Next1(x, a, y) ==
    /\ Fits(y) /\ y.mid = nextMID /\ y.transfer = x.transfer /\ y.block1
    /\ y.num > 0 => /\ a.code \in {"ok", "continue"} /\ x.block1
                    /\ y.num = x.num + 1 /\ y.size = x.size

LEMMA FollowingFacts ==
    ASSUME TypeOK, SentOK, AnswersOK, NEW a \in answers, NEW x \in transactionList, x.mid = a.mid
    PROVE  \/ Following(x, a) = {} /\ a.code # "continue"
           \/ \E y : Following(x, a) = {y} /\ Next1(x, a, y)
<1>1. /\ x \in Transaction /\ Fits(x)
      /\ x.num \in Nat /\ x.size \in Nat /\ x.block1 \in BOOLEAN /\ x.transfer \in Transfers
    <2>1. x \in Transaction /\ Fits(x)
        BY SentFacts DEF Sent
    <2>2. QED
        BY <2>1 DEF Transaction
<1>2. /\ a.num = x.num
      /\ a.block1 <=> x.block1 \/ a.code = "too large"
      /\ a.code \in {"ok", "continue"} /\ x.block1 => a.size = x.size /\ x.size <= peerBlockSize
      /\ a.code = "continue" => x.block1 /\ More(x)
      /\ a.code = "too large" => a.size = peerBlockSize /\ (x.block1 => x.size > peerBlockSize)
    BY DEF AnswersOK
<1>3. peerBlockSize \in Nat /\ peerBlockSize > 0 /\ nextMID \in Nat
    BY SizesAssumption DEF TypeOK, SizesAssumption
<1>4. ASSUME NEW num \in Nat, NEW size \in Nat, size > 0, size <= peerBlockSize,
             num > 0 => a.code \in {"ok", "continue"} /\ x.block1 /\ num = x.num + 1 /\ size = x.size
      PROVE  \/ NewBlock1(x, num, size) = {} /\ num * size >= length[x.transfer]
             \/ \E y : NewBlock1(x, num, size) = {y} /\ Next1(x, a, y)
    <2> DEFINE y == [mid |-> nextMID, transfer |-> x.transfer, block1 |-> TRUE, num |-> num, size |-> size]
    <2>1. /\ y \in Transaction /\ y.mid = nextMID /\ y.transfer = x.transfer /\ y.block1
          /\ y.num = num /\ y.size = size
        BY <1>1, <1>3 DEF Transaction
    <2>2. NewBlock1(x, num, size) = IF num * size >= length[x.transfer] THEN {} ELSE {y}
        BY DEF NewBlock1
    <2>. HIDE DEF y
    <2>3. num * size \in Nat /\ length[x.transfer] \in Nat
        BY <1>1, OneMore, LengthFacts DEF Fits
    <2>4. CASE num * size >= length[x.transfer]
        BY <2>2, <2>4
    <2>5. CASE ~(num * size >= length[x.transfer])
        <3>1. num * size < length[x.transfer]
            BY <2>3, <2>5
        <3>2. Fits(y)
            BY <1>1, <1>4, <2>1, <3>1 DEF Fits
        <3>3. QED
            BY <1>4, <2>1, <2>2, <2>5, <3>2 DEF Next1
    <2>6. QED
        BY <2>4, <2>5
<1>5. CASE ~a.block1
    BY <1>2, <1>5 DEF Following
<1>6. CASE a.block1 /\ a.code \in {"ok", "continue"}
    <2>1. x.block1 /\ a.size = x.size /\ x.size <= peerBlockSize /\ x.size > 0
        BY <1>1, <1>2, <1>6 DEF Fits
    <2>2. x.size \div x.size = 1
        BY <1>1, <2>1, OneWhole
    <2>3. Following(x, a) = NewBlock1(x, x.num + 1, x.size)
        BY <1>1, <1>6, <2>1, <2>2 DEF Following, NextBlock1
    <2>4. \/ NewBlock1(x, x.num + 1, x.size) = {} /\ (x.num + 1) * x.size >= length[x.transfer]
          \/ \E y : NewBlock1(x, x.num + 1, x.size) = {y} /\ Next1(x, a, y)
        BY <1>1, <1>4, <1>6, <2>1
    <2>5. a.code = "continue" => (x.num + 1) * x.size < length[x.transfer]
        BY <1>1, <1>2, <2>1, Bounds
    <2>6. (x.num + 1) * x.size \in Nat /\ length[x.transfer] \in Nat
        BY <1>1, OneMore, LengthFacts DEF Fits
    <2>7. QED
        BY <2>3, <2>4, <2>5, <2>6
<1>7. CASE a.block1 /\ a.code = "too large" /\ a.num = 0
    <2>1. a.size = peerBlockSize /\ x.num = 0
        BY <1>2, <1>7
    <2>2. Following(x, a) = NewBlock1(x, 0, peerBlockSize)
        <3>1. CASE ~x.block1
            BY <1>7, <2>1, <3>1 DEF Following, RetryBlock1
        <3>2. CASE x.block1
            <4>1. Following(x, a) = RetryBlock1(x, peerBlockSize)
                BY <1>7, <2>1 DEF Following
            <4>2. peerBlockSize # x.size /\ ~(peerBlockSize >= x.size) /\ peerBlockSize # 0
                <5>1. x.size > peerBlockSize
                    BY <1>2, <1>7, <3>2, Zenon
                <5>2. QED
                    BY <1>1, <1>3, <5>1
            <4>3. QED
                BY <2>1, <3>2, <4>1, <4>2 DEF RetryBlock1
        <3>3. QED
            BY <1>1, <3>1, <3>2
    <2>3. \/ NewBlock1(x, 0, peerBlockSize) = {}
          \/ \E y : NewBlock1(x, 0, peerBlockSize) = {y} /\ Next1(x, a, y)
        BY <1>3, <1>4
    <2>4. QED
        BY <1>7, <2>2, <2>3
<1>8. CASE a.block1 /\ a.code \notin {"ok", "continue"} /\ ~(a.code = "too large" /\ a.num = 0)
    BY <1>8 DEF Following
<1>9. QED
    BY <1>5, <1>6, <1>7, <1>8

-----------------------------------------------------------------------------
(* What the actions do, in the words of the invariant *)

\* y may be on its way now, behind the others.
Joins(y) == requests' = requests \/ requests' = Append(requests, y)

LEMMA JoinsFacts ==
    ASSUME requests \in Seq(Transaction), NEW y \in Transaction, Joins(y)
    PROVE  /\ requests' \in Seq(Transaction) /\ OnTheWay' \subseteq OnTheWay \cup {y}
           /\ \A i, j \in DOMAIN requests' : i < j =>
                 /\ i \in DOMAIN requests /\ requests'[i] = requests[i]
                 /\ \/ j \in DOMAIN requests /\ requests'[j] = requests[j]
                    \/ requests'[j] = y
<1>1. CASE requests' = requests
    BY <1>1 DEF OnTheWay
<1>2. CASE requests' = Append(requests, y)
    <2>1. /\ requests' \in Seq(Transaction) /\ OnTheWay' = OnTheWay \cup {y}
          /\ DOMAIN requests' = 1..(Len(requests) + 1) /\ DOMAIN requests = 1..Len(requests) /\ Len(requests) \in Nat
          /\ \A i \in DOMAIN requests : requests'[i] = requests[i]
          /\ requests'[Len(requests) + 1] = y
        BY <1>2, AppendFacts
    <2>2. ASSUME NEW i \in DOMAIN requests', NEW j \in DOMAIN requests', i < j
          PROVE  i \in DOMAIN requests /\ (j \in DOMAIN requests \/ j = Len(requests) + 1)
        BY <2>1, <2>2
    <2>3. QED
        BY <2>1, <2>2
<1>3. QED
    BY <1>1, <1>2 DEF Joins

\* A new write, and its first request x.
Begins(n, x) ==
    /\ length' = Append(length, n)
    /\ DOMAIN length' = DOMAIN length \cup {x.transfer} /\ x.transfer \notin DOMAIN length
    /\ length' \in Seq(Lengths) /\ Len(length') <= MaxTransfers
    /\ \A t \in DOMAIN length : length'[t] = length[t]
    /\ Fits(x)' /\ x.mid = nextMID /\ x.num = 0
    /\ orderly => transactionList = {}
    /\ transactionList' = transactionList \cup {x} /\ nextMID' = nextMID + 1
    /\ Joins(x)
    /\ UNCHANGED <<orderly, peerBlockSize, told, copies, answers, receiver>>

LEMMA WriteFacts ==
    ASSUME TypeOK, NEW n \in Lengths, Write(n)
    PROVE  \E x \in Transaction : Begins(n, x)
<1>1. PICK t, m : t = Len(length) + 1 /\ m = nextMID
    OBVIOUS
<1> DEFINE b == n > BlockSize
           x == [mid |-> m, transfer |-> t, block1 |-> b,
                 num |-> 0, size |-> IF b THEN BlockSize ELSE 0]
<1>2. /\ t \in Transfers
      /\ orderly => transactionList = {}
      /\ length' = Append(length, n)
      /\ nextMID' = nextMID + 1
      /\ transactionList' = transactionList \cup {x}
      /\ Transmit({x})
      /\ UNCHANGED <<orderly, peerBlockSize, told, copies, answers, receiver>>
    BY <1>1 DEF Write
<1>3. m \in Nat /\ BlockSize \in Nat /\ BlockSize > 0 /\ n \in Nat /\ n > 0 /\ b \in BOOLEAN
    BY <1>1, SizesAssumption DEF SizesAssumption, TypeOK
<1>4. /\ x \in Transaction /\ x.mid = nextMID /\ x.transfer = t /\ x.num = 0
      /\ x.block1 <=> b
      /\ x.block1 => x.size = BlockSize
    <2>1. 0 \in Nat /\ (IF b THEN BlockSize ELSE 0) \in Nat
        BY <1>3
    <2>2. QED
        BY <1>1, <1>2, <1>3, <2>1 DEF Transaction
<1>. HIDE DEF x, b
<1>5. Joins(x)
    BY <1>2 DEF Transmit, Joins
<1>6. /\ DOMAIN length = 1..Len(length) /\ Len(length) \in Nat /\ length' \in Seq(Lengths)
      /\ DOMAIN length' = 1..t /\ Len(length') = t
      /\ \A k \in 1..Len(length) : length'[k] = length[k]
      /\ length'[t] = n
    <2>1. DOMAIN length = 1..Len(length) /\ Len(length) \in Nat /\ length \in Seq(Lengths)
        BY LenProperties DEF TypeOK
    <2>2. /\ length' \in Seq(Lengths)
          /\ Len(length') = Len(length) + 1
          /\ \A k \in 1..Len(length) : length'[k] = length[k]
          /\ length'[Len(length) + 1] = n
        BY <1>1, <1>2, <2>1, AppendProperties
    <2>3. QED
        BY <1>1, <2>1, <2>2, LenProperties
<1>7. t \notin DOMAIN length /\ DOMAIN length' = DOMAIN length \cup {t} /\ t \in DOMAIN length'
    BY <1>1, <1>6
<1>8. Len(length') <= MaxTransfers
    BY <1>2, <1>6, SizesAssumption DEF Transfers, SizesAssumption
<1>9. Fits(x)'
    <2>1. x.block1 => x.size > 0 /\ x.num * x.size < n /\ x.size <= n
        BY <1>3, <1>4 DEF b
    <2>2. length'[x.transfer] = n /\ x.transfer \in DOMAIN length'
        BY <1>4, <1>6, <1>7
    <2>3. QED
        BY <1>4, <2>1, <2>2 DEF Fits
<1>10. QED
    BY <1>2, <1>4, <1>5, <1>6, <1>7, <1>8, <1>9 DEF Begins

\* Request x is answered, and what follows: nothing, or y.
Ends(a, x) ==
    /\ transactionList' = transactionList \ {x} /\ nextMID' = nextMID
    /\ requests' = requests /\ a.code # "continue"
Goes(a, x, y) ==
    /\ Next1(x, a, y) /\ transactionList' = (transactionList \ {x}) \cup {y}
    /\ nextMID' = nextMID + 1 /\ Joins(y)

LEMMA AnswerFacts ==
    ASSUME TypeOK, SentOK, AnswersOK, NEW a \in answers, ReceiveAnswer(a)
    PROVE  \E x \in transactionList :
              /\ x.mid = a.mid /\ answers' = Others(x)
              /\ told' = [told EXCEPT ![x.transfer] = a.code]
              /\ UNCHANGED <<orderly, peerBlockSize, length, copies, receiver>>
              /\ Ends(a, x) \/ \E y : Goes(a, x, y)
<1>1. PICK x \in transactionList :
        /\ x.mid = a.mid
        /\ answers' = Others(x)
        /\ transactionList' = (transactionList \ {x}) \cup Following(x, a)
        /\ nextMID' = nextMID + Cardinality(Following(x, a))
        /\ told' = [told EXCEPT ![x.transfer] = a.code]
        /\ Transmit(Following(x, a))
        /\ UNCHANGED <<orderly, peerBlockSize, length, copies, receiver>>
    BY DEF ReceiveAnswer
<1>2. CASE Following(x, a) = {} /\ a.code # "continue"
    <2>1. nextMID' = nextMID
        <3>1. Cardinality({}) = 0 /\ nextMID \in Nat
            BY FS_EmptySet DEF TypeOK
        <3>2. QED
            BY <1>1, <1>2, <3>1
    <2>2. requests' = requests
        BY <1>1, <1>2 DEF Transmit
    <2>3. Ends(a, x)
        BY <1>1, <1>2, <2>1, <2>2 DEF Ends
    <2>4. QED
        BY <1>1, <2>3
<1>3. CASE \E y : Following(x, a) = {y} /\ Next1(x, a, y)
    <2>1. PICK y : Following(x, a) = {y} /\ Next1(x, a, y)
        BY <1>3
    <2>2. Cardinality({y}) = 1
        BY FS_Singleton
    <2>3. Joins(y)
        BY <1>1, <2>1 DEF Transmit, Joins
    <2>4. Goes(a, x, y)
        BY <1>1, <2>1, <2>2, <2>3 DEF Goes
    <2>5. QED
        BY <1>1, <2>4
<1>4. QED
    BY <1>1, <1>2, <1>3, FollowingFacts

\* A request is received, and the answer to it says what became of it.
Truthful(a, x) ==
    /\ a.num = x.num
    /\ a.block1 <=> x.block1 \/ a.code = "too large"
    /\ a.code \in {"ok", "continue"} /\ x.block1 => a.size = x.size /\ x.size <= peerBlockSize
    /\ a.code = "continue" => x.block1 /\ More(x)
    /\ a.code = "too large" => a.size = peerBlockSize /\ (x.block1 => x.size > peerBlockSize)

LEMMA ReplyFacts ==
    ASSUME TypeOK, NEW x, Fits(x), NEW code \in Codes, Handle(x, code)
    PROVE  Reply(x, code) \in Answer /\ Truthful(Reply(x, code), x)
<1> DEFINE r == Reply(x, code)
<1>1. /\ x.mid \in Nat /\ x.num \in Nat /\ x.size \in Nat /\ x.block1 \in BOOLEAN
      /\ peerBlockSize \in Nat /\ peerBlockSize > 0
    BY SizesAssumption DEF SizesAssumption, TypeOK, Fits, Transaction
<1>2. Least(x.size, peerBlockSize) \in Nat /\ (x.size <= peerBlockSize => Least(x.size, peerBlockSize) = x.size)
    BY <1>1 DEF Least
<1>3. (x.block1 \/ code = "too large") \in BOOLEAN
    OBVIOUS
<1>4. /\ r \in Answer /\ r.num = x.num /\ r.code = code
      /\ r.block1 <=> x.block1 \/ code = "too large"
      /\ r.size = IF code = "too large" THEN peerBlockSize ELSE Least(x.size, peerBlockSize)
    <2>1. r = [mid |-> x.mid, code |-> code, block1 |-> x.block1 \/ code = "too large", num |-> x.num,
               size |-> IF code = "too large" THEN peerBlockSize ELSE Least(x.size, peerBlockSize)]
        BY DEF Reply
    <2>2. (IF code = "too large" THEN peerBlockSize ELSE Least(x.size, peerBlockSize)) \in Nat
        BY <1>1, <1>2
    <2>. HIDE DEF r
    <2>3. QED
        BY <1>1, <1>3, <2>1, <2>2 DEF Answer
<1>. HIDE DEF r
<1>5. x.block1 /\ Len(Units(x)) <= peerBlockSize => x.size <= peerBlockSize
    <2>1. CASE x.size <= peerBlockSize
        BY <2>1
    <2>2. CASE x.block1 /\ x.num = 0 /\ x.size <= length[x.transfer]
        <3>1. Len(Units(x)) = x.size
            BY <1>1, <2>2, Bounds, UnitsFacts
        <3>2. QED
            BY <3>1
    <2>3. QED
        BY <2>1, <2>2 DEF Fits
<1>6. Len(Units(x)) > peerBlockSize /\ x.block1 => x.size > peerBlockSize
    BY <1>1, Bounds, UnitsFacts
<1>7. /\ code \in {"ok", "continue"} => Len(Units(x)) <= peerBlockSize
      /\ code = "continue" => x.block1 /\ More(x)
      /\ code = "too large" => Len(Units(x)) > peerBlockSize
    BY DEF Handle, Deliver
<1>8. code \in {"ok", "continue"} => code # "too large"
    OBVIOUS
<1>9. code \in {"ok", "continue"} /\ x.block1 => r.size = x.size /\ x.size <= peerBlockSize
    BY <1>2, <1>4, <1>5, <1>7, <1>8
<1>10. code = "too large" => r.size = peerBlockSize /\ (x.block1 => x.size > peerBlockSize)
    BY <1>4, <1>6, <1>7
<1>11. QED
    BY <1>4, <1>7, <1>9, <1>10 DEF Truthful, r

LEMMA RequestFacts ==
    ASSUME TypeOK, SentOK, NEW i \in DOMAIN requests, NEW code \in Codes, ReceiveRequest(i, code)
    PROVE  /\ requests[i] \in OnTheWay /\ Fits(requests[i])
           /\ requests' \in Seq(Transaction) /\ OnTheWay' \subseteq OnTheWay
           /\ Handle(requests[i], code)
           /\ \/ answers' = answers
              \/ answers' = answers \cup {Reply(requests[i], code)} /\ Awaited(requests[i])
           /\ Reply(requests[i], code) \in Answer /\ Truthful(Reply(requests[i], code), requests[i])
           /\ \A x \in transactionList : x.mid = Reply(requests[i], code).mid => x = requests[i]
           /\ UNCHANGED <<orderly, peerBlockSize, sender>>
<1>1. requests[i] \in OnTheWay /\ requests[i] \in Sent
    BY DEF Sent, OnTheWay
<1>2. Fits(requests[i]) /\ requests[i] \in Transaction
    BY <1>1, SentFacts
<1>3. /\ requests' = Without(requests, i) /\ Handle(requests[i], code)
      /\ answers' = IF Awaited(requests[i]) THEN answers \cup {Reply(requests[i], code)} ELSE answers
      /\ UNCHANGED <<orderly, peerBlockSize, sender>>
    BY DEF ReceiveRequest
<1>4. requests' \in Seq(Transaction) /\ OnTheWay' \subseteq OnTheWay
    BY <1>3, WithoutFacts DEF TypeOK
<1>5. Reply(requests[i], code) \in Answer /\ Truthful(Reply(requests[i], code), requests[i])
    BY <1>2, <1>3, ReplyFacts
<1>6. Reply(requests[i], code).mid = requests[i].mid
    BY DEF Reply
<1>7. \A x \in transactionList : x.mid = requests[i].mid => x = requests[i]
    BY <1>1 DEF SentOK, Sent
<1>8. QED
    BY <1>1, <1>2, <1>3, <1>4, <1>5, <1>6, <1>7

-----------------------------------------------------------------------------
(* Type correctness *)

LEMMA InitType == Init => TypeOK
<1> SUFFICES ASSUME Init PROVE TypeOK
    OBVIOUS
<1>1. length \in Seq(Lengths) /\ Len(length) = 0 /\ requests \in Seq(Transaction)
    BY EmptySeq DEF Init
<1>2. Len(length) <= MaxTransfers
    BY <1>1, SizesAssumption DEF SizesAssumption
<1>3. blockData \in [num : Nat, units : Seq(Unit)]
    <2>1. <<>> \in Seq(Unit) /\ 0 \in Nat
        BY EmptySeq
    <2>2. QED
        BY <2>1 DEF Init, NoBlock
<1>4. told \in [Transfers -> Codes \cup {"none", "timeout"}]
    BY DEF Init
<1>5. QED
    BY <1>1, <1>2, <1>3, <1>4 DEF Init, TypeOK

\* What coap_block1_handler leaves.
LEMMA StoredType ==
    ASSUME TypeOK, NEW x, Fits(x), NEW code \in Codes, Handle(x, code)
    PROVE  blockData' \in [num : Nat, units : Seq(Unit)]
<1>1. Units(x) \in Seq(Unit) /\ x.num \in Nat
    BY UnitsFacts DEF Fits, Transaction
<1>2. blockData \in [num : Nat, units : Seq(Unit)] /\ blockData.units \in Seq(Unit)
    BY DEF TypeOK
<1>3. blockData.units \o Units(x) \in Seq(Unit)
    BY <1>1, <1>2, ConcatProperties
<1>4. Stored(x) \in [num : Nat, units : Seq(Unit)]
    <2>1. 0 \in Nat
        OBVIOUS
    <2>2. QED
        BY <1>1, <1>2, <1>3, <2>1 DEF Stored
<1>5. blockData' \in {blockData, Stored(x)}
    BY DEF Handle, receiver
<1>6. QED
    BY <1>2, <1>4, <1>5

LEMMA NextType == TypeOK /\ SentOK /\ AnswersOK /\ [Next]_vars => TypeOK'
<1> SUFFICES ASSUME TypeOK, SentOK, AnswersOK, [Next]_vars PROVE TypeOK'
    OBVIOUS
<1>1. ASSUME NEW n \in Lengths, Write(n) PROVE TypeOK'
    <2>1. PICK x \in Transaction : Begins(n, x)
        BY <1>1, WriteFacts
    <2>2. requests' \in Seq(Transaction)
        BY <2>1, JoinsFacts DEF TypeOK, Begins
    <2>3. nextMID' \in Nat
        BY <2>1 DEF TypeOK, Begins
    <2>4. QED
        BY <2>1, <2>2, <2>3 DEF TypeOK, Begins, receiver
<1>2. ASSUME NEW x \in transactionList, Again(x) PROVE TypeOK'
    <2>1. x \in Transaction
        BY DEF TypeOK
    <2>2. requests' \in Seq(Transaction)
        BY <1>2, <2>1, AppendProperties DEF TypeOK, Again
    <2>3. copies' \in Nat
        BY <1>2 DEF TypeOK, Again
    <2>4. QED
        BY <1>2, <2>2, <2>3 DEF TypeOK, Again, receiver
<1>3. ASSUME NEW x \in transactionList, GiveUp(x) PROVE TypeOK'
    BY <1>3 DEF TypeOK, GiveUp, receiver, Others
<1>4. ASSUME NEW a \in answers, ReceiveAnswer(a) PROVE TypeOK'
    <2>1. PICK x \in transactionList :
              /\ x.mid = a.mid /\ answers' = Others(x)
              /\ told' = [told EXCEPT ![x.transfer] = a.code]
              /\ UNCHANGED <<orderly, peerBlockSize, length, copies, receiver>>
              /\ Ends(a, x) \/ \E y : Goes(a, x, y)
        BY <1>4, AnswerFacts
    <2>2. answers' \subseteq Answer
        BY <2>1 DEF TypeOK, Others
    <2>3. a.code \in Codes
        BY DEF TypeOK, Answer
    <2>4. told' \in [Transfers -> Codes \cup {"none", "timeout"}]
        BY <2>1, <2>3 DEF TypeOK
    <2>5. requests' \in Seq(Transaction) /\ transactionList' \subseteq Transaction /\ nextMID' \in Nat
        <3>1. CASE Ends(a, x)
            BY <3>1 DEF TypeOK, Ends
        <3>2. ASSUME NEW y, Goes(a, x, y) PROVE requests' \in Seq(Transaction) /\ transactionList' \subseteq Transaction /\ nextMID' \in Nat
            <4>1. y \in Transaction
                BY <3>2 DEF Goes, Next1, Fits
            <4>2. requests' \in Seq(Transaction)
                BY <3>2, <4>1, JoinsFacts DEF Goes, TypeOK
            <4>3. nextMID' \in Nat
                BY <3>2 DEF Goes, TypeOK
            <4>4. QED
                BY <3>2, <4>1, <4>2, <4>3 DEF Goes, TypeOK
        <3>3. QED
            BY <2>1, <3>1, <3>2
    <2>6. QED
        BY <2>1, <2>2, <2>4, <2>5 DEF TypeOK, receiver
<1>5. ASSUME NEW i \in DOMAIN requests, NEW code \in Codes, ReceiveRequest(i, code) PROVE TypeOK'
    <2>1. /\ Fits(requests[i]) /\ Handle(requests[i], code)
          /\ requests' \in Seq(Transaction)
          /\ answers' \subseteq answers \cup {Reply(requests[i], code)} /\ Reply(requests[i], code) \in Answer
          /\ UNCHANGED <<orderly, peerBlockSize, sender>>
        BY <1>5, RequestFacts
    <2>2. blockData' \in [num : Nat, units : Seq(Unit)]
        BY <2>1, StoredType
    <2>3. answers' \subseteq Answer
        BY <2>1 DEF TypeOK
    <2>4. QED
        BY <2>1, <2>2, <2>3 DEF TypeOK, sender
<1>6. CASE UNCHANGED vars
    BY <1>6 DEF TypeOK, vars, sender, receiver
<1>7. QED
    BY <1>1, <1>2, <1>3, <1>4, <1>5, <1>6 DEF Next

-----------------------------------------------------------------------------
(* Requests, answers and outcomes, in both environments *)

LEMMA InitBlocks == Init => BlocksOK
<1> SUFFICES ASSUME Init PROVE BlocksOK
    OBVIOUS
<1>1. DOMAIN requests = {} /\ DOMAIN length = {}
    BY DEF Init
<1>2. Sent = {} /\ OnTheWay = {} /\ transactionList = {} /\ answers = {} /\ delivered = {}
    BY <1>1 DEF Init, Sent, OnTheWay
<1>3. SentOK /\ AnswersOK /\ EndedOK /\ QueueOK
    BY <1>1, <1>2 DEF SentOK, AnswersOK, EndedOK, QueueOK
<1>4. ReceiverOK
    BY <1>1, <1>2 DEF ReceiverOK, Intact
<1>5. QED
    BY <1>3, <1>4 DEF BlocksOK

\* What a step does to the requests: it sends none that is new, or one, y,
\* which is the only one of its transfer.
Fewer == Sent' \subseteq Sent /\ transactionList' \subseteq transactionList /\ nextMID' = nextMID
One(y) ==
    /\ Sent' \subseteq Sent \cup {y} /\ transactionList' \subseteq transactionList \cup {y}
    /\ Fits(y)' /\ y.mid = nextMID /\ nextMID' = nextMID + 1
    /\ \A x \in transactionList \cap transactionList' : x.transfer # y.transfer

LEMMA StepFacts ==
    ASSUME TypeOK, SentOK, AnswersOK, [Next]_vars
    PROVE  /\ peerBlockSize' = peerBlockSize /\ orderly' = orderly
           /\ \A t \in DOMAIN length : t \in DOMAIN length' /\ length'[t] = length[t]
           /\ Fewer \/ \E y : One(y)
<1> DEFINE Goal == /\ peerBlockSize' = peerBlockSize /\ orderly' = orderly
                   /\ \A t \in DOMAIN length : t \in DOMAIN length' /\ length'[t] = length[t]
                   /\ Fewer \/ \E y : One(y)
<1>1. ASSUME NEW n \in Lengths, Write(n) PROVE Goal
    <2>1. PICK x \in Transaction : Begins(n, x)
        BY <1>1, WriteFacts
    <2>2. OnTheWay' \subseteq OnTheWay \cup {x}
        BY <2>1, JoinsFacts DEF TypeOK, Begins
    <2>3. \A z \in transactionList : z.transfer # x.transfer
        BY <2>1 DEF Begins, SentOK, Sent
    <2>4. One(x)
        BY <2>1, <2>2, <2>3 DEF Begins, One, Sent
    <2>5. QED
        BY <2>1, <2>4 DEF Begins
<1>2. ASSUME NEW x \in transactionList, Again(x) PROVE Goal
    <2>1. x \in Transaction
        BY DEF TypeOK
    <2>2. OnTheWay' = OnTheWay \cup {x}
        BY <1>2, <2>1, AppendFacts DEF TypeOK, Again
    <2>3. Fewer
        BY <1>2, <2>2 DEF Fewer, Sent, Again
    <2>4. QED
        BY <1>2, <2>3 DEF Again
<1>3. ASSUME NEW x \in transactionList, GiveUp(x) PROVE Goal
    <2>1. Fewer
        BY <1>3 DEF Fewer, Sent, OnTheWay, GiveUp
    <2>2. QED
        BY <1>3, <2>1 DEF GiveUp
<1>4. ASSUME NEW a \in answers, ReceiveAnswer(a) PROVE Goal
    <2>1. PICK x \in transactionList :
              /\ UNCHANGED <<orderly, peerBlockSize, length, copies, receiver>>
              /\ Ends(a, x) \/ \E y : Goes(a, x, y)
        BY <1>4, AnswerFacts
    <2>2. CASE Ends(a, x)
        <3>1. Fewer
            BY <2>2 DEF Fewer, Sent, OnTheWay, Ends
        <3>2. QED
            BY <2>1, <3>1
    <2>3. ASSUME NEW y, Goes(a, x, y) PROVE Goal
        <3>1. Fits(y) /\ y \in Transaction /\ Joins(y) /\ y.mid = nextMID /\ y.transfer = x.transfer
            BY <2>3 DEF Goes, Next1, Fits
        <3>2. OnTheWay' \subseteq OnTheWay \cup {y}
            BY <3>1, JoinsFacts DEF TypeOK
        <3>3. Fits(y)'
            BY <2>1, <3>1 DEF Fits
        <3>4. ASSUME NEW z \in transactionList, z \in transactionList', z.transfer = y.transfer PROVE FALSE
            <4>1. z = x
                BY <3>1, <3>4 DEF SentOK
            <4>2. y = x
                BY <2>3, <3>4, <4>1 DEF Goes
            <4>3. x.mid < nextMID /\ nextMID \in Nat
                BY DEF SentOK, Sent, TypeOK
            <4>4. QED
                BY <3>1, <4>2, <4>3
        <3>5. One(y)
            BY <2>3, <3>1, <3>2, <3>3, <3>4 DEF Goes, One, Sent
        <3>6. QED
            BY <2>1, <3>5
    <2>4. QED
        BY <2>1, <2>2, <2>3
<1>5. ASSUME NEW i \in DOMAIN requests, NEW code \in Codes, ReceiveRequest(i, code) PROVE Goal
    <2>1. OnTheWay' \subseteq OnTheWay /\ UNCHANGED <<orderly, peerBlockSize, sender>>
        BY <1>5, RequestFacts
    <2>2. Fewer
        BY <2>1 DEF Fewer, Sent, sender
    <2>3. QED
        BY <2>1, <2>2 DEF sender
<1>6. CASE UNCHANGED vars
    <2>1. Fewer
        BY <1>6 DEF vars, sender, Fewer, Sent, OnTheWay
    <2>2. QED
        BY <1>6, <2>1 DEF vars, sender
<1>7. Goal
    BY <1>1, <1>2, <1>3, <1>4, <1>5, <1>6 DEF Next
<1>8. QED
    BY <1>7

LEMMA NextSent == TypeOK /\ SentOK /\ AnswersOK /\ [Next]_vars => SentOK'
<1> SUFFICES ASSUME TypeOK, SentOK, AnswersOK, [Next]_vars PROVE SentOK'
    OBVIOUS
<1>1. /\ peerBlockSize' = peerBlockSize
      /\ \A t \in DOMAIN length : t \in DOMAIN length' /\ length'[t] = length[t]
      /\ Fewer \/ \E y : One(y)
    BY StepFacts
<1>2. ASSUME NEW x \in Sent PROVE Fits(x)' /\ x.mid < nextMID /\ x.mid \in Nat
    <2>1. Fits(x) /\ x.mid < nextMID /\ x \in Transaction
        BY SentFacts DEF SentOK
    <2>2. Fits(x)'
        BY <1>1, <2>1 DEF Fits
    <2>3. QED
        BY <2>1, <2>2 DEF Transaction
<1>3. nextMID \in Nat
    BY DEF TypeOK
<1>4. CASE Fewer
    <2>1. \A x \in Sent' : Fits(x)' /\ x.mid < nextMID'
        BY <1>2, <1>4 DEF Fewer
    <2>2. \A x, y \in Sent' : x.mid = y.mid => x = y
        BY <1>4 DEF Fewer, SentOK
    <2>3. \A x, y \in transactionList' : x.transfer = y.transfer => x = y
        BY <1>4 DEF Fewer, SentOK
    <2>4. QED
        BY <2>1, <2>2, <2>3 DEF SentOK, Fits
<1>5. ASSUME NEW y, One(y) PROVE SentOK'
    <2>1. y.mid < nextMID' /\ \A x \in Sent : x.mid < nextMID' /\ x.mid # y.mid
        BY <1>2, <1>3, <1>5 DEF One
    <2>2. \A x \in Sent' : Fits(x)' /\ x.mid < nextMID'
        BY <1>2, <1>5, <2>1 DEF One
    <2>3. \A x, z \in Sent' : x.mid = z.mid => x = z
        <3>1. ASSUME NEW x \in Sent', NEW z \in Sent', x.mid = z.mid PROVE x = z
            <4>1. (x \in Sent \/ x = y) /\ (z \in Sent \/ z = y)
                BY <1>5 DEF One
            <4>2. QED
                BY <2>1, <3>1, <4>1 DEF SentOK
        <3>2. QED
            BY <3>1
    <2>4. \A x, z \in transactionList' : x.transfer = z.transfer => x = z
        <3>1. ASSUME NEW x \in transactionList', NEW z \in transactionList', x.transfer = z.transfer PROVE x = z
            <4>1. (x \in transactionList \/ x = y) /\ (z \in transactionList \/ z = y)
                BY <1>5 DEF One
            <4>2. CASE x \in transactionList /\ z \in transactionList
                BY <3>1, <4>2 DEF SentOK
            <4>3. \A v \in transactionList : v \in transactionList' => v.transfer # y.transfer
                BY <1>5 DEF One
            <4>4. QED
                BY <3>1, <4>1, <4>2, <4>3
        <3>2. QED
            BY <3>1
    <2>5. QED
        BY <2>2, <2>3, <2>4 DEF SentOK, Fits
<1>6. QED
    BY <1>1, <1>4, <1>5

\* An answer the sender may still hear says what became of the request.
LEMMA NextAnswers == TypeOK /\ SentOK /\ AnswersOK /\ [Next]_vars => AnswersOK'
<1> SUFFICES ASSUME TypeOK, SentOK, AnswersOK, [Next]_vars PROVE AnswersOK'
    OBVIOUS
<1>1. /\ peerBlockSize' = peerBlockSize
      /\ \A t \in DOMAIN length : t \in DOMAIN length' /\ length'[t] = length[t]
      /\ Fewer \/ \E y : One(y)
    BY StepFacts
<1>2. nextMID \in Nat /\ nextMID' \in {nextMID, nextMID + 1}
    BY <1>1 DEF Fewer, One, TypeOK
<1>3. \A x \in transactionList' : x \in transactionList \/ x.mid = nextMID
    BY <1>1 DEF Fewer, One
<1>4. ASSUME NEW x \in Sent, NEW a, Truthful(a, x) PROVE Truthful(a, x)'
    <2>1. length'[x.transfer] = length[x.transfer]
        BY <1>1 DEF SentOK
    <2>2. More(x)' <=> More(x)
        BY <2>1, SameUnits
    <2>3. QED
        BY <1>1, <1>4, <2>2 DEF Truthful
<1>5. ASSUME NEW a \in answers'
      PROVE  \/ a \in answers
             \/ /\ a.mid < nextMID
                /\ \A x \in transactionList : a.mid = x.mid => Truthful(a, x)
                /\ transactionList' = transactionList
    <2> SUFFICES ASSUME a \notin answers
                 PROVE  /\ a.mid < nextMID
                        /\ \A x \in transactionList : a.mid = x.mid => Truthful(a, x)
                        /\ transactionList' = transactionList
        OBVIOUS
    \* Only a request that is delivered makes an answer.
    <2>1. PICK i \in DOMAIN requests, code \in Codes : ReceiveRequest(i, code)
        <3>1. answers' # answers
            OBVIOUS
        <3>2. ~ \E n \in Lengths : Write(n)
            BY DEF Write
        <3>3. ~ \E x \in transactionList : Again(x) \/ GiveUp(x)
            BY DEF Again, GiveUp, Others
        <3>4. ~ \E b \in answers : ReceiveAnswer(b)
            BY DEF ReceiveAnswer, Others
        <3>5. QED
            BY <3>1, <3>2, <3>3, <3>4 DEF Next, vars
    <2>2. /\ requests[i] \in OnTheWay
          /\ answers' \subseteq answers \cup {Reply(requests[i], code)}
          /\ Truthful(Reply(requests[i], code), requests[i])
          /\ \A x \in transactionList : x.mid = Reply(requests[i], code).mid => x = requests[i]
          /\ UNCHANGED <<orderly, peerBlockSize, sender>>
        BY <2>1, RequestFacts
    <2>3. a = Reply(requests[i], code)
        BY <2>2
    <2>4. a.mid = requests[i].mid /\ requests[i].mid < nextMID
        BY <2>2, <2>3 DEF Reply, SentOK, Sent
    <2>5. QED
        BY <2>2, <2>3, <2>4 DEF sender
<1>6. \A a \in answers : a.mid < nextMID /\ a.mid \in Nat /\ \A x \in transactionList : a.mid = x.mid => Truthful(a, x)
    BY DEF AnswersOK, Truthful, TypeOK, Answer
<1>7. \A a \in answers' : a.mid < nextMID
    BY <1>5, <1>6
<1>8. answers' \subseteq Answer
    BY NextType DEF TypeOK
<1>9. ASSUME NEW a \in answers' PROVE a.mid < nextMID' /\ a.mid # nextMID
    <2>1. a.mid \in Nat /\ a.mid < nextMID
        BY <1>7, <1>8 DEF Answer
    <2>2. QED
        BY <1>2, <2>1
<1>10. ASSUME NEW a \in answers', NEW x \in transactionList', a.mid = x.mid PROVE Truthful(a, x)'
    <2>1. x \in transactionList
        BY <1>3, <1>9, <1>10
    <2>2. Truthful(a, x)
        BY <1>5, <1>6, <1>10, <2>1
    <2>3. QED
        BY <1>4, <2>1, <2>2 DEF Sent
<1>11. QED
    BY <1>9, <1>10 DEF AnswersOK, Truthful

\* What is over now was over before and has been told no more, or it is over by
\* what the user is told in this step: a time out, or an answer.
LEMMA OverFacts ==
    ASSUME TypeOK, SentOK, AnswersOK, [Next]_vars, NEW t \in DOMAIN length', Blocks(t)' = {}
    PROVE  /\ t \in DOMAIN length
           /\ \/ Blocks(t) = {} /\ told'[t] = told[t]
              \/ told'[t] = "timeout"
              \/ \E a \in answers, x \in transactionList :
                    a.mid = x.mid /\ x.transfer = t /\ told'[t] = a.code /\ a.code # "continue"
<1> DEFINE Goal == /\ t \in DOMAIN length
                   /\ \/ Blocks(t) = {} /\ told'[t] = told[t]
                      \/ told'[t] = "timeout"
                      \/ \E a \in answers, x \in transactionList :
                            a.mid = x.mid /\ x.transfer = t /\ told'[t] = a.code /\ a.code # "continue"
<1>1. \A x \in transactionList' : x.transfer # t
    BY DEF Blocks
<1>2. ASSUME NEW n \in Lengths, Write(n) PROVE Goal
    <2>1. PICK x \in Transaction : Begins(n, x)
        BY <1>2, WriteFacts
    <2>2. t \in DOMAIN length /\ told' = told
        BY <1>1, <2>1 DEF Begins
    <2>3. Blocks(t) = {}
        BY <1>1, <2>1 DEF Begins, Blocks
    <2>4. QED
        BY <2>2, <2>3
<1>3. ASSUME NEW x \in transactionList, Again(x) PROVE Goal
    BY <1>3 DEF Again, Blocks
<1>4. ASSUME NEW x \in transactionList, x.transfer # t, NEW c, told' = [told EXCEPT ![x.transfer] = c],
             length' = length, \A y \in transactionList : y \in transactionList' \/ y = x
      PROVE  Goal
    <2>1. Blocks(t) = {}
        BY <1>1, <1>4 DEF Blocks
    <2>2. told'[t] = told[t]
        <3>1. t \in Transfers
            BY <1>4, LengthFacts
        <3>2. QED
            BY <1>4, <3>1 DEF TypeOK
    <2>3. QED
        BY <1>4, <2>1, <2>2
<1>5. told \in [Transfers -> Codes \cup {"none", "timeout"}] /\ \A x \in transactionList : x.transfer \in Transfers
    BY DEF TypeOK, Transaction
<1>6. ASSUME NEW x \in transactionList, GiveUp(x) PROVE Goal
    <2>1. told' = [told EXCEPT ![x.transfer] = "timeout"] /\ transactionList' = transactionList \ {x} /\ length' = length
        BY <1>6 DEF GiveUp
    <2>2. told'[x.transfer] = "timeout"
        BY <1>5, <2>1
    <2>3. CASE x.transfer = t
        BY <2>1, <2>2, <2>3
    <2>4. CASE x.transfer # t
        BY <1>4, <2>1, <2>2, <2>4
    <2>5. QED
        BY <2>3, <2>4
<1>7. ASSUME NEW a \in answers, ReceiveAnswer(a) PROVE Goal
    <2>1. PICK x \in transactionList :
              /\ x.mid = a.mid
              /\ told' = [told EXCEPT ![x.transfer] = a.code]
              /\ length' = length
              /\ Ends(a, x) \/ \E y : Goes(a, x, y)
        BY <1>7, AnswerFacts
    <2>2. told'[x.transfer] = a.code
        BY <1>5, <2>1
    <2>3. CASE x.transfer = t
        <3>1. a.code # "continue"
            <4>1. ASSUME NEW y, Goes(a, x, y) PROVE FALSE
                <5>1. y \in transactionList' /\ y.transfer = x.transfer
                    BY <4>1 DEF Goes, Next1
                <5>2. QED
                    BY <1>1, <2>3, <5>1
            <4>2. QED
                BY <2>1, <4>1 DEF Ends
        <3>2. QED
            BY <2>1, <2>2, <2>3, <3>1
    <2>4. CASE x.transfer # t
        <3>1. \A y \in transactionList : y \in transactionList' \/ y = x
            BY <2>1 DEF Ends, Goes
        <3>2. QED
            BY <1>4, <2>1, <2>2, <2>4, <3>1
    <2>5. QED
        BY <2>3, <2>4
<1>8. ASSUME NEW i \in DOMAIN requests, NEW code \in Codes, ReceiveRequest(i, code) PROVE Goal
    BY <1>8 DEF ReceiveRequest, sender, Blocks
<1>9. CASE UNCHANGED vars
    BY <1>9 DEF vars, sender, Blocks
<1>10. Goal
    BY <1>2, <1>3, <1>6, <1>7, <1>8, <1>9 DEF Next
<1>11. QED
    BY <1>10

LEMMA NextEnded == TypeOK /\ SentOK /\ AnswersOK /\ EndedOK /\ [Next]_vars => EndedOK'
<1> SUFFICES ASSUME TypeOK, SentOK, AnswersOK, EndedOK, [Next]_vars,
                    NEW t \in DOMAIN length', Blocks(t)' = {}
             PROVE  told'[t] \notin {"none", "continue"}
    BY DEF EndedOK
<1>1. /\ t \in DOMAIN length
      /\ \/ Blocks(t) = {} /\ told'[t] = told[t]
         \/ told'[t] = "timeout"
         \/ \E a \in answers, x \in transactionList :
               a.mid = x.mid /\ x.transfer = t /\ told'[t] = a.code /\ a.code # "continue"
    BY OverFacts
<1>2. \A a \in answers : a.code \in Codes
    BY DEF TypeOK, Answer
<1>3. QED
    BY <1>1, <1>2 DEF EndedOK, Codes

-----------------------------------------------------------------------------
(* The orderly environment: what is on the way *)

LEMMA NextQueue == TypeOK /\ SentOK /\ AnswersOK /\ QueueOK /\ [Next]_vars => QueueOK'
<1> SUFFICES ASSUME TypeOK, SentOK, AnswersOK, QueueOK, [Next]_vars, orderly PROVE QueueOK'
    <2>1. orderly' = orderly \/ ~(TypeOK /\ SentOK /\ AnswersOK /\ [Next]_vars)
        BY StepFacts
    <2>2. QED
        BY <2>1 DEF QueueOK
<1>1. /\ \A x, y \in transactionList : x = y
      /\ \A i, j \in DOMAIN requests : i < j => requests[i].mid <= requests[j].mid
      /\ \A x \in transactionList, y \in OnTheWay : y.mid <= x.mid
      /\ \A a \in answers, x \in transactionList, y \in OnTheWay : a.mid = x.mid => y = x
    BY DEF QueueOK
<1>2. nextMID \in Nat /\ \A y \in OnTheWay : y.mid \in Nat /\ y.mid < nextMID
    BY SentFacts DEF Sent, SentOK, Transaction, TypeOK
<1>3. \A a \in answers : a.mid \in Nat /\ a.mid < nextMID
    BY DEF AnswersOK, TypeOK, Answer
<1>4. \A i \in DOMAIN requests : requests[i] \in OnTheWay
    BY DEF OnTheWay
\* A new request is the only one that is not over, and the last on its way.
<1>5. ASSUME NEW y \in Transaction, y.mid = nextMID, Joins(y), transactionList' \subseteq {y}, answers' \subseteq answers
      PROVE  QueueOK'
    <2>1. /\ OnTheWay' \subseteq OnTheWay \cup {y}
          /\ \A i, j \in DOMAIN requests' : i < j =>
                 /\ i \in DOMAIN requests /\ requests'[i] = requests[i]
                 /\ \/ j \in DOMAIN requests /\ requests'[j] = requests[j]
                    \/ requests'[j] = y
        BY <1>5, JoinsFacts DEF TypeOK
    <2>2. \A z \in OnTheWay : z.mid <= y.mid
        BY <1>2, <1>5
    <2>3. y.mid <= y.mid /\ \A a \in answers : a.mid # y.mid
        BY <1>2, <1>3, <1>5
    <2>4. \A i, j \in DOMAIN requests' : i < j => requests'[i].mid <= requests'[j].mid
        BY <1>1, <1>4, <2>1, <2>2
    <2>5. \A x \in transactionList', z \in OnTheWay' : z.mid <= x.mid
        BY <1>5, <2>1, <2>2, <2>3
    <2>6. \A a \in answers', x \in transactionList' : a.mid # x.mid
        BY <1>5, <2>3
    <2>7. \A x, z \in transactionList' : x = z
        BY <1>5
    <2>8. QED
        BY <2>4, <2>5, <2>6, <2>7 DEF QueueOK
<1>6. ASSUME requests' = requests, transactionList' \subseteq transactionList, answers' \subseteq answers
      PROVE  QueueOK'
    <2>1. OnTheWay' = OnTheWay
        BY <1>6 DEF OnTheWay
    <2>2. QED
        BY <1>1, <1>6, <2>1 DEF QueueOK
<1>7. ASSUME NEW n \in Lengths, Write(n) PROVE QueueOK'
    <2>1. PICK x \in Transaction : Begins(n, x)
        BY <1>7, WriteFacts
    <2>2. QED
        BY <1>5, <2>1 DEF Begins
<1>8. ASSUME NEW x \in transactionList, Again(x) PROVE QueueOK'
    <2>1. /\ x \in Transaction /\ requests' = Append(requests, x)
          /\ transactionList' = transactionList /\ answers' = answers
        BY <1>8 DEF Again, TypeOK
    <2>2. /\ OnTheWay' \subseteq OnTheWay \cup {x}
          /\ \A i, j \in DOMAIN requests' : i < j =>
                 /\ i \in DOMAIN requests /\ requests'[i] = requests[i]
                 /\ \/ j \in DOMAIN requests /\ requests'[j] = requests[j]
                    \/ requests'[j] = x
        BY <2>1, JoinsFacts DEF TypeOK, Joins
    <2>3. x.mid <= x.mid
        BY <2>1 DEF Transaction
    <2>4. \A i, j \in DOMAIN requests' : i < j => requests'[i].mid <= requests'[j].mid
        BY <1>1, <1>4, <2>2
    <2>5. \A z \in transactionList', y \in OnTheWay' : y.mid <= z.mid
        BY <1>1, <2>1, <2>2, <2>3
    <2>6. \A a \in answers', z \in transactionList', y \in OnTheWay' : a.mid = z.mid => y = z
        BY <1>1, <2>1, <2>2
    <2>7. QED
        BY <1>1, <2>1, <2>4, <2>5, <2>6 DEF QueueOK
<1>9. ASSUME NEW x \in transactionList, GiveUp(x) PROVE QueueOK'
    BY <1>6, <1>9 DEF GiveUp, Others
<1>10. ASSUME NEW a \in answers, ReceiveAnswer(a) PROVE QueueOK'
    <2>1. PICK x \in transactionList : answers' = Others(x) /\ (Ends(a, x) \/ \E y : Goes(a, x, y))
        BY <1>10, AnswerFacts
    <2>2. answers' \subseteq answers
        BY <2>1 DEF Others
    <2>3. CASE Ends(a, x)
        BY <1>6, <2>2, <2>3 DEF Ends
    <2>4. ASSUME NEW y, Goes(a, x, y) PROVE QueueOK'
        <3>1. y \in Transaction /\ y.mid = nextMID /\ Joins(y)
            BY <2>4 DEF Goes, Next1, Fits
        <3>2. transactionList' \subseteq {y}
            BY <1>1, <2>4 DEF Goes
        <3>3. QED
            BY <1>5, <2>2, <3>1, <3>2
    <2>5. QED
        BY <2>1, <2>3, <2>4
<1>11. ASSUME NEW i \in DOMAIN requests, NEW code \in Codes, ReceiveRequest(i, code) PROVE QueueOK'
    <2>1. i = 1 /\ requests' = Without(requests, i)
        BY <1>11 DEF ReceiveRequest
    <2>2. PICK h : h = requests[1]
        OBVIOUS
    <2>3. /\ h \in OnTheWay /\ OnTheWay' \subseteq OnTheWay /\ transactionList' = transactionList
          /\ answers' \subseteq answers \cup {Reply(h, code)}
          /\ \A x \in transactionList : x.mid = Reply(h, code).mid => x = h
        BY <1>11, <2>1, <2>2, RequestFacts DEF sender
    <2>4. /\ DOMAIN requests' = 1..(Len(requests) - 1) /\ DOMAIN requests = 1..Len(requests) /\ Len(requests) \in Nat
          /\ \A j \in DOMAIN requests' : requests'[j] = requests[j + 1]
        BY <2>1, WithoutFacts DEF TypeOK
    <2>5. \A j \in DOMAIN requests' : j + 1 \in DOMAIN requests /\ 1 \in DOMAIN requests /\ 1 < j + 1
        BY <2>4
    <2>6. \A j, k \in DOMAIN requests' : j < k => j + 1 < k + 1
        BY <2>4
    <2>7. \A j, k \in DOMAIN requests' : j < k => requests'[j].mid <= requests'[k].mid
        BY <1>1, <2>4, <2>5, <2>6
    <2>8. \A y \in OnTheWay' : h.mid <= y.mid
        <3>1. ASSUME NEW j \in DOMAIN requests' PROVE h.mid <= requests'[j].mid
            BY <1>1, <2>2, <2>4, <2>5
        <3>2. QED
            BY <3>1 DEF OnTheWay
    <2>9. ASSUME NEW a \in answers', NEW x \in transactionList', NEW y \in OnTheWay', a.mid = x.mid
          PROVE  y = x
        <3>1. CASE a \in answers
            BY <1>1, <2>3, <2>9, <3>1
        <3>2. CASE a = Reply(h, code)
            <4>1. x = h
                BY <2>3, <2>9, <3>2
            <4>2. h.mid <= y.mid /\ y.mid <= x.mid /\ y.mid \in Nat /\ h.mid \in Nat
                BY <1>1, <1>2, <2>3, <2>8
            <4>3. y.mid = x.mid
                BY <4>1, <4>2
            <4>4. QED
                BY <2>3, <4>3 DEF SentOK, Sent
        <3>3. QED
            BY <2>3, <3>1, <3>2
    <2>10. QED
        BY <1>1, <2>3, <2>7, <2>9 DEF QueueOK
<1>12. CASE UNCHANGED vars
    BY <1>6, <1>12 DEF vars, sender
<1>13. QED
    BY <1>7, <1>8, <1>9, <1>10, <1>11, <1>12 DEF Next

-----------------------------------------------------------------------------
(* The orderly environment: the receiver *)

\* Where one block ends the next one begins; and a later block is stored or not.
LEMMA PrecedesFacts ==
    ASSUME TypeOK, NEW y, Fits(y), NEW x, Fits(x), Precedes(y, x), Later(x)
    PROVE  After(y) = Before(x) /\ Before(x) # After(x) /\ y.size <= peerBlockSize
<1>1. /\ x.num \in Nat /\ y.num \in Nat /\ x.size \in Nat /\ x.num = y.num + 1
      /\ y.block1 /\ x.block1 /\ y.size = x.size /\ y.transfer = x.transfer /\ x.num > 0
    BY DEF Fits, Transaction, Precedes, Later
<1>2. x.num * x.size < length[x.transfer] /\ x.num * x.size \in Nat /\ length[x.transfer] \in Nat /\ x.size <= peerBlockSize
    <2>1. x.num # 0
        BY <1>1
    <2>2. QED
        BY <1>1, <2>1, OneMore, LengthFacts DEF Fits
<1>3. (y.num + 1) * y.size = x.num * x.size
    BY <1>1
<1>4. Last(y) = First(x)
    <2>1. (y.num + 1) * y.size <= length[y.transfer]
        BY <1>1, <1>2, <1>3
    <2>2. QED
        BY <1>1, <1>3, <2>1, Bounds
<1>5. x.num - 1 = y.num /\ x.num - 1 # x.num
    BY <1>1
<1>6. After(y) = Before(x)
    BY <1>1, <1>4, <1>5 DEF After, Before
<1>7. Before(x).num # After(x).num
    BY <1>5 DEF After, Before
<1>8. QED
    BY <1>1, <1>2, <1>6, <1>7

\* What coap_block1_handler and handle_request do with block x, when a later
\* block finds what the one before it left, or what it left itself.
LEMMA HandleFacts ==
    ASSUME TypeOK, NEW x, Fits(x), NEW code \in Codes, Handle(x, code),
           Later(x) => blockData \in {Before(x), After(x)},
           Later(x) /\ blockData = After(x) /\ ~More(x) => Payload(x.transfer) \in delivered
    PROVE  /\ delivered \subseteq delivered' /\ delivered' \subseteq delivered \cup {Payload(x.transfer)}
           /\ blockData' \in {blockData, After(x)}
           /\ x.block1 /\ (x.size <= peerBlockSize \/ code \in {"ok", "continue"}) => blockData' = After(x)
           /\ code = "ok" => Payload(x.transfer) \in delivered'
           /\ Later(x) => blockData' = After(x)
           /\ Later(x) /\ ~More(x) => Payload(x.transfer) \in delivered'
<1> DEFINE n == Len(Units(x))
           Goal == /\ delivered \subseteq delivered' /\ delivered' \subseteq delivered \cup {Payload(x.transfer)}
                   /\ blockData' \in {blockData, After(x)}
                   /\ x.block1 /\ (x.size <= peerBlockSize \/ code \in {"ok", "continue"}) => blockData' = After(x)
                   /\ code = "ok" => Payload(x.transfer) \in delivered'
                   /\ Later(x) => blockData' = After(x)
                   /\ Later(x) /\ ~More(x) => Payload(x.transfer) \in delivered'
<1>1. /\ x.num \in Nat /\ x.size \in Nat /\ x.block1 \in BOOLEAN /\ x.transfer \in Transfers
      /\ peerBlockSize \in Nat /\ n \in Nat
      /\ First(x) \in Nat /\ Last(x) \in Nat
    <2>1. peerBlockSize \in Nat
        BY SizesAssumption DEF SizesAssumption, TypeOK
    <2>2. First(x) \in Nat /\ Last(x) \in Nat /\ n = Last(x) - First(x) /\ First(x) < Last(x)
        BY Bounds, UnitsFacts
    <2>3. QED
        BY <2>1, <2>2 DEF Fits, Transaction
<1>2. Payload(x.transfer) = Prefix(x.transfer, length[x.transfer])
    BY DEF Payload, Prefix
<1>3. ~More(x) => Prefix(x.transfer, Last(x)) = Payload(x.transfer)
    BY <1>2, Bounds
<1>4. Later(x) \/ x.num = 0
    BY <1>1 DEF Later, Fits
<1>5. Later(x) => x.size <= peerBlockSize
    BY <1>1 DEF Later, Fits
<1>6. x.block1 /\ x.size <= peerBlockSize => n <= peerBlockSize
    BY <1>1, Bounds, UnitsFacts
<1>7. x.num = 0 => Stored(x) = After(x)
    <2>1. ASSUME x.num = 0 PROVE Stored(x) = After(x)
        <3>1. Units(x) = Prefix(x.transfer, Last(x))
            BY <2>1, Bounds, UnitsFacts
        <3>2. QED
            BY <2>1, <3>1 DEF Stored, Fresh, After
    <2>2. QED
        BY <2>1
<1>8. Later(x) => x.num > 0 /\ x.block1 /\ First(x) > 0 /\ First(x) = x.size * x.num
    <2>1. ASSUME Later(x) PROVE x.num > 0 /\ x.block1 /\ First(x) > 0 /\ First(x) = x.size * x.num
        <3>1. x.num > 0 /\ x.block1 /\ x.size > 0 /\ First(x) = x.num * x.size
            BY <2>1, Bounds DEF Later, Fits
        <3>2. x.num * x.size = x.size * x.num /\ x.num * x.size > 0
            BY <1>1, <3>1
        <3>3. QED
            BY <3>1, <3>2
    <2>2. QED
        BY <2>1
<1>. HIDE DEF n
\* The block before it is stored: it is appended.
<1>9. ASSUME Later(x), blockData = Before(x)
      PROVE  ~Incomplete(x) /\ ~Repeated(x) /\ Stored(x) = After(x)
    <2>1. blockData.num = x.num - 1 /\ blockData.units = Prefix(x.transfer, First(x))
        BY <1>9 DEF Before
    <2>2. Len(blockData.units) = First(x)
        BY <1>1, <2>1, PrefixFacts
    <2>3. x.num = blockData.num + 1 /\ ~(x.num <= blockData.num) /\ x.num # 0
        BY <1>1, <1>8, <1>9, <2>1
    <2>4. Appends(x)
        BY <1>8, <1>9, <2>2, <2>3 DEF Appends
    <2>5. blockData.units # <<>>
        <3>1. Len(blockData.units) # 0
            BY <1>1, <1>8, <1>9, <2>2
        <3>2. QED
            BY <3>1
    <2>6. ~Incomplete(x) /\ ~Repeated(x)
        BY <2>3, <2>4, <2>5 DEF Incomplete, Repeated
    <2>7. blockData.units \o Units(x) = Prefix(x.transfer, Last(x))
        BY <2>1, UnitsFacts
    <2>8. Stored(x) = After(x)
        BY <2>3, <2>4, <2>7 DEF Stored, Fresh, After
    <2>9. QED
        BY <2>6, <2>8
\* It is stored itself: it is taken for a retransmission.
<1>10. ASSUME Later(x), blockData = After(x)
       PROVE  ~Incomplete(x) /\ Repeated(x)
    <2>1. blockData.num = x.num /\ blockData.units = Prefix(x.transfer, Last(x))
        BY <1>10 DEF After
    <2>2. Len(blockData.units) = Last(x) /\ First(x) < Last(x)
        BY <1>1, <2>1, PrefixFacts, Bounds
    <2>3. blockData.units # <<>>
        <3>1. Len(blockData.units) # 0
            BY <1>1, <2>2
        <3>2. QED
            BY <3>1
    <2>4. x.num # blockData.num + 1 /\ x.num <= blockData.num /\ x.num > 0
        BY <1>1, <1>8, <1>10, <2>1
    <2>5. QED
        BY <2>3, <2>4 DEF Incomplete, Repeated
<1>11. CASE n > peerBlockSize /\ code = "too large" /\ UNCHANGED receiver
    <2>1. ~Later(x) /\ ~(x.block1 /\ x.size <= peerBlockSize)
        <3>1. ~(n <= peerBlockSize)
            <4>1. n > peerBlockSize
                BY <1>11
            <4>2. n \in Nat /\ peerBlockSize \in Nat
                BY <1>1
            <4>3. QED
                BY <4>1, <4>2
        <3>2. QED
            BY <1>5, <1>6, <3>1 DEF Later
    <2>2. QED
        BY <1>11, <2>1 DEF receiver
<1>12. CASE ~x.block1 /\ Deliver(Units(x), code) /\ UNCHANGED blockData
    <2>1. Units(x) = Payload(x.transfer)
        BY <1>2, <1>12, Bounds, UnitsFacts
    <2>2. delivered' = delivered \cup {Payload(x.transfer)} /\ ~Later(x)
        BY <1>12, <2>1 DEF Deliver, Later
    <2>3. QED
        BY <1>12, <2>2
<1>13. CASE x.block1 /\ Incomplete(x) /\ code = "incomplete" /\ UNCHANGED receiver
    <2>1. ~Later(x)
        BY <1>9, <1>10, <1>13
    <2>2. ~Incomplete(x)
        BY <1>1, <1>4, <2>1 DEF Incomplete
    <2>3. QED
        BY <1>13, <2>2
<1>14. CASE /\ x.block1 /\ ~Incomplete(x) /\ Repeated(x)
            /\ code = IF More(x) THEN "continue" ELSE "ok"
            /\ UNCHANGED receiver
    <2>1. x.num # 0
        BY <1>1, <1>14 DEF Repeated
    <2>2. Later(x) /\ blockData = After(x)
        BY <1>4, <1>9, <1>14, <2>1
    <2>3. code = "ok" => ~More(x)
        BY <1>14
    <2>4. QED
        BY <1>14, <2>2, <2>3 DEF receiver
<1>15. CASE /\ x.block1 /\ ~Incomplete(x) /\ ~Repeated(x)
            /\ blockData' = Stored(x)
            /\ IF More(x)
               THEN code = "continue" /\ UNCHANGED delivered
               ELSE Deliver(Stored(x).units, code)
    <2>1. Stored(x) = After(x)
        BY <1>4, <1>7, <1>9, <1>10, <1>15
    <2>2. CASE More(x)
        BY <1>15, <2>1, <2>2
    <2>3. CASE ~More(x)
        <3>1. Stored(x).units = Payload(x.transfer)
            BY <1>3, <2>1, <2>3 DEF After
        <3>2. delivered' = delivered \cup {Payload(x.transfer)}
            BY <1>15, <2>3, <3>1 DEF Deliver
        <3>3. QED
            BY <1>15, <2>1, <3>2
    <2>4. QED
        BY <2>2, <2>3
<1>16. Goal
    <2>1. \/ n > peerBlockSize /\ code = "too large" /\ UNCHANGED receiver
          \/ ~x.block1 /\ Deliver(Units(x), code) /\ UNCHANGED blockData
          \/ x.block1 /\ Incomplete(x) /\ code = "incomplete" /\ UNCHANGED receiver
          \/ /\ x.block1 /\ ~Incomplete(x) /\ Repeated(x)
             /\ code = IF More(x) THEN "continue" ELSE "ok"
             /\ UNCHANGED receiver
          \/ /\ x.block1 /\ ~Incomplete(x) /\ ~Repeated(x)
             /\ blockData' = Stored(x)
             /\ IF More(x)
                THEN code = "continue" /\ UNCHANGED delivered
                ELSE Deliver(Stored(x).units, code)
        BY DEF Handle, n
    <2>2. QED
        BY <1>11, <1>12, <1>13, <1>14, <1>15, <2>1
<1>17. QED
    BY <1>16

\* The receiver is where it was for a request that only newer ones have joined.
LEMMA StaysReached ==
    ASSUME NEW x, length'[x.transfer] = length[x.transfer], UNCHANGED receiver, Reaches(x),
           \A y \in OnTheWay' : y \in OnTheWay \/ ~(y.mid < x.mid)
    PROVE  Reaches(x)'
<1>1. /\ Before(x)' = Before(x) /\ After(x)' = After(x) /\ (More(x)' <=> More(x))
      /\ Payload(x.transfer)' = Payload(x.transfer)
    BY SameUnits
<1>2. QED
    BY <1>1 DEF Reaches, receiver, Precedes

LEMMA NextReceiver == TypeOK /\ BlocksOK /\ [Next]_vars => ReceiverOK'
<1> SUFFICES ASSUME TypeOK, BlocksOK, [Next]_vars, orderly, orderly' PROVE ReceiverOK'
    <2>1. TypeOK /\ BlocksOK /\ [Next]_vars => orderly' = orderly
        BY StepFacts DEF BlocksOK
    <2>2. QED
        BY <2>1 DEF ReceiverOK
<1>1. /\ SentOK /\ AnswersOK /\ EndedOK
      /\ \A x, y \in transactionList : x = y
      /\ \A i, j \in DOMAIN requests : i < j => requests[i].mid <= requests[j].mid
      /\ \A x \in transactionList, y \in OnTheWay : y.mid <= x.mid
      /\ \A a \in answers, x \in transactionList, y \in OnTheWay : a.mid = x.mid => y = x
    BY DEF BlocksOK, QueueOK
<1>2. /\ \A x \in Sent : Later(x) => Reaches(x)
      /\ \A a \in answers, x \in transactionList : a.mid = x.mid => Holds(a, x)
      /\ Intact
      /\ \A t \in DOMAIN length : Succeeds(t)
    BY DEF BlocksOK, ReceiverOK
<1>3. /\ peerBlockSize' = peerBlockSize
      /\ \A t \in DOMAIN length : t \in DOMAIN length' /\ length'[t] = length[t]
    BY <1>1, StepFacts
<1>4. /\ nextMID \in Nat
      /\ \A x \in Sent : x \in Transaction /\ Fits(x) /\ x.mid \in Nat /\ x.mid < nextMID /\ length'[x.transfer] = length[x.transfer]
    BY <1>1, <1>3, SentFacts DEF SentOK, Transaction, TypeOK
<1>5. /\ \A x \in transactionList : x \in Sent
      /\ \A y \in OnTheWay : y \in Sent
    BY DEF Sent
<1>6. \A t \in DOMAIN length : Payload(t)' = Payload(t)
    BY <1>3 DEF Payload
\* What is told at the end, whatever the step.
<1>7. ASSUME delivered \subseteq delivered', NEW t \in DOMAIN length' PROVE Succeeds(t)'
    <2> SUFFICES ASSUME Blocks(t)' = {}, told'[t] = "ok" PROVE Payload(t)' \in delivered'
        BY DEF Succeeds
    <2>1. /\ t \in DOMAIN length
          /\ \/ Blocks(t) = {} /\ told'[t] = told[t]
             \/ told'[t] = "timeout"
             \/ \E a \in answers, x \in transactionList :
                   a.mid = x.mid /\ x.transfer = t /\ told'[t] = a.code /\ a.code # "continue"
        BY <1>1, OverFacts
    <2>2. Payload(t) \in delivered
        BY <1>2, <2>1 DEF Succeeds, Holds
    <2>3. QED
        BY <1>6, <1>7, <2>1, <2>2
<1>8. ASSUME NEW a, NEW x \in Sent, Holds(a, x), UNCHANGED receiver PROVE Holds(a, x)'
    <2>1. After(x)' = After(x) /\ Payload(x.transfer)' = Payload(x.transfer)
        BY <1>4, SameUnits
    <2>2. QED
        BY <1>8, <2>1 DEF Holds, receiver
<1>9. ASSUME delivered' \subseteq delivered \cup {Payload(t) : t \in DOMAIN length} PROVE Intact'
    <2>1. \A units \in delivered' : \E t \in DOMAIN length : units = Payload(t)
        BY <1>2, <1>9 DEF Intact
    <2>2. QED
        BY <1>3, <1>6, <2>1 DEF Intact
\* The sender's steps: older requests are where they were, and the new one is a
\* first one or follows a block that is stored.
<1>10. ASSUME UNCHANGED receiver,
              \A a \in answers' : a \in answers,
              \A x \in Sent' : \/ /\ x \in Sent
                                  /\ \A y \in OnTheWay' : y \in OnTheWay \/ ~(y.mid < x.mid)
                               \/ Later(x) => Reaches(x)',
              \A x \in transactionList' : x \in transactionList \/ x.mid = nextMID
       PROVE  ReceiverOK'
    <2>1. ASSUME NEW x \in Sent', Later(x) PROVE Reaches(x)'
        <3>1. CASE x \in Sent /\ \A y \in OnTheWay' : y \in OnTheWay \/ ~(y.mid < x.mid)
            <4>1. Reaches(x) /\ length'[x.transfer] = length[x.transfer]
                BY <1>2, <1>4, <2>1, <3>1
            <4>2. QED
                BY <1>10, <3>1, <4>1, StaysReached
        <3>2. QED
            BY <1>10, <2>1, <3>1
    <2>2. ASSUME NEW a \in answers', NEW x \in transactionList', a.mid = x.mid PROVE Holds(a, x)'
        <3>1. a.mid # nextMID
            <4>1. a.mid \in Nat /\ a.mid < nextMID
                BY <1>1, <1>10 DEF AnswersOK, TypeOK, Answer
            <4>2. QED
                BY <1>4, <4>1
        <3>2. x \in transactionList /\ a \in answers
            BY <1>10, <2>2, <3>1
        <3>3. QED
            BY <1>2, <1>5, <1>8, <1>10, <2>2, <3>2
    <2>3. Intact'
        BY <1>9, <1>10 DEF receiver
    <2>4. \A t \in DOMAIN length' : Succeeds(t)'
        BY <1>7, <1>10 DEF receiver
    <2>5. \A x \in Sent' : Later(x)' => Reaches(x)'
        BY <2>1 DEF Later
    <2>6. QED
        BY <2>2, <2>3, <2>4, <2>5 DEF ReceiverOK
<1>11. ASSUME NEW n \in Lengths, Write(n) PROVE ReceiverOK'
    <2>1. PICK x \in Transaction : Begins(n, x)
        BY <1>11, WriteFacts
    <2>2. OnTheWay' \subseteq OnTheWay \cup {x}
        BY <2>1, JoinsFacts DEF Begins, TypeOK
    <2>3. ~Later(x) /\ x.mid = nextMID
        BY <2>1 DEF Begins, Later, Transaction
    <2>4. \A z \in Sent : ~(x.mid < z.mid)
        BY <1>4, <2>3
    <2>5. \A z \in Sent' : z \in Sent \/ z = x
        BY <2>1, <2>2 DEF Sent, Begins
    <2>6. UNCHANGED receiver /\ answers' = answers /\ transactionList' = transactionList \cup {x}
        BY <2>1 DEF Begins
    <2>7. QED
        BY <1>10, <2>2, <2>3, <2>4, <2>5, <2>6
<1>12. ASSUME NEW x \in transactionList, Again(x) PROVE ReceiverOK'
    <2>1. OnTheWay' = OnTheWay \cup {x}
        <3>1. x \in Transaction
            BY DEF TypeOK
        <3>2. QED
            BY <1>12, <3>1, AppendFacts DEF Again, TypeOK
    <2>2. UNCHANGED receiver /\ answers' = answers /\ transactionList' = transactionList
        BY <1>12 DEF Again
    <2>3. Sent' = Sent
        BY <2>1, <2>2 DEF Sent
    <2>4. \A z \in Sent : ~(x.mid < z.mid)
        <3>1. \A z \in Sent : z.mid <= x.mid
            BY <1>1, <1>4, <1>5 DEF Sent
        <3>2. QED
            BY <1>4, <1>5, <3>1
    <2>5. QED
        BY <1>10, <2>1, <2>2, <2>3, <2>4
<1>13. ASSUME NEW x \in transactionList, GiveUp(x) PROVE ReceiverOK'
    <2>1. UNCHANGED receiver /\ OnTheWay' = OnTheWay /\ transactionList' \subseteq transactionList /\ answers' \subseteq answers
        BY <1>13 DEF GiveUp, OnTheWay, Others
    <2>2. Sent' \subseteq Sent
        BY <2>1 DEF Sent
    <2>3. QED
        BY <1>10, <2>1, <2>2
<1>14. ASSUME NEW a \in answers, ReceiveAnswer(a) PROVE ReceiverOK'
    <2>1. PICK x \in transactionList :
              /\ x.mid = a.mid /\ answers' = Others(x)
              /\ UNCHANGED <<orderly, peerBlockSize, length, copies, receiver>>
              /\ Ends(a, x) \/ \E y : Goes(a, x, y)
        BY <1>1, <1>14, AnswerFacts
    <2>2. \A b \in answers' : b \in answers
        BY <2>1 DEF Others
    <2>3. CASE Ends(a, x)
        <3>1. OnTheWay' = OnTheWay /\ transactionList' \subseteq transactionList
            BY <2>3 DEF Ends, OnTheWay
        <3>2. Sent' \subseteq Sent
            BY <3>1 DEF Sent
        <3>3. QED
            BY <1>10, <2>1, <2>2, <3>1, <3>2
    <2>4. ASSUME NEW y, Goes(a, x, y) PROVE ReceiverOK'
        <3>1. /\ Fits(y) /\ y \in Transaction /\ y.mid = nextMID /\ y.transfer = x.transfer /\ y.block1
              /\ y.num > 0 => /\ a.code \in {"ok", "continue"} /\ x.block1
                              /\ y.num = x.num + 1 /\ y.size = x.size
              /\ Joins(y) /\ transactionList' = (transactionList \ {x}) \cup {y}
            BY <2>4 DEF Goes, Next1, Fits
        <3>2. OnTheWay' \subseteq OnTheWay \cup {y}
            BY <3>1, JoinsFacts DEF TypeOK
        <3>3. \A z \in Sent : ~(y.mid < z.mid)
            BY <1>4, <3>1
        <3>4. \A z \in Sent' : z \in Sent \/ z = y
            BY <3>1, <3>2 DEF Sent
        <3>5. ASSUME Later(y) PROVE Reaches(y)'
            <4>1. y.num > 0 /\ x.num \in Nat /\ y.num \in Nat
                BY <1>4, <1>5, <3>1, <3>5 DEF Later, Transaction
            <4>2. Precedes(x, y)
                BY <3>1, <4>1 DEF Precedes
            <4>3. After(x) = Before(y) /\ Before(y) # After(y)
                BY <1>4, <1>5, <3>1, <3>5, <4>2, PrecedesFacts
            <4>4. blockData = Before(y)
                BY <1>2, <2>1, <3>1, <4>1, <4>3 DEF Holds
            <4>5. \A z \in OnTheWay' : z = x \/ z = y
                BY <1>1, <2>1, <3>2
            <4>6. ~(y.mid < y.mid)
                BY <3>1 DEF Transaction
            <4>7. length'[y.transfer] = length[y.transfer]
                BY <2>1
            <4>8. /\ Before(y)' = Before(y) /\ After(y)' = After(y)
                  /\ (More(y)' <=> More(y)) /\ Payload(y.transfer)' = Payload(y.transfer)
                BY <4>7, SameUnits
            <4>9. blockData' = blockData /\ delivered' = delivered
                BY <2>1 DEF receiver
            <4>10. \A z \in OnTheWay' : z.mid < y.mid => Precedes(z, y)
                BY <4>2, <4>5, <4>6
            <4>11. QED
                BY <4>3, <4>4, <4>8, <4>9, <4>10 DEF Reaches, Precedes
        <3>6. \A z \in transactionList' : z \in transactionList \/ z.mid = nextMID
            BY <3>1
        <3>7. QED
            BY <1>10, <2>1, <2>2, <3>2, <3>3, <3>4, <3>5, <3>6
    <2>5. QED
        BY <2>1, <2>3, <2>4
\* The receiver's step, on the oldest request on its way.
<1>15. ASSUME NEW i \in DOMAIN requests, NEW code \in Codes, ReceiveRequest(i, code) PROVE ReceiverOK'
    <2>1. i = 1 /\ requests' = Without(requests, i)
        BY <1>15 DEF ReceiveRequest
    <2>2. PICK h : h = requests[1]
        OBVIOUS
    <2>3. PICK r : r = Reply(h, code)
        OBVIOUS
    <2>4. /\ h \in OnTheWay /\ Fits(h) /\ OnTheWay' \subseteq OnTheWay /\ transactionList' = transactionList
          /\ length' = length /\ Handle(h, code)
          /\ answers' \subseteq answers \cup {r}
          /\ \A x \in transactionList : x.mid = r.mid => x = h
        BY <1>1, <1>15, <2>1, <2>2, <2>3, RequestFacts DEF sender
    <2>5. r.code = code
        BY <2>3 DEF Reply
    <2>6. \A y \in OnTheWay : h.mid <= y.mid
        <3>1. \A j \in DOMAIN requests : 1 \in DOMAIN requests /\ (j = 1 \/ 1 < j)
            BY <2>1, LenProperties DEF TypeOK
        <3>2. h.mid \in Nat
            BY <1>4, <1>5, <2>4
        <3>3. \A j \in DOMAIN requests : h.mid <= requests[j].mid
            BY <1>1, <2>2, <3>1, <3>2
        <3>4. QED
            BY <3>3 DEF OnTheWay
    <2>7. \A x \in Sent : h.mid <= x.mid
        BY <1>1, <2>4, <2>6 DEF Sent
    <2>8. /\ delivered \subseteq delivered' /\ delivered' \subseteq delivered \cup {Payload(h.transfer)}
          /\ blockData' \in {blockData, After(h)}
          /\ h.block1 /\ (h.size <= peerBlockSize \/ code \in {"ok", "continue"}) => blockData' = After(h)
          /\ code = "ok" => Payload(h.transfer) \in delivered'
          /\ Later(h) => blockData' = After(h)
          /\ Later(h) /\ ~More(h) => Payload(h.transfer) \in delivered'
        <3>1. Later(h) => Reaches(h)
            BY <1>2, <1>5, <2>4
        <3>2. /\ Later(h) => blockData \in {Before(h), After(h)}
              /\ Later(h) /\ blockData = After(h) /\ ~More(h) => Payload(h.transfer) \in delivered
            BY <3>1 DEF Reaches
        <3>3. QED
            BY <2>4, <3>2, HandleFacts
    <2>9. \A x : Before(x)' = Before(x) /\ After(x)' = After(x) /\ (More(x)' <=> More(x))
                  /\ Payload(x.transfer)' = Payload(x.transfer)
        BY <2>4, SameUnits
    <2>10. \A y \in OnTheWay' : ~(y.mid < h.mid)
        BY <1>4, <1>5, <2>4, <2>6
    <2>11. ASSUME NEW x \in Sent', Later(x) PROVE Reaches(x)'
        <3>1. x \in Sent
            BY <2>4 DEF Sent
        <3>2. CASE x = h
            <4>1. blockData' = After(x) /\ (~More(x) => Payload(x.transfer) \in delivered')
                BY <2>8, <2>11, <3>2
            <4>2. QED
                BY <2>9, <2>10, <3>2, <4>1 DEF Reaches
        <3>3. CASE x # h
            <4>1. h.mid < x.mid
                <5>1. h.mid # x.mid
                    BY <1>1, <1>5, <2>4, <3>1, <3>3 DEF SentOK
                <5>2. h.mid \in Nat /\ x.mid \in Nat /\ h.mid <= x.mid
                    BY <1>4, <1>5, <2>4, <2>7, <3>1
                <5>3. QED
                    BY <5>1, <5>2
            <4>2. Reaches(x)
                BY <1>2, <2>11, <3>1
            <4>3. Precedes(h, x) /\ blockData = Before(x)
                BY <2>4, <4>1, <4>2 DEF Reaches
            <4>4. After(h) = Before(x) /\ Before(x) # After(x) /\ h.size <= peerBlockSize /\ h.block1
                BY <1>4, <2>4, <2>11, <3>1, <4>3, PrecedesFacts DEF Precedes
            <4>5. blockData' = Before(x)
                BY <2>8, <4>4
            <4>6. \A y \in OnTheWay' : y.mid < x.mid => Precedes(y, x)
                BY <2>4, <4>2 DEF Reaches
            <4>7. QED
                BY <2>9, <4>4, <4>5, <4>6 DEF Reaches, Precedes
        <3>4. QED
            BY <3>2, <3>3
    <2>12. ASSUME NEW a \in answers', NEW x \in transactionList', a.mid = x.mid PROVE Holds(a, x)'
        <3>1. CASE a \in answers
            <4>1. x = h /\ Holds(a, x)
                BY <1>1, <1>2, <2>4, <2>12, <3>1
            <4>2. QED
                BY <2>8, <2>9, <4>1 DEF Holds
        <3>2. CASE a = r
            <4>1. x = h
                BY <2>4, <2>12, <3>2
            <4>2. QED
                BY <2>5, <2>8, <2>9, <3>2, <4>1 DEF Holds
        <3>3. QED
            BY <2>4, <3>1, <3>2
    <2>13. Intact'
        BY <1>9, <2>4, <2>8 DEF Fits
    <2>14. \A t \in DOMAIN length' : Succeeds(t)'
        BY <1>7, <2>8
    <2>15. \A x \in Sent' : Later(x)' => Reaches(x)'
        BY <2>11 DEF Later
    <2>16. QED
        BY <2>12, <2>13, <2>14, <2>15 DEF ReceiverOK
<1>16. CASE UNCHANGED vars
    <2>1. /\ UNCHANGED receiver /\ OnTheWay' = OnTheWay /\ transactionList' = transactionList /\ answers' = answers
          /\ Sent' = Sent
        BY <1>16 DEF vars, sender, OnTheWay, Sent
    <2>2. QED
        BY <1>10, <2>1
<1>17. QED
    BY <1>11, <1>12, <1>13, <1>14, <1>15, <1>16 DEF Next

-----------------------------------------------------------------------------
(* Theorems *)

\* Every variable has its type, whatever is lost, sent again or overtaken.
THEOREM TypeCorrect == Spec => []TypeOK
<1>1. Init => TypeOK /\ BlocksOK
    BY InitType, InitBlocks
<1>2. TypeOK /\ BlocksOK /\ [Next]_vars => TypeOK' /\ BlocksOK'
    BY NextType, NextSent, NextAnswers, NextEnded, NextQueue, NextReceiver DEF BlocksOK
<1>3. QED
    BY <1>1, <1>2, PTL DEF Spec

\* What the requests, the answers and the receiver know of one another is an
\* invariant: in both environments, and the queue and the receiver in the
\* orderly one (prv_send_new_block1, coap_block1_handler).
THEOREM BlocksAgree == Spec => []BlocksOK
<1>1. Init => TypeOK /\ BlocksOK
    BY InitType, InitBlocks
<1>2. TypeOK /\ BlocksOK /\ [Next]_vars => TypeOK' /\ BlocksOK'
    BY NextType, NextSent, NextAnswers, NextEnded, NextQueue, NextReceiver DEF BlocksOK
<1>3. QED
    BY <1>1, <1>2, PTL DEF Spec

\* A transfer has at most one block that is not over, and no block is empty.
THEOREM OneBlock == Spec => []OneBlockAtATime
<1>1. TypeOK /\ BlocksOK => OneBlockAtATime
    <2> SUFFICES ASSUME TypeOK, BlocksOK PROVE OneBlockAtATime
        OBVIOUS
    <2>1. SentOK
        BY DEF BlocksOK
    <2>2. ASSUME NEW t \in Transfers PROVE Cardinality(Blocks(t)) <= 1
        <3>1. CASE Blocks(t) = {}
            BY <3>1, FS_EmptySet
        <3>2. CASE Blocks(t) # {}
            <4>1. PICK x : x \in Blocks(t)
                BY <3>2
            <4>2. Blocks(t) = {x}
                BY <2>1, <4>1 DEF Blocks, SentOK
            <4>3. Cardinality({x}) = 1
                BY FS_Singleton
            <4>4. QED
                BY <4>2, <4>3
        <3>3. QED
            BY <3>1, <3>2
    <2>3. ASSUME NEW x \in transactionList PROVE Units(x) # <<>>
        BY <2>1, SentFacts, UnitsFacts DEF Sent
    <2>4. QED
        BY <2>2, <2>3 DEF OneBlockAtATime
<1>2. QED
    BY <1>1, TypeCorrect, BlocksAgree, PTL

\* handle_request gets whole payloads, as they were written, in the orderly
\* environment: for every block size of the two ends, every length of payload,
\* and any number of writes, losses and copies.
THEOREM ArrivesIntact == Spec => []Intact
<1>1. BlocksOK => Intact
    BY DEF BlocksOK, ReceiverOK, Intact
<1>2. QED
    BY <1>1, BlocksAgree, PTL

\* The last word on a write is not that it goes on; and in the orderly environment
\* it is a success only if the peer was given the payload.
THEOREM OutcomeTrue == Spec => []WriteOutcome
<1>1. BlocksOK => WriteOutcome
    BY DEF BlocksOK, EndedOK, ReceiverOK, Succeeds, WriteOutcome
<1>2. QED
    BY <1>1, BlocksAgree, PTL
=============================================================================
