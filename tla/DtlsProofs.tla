----------------------------- MODULE DtlsProofs -----------------------------
(***************************************************************************)
(* Theorems about Dtls and ReplayWindow, for every value of their          *)
(* constants.  The handlers work on one end: what they keep true of it is  *)
(* Core, over what there is outside of it (a world: the records on the     *)
(* way, the payloads handed up, the random numbers, the agreed keys).      *)
(***************************************************************************)
EXTENDS Dtls, SequenceTheorems, TLAPS

(* The invariant *)

World == [net |-> net, got |-> got, randoms |-> randoms, done |-> done]

\* A sequence, of whatever.
Sequence(s) == s \in Seq({s[i] : i \in 1..Len(s)})

\* Where a transcript has the random number of an end, and that number
At(e) == IF e = "client" THEN 1 ELSE 2
Own(e, hash) == hash[At(e)].rnd

KeyOK(e, key, w) == Sequence(key) /\ Len(key) >= 2 /\ Own(e, key) \in 1..w.randoms

\* What e has sent under a key, and what others sent that e has handed up
Mine(e, w) == {r \in w.net : r.from = e /\ r.epoch = 1}
Taken(e, w) == {r \in w.net : /\ r.from # e
                              /\ r.type = "data"
                              /\ \E i \in 1..Len(w.got[e]) : w.got[e][i] = r.body.mseq}
Used(e, w) == Mine(e, w) \cup Taken(e, w)

\* A transcript that is the first with its random number: what is closed or was
\* opened under a key is of another handshake.
Fresh(e, hash, w) ==
    Len(hash) >= At(e) => /\ Own(e, hash) \in 1..w.randoms
                          /\ \A r \in Used(e, w) : Own(e, r.key) # Own(e, hash)

\* Messages of e: those that come with a number have it, and a Finished of the
\* server closes a handshake whose key is agreed.
HandshakeTypes == DOMAIN Expected \cup {"client_hello"}
BodyOK(e, m, w) ==
    /\ m.t \in HandshakeTypes
    /\ m.t = "client_hello" => m.rnd # 0 /\ e = "client"
    /\ m.t = "hello_verify_request" => m.cookie # 0
    /\ m.t = "finished" /\ e = "server" =>
          \E k \in w.done :
              /\ Sequence(k)
              /\ m.hash = Append(Append(k, m.hash[Len(k) + 1]), Content("server", 0))

RecordOK(r, w) ==
    /\ r = [from |-> r.from, type |-> r.type, epoch |-> r.epoch, key |-> r.key, seq |-> r.seq,
            body |-> r.body]
    /\ r.from \in Ends
    /\ r.seq \in Nat
    /\ \/ r.epoch = 0 /\ r.key = NoKey
       \/ r.epoch = 1 /\ KeyOK(r.from, r.key, w)
    /\ r.type = "handshake" => /\ BodyOK(r.from, r.body, w)
                               /\ r.body.t = "client_hello" => r.epoch = 0

NodeOK(e, n, w) ==
    /\ n = [type |-> n.type, epoch |-> n.epoch, body |-> n.body, cnt |-> n.cnt]
    /\ n.type \in {"handshake", "ccs", "alert"}
    /\ n.type = "handshake" => /\ BodyOK(e, n.body, w)
                               /\ n.body.t = "client_hello" => n.epoch = 0

\* Parameters: their next number is beyond what was sent under their key, and their
\* window has what was handed up.
SecurityOK(e, sp, w) ==
    /\ sp = [epoch |-> sp.epoch, key |-> sp.key, rseq |-> sp.rseq, win |-> sp.win]
    /\ sp.rseq \in Nat /\ sp.win \in SeqNum
    /\ \/ sp.epoch = 0 /\ sp.key = NoKey
       \/ sp.epoch = 1 /\ KeyOK(e, sp.key, w)
    /\ \A r \in Mine(e, w) : r.key = sp.key => r.seq < sp.rseq
    /\ \A r \in Taken(e, w) : r.key = sp.key => Dropped(sp.win, r.seq)

HandshakeOK(e, hs, w) ==
    /\ hs = [mseqR |-> hs.mseqR, mseqS |-> hs.mseqS, readEpoch |-> hs.readEpoch,
             random |-> hs.random, hash |-> hs.hash, ext |-> hs.ext, reorder |-> hs.reorder]
    /\ hs.readEpoch \in Nat
    /\ Sequence(hs.hash)
    /\ \A m \in hs.reorder : BodyOK(Other(e), m, w) /\ m.t # "client_hello"

Unkeyed(p) == p.sp0.epoch = 0 /\ p.sp1 = None

PeerOK(e, p, w) ==
    /\ p = [role |-> e, state |-> p.state, sp0 |-> p.sp0, sp1 |-> p.sp1, hs |-> p.hs]
    /\ SecurityOK(e, p.sp0, w)
    /\ \/ p.sp1 = None
       \/ SecurityOK(e, p.sp1, w) /\ p.sp1.epoch # p.sp0.epoch
    /\ \/ p.hs = None
       \/ HandshakeOK(e, p.hs, w) /\ (Unkeyed(p) => Fresh(e, p.hs.hash, w))

\* What a handler has sent is in the world, too.
Seen(w, out) ==
    [net |-> w.net \cup out, got |-> w.got, randoms |-> w.randoms, done |-> w.done]

Core(e, a, w) ==
    /\ a = [p |-> a.p, q |-> a.q, out |-> a.out, fail |-> a.fail, err |-> a.err]
    /\ a.err \in {"ok", "fatal", "failed"}
    /\ \A r \in a.out : RecordOK(r, w) /\ r.from = e /\ r.type # "data"
    /\ \A n \in a.q : NodeOK(e, n, w)
    /\ a.p = None => a.q = {}
    /\ a.p # None => PeerOK(e, a.p, Seen(w, a.out))

\* The client's transcript is that of its key and its Finished.
Agreeing(p) ==
    /\ p.sp0.epoch = 1
    /\ p.hs.hash = Append(p.sp0.key, p.hs.hash[Len(p.hs.hash)])

StateOK(e, p, w) ==
    /\ p.state \in {"CLIENTHELLO", "WAIT_SERVERHELLODONE"} =>
          e = "client" /\ Unkeyed(p) /\ p.hs # None /\ Len(p.hs.hash) >= 1
    /\ p.state = "CLIENTHELLO" => p.hs.random = Own("client", p.hs.hash)
    /\ p.state = "WAIT_CLIENTKEYEXCHANGE" =>
          e = "server" /\ Unkeyed(p) /\ p.hs # None /\ Len(p.hs.hash) >= 2
    /\ p.state \in {"WAIT_CHANGECIPHERSPEC", "WAIT_FINISHED"} =>
          p.hs # None /\ (e = "client" => Agreeing(p))
    /\ p.state = "WAIT_CHANGECIPHERSPEC" /\ e = "server" =>
          Unkeyed(p) /\ p.hs.ext = p.hs.hash /\ Len(p.hs.hash) >= 2
    /\ p.state = "WAIT_FINISHED" /\ e = "server" =>
          p.sp0.epoch = 0 /\ p.sp1 # None /\ p.sp1.key = p.hs.hash
    /\ p.state = "CONNECTED" =>
          p.sp0.epoch = 1 /\ p.hs = None /\ (e = "client" => p.sp0.key \in w.done)

TypeOK ==
    /\ peer = [e \in Ends |-> peer[e]]
    /\ queue = [e \in Ends |-> queue[e]]
    /\ randoms \in Nat
    /\ writes \in [Ends -> Nat]
    /\ got \in [Ends -> Seq(Nat)]

RecordsOK == \A r \in net : RecordOK(r, World)

\* A payload has one record, which is closed, and a number that was given.
PayloadsOK ==
    /\ \A r \in net : r.type = "data" =>
          r.epoch = 1 /\ r.body.mseq \in Nat /\ r.body.mseq <= writes[r.from]
    /\ \A r, s \in net : /\ r.type = "data" /\ s.type = "data"
                         /\ r.from = s.from /\ r.body.mseq = s.body.mseq
                         => r.key = s.key /\ r.seq = s.seq

GotOK ==
    /\ \A e \in Ends : \A i \in 1..Len(got[e]) : got[e][i] <= writes[Other(e)]
    /\ \A e \in Ends : \A r \in Taken(e, World) : Own(e, r.key) \in 1..randoms
    /\ HandedUpOnce

EndsOK ==
    \A e \in Ends : /\ Core(e, Start(peer[e], queue[e], 0), World)
                    /\ peer[e] # None => StateOK(e, peer[e], World)

DtlsOK == TypeOK /\ RecordsOK /\ PayloadsOK /\ GotOK /\ EndsOK

-----------------------------------------------------------------------------
(* Sequences *)

\* The transcript a handshake starts with
LEMMA EmptySequence == Sequence(<<>>) /\ Len(<<>>) = 0
BY DEF Sequence

\* What Append does to a sequence of whatever
LEMMA Appended ==
    ASSUME NEW s, Sequence(s), NEW x
    PROVE  /\ Sequence(Append(s, x))
           /\ Len(Append(s, x)) = Len(s) + 1
           /\ Len(s) \in Nat
           /\ \A i \in 1..Len(s) : Append(s, x)[i] = s[i]
           /\ Append(s, x)[Len(s) + 1] = x
<1> DEFINE S == {s[i] : i \in 1..Len(s)} \cup {x}
           t == Append(s, x)
           T == {t[i] : i \in 1..Len(t)}
<1>1. s \in Seq(S) /\ x \in S
    <2>1. PICK Z : Z = {s[i] : i \in 1..Len(s)}
        OBVIOUS
    <2>2. s \in Seq(Z) /\ Z \subseteq S
        BY <2>1 DEF Sequence
    <2>3. QED
        BY <2>2, SeqMonotonic
<1> HIDE DEF S
<1>2. /\ t \in Seq(S)
      /\ Len(t) = Len(s) + 1
      /\ \A i \in 1..Len(s) : t[i] = s[i]
      /\ t[Len(s) + 1] = x
      /\ Len(s) \in Nat
    BY <1>1
<1> HIDE DEF t
<1>3. t \in Seq(T)
    BY <1>2
<1>4. QED
    BY <1>2, <1>3 DEF t, Sequence

\* Transcripts that are the same with a message more were the same before it.
LEMMA AppendedSame ==
    ASSUME NEW s, Sequence(s), NEW t, Sequence(t), NEW x, NEW y, Append(s, x) = Append(t, y)
    PROVE  s = t /\ x = y
<1>1. /\ Len(s) \in Nat /\ Len(t) \in Nat
      /\ Len(s) + 1 = Len(t) + 1
      /\ Append(s, x)[Len(s) + 1] = x
      /\ Append(s, x)[Len(t) + 1] = y
      /\ \A i \in 1..Len(s) : Append(s, x)[i] = s[i]
      /\ \A i \in 1..Len(t) : Append(s, x)[i] = t[i]
    BY Appended
<1>2. Len(s) = Len(t) /\ x = y /\ \A i \in 1..Len(s) : s[i] = t[i]
    BY <1>1
<1>3. PICK S, T : s \in Seq(S) /\ t \in Seq(T)
    BY DEF Sequence
<1>4. s = t
    BY <1>2, <1>3
<1>5. QED
    BY <1>2, <1>4

-----------------------------------------------------------------------------
(* The replay window *)

\* A window remains one.
LEMMA MarkIsWindow ==
    ASSUME NEW w \in SeqNum, NEW n \in Nat, ~Dropped(w, n)
    PROVE  Mark(w, n) \in SeqNum
BY WindowAssumption DEF SeqNum, Bits, Mark, Dropped

\* dtls_handle_message marks a record once it is decrypted: from then on its copies
\* are dropped, and so is what was dropped before.
THEOREM MarkedIsDropped ==
    ASSUME NEW w \in SeqNum, NEW n \in Nat, ~Dropped(w, n)
    PROVE  /\ Dropped(Mark(w, n), n)
           /\ \A k \in Nat : Dropped(w, k) => Dropped(Mark(w, n), k)
<1>1. Dropped(Mark(w, n), n)
    BY WindowAssumption DEF SeqNum, Bits, Mark, Dropped
<1>2. ASSUME NEW k \in Nat, Dropped(w, k)
      PROVE  Dropped(Mark(w, n), k)
    <2>1. w.bits # {} /\ w.cseq \in Nat /\ w.bits \subseteq Bits /\ k <= w.cseq
        BY <1>2 DEF SeqNum, Dropped
    <2>2. CASE n <= w.cseq
        <3>1. Mark(w, n) = [w EXCEPT !.bits = @ \cup {w.cseq - n}]
            BY <2>1, <2>2 DEF Mark
        <3>2. QED
            BY <1>2, <2>1, <3>1 DEF Dropped, SeqNum
    <2>3. CASE n > w.cseq
        <3>1. Mark(w, n) = [cseq |-> n,
                            bits |-> {0} \cup {b \in Bits : b - (n - w.cseq) \in w.bits}]
            BY <2>1, <2>3 DEF Mark
        <3>2. CASE n - k > Window
            BY <2>1, <2>3, <3>1, <3>2 DEF Dropped
        <3>3. CASE n - k <= Window
            <4>1. n - k \in Bits
                BY <2>1, <2>3, <3>3, WindowAssumption DEF Bits
            <4>2. w.cseq - k \in w.bits
                BY <1>2, <2>1, <2>3, <3>3, WindowAssumption DEF Dropped
            <4>3. (n - k) - (n - w.cseq) = w.cseq - k
                BY <2>1
            <4>4. QED
                BY <2>1, <2>3, <3>1, <4>1, <4>2, <4>3 DEF Dropped
        <3>4. QED
            BY <2>1, <3>2, <3>3, WindowAssumption
    <2>4. QED
        BY <2>1, <2>2, <2>3
<1>3. QED
    BY <1>1, <1>2

\* And nothing else is: what is dropped after a mark is the record that was marked, was
\* dropped before, or lies behind the field of bits.
THEOREM OnlyMarkedIsDropped ==
    ASSUME NEW w \in SeqNum, NEW n \in Nat, ~Dropped(w, n),
           NEW k \in Nat, Dropped(Mark(w, n), k)
    PROVE  k = n \/ Dropped(w, k) \/ Mark(w, n).cseq - k > Window
<1>1. w.cseq \in Nat /\ w.bits \subseteq Bits
    BY DEF SeqNum
<1>2. CASE w.bits = {}
    BY <1>1, <1>2 DEF Mark, Dropped
<1>3. CASE w.bits # {} /\ n <= w.cseq
    BY <1>1, <1>3 DEF Mark, Dropped, SeqNum
<1>4. CASE w.bits # {} /\ n > w.cseq
    <2>1. Mark(w, n) = [cseq |-> n,
                        bits |-> {0} \cup {b \in Bits : b - (n - w.cseq) \in w.bits}]
        BY <1>1, <1>4 DEF Mark
    <2>2. k <= n
        BY <2>1 DEF Dropped
    <2>3. CASE (n - k) - (n - w.cseq) \in w.bits
        <3>1. w.cseq - k \in w.bits /\ w.cseq - k \in Nat
            BY <1>1, <2>3, WindowAssumption DEF Bits
        <3>2. QED
            BY <1>1, <1>4, <3>1 DEF Dropped
    <2>4. QED
        BY <2>1, <2>2, <2>3 DEF Dropped
<1>5. QED
    BY <1>1, <1>2, <1>3, <1>4

-----------------------------------------------------------------------------
(* Worlds *)

WorldOK(w) == w.randoms \in Nat /\ \A r \in w.net : RecordOK(r, w)

\* What is there is not None.
LEMMA NotNone ==
    ASSUME NEW e \in Ends, NEW w
    PROVE  /\ \A p : PeerOK(e, p, w) => p # None
           /\ \A sp : SecurityOK(e, sp, w) => sp # None
           /\ \A hs : HandshakeOK(e, hs, w) => hs # None
<1>1. ASSUME NEW p, PeerOK(e, p, w) PROVE p # None
    <2>1. p.role = e
        BY <1>1 DEF PeerOK
    <2>2. QED
        BY <2>1 DEF None, Ends
<1>2. ASSUME NEW sp, SecurityOK(e, sp, w) PROVE sp # None
    <2>1. sp.epoch \in {0, 1}
        BY <1>2 DEF SecurityOK
    <2>2. QED
        BY <2>1 DEF None
<1>3. ASSUME NEW hs, HandshakeOK(e, hs, w) PROVE hs # None
    <2>1. hs.readEpoch \in Nat
        BY <1>3 DEF HandshakeOK
    <2>2. QED
        BY <2>1 DEF None
<1>4. QED
    BY <1>1, <1>2, <1>3

\* What is true of a record stays true when more numbers are made and more keys agreed.
LEMMA RecordLater ==
    ASSUME NEW w, NEW v, w.randoms \in Nat, v.randoms \in Nat, w.randoms <= v.randoms,
           w.done \subseteq v.done
    PROVE  /\ \A e, m : BodyOK(e, m, w) => BodyOK(e, m, v)
           /\ \A e, k : KeyOK(e, k, w) => KeyOK(e, k, v)
           /\ \A r : RecordOK(r, w) => RecordOK(r, v)
           /\ \A e, n : NodeOK(e, n, w) => NodeOK(e, n, v)
<1>1. \A e, m : BodyOK(e, m, w) => BodyOK(e, m, v)
    BY DEF BodyOK
<1>2. \A e, k : KeyOK(e, k, w) => KeyOK(e, k, v)
    BY DEF KeyOK
<1>3. \A r : RecordOK(r, w) => RecordOK(r, v)
    BY <1>1, <1>2 DEF RecordOK
<1>4. \A e, n : NodeOK(e, n, w) => NodeOK(e, n, v)
    BY <1>1 DEF NodeOK
<1>5. QED
    BY <1>1, <1>2, <1>3, <1>4

\* And what is true of an end, when it has sent and handed up nothing more.
LEMMA PeerLater ==
    ASSUME NEW e, NEW p, NEW w, NEW v, w.randoms \in Nat, v.randoms \in Nat,
           w.randoms <= v.randoms, w.done \subseteq v.done,
           Mine(e, v) \subseteq Mine(e, w), Taken(e, v) \subseteq Taken(e, w),
           PeerOK(e, p, w)
    PROVE  PeerOK(e, p, v)
<1>1. \A sp : SecurityOK(e, sp, w) => SecurityOK(e, sp, v)
    BY RecordLater DEF SecurityOK
<1>2. \A hs : HandshakeOK(e, hs, w) => HandshakeOK(e, hs, v)
    BY RecordLater DEF HandshakeOK
<1>3. \A h : Fresh(e, h, w) => Fresh(e, h, v)
    BY DEF Fresh, Used
<1>4. QED
    BY <1>1, <1>2, <1>3 DEF PeerOK

-----------------------------------------------------------------------------
(* Sending *)

\* Peers that differ in the number of the next record
Like(p, q) ==
    /\ q.state = p.state /\ q.hs = p.hs /\ q.sp1 = p.sp1
    /\ q.sp0.epoch = p.sp0.epoch /\ q.sp0.key = p.sp0.key

\* A record with the next number of the current parameters
LEMMA NextNumber ==
    ASSUME NEW e \in Ends, NEW p, NEW w, WorldOK(w), PeerOK(e, p, w),
           NEW r, r.from = e, r.epoch = p.sp0.epoch, r.key = p.sp0.key, r.seq = p.sp0.rseq
    PROVE  LET q == [p EXCEPT !.sp0.rseq = @ + 1]
           IN  PeerOK(e, q, Seen(w, {r})) /\ Like(p, q)
<1> DEFINE q == [p EXCEPT !.sp0.rseq = @ + 1]
           v == Seen(w, {r})
<1>1. /\ p = [role |-> e, state |-> p.state, sp0 |-> p.sp0, sp1 |-> p.sp1, hs |-> p.hs]
      /\ p.sp0 = [epoch |-> p.sp0.epoch, key |-> p.sp0.key, rseq |-> p.sp0.rseq,
                  win |-> p.sp0.win]
      /\ SecurityOK(e, p.sp0, w)
    BY DEF PeerOK, SecurityOK
<1>2. q = [role |-> e, state |-> p.state,
           sp0 |-> [epoch |-> p.sp0.epoch, key |-> p.sp0.key, rseq |-> p.sp0.rseq + 1,
                    win |-> p.sp0.win],
           sp1 |-> p.sp1, hs |-> p.hs]
    BY <1>1
<1>3. PICK x : x = q
    OBVIOUS
<1>4. /\ x.role = e /\ x.state = p.state /\ x.sp1 = p.sp1 /\ x.hs = p.hs
      /\ x.sp0.epoch = p.sp0.epoch /\ x.sp0.key = p.sp0.key
      /\ x.sp0.rseq = p.sp0.rseq + 1 /\ x.sp0.win = p.sp0.win
      /\ x = [role |-> e, state |-> x.state, sp0 |-> x.sp0, sp1 |-> x.sp1, hs |-> x.hs]
      /\ x.sp0 = [epoch |-> x.sp0.epoch, key |-> x.sp0.key, rseq |-> x.sp0.rseq,
                  win |-> x.sp0.win]
    BY <1>2, <1>3
<1>5. PICK u : u = v
    OBVIOUS
<1>6. /\ Mine(e, u) \subseteq Mine(e, w) \cup {r}
      /\ r.epoch # 1 => Mine(e, u) \subseteq Mine(e, w)
      /\ Taken(e, u) \subseteq Taken(e, w)
      /\ u.randoms = w.randoms /\ u.done = w.done
    BY <1>5 DEF Seen, Mine, Taken
<1>7. \A k : KeyOK(e, k, w) = KeyOK(e, k, u)
    BY <1>6 DEF KeyOK
<1>8. SecurityOK(e, x.sp0, u)
    <2>1. \A s \in Mine(e, w) : s.seq \in Nat
        BY DEF Mine, WorldOK, RecordOK
    <2>2. p.sp0.rseq \in Nat
        BY <1>1 DEF SecurityOK
    <2>3. \A s \in Mine(e, u) : s.key = x.sp0.key => s.seq < x.sp0.rseq
        BY <1>1, <1>4, <1>6, <2>1, <2>2 DEF SecurityOK
    <2>4. QED
        BY <1>1, <1>4, <1>6, <1>7, <2>3 DEF SecurityOK
<1>9. \/ x.sp1 = None
      \/ SecurityOK(e, x.sp1, u) /\ x.sp1.epoch # x.sp0.epoch
    <2>1. CASE p.sp1 = None
        BY <1>4, <2>1
    <2>2. CASE SecurityOK(e, p.sp1, w) /\ p.sp1.epoch # p.sp0.epoch
        <3>1. r.epoch = 1 => r.key # p.sp1.key
            BY <1>1, <2>2, EmptySequence DEF SecurityOK, KeyOK, NoKey
        <3>2. \A s \in Mine(e, u) : s.key = p.sp1.key => s.seq < p.sp1.rseq
            BY <1>6, <2>2, <3>1 DEF SecurityOK
        <3>3. SecurityOK(e, p.sp1, u)
            BY <1>6, <1>7, <2>2, <3>2 DEF SecurityOK
        <3>4. QED
            BY <1>4, <2>2, <3>3
    <2>3. QED
        BY <2>1, <2>2 DEF PeerOK
<1>10. \/ x.hs = None
       \/ HandshakeOK(e, x.hs, u) /\ (Unkeyed(x) => Fresh(e, x.hs.hash, u))
    <2>1. HandshakeOK(e, p.hs, w) => HandshakeOK(e, p.hs, u)
        BY <1>6 DEF HandshakeOK, BodyOK
    <2>2. Unkeyed(x) => Unkeyed(p) /\ r.epoch # 1
        BY <1>4 DEF Unkeyed
    <2>3. Unkeyed(x) /\ Fresh(e, p.hs.hash, w) => Fresh(e, p.hs.hash, u)
        BY <1>6, <2>2 DEF Fresh, Used
    <2>4. QED
        BY <1>4, <2>1, <2>2, <2>3 DEF PeerOK
<1>11. PeerOK(e, x, u)
    BY <1>4, <1>8, <1>9, <1>10 DEF PeerOK
<1>12. QED
    BY <1>3, <1>4, <1>5, <1>11 DEF Like

\* What dtls_send_multi can be given
Sendable(e, p, type, body, w) ==
    /\ type \in {"handshake", "ccs", "alert"}
    /\ type = "handshake" => /\ BodyOK(e, body, w)
                             /\ body.t = "client_hello" => p.sp0.epoch = 0

\* A peer whose handler has not failed, or has
Sends(e, a, b, w) ==
    /\ Core(e, b, w) /\ b.p # None
    /\ Like(a.p, b.p)
    /\ b.err \in {"ok", "failed"}

\* dtls_send_multi: the record takes the next number, and the queue a copy of what can be sent again.
LEMMA SendKeeps ==
    ASSUME NEW e \in Ends, NEW a, NEW w, WorldOK(w), Core(e, a, w), a.p # None, a.err = "ok",
           NEW type, NEW body, Sendable(e, a.p, type, body, w)
    PROVE  Sends(e, a, Send(a, type, body), w)
<1>1. PICK r : r = Record(e, a.p.sp0, type, body)
    OBVIOUS
<1>2. PICK n : n = Node(a.p.sp0, type, body)
    OBVIOUS
<1>3. PICK v : v = Seen(w, a.out)
    OBVIOUS
<1>4. /\ PeerOK(e, a.p, v) /\ SecurityOK(e, a.p.sp0, v)
      /\ a.p.role = e
      /\ v.randoms = w.randoms /\ v.net = w.net \cup a.out /\ v.done = w.done
      /\ v.got = w.got
    BY <1>3 DEF Core, PeerOK, Seen
<1>5. /\ r.from = e /\ r.epoch = a.p.sp0.epoch /\ r.key = a.p.sp0.key /\ r.seq = a.p.sp0.rseq
      /\ r.type = type /\ r.body = body
      /\ r = [from |-> r.from, type |-> r.type, epoch |-> r.epoch, key |-> r.key,
              seq |-> r.seq, body |-> r.body]
    BY <1>1 DEF Record
<1>6. \A k : KeyOK(e, k, v) = KeyOK(e, k, w)
    BY <1>4 DEF KeyOK
<1>7. RecordOK(r, w) /\ r.from = e /\ r.type # "data"
    BY <1>4, <1>5, <1>6 DEF RecordOK, SecurityOK, Sendable
<1>8. NodeOK(e, n, w)
    BY <1>2 DEF NodeOK, Node, Sendable
<1>9. WorldOK(v)
    <2>1. \A s \in a.out : RecordOK(s, w)
        BY DEF Core
    <2>2. \A s : RecordOK(s, w) => RecordOK(s, v)
        BY <1>4, RecordLater DEF WorldOK
    <2>3. QED
        BY <1>4, <2>1, <2>2 DEF WorldOK
<1>10. PICK q : q = [a.p EXCEPT !.sp0.rseq = @ + 1]
    OBVIOUS
<1>11. PeerOK(e, q, Seen(v, {r})) /\ Like(a.p, q)
    BY <1>4, <1>5, <1>9, <1>10, NextNumber
<1>12. PICK b : b = Send(a, type, body)
    OBVIOUS
<1>13. /\ b.p = q /\ b.err \in {"ok", "failed"}
       /\ b.out = a.out \/ b.out = a.out \cup {r}
       /\ b.q = a.q \/ b.q = a.q \cup {n}
       /\ b = [p |-> b.p, q |-> b.q, out |-> b.out, fail |-> b.fail, err |-> b.err]
    BY <1>1, <1>2, <1>4, <1>10, <1>12 DEF Send
<1>14. PeerOK(e, q, Seen(w, b.out))
    <2>1. PICK u : u = Seen(w, b.out)
        OBVIOUS
    <2>2. PICK x : x = Seen(v, {r})
        OBVIOUS
    <2>3. /\ u.randoms = w.randoms /\ u.done = w.done /\ u.got = w.got
          /\ u.net = w.net \cup b.out
        BY <2>1 DEF Seen
    <2>4. /\ x.randoms = w.randoms /\ x.done = w.done /\ x.got = w.got
          /\ x.net = w.net \cup a.out \cup {r}
        BY <1>4, <2>2 DEF Seen
    <2>5. Mine(e, u) \subseteq Mine(e, x) /\ Taken(e, u) \subseteq Taken(e, x)
        BY <1>13, <2>3, <2>4 DEF Mine, Taken
    <2>6. PeerOK(e, q, u)
        BY <1>11, <2>2, <2>3, <2>4, <2>5, PeerLater DEF WorldOK
    <2>7. QED
        BY <2>1, <2>6
<1>15. q # None
    BY <1>14, NotNone
<1>16. (\A s \in a.out : RecordOK(s, w) /\ s.from = e /\ s.type # "data") /\ \A m \in a.q : NodeOK(e, m, w)
    BY DEF Core
<1>17. Core(e, b, w)
    BY <1>7, <1>8, <1>13, <1>14, <1>15, <1>16 DEF Core
<1>18. QED
    BY <1>11, <1>12, <1>13, <1>15, <1>17 DEF Sends

-----------------------------------------------------------------------------
(* Handshakes *)

\* A handler may change the state, the handshake and the error of a peer, and drop copies.
LEMMA CoreWith ==
    ASSUME NEW e \in Ends, NEW a, NEW w, Core(e, a, w), a.p # None,
           NEW b,
           b = [p |-> b.p, q |-> b.q, out |-> b.out, fail |-> b.fail, err |-> b.err],
           b.q \subseteq a.q, b.out = a.out, b.err \in {"ok", "fatal", "failed"},
           b.p = [role |-> a.p.role, state |-> b.p.state, sp0 |-> a.p.sp0, sp1 |-> a.p.sp1,
                  hs |-> b.p.hs],
           \/ b.p.hs = None
           \/ b.p.hs = a.p.hs
           \/ /\ HandshakeOK(e, b.p.hs, Seen(w, a.out))
              /\ Unkeyed(a.p) => Fresh(e, b.p.hs.hash, Seen(w, a.out))
    PROVE  Core(e, b, w) /\ b.p # None
<1>1. PICK v : v = Seen(w, a.out)
    OBVIOUS
<1>2. PICK p, q : p = a.p /\ q = b.p
    OBVIOUS
<1>3. /\ p = [role |-> e, state |-> p.state, sp0 |-> p.sp0, sp1 |-> p.sp1, hs |-> p.hs]
      /\ SecurityOK(e, p.sp0, v)
      /\ \/ p.sp1 = None
         \/ SecurityOK(e, p.sp1, v) /\ p.sp1.epoch # p.sp0.epoch
      /\ \/ p.hs = None
         \/ HandshakeOK(e, p.hs, v) /\ (Unkeyed(p) => Fresh(e, p.hs.hash, v))
    BY <1>1, <1>2 DEF Core, PeerOK
<1>4. /\ q = [role |-> e, state |-> q.state, sp0 |-> q.sp0, sp1 |-> q.sp1, hs |-> q.hs]
      /\ q.sp0 = p.sp0 /\ q.sp1 = p.sp1
    BY <1>2, <1>3
<1>5. \/ q.hs = None
      \/ HandshakeOK(e, q.hs, v) /\ (Unkeyed(q) => Fresh(e, q.hs.hash, v))
    BY <1>1, <1>2, <1>3, <1>4 DEF Unkeyed
<1>6. PeerOK(e, q, v)
    BY <1>3, <1>4, <1>5 DEF PeerOK
<1>7. q # None
    BY <1>6, NotNone
<1>8. QED
    BY <1>1, <1>2, <1>6, <1>7 DEF Core

\* What is hashed after the random number changes nothing about it.
LEMMA FreshAppended ==
    ASSUME NEW e \in Ends, NEW h, Sequence(h), NEW w, Fresh(e, h, w), Len(h) >= At(e), NEW x
    PROVE  Fresh(e, Append(h, x), w) /\ Own(e, Append(h, x)) = Own(e, h)
<1>1. At(e) \in 1..Len(h)
    BY Appended DEF At
<1>2. Own(e, Append(h, x)) = Own(e, h)
    BY <1>1, Appended DEF Own
<1>3. QED
    BY <1>2 DEF Fresh

\* A peer whose transcript goes on
Hashes(e, a, b, m, w) ==
    /\ Core(e, b, w) /\ b.p # None /\ b.err \in {"ok", "failed"}
    /\ b.p.state = a.p.state /\ b.p.sp1 = a.p.sp1
    /\ b.p.sp0.epoch = a.p.sp0.epoch /\ b.p.sp0.key = a.p.sp0.key
    /\ b.p.hs # None
    /\ b.p.hs.hash = Append(a.p.hs.hash, m)
    /\ b.p.hs.random = a.p.hs.random /\ b.p.hs.ext = a.p.hs.ext

\* A handshake message may be hashed when the random number is there, or comes with it.
MayHash(e, a, m, w) ==
    /\ Core(e, a, w) /\ a.p # None /\ a.p.hs # None /\ a.err = "ok"
    /\ \/ ~Unkeyed(a.p)
       \/ Len(a.p.hs.hash) >= At(e)
       \/ Fresh(e, Append(a.p.hs.hash, m), Seen(w, a.out))

\* The handshake of an end, as Core has it
LEMMA HandshakeThere ==
    ASSUME NEW e \in Ends, NEW a, NEW w, Core(e, a, w), a.p # None, a.p.hs # None
    PROVE  /\ HandshakeOK(e, a.p.hs, Seen(w, a.out))
           /\ Sequence(a.p.hs.hash)
           /\ Unkeyed(a.p) => Fresh(e, a.p.hs.hash, Seen(w, a.out))
BY DEF Core, PeerOK, HandshakeOK

\* dtls_send_handshake_msg_hash, the half of it that feeds the transcript
LEMMA HashedKeeps ==
    ASSUME NEW e \in Ends, NEW a, NEW m, NEW w, MayHash(e, a, m, w)
    PROVE  /\ Hashes(e, a, Hashed(a, m), m, w) /\ Hashed(a, m).err = "ok"
           /\ Hashed(a, m).p.hs.mseqS = a.p.hs.mseqS
<1>1. PICK h : h = [a.p.hs EXCEPT !.hash = Append(@, m)]
    OBVIOUS
<1>2. PICK b : b = Hashed(a, m)
    OBVIOUS
<1>3. /\ a = [p |-> a.p, q |-> a.q, out |-> a.out, fail |-> a.fail, err |-> a.err]
      /\ a.p = [role |-> a.p.role, state |-> a.p.state, sp0 |-> a.p.sp0, sp1 |-> a.p.sp1, hs |-> a.p.hs]
    BY DEF MayHash, Core, PeerOK
<1>4. PICK v : v = Seen(w, a.out)
    OBVIOUS
<1>5. HandshakeOK(e, a.p.hs, v) /\ (Unkeyed(a.p) => Fresh(e, a.p.hs.hash, v))
    BY <1>4, HandshakeThere DEF MayHash
<1>6. /\ h = [mseqR |-> h.mseqR, mseqS |-> h.mseqS, readEpoch |-> h.readEpoch,
              random |-> h.random, hash |-> h.hash, ext |-> h.ext, reorder |-> h.reorder]
      /\ h.readEpoch = a.p.hs.readEpoch /\ h.random = a.p.hs.random /\ h.ext = a.p.hs.ext
      /\ h.reorder = a.p.hs.reorder /\ h.hash = Append(a.p.hs.hash, m) /\ h.mseqS = a.p.hs.mseqS
    BY <1>1, <1>5 DEF HandshakeOK
<1>7. HandshakeOK(e, h, v)
    BY <1>5, <1>6, Appended DEF HandshakeOK
<1>8. Unkeyed(a.p) => Fresh(e, h.hash, v)
    BY <1>4, <1>5, <1>6, FreshAppended DEF MayHash, HandshakeOK
<1>9. /\ b = [p |-> b.p, q |-> b.q, out |-> b.out, fail |-> b.fail, err |-> b.err]
      /\ b.q = a.q /\ b.out = a.out /\ b.err = "ok"
      /\ b.p = [role |-> a.p.role, state |-> a.p.state, sp0 |-> a.p.sp0, sp1 |-> a.p.sp1, hs |-> h]
    BY <1>1, <1>2, <1>3 DEF Hashed, MayHash
<1>10. b.p.state = a.p.state /\ b.p.sp0 = a.p.sp0 /\ b.p.sp1 = a.p.sp1 /\ b.p.hs = h
    BY <1>9
<1>11. Core(e, b, w) /\ b.p # None
    <2>1. Core(e, a, w) /\ a.p # None
        BY DEF MayHash
    <2>2. QED
        BY <1>4, <1>7, <1>8, <1>9, <1>10, <2>1, CoreWith
<1>12. h # None
    BY <1>7, NotNone
<1>13. QED
    BY <1>2, <1>6, <1>9, <1>10, <1>11, <1>12 DEF Hashes

\* dtls_send_handshake_msg_hash: hashed, counted and sent
LEMMA SendHandshakeKeeps ==
    ASSUME NEW e \in Ends, NEW a, NEW w, WorldOK(w), NEW t, NEW rnd, NEW cookie, NEW hash,
           LET m == Message(t, a.p.hs.mseqS, rnd, cookie, hash)
           IN  MayHash(e, a, m, w) /\ Sendable(e, a.p, "handshake", m, w)
    PROVE  Hashes(e, a, SendHandshake(a, t, rnd, cookie, hash),
                  Message(t, a.p.hs.mseqS, rnd, cookie, hash), w)
<1>1. PICK m : m = Message(t, a.p.hs.mseqS, rnd, cookie, hash)
    OBVIOUS
<1>2. PICK c : c = Hashed(a, m)
    OBVIOUS
<1>3. PICK d : d = [a EXCEPT !.p.hs.mseqS = @ + 1, !.p.hs.hash = Append(@, m)]
    OBVIOUS
<1>4. Hashes(e, a, c, m, w) /\ c.err = "ok" /\ c.p.hs.mseqS = a.p.hs.mseqS
    BY <1>1, <1>2, HashedKeeps
<1>5. PICK v : v = Seen(w, c.out)
    OBVIOUS
<1>6. HandshakeOK(e, c.p.hs, v) /\ (Unkeyed(c.p) => Fresh(e, c.p.hs.hash, v))
    BY <1>4, <1>5, HandshakeThere DEF Hashes
<1>7. /\ a = [p |-> a.p, q |-> a.q, out |-> a.out, fail |-> a.fail, err |-> a.err]
      /\ a.p = [role |-> a.p.role, state |-> a.p.state, sp0 |-> a.p.sp0, sp1 |-> a.p.sp1, hs |-> a.p.hs]
      /\ a.p.hs = [mseqR |-> a.p.hs.mseqR, mseqS |-> a.p.hs.mseqS, readEpoch |-> a.p.hs.readEpoch,
                   random |-> a.p.hs.random, hash |-> a.p.hs.hash, ext |-> a.p.hs.ext,
                   reorder |-> a.p.hs.reorder]
      /\ a.err = "ok"
    <2>1. Core(e, a, w) /\ a.p # None /\ a.p.hs # None /\ a.err = "ok"
        BY <1>1 DEF MayHash
    <2>2. QED
        BY <2>1 DEF Core, PeerOK, HandshakeOK
<1>8. PICK h : h = [c.p.hs EXCEPT !.mseqS = @ + 1]
    OBVIOUS
<1>9. /\ h = [mseqR |-> h.mseqR, mseqS |-> h.mseqS, readEpoch |-> h.readEpoch,
              random |-> h.random, hash |-> h.hash, ext |-> h.ext, reorder |-> h.reorder]
      /\ h.readEpoch = c.p.hs.readEpoch /\ h.random = c.p.hs.random /\ h.ext = c.p.hs.ext
      /\ h.reorder = c.p.hs.reorder /\ h.hash = c.p.hs.hash
    BY <1>6, <1>8 DEF HandshakeOK
<1>10. HandshakeOK(e, h, v) /\ (Unkeyed(c.p) => Fresh(e, h.hash, v))
    BY <1>6, <1>9 DEF HandshakeOK
<1>11. c = [p |-> [role |-> a.p.role, state |-> a.p.state, sp0 |-> a.p.sp0, sp1 |-> a.p.sp1,
                   hs |-> [mseqR |-> a.p.hs.mseqR, mseqS |-> a.p.hs.mseqS,
                           readEpoch |-> a.p.hs.readEpoch, random |-> a.p.hs.random,
                           hash |-> Append(a.p.hs.hash, m), ext |-> a.p.hs.ext,
                           reorder |-> a.p.hs.reorder]],
            q |-> a.q, out |-> a.out, fail |-> a.fail, err |-> "ok"]
    BY <1>2, <1>7 DEF Hashed
<1>12. h = [mseqR |-> a.p.hs.mseqR, mseqS |-> a.p.hs.mseqS + 1,
            readEpoch |-> a.p.hs.readEpoch, random |-> a.p.hs.random,
            hash |-> Append(a.p.hs.hash, m), ext |-> a.p.hs.ext, reorder |-> a.p.hs.reorder]
    BY <1>8, <1>11
<1>13. d = [p |-> [role |-> a.p.role, state |-> a.p.state, sp0 |-> a.p.sp0, sp1 |-> a.p.sp1,
                   hs |-> h],
            q |-> a.q, out |-> a.out, fail |-> a.fail, err |-> "ok"]
    BY <1>3, <1>7, <1>12
<1>14. Core(e, d, w) /\ d.p # None
    <2>1. d.p.hs = h /\ d.q = c.q /\ d.out = c.out /\ d.p.state = c.p.state
        BY <1>11, <1>13
    <2>2. Core(e, c, w) /\ c.p # None
        BY <1>4 DEF Hashes
    <2>3. d = [p |-> d.p, q |-> d.q, out |-> d.out, fail |-> d.fail, err |-> d.err] /\ d.err = "ok"
        BY <1>13
    <2>4. d.p = [role |-> c.p.role, state |-> d.p.state, sp0 |-> c.p.sp0, sp1 |-> c.p.sp1, hs |-> d.p.hs]
        BY <1>11, <1>13
    <2>5. QED
        BY <1>5, <1>10, <2>1, <2>2, <2>3, <2>4, CoreWith
<1>15. PICK b : b = SendHandshake(a, t, rnd, cookie, hash)
    OBVIOUS
<1>16. b = Send(d, "handshake", m)
    BY <1>1, <1>3, <1>7, <1>15 DEF SendHandshake
<1>17. d.err = "ok" /\ d.p.sp0 = a.p.sp0 /\ d.p.sp1 = a.p.sp1 /\ d.p.state = a.p.state /\ d.p.hs = h
    BY <1>13
<1>18. Sends(e, d, b, w)
    <2>1. Sendable(e, d.p, "handshake", m, w)
        BY <1>1, <1>17 DEF Sendable
    <2>2. QED
        BY <1>14, <1>16, <1>17, <2>1, SendKeeps
<1>19. h # None
    BY <1>10, NotNone
<1>20. QED
    BY <1>1, <1>12, <1>15, <1>17, <1>18, <1>19 DEF Sends, Like, Hashes

-----------------------------------------------------------------------------
(* Parameters *)

\* dtls_security_params_next: the key is the transcript, which nothing was closed under yet.
LEMMA NextParamsKeeps ==
    ASSUME NEW e \in Ends, NEW p, NEW w, PeerOK(e, p, w), Unkeyed(p), p.hs # None,
           p.hs.ext = p.hs.hash, Len(p.hs.hash) >= 2
    PROVE  /\ PeerOK(e, NextParams(p), w)
           /\ NextParams(p) = [p EXCEPT !.sp1 = NextParams(p).sp1]
           /\ NextParams(p).sp1 # None
           /\ NextParams(p).sp1.epoch = 1 /\ NextParams(p).sp1.key = p.hs.hash
<1>1. PICK q : q = NextParams(p)
    OBVIOUS
<1>2. PICK sp : sp = NewSecurity(1, p.hs.hash)
    OBVIOUS
<1>3. /\ p = [role |-> e, state |-> p.state, sp0 |-> p.sp0, sp1 |-> p.sp1, hs |-> p.hs]
      /\ SecurityOK(e, p.sp0, w) /\ HandshakeOK(e, p.hs, w) /\ Fresh(e, p.hs.hash, w)
      /\ p.sp0.epoch = 0
    BY DEF PeerOK, Unkeyed
<1>4. /\ sp = [epoch |-> 1, key |-> p.hs.hash, rseq |-> 0, win |-> [cseq |-> 0, bits |-> {}]]
      /\ sp = [epoch |-> sp.epoch, key |-> sp.key, rseq |-> sp.rseq, win |-> sp.win]
    BY <1>2 DEF NewSecurity, NewWindow
<1>5. Sequence(p.hs.hash) /\ Len(p.hs.hash) >= At(e) /\ Own(e, p.hs.hash) \in 1..w.randoms
    BY <1>3, Appended DEF HandshakeOK, Fresh, At
<1>6. \A r \in Used(e, w) : r.key # p.hs.hash
    BY <1>3, <1>5 DEF Fresh
<1>7. sp.rseq \in Nat /\ sp.win \in SeqNum /\ KeyOK(e, sp.key, w)
    BY <1>4, <1>5 DEF SeqNum, Bits, KeyOK
<1>8. SecurityOK(e, sp, w)
    BY <1>4, <1>6, <1>7 DEF SecurityOK, Used
<1>9. /\ q = [role |-> e, state |-> q.state, sp0 |-> q.sp0, sp1 |-> q.sp1, hs |-> q.hs]
      /\ q.state = p.state /\ q.sp0 = p.sp0 /\ q.sp1 = sp /\ q.hs = p.hs
      /\ q = [p EXCEPT !.sp1 = sp]
    BY <1>1, <1>2, <1>3 DEF NextParams
<1>10. sp # None
    BY <1>8, NotNone
<1>11. PeerOK(e, q, w)
    <2>1. SecurityOK(e, q.sp0, w) /\ SecurityOK(e, q.sp1, w) /\ q.sp1.epoch # q.sp0.epoch
        BY <1>3, <1>4, <1>8, <1>9
    <2>2. HandshakeOK(e, q.hs, w) /\ ~Unkeyed(q)
        BY <1>3, <1>9, <1>10 DEF Unkeyed
    <2>3. QED
        BY <1>9, <2>1, <2>2 DEF PeerOK
<1>12. QED
    BY <1>1, <1>4, <1>9, <1>10, <1>11

\* dtls_security_params_switch changes the two sides over.
LEMMA SwitchParamsKeeps ==
    ASSUME NEW e \in Ends, NEW p, NEW w, PeerOK(e, p, w), p.sp1 # None
    PROVE  /\ PeerOK(e, SwitchParams(p), w)
           /\ SwitchParams(p).sp0 = p.sp1 /\ SwitchParams(p).sp1 = p.sp0
           /\ SwitchParams(p).hs = p.hs /\ SwitchParams(p).state = p.state
<1>1. PICK q : q = SwitchParams(p)
    OBVIOUS
<1>2. p = [role |-> e, state |-> p.state, sp0 |-> p.sp0, sp1 |-> p.sp1, hs |-> p.hs]
    BY DEF PeerOK
<1>3. /\ q = [role |-> e, state |-> q.state, sp0 |-> q.sp0, sp1 |-> q.sp1, hs |-> q.hs]
      /\ q.sp0 = p.sp1 /\ q.sp1 = p.sp0 /\ q.hs = p.hs /\ q.state = p.state
    <2>1. q = [role |-> e, state |-> p.state, sp0 |-> p.sp1, sp1 |-> p.sp0, hs |-> p.hs]
        <3>1. PICK s, x, y, h : s = p.state /\ x = p.sp0 /\ y = p.sp1 /\ h = p.hs
            OBVIOUS
        <3>2. p = [role |-> e, state |-> s, sp0 |-> x, sp1 |-> y, hs |-> h]
            BY <1>2, <3>1
        <3>3. q = [[role |-> e, state |-> s, sp0 |-> x, sp1 |-> y, hs |-> h]
                      EXCEPT !.sp0 = y, !.sp1 = x]
            BY <1>1, <3>1, <3>2 DEF SwitchParams
        <3>4. q = [role |-> e, state |-> s, sp0 |-> y, sp1 |-> x, hs |-> h]
            BY <3>3
        <3>5. QED
            BY <3>1, <3>4
    <2>2. QED
        BY <2>1
<1>4. p.sp0 # None
    BY NotNone DEF PeerOK
<1>5. PeerOK(e, q, w)
    BY <1>3, <1>4 DEF PeerOK, Unkeyed
<1>6. QED
    BY <1>1, <1>3, <1>5

\* The peer may be replaced by another that is as good.
LEMMA CoreOfPeer ==
    ASSUME NEW e \in Ends, NEW a, NEW w, Core(e, a, w), a.p # None,
           NEW q, PeerOK(e, q, Seen(w, a.out))
    PROVE  LET b == [a EXCEPT !.p = q]
           IN  Core(e, b, w) /\ b.p # None /\ b.p = q /\ b.err = a.err
<1>1. PICK b : b = [a EXCEPT !.p = q]
    OBVIOUS
<1>2. a = [p |-> a.p, q |-> a.q, out |-> a.out, fail |-> a.fail, err |-> a.err]
    BY DEF Core
<1>3. /\ b = [p |-> b.p, q |-> b.q, out |-> b.out, fail |-> b.fail, err |-> b.err]
      /\ b.p = q /\ b.q = a.q /\ b.out = a.out /\ b.err = a.err
    BY <1>1, <1>2
<1>4. q # None
    BY NotNone
<1>5. Core(e, b, w)
    BY <1>3, <1>4 DEF Core
<1>6. QED
    BY <1>1, <1>3, <1>4, <1>5

\* The next parameters, with the key of the transcript so far
LEMMA KeyedKeeps ==
    ASSUME NEW e \in Ends, NEW a, NEW w, Core(e, a, w), a.p # None, a.err = "ok",
           Unkeyed(a.p), a.p.hs # None, Len(a.p.hs.hash) >= 2
    PROVE  LET b == Keyed(a)
           IN  /\ Core(e, b, w) /\ b.p # None /\ b.err = "ok"
               /\ b.p.sp1 # None /\ b.p.sp1.epoch = 1 /\ b.p.sp1.key = a.p.hs.hash
               /\ b.p.hs # None /\ b.p.hs.hash = a.p.hs.hash
<1>1. PICK v : v = Seen(w, a.out)
    OBVIOUS
<1>2. PICK p : p = [a.p EXCEPT !.hs.ext = a.p.hs.hash]
    OBVIOUS
<1>3. /\ a = [p |-> a.p, q |-> a.q, out |-> a.out, fail |-> a.fail, err |-> a.err]
      /\ a.p = [role |-> a.p.role, state |-> a.p.state, sp0 |-> a.p.sp0, sp1 |-> a.p.sp1, hs |-> a.p.hs]
      /\ HandshakeOK(e, a.p.hs, v) /\ Fresh(e, a.p.hs.hash, v)
      /\ PeerOK(e, a.p, v)
    BY <1>1 DEF Core, PeerOK
<1>4. PICK h : h = [a.p.hs EXCEPT !.ext = a.p.hs.hash]
    OBVIOUS
<1>5. /\ h = [mseqR |-> h.mseqR, mseqS |-> h.mseqS, readEpoch |-> h.readEpoch,
              random |-> h.random, hash |-> h.hash, ext |-> h.ext, reorder |-> h.reorder]
      /\ h.readEpoch = a.p.hs.readEpoch /\ h.ext = a.p.hs.hash /\ h.hash = a.p.hs.hash
      /\ h.reorder = a.p.hs.reorder
    BY <1>3, <1>4 DEF HandshakeOK
<1>6. HandshakeOK(e, h, v)
    BY <1>3, <1>5 DEF HandshakeOK
<1>7. p = [role |-> a.p.role, state |-> a.p.state, sp0 |-> a.p.sp0, sp1 |-> a.p.sp1, hs |-> h]
    BY <1>2, <1>3, <1>4
<1>8. p.hs = h /\ p.sp0 = a.p.sp0 /\ p.sp1 = a.p.sp1
    BY <1>7
<1>9. PeerOK(e, p, v)
    BY <1>3, <1>5, <1>6, <1>7, <1>8 DEF PeerOK, Unkeyed
<1>10. h # None
    BY <1>6, NotNone
<1>11. /\ PeerOK(e, NextParams(p), v) /\ NextParams(p) = [p EXCEPT !.sp1 = NextParams(p).sp1]
       /\ NextParams(p).sp1 # None
       /\ NextParams(p).sp1.epoch = 1 /\ NextParams(p).sp1.key = h.hash
    <2>1. Unkeyed(p) /\ p.hs # None /\ p.hs.ext = p.hs.hash /\ Len(p.hs.hash) >= 2
        BY <1>5, <1>8, <1>10 DEF Unkeyed
    <2>2. QED
        BY <1>8, <1>9, <2>1, NextParamsKeeps
<1>12. PICK q : q = NextParams(p)
    OBVIOUS
<1>13. q.hs = h
    BY <1>7, <1>11, <1>12
<1>14. Keyed(a) = [a EXCEPT !.p = q]
    BY <1>2, <1>12, <1>3 DEF Keyed
<1>15. /\ Core(e, Keyed(a), w) /\ Keyed(a).p # None /\ Keyed(a).p = q /\ Keyed(a).err = "ok"
    BY <1>1, <1>11, <1>12, <1>14, CoreOfPeer
<1>16. QED
    BY <1>5, <1>10, <1>11, <1>12, <1>13, <1>15

\* The parameters changed over, as a step of the handlers
LEMMA SwitchedKeeps ==
    ASSUME NEW e \in Ends, NEW a, NEW w, Core(e, a, w), a.p # None, a.err = "ok",
           a.p.sp1 # None
    PROVE  LET b == Switched(a)
           IN  /\ Core(e, b, w) /\ b.p # None /\ b.err = "ok"
               /\ b.p.sp0 = a.p.sp1 /\ b.p.sp1 = a.p.sp0
               /\ b.p.hs = a.p.hs /\ b.p.state = a.p.state
<1>1. PICK q : q = SwitchParams(a.p)
    OBVIOUS
<1>2. /\ PeerOK(e, q, Seen(w, a.out)) /\ q.sp0 = a.p.sp1 /\ q.sp1 = a.p.sp0
      /\ q.hs = a.p.hs /\ q.state = a.p.state
    BY <1>1, SwitchParamsKeeps DEF Core
<1>3. Switched(a) = [a EXCEPT !.p = q]
    BY <1>1 DEF Switched
<1>4. QED
    BY <1>2, <1>3, CoreOfPeer

-----------------------------------------------------------------------------
(* Alerts *)

\* What a handler may leave
Left(e, a, w) == Core(e, a, w) /\ (a.p # None => StateOK(e, a.p, w))

\* An end that closes is no part of a handshake any more.
LEMMA ClosingKeeps ==
    ASSUME NEW e \in Ends, NEW a, NEW w, Core(e, a, w), a.p # None
    PROVE  LET b == [a EXCEPT !.p.state = "CLOSING", !.err = "ok"]
           IN  /\ Core(e, b, w) /\ b.p # None /\ b.p.state = "CLOSING" /\ b.err = "ok"
               /\ b.p.sp0 = a.p.sp0
<1>1. PICK b : b = [a EXCEPT !.p.state = "CLOSING", !.err = "ok"]
    OBVIOUS
<1>2. PICK p, q, out, fail, err : /\ p = a.p /\ q = a.q /\ out = a.out /\ fail = a.fail /\ err = a.err
    OBVIOUS
<1>3. PICK r, s, x, y, h : r = p.role /\ s = p.state /\ x = p.sp0 /\ y = p.sp1 /\ h = p.hs
    OBVIOUS
<1>4. /\ a = [p |-> p, q |-> q, out |-> out, fail |-> fail, err |-> err]
      /\ p = [role |-> r, state |-> s, sp0 |-> x, sp1 |-> y, hs |-> h]
    BY <1>2, <1>3 DEF Core, PeerOK
<1>5. b = [p |-> [role |-> r, state |-> "CLOSING", sp0 |-> x, sp1 |-> y, hs |-> h],
           q |-> q, out |-> out, fail |-> fail, err |-> "ok"]
    BY <1>1, <1>4
<1>6. /\ b = [p |-> b.p, q |-> b.q, out |-> b.out, fail |-> b.fail, err |-> b.err]
      /\ b.p = [role |-> a.p.role, state |-> b.p.state, sp0 |-> a.p.sp0, sp1 |-> a.p.sp1, hs |-> b.p.hs]
      /\ b.p.hs = a.p.hs /\ b.p.state = "CLOSING" /\ b.q = a.q /\ b.out = a.out /\ b.err = "ok"
      /\ b.p.sp0 = a.p.sp0
    BY <1>2, <1>3, <1>5
<1>7. Core(e, b, w) /\ b.p # None
    BY <1>6, CoreWith
<1>8. QED
    BY <1>1, <1>6, <1>7

\* dtls_send_alert leaves the key in use as it is.
LEMMA SendAlertKeeps ==
    ASSUME NEW e \in Ends, NEW a, NEW w, WorldOK(w), Core(e, a, w), a.p # None, a.err = "ok",
           NEW description
    PROVE  LET b == SendAlert(a, description)
           IN  /\ Core(e, b, w) /\ b.p # None /\ b.p.state = a.p.state /\ b.err = "ok"
               /\ b.p.sp0.epoch = a.p.sp0.epoch /\ b.p.sp0.key = a.p.sp0.key
<1>1. PICK alert : alert = Content(description, 0)
    OBVIOUS
<1>2. PICK c : c = Send(a, "alert", alert)
    OBVIOUS
<1>3. Sends(e, a, c, w)
    BY <1>2, SendKeeps DEF Sendable
<1>4. PICK n : n = Node(a.p.sp0, "alert", alert)
    OBVIOUS
<1>5. NodeOK(e, n, w)
    BY <1>4 DEF NodeOK, Node
<1>6. PICK b : b = SendAlert(a, description)
    OBVIOUS
<1>7. b = [c EXCEPT !.q = @ \cup {n}, !.err = "ok"]
    BY <1>1, <1>2, <1>4, <1>6 DEF SendAlert
<1>8. c = [p |-> c.p, q |-> c.q, out |-> c.out, fail |-> c.fail, err |-> c.err]
    BY <1>3 DEF Sends, Core
<1>9. b = [p |-> c.p, q |-> c.q \cup {n}, out |-> c.out, fail |-> c.fail, err |-> "ok"]
    <2>1. PICK p, q, out, fail, err : p = c.p /\ q = c.q /\ out = c.out /\ fail = c.fail /\ err = c.err
        OBVIOUS
    <2>2. c = [p |-> p, q |-> q, out |-> out, fail |-> fail, err |-> err]
        BY <1>8, <2>1
    <2>3. QED
        BY <1>7, <2>1, <2>2
<1>10. /\ b = [p |-> b.p, q |-> b.q, out |-> b.out, fail |-> b.fail, err |-> b.err]
       /\ b.p = c.p /\ b.q = c.q \cup {n} /\ b.out = c.out /\ b.err = "ok"
    BY <1>9
<1>11. Core(e, b, w)
    BY <1>3, <1>5, <1>10 DEF Sends, Core
<1>12. QED
    BY <1>3, <1>6, <1>10, <1>11 DEF Sends, Like

\* dtls_destroy_peer: its copies go with the peer.
LEMMA DestroyKeeps ==
    ASSUME NEW e, NEW a, NEW w, Core(e, a, w)
    PROVE  Core(e, Destroy(a), w) /\ Destroy(a).p = None
<1>1. PICK b : b = Destroy(a)
    OBVIOUS
<1>2. PICK p, q, out, fail, err : /\ p = a.p /\ q = a.q /\ out = a.out /\ fail = a.fail /\ err = a.err
    OBVIOUS
<1>3. a = [p |-> p, q |-> q, out |-> out, fail |-> fail, err |-> err]
    BY <1>2 DEF Core
<1>4. b = [p |-> None, q |-> {}, out |-> out, fail |-> fail, err |-> err]
    BY <1>1, <1>3 DEF Destroy
<1>5. /\ b = [p |-> b.p, q |-> b.q, out |-> b.out, fail |-> b.fail, err |-> b.err]
      /\ b.p = None /\ b.q = {} /\ b.out = a.out /\ b.err = a.err
    BY <1>2, <1>4
<1>6. Core(e, b, w)
    BY <1>5 DEF Core
<1>7. QED
    BY <1>1, <1>5, <1>6

\* Nothing is asked of an end that closes.
LEMMA ClosingOK ==
    ASSUME NEW e, NEW p, NEW w, p.state = "CLOSING" PROVE StateOK(e, p, w)
BY DEF StateOK

\* A peer that closes and tells the other
LEMMA AlertedKeeps ==
    ASSUME NEW e \in Ends, NEW a, NEW w, WorldOK(w), Core(e, a, w), a.p # None, NEW description
    PROVE  LET b == Alerted(a, description)
           IN  /\ Core(e, b, w) /\ b.p # None /\ b.p.state = "CLOSING" /\ Left(e, b, w)
               /\ b.p.sp0.epoch = a.p.sp0.epoch
               /\ b.p.sp0.key = a.p.sp0.key
<1>1. PICK c : c = [a EXCEPT !.p.state = "CLOSING", !.err = "ok"]
    OBVIOUS
<1>2. /\ Core(e, c, w) /\ c.p # None /\ c.p.state = "CLOSING" /\ c.err = "ok"
      /\ c.p.sp0 = a.p.sp0
    BY <1>1, ClosingKeeps
<1>3. PICK b : b = SendAlert(c, description)
    OBVIOUS
<1>4. /\ Core(e, b, w) /\ b.p # None /\ b.p.state = "CLOSING"
      /\ b.p.sp0.epoch = a.p.sp0.epoch /\ b.p.sp0.key = a.p.sp0.key
    BY <1>2, <1>3, SendAlertKeeps
<1>5. QED
    BY <1>1, <1>3, <1>4, ClosingOK DEF Left, Alerted

\* With no error there is no need to clear it.
LEMMA ClosingSame ==
    ASSUME NEW a, NEW e, NEW w, Core(e, a, w), a.err = "ok"
    PROVE  [a EXCEPT !.p.state = "CLOSING"] = [a EXCEPT !.p.state = "CLOSING", !.err = "ok"]
<1>1. PICK p, q, out, fail : p = a.p /\ q = a.q /\ out = a.out /\ fail = a.fail
    OBVIOUS
<1>2. a = [p |-> p, q |-> q, out |-> out, fail |-> fail, err |-> "ok"]
    BY <1>1 DEF Core
<1>3. QED
    BY <1>2

\* handle_alert, a fatal one or close_notify: the peer is gone.
LEMMA HandleAlertKeeps ==
    ASSUME NEW e \in Ends, NEW a, NEW w, WorldOK(w), Core(e, a, w), a.p # None, a.err = "ok",
           NEW description
    PROVE  Core(e, HandleAlert(a, description), w) /\ HandleAlert(a, description).p = None
<1>1. PICK b : b = SendAlert([a EXCEPT !.p.state = "CLOSING"], "close_notify")
    OBVIOUS
<1>2. Core(e, b, w)
    BY <1>1, ClosingSame, AlertedKeeps DEF Alerted
<1>3. \/ HandleAlert(a, description) = Destroy(b)
      \/ HandleAlert(a, description) = Destroy(a)
    BY <1>1 DEF HandleAlert
<1>4. QED
    BY <1>2, <1>3, DestroyKeeps

\* dtls_destroy_peer of a peer that is told so first
LEMMA DestroyCloseKeeps ==
    ASSUME NEW e \in Ends, NEW a, NEW w, WorldOK(w), Core(e, a, w), a.p # None, a.err = "ok"
    PROVE  Core(e, DestroyClose(a), w) /\ DestroyClose(a).p = None
<1>1. PICK b : b = SendAlert([a EXCEPT !.p.state = "CLOSING"], "close_notify")
    OBVIOUS
<1>2. Core(e, b, w)
    BY <1>1, ClosingSame, AlertedKeeps DEF Alerted
<1>3. \/ DestroyClose(a) = Destroy(b)
      \/ DestroyClose(a) = Destroy(a)
    BY <1>1 DEF DestroyClose
<1>4. QED
    BY <1>2, <1>3, DestroyKeeps

-----------------------------------------------------------------------------
(* New peers and ClientHello *)

\* What an end has sent or handed up under a key has an own number from before.
UsedOK(e, w) == \A r \in Used(e, w) : r.key # NoKey /\ Own(e, r.key) \in 1..w.randoms

\* dtls_new_peer: a peer without keys, in a handshake with a number of its own
LEMMA NewPeerKeeps ==
    ASSUME NEW e \in Ends, NEW w, UsedOK(e, w), NEW p,
           p = [role |-> e, state |-> p.state, sp0 |-> p.sp0, sp1 |-> None, hs |-> p.hs],
           p.sp0 = [epoch |-> 0, key |-> NoKey, rseq |-> p.sp0.rseq, win |-> p.sp0.win],
           p.sp0.rseq \in Nat, p.sp0.win \in SeqNum,
           HandshakeOK(e, p.hs, w), Fresh(e, p.hs.hash, w)
    PROVE  PeerOK(e, p, w) /\ Unkeyed(p) /\ p.hs # None /\ p # None
<1>1. p.sp1 = None /\ p.sp0.epoch = 0 /\ p.sp0.key = NoKey /\ p.role = e
    <2>1. PICK s, x, h : s = p.state /\ x = p.sp0 /\ h = p.hs
        OBVIOUS
    <2>2. p = [role |-> e, state |-> s, sp0 |-> x, sp1 |-> None, hs |-> h]
        BY <2>1
    <2>3. PICK n, d : n = x.rseq /\ d = x.win
        OBVIOUS
    <2>4. x = [epoch |-> 0, key |-> NoKey, rseq |-> n, win |-> d]
        BY <2>1, <2>3
    <2>5. QED
        BY <2>2, <2>4
<1>2. PICK x : x = p.sp0
    OBVIOUS
<1>3. SecurityOK(e, x, w)
    <2>1. x = [epoch |-> x.epoch, key |-> x.key, rseq |-> x.rseq, win |-> x.win]
        BY <1>1, <1>2
    <2>2. \A r \in Used(e, w) : r.key # x.key
        BY <1>1, <1>2 DEF UsedOK
    <2>3. QED
        BY <1>1, <1>2, <2>1, <2>2 DEF SecurityOK, Used
<1>4. p = [role |-> e, state |-> p.state, sp0 |-> p.sp0, sp1 |-> p.sp1, hs |-> p.hs]
    BY <1>1
<1>5. PeerOK(e, p, w)
    BY <1>1, <1>2, <1>3, <1>4 DEF PeerOK
<1>6. QED
    BY <1>1, <1>5, NotNone DEF Unkeyed

\* The client's first transcript has its random number.
FirstHash(a, rnd, w) ==
    /\ Core("client", a, w) /\ a.p # None /\ a.p.hs # None /\ a.err = "ok"
    /\ Unkeyed(a.p)
    /\ rnd \in 1..w.randoms
    /\ \A r \in Used("client", Seen(w, a.out)) : Own("client", r.key) # rnd

\* dtls_send_client_hello: the first message of the transcript has the client's number.
LEMMA SendClientHelloKeeps ==
    ASSUME NEW a, NEW w, WorldOK(w), NEW cookie, NEW rnd,
           rnd = IF cookie = 0 THEN randoms + 1 ELSE a.p.hs.random,
           FirstHash(a, rnd, w)
    PROVE  LET b == SendClientHello(a, cookie)
           IN  /\ Core("client", b, w) /\ b.p # None /\ b.err \in {"ok", "failed"}
               /\ b.p.state = a.p.state /\ Unkeyed(b.p) /\ b.p.hs # None
               /\ Len(b.p.hs.hash) = 1 /\ Own("client", b.p.hs.hash) = rnd
               /\ b.p.hs.random = rnd
<1> DEFINE e == "client"
<1>0. At("client") = 1
    BY DEF At
<1>1. e \in Ends /\ Core(e, a, w) /\ a.p # None /\ a.p.hs # None /\ a.err = "ok" /\ Unkeyed(a.p)
    BY DEF Ends, FirstHash
<1>2. PICK v : v = Seen(w, a.out)
    OBVIOUS
<1>3. HandshakeOK(e, a.p.hs, v)
    BY <1>1, <1>2, HandshakeThere
<1>3a. PICK nil : nil = <<>>
    OBVIOUS
<1>4. PICK h : h = [a.p.hs EXCEPT !.random = rnd, !.readEpoch = 0, !.hash = nil]
    OBVIOUS
<1>5. PICK c : c = [a EXCEPT !.p.hs.random = IF cookie = 0 THEN randoms + 1 ELSE @,
                             !.p.hs.readEpoch = a.p.sp0.epoch,
                             !.p.hs.hash = <<>>]
    OBVIOUS
<1>6. PICK p, q, out, fail : p = a.p /\ q = a.q /\ out = a.out /\ fail = a.fail
    OBVIOUS
<1>7. PICK r, s, x, y, g : r = p.role /\ s = p.state /\ x = p.sp0 /\ y = p.sp1 /\ g = p.hs
    OBVIOUS
<1>8. PICK g1, g2, g3, g4, g5, g6, g7 :
          /\ g1 = g.mseqR /\ g2 = g.mseqS /\ g3 = g.readEpoch /\ g4 = g.random
          /\ g5 = g.hash /\ g6 = g.ext /\ g7 = g.reorder
    OBVIOUS
<1>9. /\ a = [p |-> p, q |-> q, out |-> out, fail |-> fail, err |-> "ok"]
      /\ p = [role |-> r, state |-> s, sp0 |-> x, sp1 |-> y, hs |-> g]
    BY <1>1, <1>6, <1>7 DEF Core, PeerOK
<1>10. g = [mseqR |-> g1, mseqS |-> g2, readEpoch |-> g3, random |-> g4, hash |-> g5,
            ext |-> g6, reorder |-> g7]
    BY <1>3, <1>6, <1>7, <1>8 DEF HandshakeOK
<1>11. h = [mseqR |-> g1, mseqS |-> g2, readEpoch |-> 0, random |-> rnd, hash |-> nil,
            ext |-> g6, reorder |-> g7]
    <2>1. h = [g EXCEPT !.random = rnd, !.readEpoch = 0, !.hash = nil]
        BY <1>4, <1>6, <1>7
    <2>2. QED
        BY <1>10, <2>1
<1>12. c = [p |-> [role |-> r, state |-> s, sp0 |-> x, sp1 |-> y, hs |-> h],
            q |-> q, out |-> out, fail |-> fail, err |-> "ok"]
    <2>1. a.p.sp0.epoch = 0
        BY <1>1 DEF Unkeyed
    <2>2. c = [a EXCEPT !.p.hs.random = rnd, !.p.hs.readEpoch = 0, !.p.hs.hash = nil]
        BY <1>3a, <1>5, <2>1
    <2>3. c = [a EXCEPT !.p = [a.p EXCEPT !.hs = [a.p.hs EXCEPT !.random = rnd, !.readEpoch = 0,
                                                               !.hash = nil]]]
        BY <1>6, <1>7, <1>9, <1>10, <2>2
    <2>4. c = [a EXCEPT !.p = [a.p EXCEPT !.hs = h]]
        BY <1>4, <2>3
    <2>5. QED
        <3>1. c = [a EXCEPT !.p = [p EXCEPT !.hs = h]]
            BY <1>6, <2>4
        <3>2. [p EXCEPT !.hs = h] = [role |-> r, state |-> s, sp0 |-> x, sp1 |-> y, hs |-> h]
            BY <1>9
        <3>3. PICK p2 : p2 = [p EXCEPT !.hs = h]
            OBVIOUS
        <3>4. c = [a EXCEPT !.p = p2]
            BY <3>1, <3>3
        <3>5. c = [p |-> p2, q |-> q, out |-> out, fail |-> fail, err |-> "ok"]
            BY <1>9, <3>4
        <3>6. QED
            BY <3>2, <3>3, <3>5
<1>13. HandshakeOK(e, h, v) /\ Fresh(e, h.hash, v)
    <2>1. /\ h = [mseqR |-> h.mseqR, mseqS |-> h.mseqS, readEpoch |-> h.readEpoch,
                  random |-> h.random, hash |-> h.hash, ext |-> h.ext, reorder |-> h.reorder]
          /\ h.readEpoch = 0 /\ h.hash = nil /\ h.reorder = a.p.hs.reorder
        BY <1>6, <1>7, <1>8, <1>11
    <2>2. QED
        BY <1>3, <1>3a, <2>1, EmptySequence DEF HandshakeOK, Fresh, At
<1>14. Core(e, c, w) /\ c.p # None
    <2>1. /\ c = [p |-> c.p, q |-> c.q, out |-> c.out, fail |-> c.fail, err |-> c.err]
          /\ c.q = a.q /\ c.out = a.out /\ c.err = "ok"
          /\ c.p = [role |-> a.p.role, state |-> c.p.state, sp0 |-> a.p.sp0, sp1 |-> a.p.sp1, hs |-> c.p.hs]
          /\ c.p.hs = h
        BY <1>6, <1>7, <1>12
    <2>2. QED
        BY <1>1, <1>2, <1>13, <2>1, CoreWith
<1>15. /\ c.p.hs = h /\ c.err = "ok" /\ c.p.state = a.p.state /\ c.out = a.out
       /\ c.p.sp0 = a.p.sp0 /\ c.p.sp1 = a.p.sp1
    BY <1>6, <1>7, <1>12
<1>16. PICK m : m = Message("client_hello", c.p.hs.mseqS, rnd, cookie, <<>>)
    OBVIOUS
<1>17. m.t = "client_hello" /\ m.rnd = rnd
    BY <1>16 DEF Message
<1>18. Sequence(Append(nil, m)) /\ Len(Append(nil, m)) = 1 /\ Own(e, Append(nil, m)) = rnd
    <2>0. Sequence(nil) /\ Len(nil) = 0
        BY <1>3a, EmptySequence
    <2>1. Append(nil, m)[0 + 1] = m /\ Len(Append(nil, m)) = 0 + 1 /\ Sequence(Append(nil, m))
        BY <2>0, Appended
    <2>2. QED
        BY <1>0, <1>17, <2>1 DEF Own
<1>19. MayHash(e, c, m, w)
    <2>1. Fresh(e, Append(c.p.hs.hash, m), Seen(w, c.out))
        <3>1. c.p.hs.hash = nil
            BY <1>11, <1>15
        <3>2. v.randoms = w.randoms
            BY <1>2 DEF Seen
        <3>3. QED
            BY <1>2, <1>15, <1>18, <3>1, <3>2 DEF Fresh, FirstHash
    <2>2. c.p.hs # None
        BY <1>13, <1>15, NotNone, <1>1
    <2>3. QED
        BY <1>14, <1>15, <2>1, <2>2 DEF MayHash
<1>20. Sendable(e, c.p, "handshake", m, w)
    BY <1>1, <1>15, <1>17 DEF Sendable, BodyOK, HandshakeTypes, FirstHash, Unkeyed
<1>21. PICK b : b = SendClientHello(a, cookie)
    OBVIOUS
<1>22. b = SendHandshake(c, "client_hello", rnd, cookie, <<>>)
    BY <1>5, <1>21 DEF SendClientHello
<1>23. Hashes(e, c, b, m, w)
    BY <1>1, <1>16, <1>19, <1>20, <1>22, SendHandshakeKeeps
<1>24. c.p.hs.hash = nil /\ c.p.hs.random = rnd
    BY <1>11, <1>15
<1>25. QED
    BY <1>1, <1>15, <1>18, <1>21, <1>23, <1>24 DEF Hashes, Unkeyed

-----------------------------------------------------------------------------
(* Finished *)

Agreed(w, key) ==
    [net |-> w.net, got |-> w.got, randoms |-> w.randoms, done |-> w.done \cup {key}]

\* More keys that are agreed change nothing for an end.
LEMMA CoreLater ==
    ASSUME NEW e, NEW a, NEW w, w.randoms \in Nat, Core(e, a, w), NEW v,
           v.randoms = w.randoms, v.net = w.net, v.got = w.got, w.done \subseteq v.done
    PROVE  Core(e, a, v)
<1>1. PICK x, y : x = Seen(w, a.out) /\ y = Seen(v, a.out)
    OBVIOUS
<1>2. /\ x.randoms = w.randoms /\ y.randoms = w.randoms
      /\ x.net = w.net \cup a.out /\ y.net = w.net \cup a.out
      /\ x.got = w.got /\ y.got = w.got
      /\ x.done = w.done /\ y.done = v.done
    <2>1. x.randoms = w.randoms /\ x.net = w.net \cup a.out /\ x.got = w.got /\ x.done = w.done
        BY <1>1 DEF Seen
    <2>2. y.randoms = v.randoms /\ y.net = v.net \cup a.out /\ y.got = v.got /\ y.done = v.done
        BY <1>1 DEF Seen
    <2>3. QED
        BY <2>1, <2>2
<1>3. Mine(e, y) = Mine(e, x) /\ Taken(e, y) = Taken(e, x)
    BY <1>2 DEF Mine, Taken
<1>4. a.p # None => PeerOK(e, a.p, y)
    <2>1. a.p # None => PeerOK(e, a.p, x)
        BY <1>1 DEF Core
    <2>2. QED
        BY <1>2, <1>3, <2>1, PeerLater
<1>5. (\A r \in a.out : RecordOK(r, v)) /\ \A n \in a.q : NodeOK(e, n, v)
    BY RecordLater DEF Core
<1>6. QED
    BY <1>1, <1>4, <1>5 DEF Core

\* An agreed key more, for the world and for what holds in it
LEMMA AgreedKeeps ==
    ASSUME NEW e, NEW a, NEW w, WorldOK(w), NEW key
    PROVE  /\ WorldOK(Agreed(w, key))
           /\ Core(e, a, w) => Core(e, a, Agreed(w, key))
           /\ Agreed(w, key).done = w.done \cup {key}
           /\ \A d, m : BodyOK(d, m, w) => BodyOK(d, m, Agreed(w, key))
<1>1. PICK v : v = Agreed(w, key)
    OBVIOUS
<1>2. v.done = w.done \cup {key}
    BY <1>1 DEF Agreed
<1>3. v.randoms = w.randoms /\ v.net = w.net /\ v.got = w.got
    BY <1>1 DEF Agreed
<1>4. QED
    BY <1>1, <1>2, <1>3, RecordLater, CoreLater DEF WorldOK

\* dtls_send_finished, with the record before it and the switch: what is hashed is then
\* the key's transcript, what was hashed since, and the Finished.
LEMMA SendFinishedKeeps ==
    ASSUME NEW e \in Ends, NEW a, NEW w, WorldOK(w), Core(e, a, w), a.p # None, a.err = "ok",
           a.p.hs # None, a.p.sp1 # None, a.p.sp0.epoch = 0,
           \/ e = "client"
           \/ /\ a.p.sp1.key \in w.done /\ Sequence(a.p.sp1.key)
              /\ \E x : a.p.hs.hash = Append(a.p.sp1.key, x)
    PROVE  LET b == SendFinished(Switched(SendCcs(a)))
           IN  /\ Core(e, b, w) /\ b.p # None /\ b.err \in {"ok", "failed"}
               /\ b.err = "ok" => /\ b.p.hs # None
                                  /\ b.p.sp0.epoch = 1 /\ b.p.sp0.key = a.p.sp1.key
                                  /\ \E x : b.p.hs.hash = Append(a.p.hs.hash, x)
               /\ SendCcs(a).err = "ok" => b.p.sp0.epoch = 1 /\ b.p.sp0.key = a.p.sp1.key
<1>1. PICK c : c = SendCcs(a)
    OBVIOUS
<1>2. Sends(e, a, c, w)
    BY <1>1, SendKeeps DEF SendCcs, Sendable
<1>3. /\ Core(e, c, w) /\ c.p # None /\ c.p.hs = a.p.hs /\ c.p.sp1 = a.p.sp1
      /\ c.p.sp0.epoch = 0
    BY <1>2 DEF Sends, Like
<1>4. PICK b : b = SendFinished(Switched(SendCcs(a)))
    OBVIOUS
<1>5. CASE c.err = "failed"
    <2>1. b = c
        BY <1>1, <1>4, <1>5 DEF Switched, SendFinished
    <2>2. QED
        BY <1>1, <1>3, <1>4, <1>5, <2>1
<1>6. CASE c.err = "ok"
    <2>1. PICK d : d = Switched(c)
        OBVIOUS
    <2>2. /\ Core(e, d, w) /\ d.p # None /\ d.err = "ok"
          /\ d.p.sp0 = a.p.sp1 /\ d.p.sp1 = c.p.sp0 /\ d.p.hs = a.p.hs
        BY <1>3, <1>6, <2>1, SwitchedKeeps
    <2>3. PeerOK(e, a.p, Seen(w, a.out)) /\ PeerOK(e, c.p, Seen(w, c.out))
          /\ PeerOK(e, d.p, Seen(w, d.out))
        BY <1>3, <2>2 DEF Core
    <2>4. a.p.sp1.epoch = 1
        BY <2>3 DEF PeerOK, SecurityOK
    <2>5. d.p.sp1 # None
        BY <2>2, <2>3, NotNone DEF PeerOK
    <2>6. Sequence(a.p.hs.hash)
        BY <2>3 DEF PeerOK, HandshakeOK
    <2>7. PICK hash : hash = Labelled(d.p.hs.hash, e)
        OBVIOUS
    <2>8. PICK m : m = Message("finished", d.p.hs.mseqS, 0, 0, hash)
        OBVIOUS
    <2>9. m.t = "finished" /\ m.hash = hash
        BY <2>8 DEF Message
    <2>10. BodyOK(e, m, w)
        <3>1. m.t \in HandshakeTypes
            BY <2>9 DEF HandshakeTypes, Expected
        <3>2. ASSUME e = "server"
              PROVE  \E k \in w.done :
                        /\ Sequence(k)
                        /\ m.hash = Append(Append(k, m.hash[Len(k) + 1]), Content("server", 0))
            <4>1. PICK k : k = a.p.sp1.key
                OBVIOUS
            <4>2. PICK x : a.p.hs.hash = Append(k, x)
                BY <3>2, <4>1
            <4>3. k \in w.done /\ Sequence(k)
                BY <3>2, <4>1
            <4>4. PICK l : l = Content("server", 0)
                OBVIOUS
            <4>5. m.hash = Append(Append(k, x), l)
                BY <2>2, <2>7, <2>9, <3>2, <4>2, <4>4 DEF Labelled
            <4>6. m.hash[Len(k) + 1] = x
                <5>1. PICK s : s = Append(k, x)
                    OBVIOUS
                <5>2. Sequence(s) /\ Len(s) = Len(k) + 1 /\ Len(k) \in Nat /\ s[Len(k) + 1] = x
                    BY <4>3, <5>1, Appended
                <5>3. \A i \in 1..Len(s) : Append(s, l)[i] = s[i]
                    BY <5>2, Appended
                <5>4. m.hash = Append(s, l)
                    BY <4>5, <5>1
                <5>5. QED
                    BY <5>2, <5>3, <5>4
            <4>7. QED
                BY <4>3, <4>4, <4>5, <4>6
        <3>3. m.t # "client_hello" /\ m.t # "hello_verify_request"
            BY <2>9
        <3>4. QED
            BY <3>1, <3>2, <3>3 DEF BodyOK
    <2>11. MayHash(e, d, m, w)
        BY <2>2, <2>5 DEF MayHash, Unkeyed
    <2>12. Sendable(e, d.p, "handshake", m, w)
        BY <2>9, <2>10 DEF Sendable
    <2>13. d.p.role = e
        BY <2>3 DEF PeerOK
    <2>14. b = SendHandshake(d, "finished", 0, 0, hash)
        BY <1>1, <1>4, <2>1, <2>2, <2>7, <2>13 DEF SendFinished
    <2>15. Hashes(e, d, b, m, w)
        BY <2>8, <2>11, <2>12, <2>14, SendHandshakeKeeps
    <2>16. /\ Core(e, b, w) /\ b.p # None /\ b.err \in {"ok", "failed"} /\ b.p.hs # None
           /\ b.p.sp0.epoch = 1 /\ b.p.sp0.key = a.p.sp1.key
           /\ b.p.hs.hash = Append(a.p.hs.hash, m)
        BY <2>2, <2>4, <2>15 DEF Hashes
    <2>17. QED
        BY <1>4, <2>16
<1>7. QED
    BY <1>2, <1>5, <1>6 DEF Sends

-----------------------------------------------------------------------------
(* Handshake messages *)

\* A handler that has not failed leaves a peer in a state it can be in.
Good(e, a, w) == Core(e, a, w) /\ a.p # None /\ (a.err = "ok" => StateOK(e, a.p, w))

\* So it does, but for the last message of the server, which agrees the key.
Handled(e, b, w) ==
    \/ Good(e, b, w)
    \/ /\ e = "server" /\ b.err \in {"ok", "failed"}
       /\ b.err = "ok" => b.p.hs = None
       /\ b.p.sp0.epoch = 1
       /\ Good(e, b, Agreed(w, b.p.sp0.key))

\* What an end may be given
Received(e, m, w) == BodyOK(Other(e), m, w) /\ m.t # "client_hello"

\* check_server_hellodone: key exchange, change of the epoch and Finished of the client
LEMMA ServerHelloDoneKeeps ==
    ASSUME NEW a, NEW w, WorldOK(w), Core("client", a, w), a.p # None, a.err = "ok",
           Unkeyed(a.p), a.p.hs # None, Len(a.p.hs.hash) >= 1, NEW m
    PROVE  LET b == CheckServerHelloDone(a, m)
           IN  /\ Core("client", b, w) /\ b.p # None /\ b.err \in {"ok", "failed"}
               /\ b.err = "ok" => b.p.hs # None /\ Agreeing(b.p)
<1> DEFINE e == "client"
<1>1. e \in Ends /\ At(e) = 1
    BY DEF Ends, At
<1>2. PICK a1 : a1 = Hashed(a, m)
    OBVIOUS
<1>3. Hashes(e, a, a1, m, w) /\ a1.err = "ok"
    <2>1. MayHash(e, a, m, w)
        BY <1>1 DEF MayHash
    <2>2. QED
        BY <1>1, <1>2, <2>1, HashedKeeps
<1>4. PICK h, h1 : h = a.p.hs.hash /\ h1 = Append(h, m)
    OBVIOUS
<1>5. Sequence(h) /\ Len(h) >= 1 /\ Sequence(h1) /\ Len(h1) >= 2
    <2>1. Sequence(h) /\ Len(h) >= 1
        BY <1>1, <1>4, HandshakeThere
    <2>2. QED
        BY <1>4, <2>1, Appended
<1>6. /\ Core(e, a1, w) /\ a1.p # None /\ a1.p.hs # None /\ a1.p.hs.hash = h1
      /\ Unkeyed(a1.p)
    BY <1>3, <1>4 DEF Hashes, Unkeyed
<1>7. PICK n : n = Message("client_key_exchange", a1.p.hs.mseqS, 0, 0, <<>>)
    OBVIOUS
<1>8. n.t = "client_key_exchange"
    BY <1>7 DEF Message
<1>9. PICK a2 : a2 = SendClientKeyExchange(a1)
    OBVIOUS
<1>10. Hashes(e, a1, a2, n, w)
    <2>1. MayHash(e, a1, n, w)
        BY <1>1, <1>3, <1>5, <1>6 DEF MayHash
    <2>2. Sendable(e, a1.p, "handshake", n, w)
        BY <1>8 DEF Sendable, BodyOK, HandshakeTypes, Expected
    <2>3. QED
        BY <1>1, <1>7, <1>9, <2>1, <2>2, SendHandshakeKeeps DEF SendClientKeyExchange
<1>11. PICK h2 : h2 = Append(h1, n)
    OBVIOUS
<1>12. /\ Core(e, a2, w) /\ a2.p # None /\ a2.p.hs # None /\ a2.p.hs.hash = h2
       /\ Unkeyed(a2.p) /\ a2.err \in {"ok", "failed"}
    BY <1>6, <1>10, <1>11 DEF Hashes, Unkeyed
<1>13. Sequence(h2) /\ Len(h2) >= 2
    BY <1>5, <1>11, Appended
<1>14. PICK b : b = CheckServerHelloDone(a, m)
    OBVIOUS
<1>15. b = SendFinished(Switched(SendCcs(Keyed(a2))))
    BY <1>2, <1>9, <1>14 DEF CheckServerHelloDone
<1>16. CASE a2.err = "failed"
    <2>1. b = a2
        BY <1>15, <1>16 DEF Keyed, SendCcs, Send, Switched, SendFinished
    <2>2. QED
        BY <1>12, <1>14, <1>16, <2>1
<1>17. CASE a2.err = "ok"
    <2>1. PICK a3 : a3 = Keyed(a2)
        OBVIOUS
    <2>2. /\ Core(e, a3, w) /\ a3.p # None /\ a3.err = "ok"
          /\ a3.p.sp1 # None /\ a3.p.sp1.epoch = 1 /\ a3.p.sp1.key = h2
          /\ a3.p.hs # None /\ a3.p.hs.hash = h2
        BY <1>1, <1>12, <1>13, <1>17, <2>1, KeyedKeeps
    <2>3. a3.p.sp0.epoch = 0
        BY <2>2, NotNone DEF Core, PeerOK, SecurityOK
    <2>4. /\ Core(e, b, w) /\ b.p # None /\ b.err \in {"ok", "failed"}
          /\ b.err = "ok" => /\ b.p.hs # None
                             /\ b.p.sp0.epoch = 1 /\ b.p.sp0.key = h2
                             /\ \E x : b.p.hs.hash = Append(h2, x)
        BY <1>1, <1>15, <2>1, <2>2, <2>3, SendFinishedKeeps
    <2>5. ASSUME b.err = "ok" PROVE Agreeing(b.p)
        <3>1. PICK x : b.p.hs.hash = Append(h2, x)
            BY <2>4, <2>5
        <3>2. b.p.hs.hash[Len(b.p.hs.hash)] = x
            BY <1>13, <3>1, Appended
        <3>3. QED
            BY <2>4, <2>5, <3>1, <3>2 DEF Agreeing
    <2>6. QED
        BY <1>14, <2>4, <2>5
<1>18. QED
    BY <1>12, <1>16, <1>17

\* The server's change of the epoch and Finished: its key is agreed.
LEMMA ServerFinishesKeeps ==
    ASSUME NEW a, NEW w, WorldOK(w), Core("server", a, w), a.p # None, a.err = "ok",
           a.p.hs # None, a.p.sp1 # None, a.p.sp0.epoch = 0, a.p.sp1.key = a.p.hs.hash, NEW m
    PROVE  LET b == ServerFinishes(a, m)
           IN  /\ b.p # None
               /\ \/ b.err = "failed" /\ Core("server", b, w)
                  \/ /\ b.err \in {"ok", "failed"} /\ b.p.sp0.epoch = 1
                     /\ Core("server", b, Agreed(w, b.p.sp0.key))
<1> DEFINE e == "server"
<1>1. e \in Ends
    BY DEF Ends
<1>2. PICK k : k = a.p.sp1.key
    OBVIOUS
<1>3. PICK v : v = Agreed(w, k)
    OBVIOUS
<1>4. WorldOK(v) /\ (\A x : Core(e, x, w) => Core(e, x, v)) /\ k \in v.done
    BY <1>3, AgreedKeeps
<1>5. PICK c : c = Hashed(a, m)
    OBVIOUS
<1>6. Hashes(e, a, c, m, w) /\ c.err = "ok"
    <2>1. MayHash(e, a, m, w)
        BY DEF MayHash, Unkeyed
    <2>2. QED
        BY <1>1, <1>5, <2>1, HashedKeeps
<1>7. /\ Core(e, c, w) /\ c.p # None /\ c.p.hs # None /\ c.p.sp1 = a.p.sp1 /\ c.p.sp1 # None
      /\ c.p.sp0.epoch = 0 /\ c.p.sp1.key = k /\ c.p.hs.hash = Append(k, m)
    BY <1>2, <1>6 DEF Hashes
<1>8. Sequence(k)
    BY <1>1, <1>2, HandshakeThere
<1>9. PICK b : b = ServerFinishes(a, m)
    OBVIOUS
<1>10. b = SendFinished(Switched(SendCcs(c)))
    BY <1>5, <1>9 DEF ServerFinishes
<1>11. PICK d : d = SendCcs(c)
    OBVIOUS
<1>12. Sends(e, c, d, w)
    BY <1>1, <1>6, <1>7, <1>11, SendKeeps DEF SendCcs, Sendable
<1>13. CASE d.err = "failed"
    <2>1. b = d
        BY <1>10, <1>11, <1>13 DEF Switched, SendFinished
    <2>2. QED
        BY <1>9, <1>12, <1>13, <2>1 DEF Sends
<1>14. CASE d.err = "ok"
    <2>1. /\ Core(e, b, v) /\ b.p # None /\ b.err \in {"ok", "failed"}
          /\ b.p.sp0.epoch = 1 /\ b.p.sp0.key = k
        BY <1>1, <1>4, <1>6, <1>7, <1>8, <1>10, <1>11, <1>14, SendFinishedKeeps
    <2>2. QED
        BY <1>3, <1>9, <2>1
<1>15. QED
    BY <1>12, <1>13, <1>14 DEF Sends

\* A peer with another state and handshake, in a handler with another queue and error
Became(a, s, h, q, err) ==
    [p |-> [role |-> a.p.role, state |-> s, sp0 |-> a.p.sp0, sp1 |-> a.p.sp1, hs |-> h],
     q |-> q, out |-> a.out, fail |-> a.fail, err |-> err]

\* State, handshake and copies of an end may change, if what they become is as good.
LEMMA BecameKeeps ==
    ASSUME NEW e \in Ends, NEW a, NEW w, Core(e, a, w), a.p # None,
           NEW s, NEW h, NEW q, q \subseteq a.q, NEW err \in {"ok", "fatal", "failed"},
           \/ h = None
           \/ h = a.p.hs
           \/ /\ HandshakeOK(e, h, Seen(w, a.out))
              /\ Unkeyed(a.p) => Fresh(e, h.hash, Seen(w, a.out))
    PROVE  LET b == Became(a, s, h, q, err)
           IN  /\ Core(e, b, w) /\ b.p # None /\ b.err = err /\ b.p.state = s /\ b.p.hs = h
               /\ b.p.sp0 = a.p.sp0 /\ b.p.sp1 = a.p.sp1 /\ b.q = q /\ b.out = a.out
<1>1. PICK b : b = Became(a, s, h, q, err)
    OBVIOUS
<1>2. PICK p : p = b.p
    OBVIOUS
<1>3. p = [role |-> a.p.role, state |-> s, sp0 |-> a.p.sp0, sp1 |-> a.p.sp1, hs |-> h]
    BY <1>1, <1>2 DEF Became
<1>4. b = [p |-> p, q |-> q, out |-> a.out, fail |-> a.fail, err |-> err]
    BY <1>1, <1>3 DEF Became
<1>5. p.state = s /\ p.sp0 = a.p.sp0 /\ p.sp1 = a.p.sp1 /\ p.hs = h
    BY <1>3
<1>6. /\ b = [p |-> b.p, q |-> b.q, out |-> b.out, fail |-> b.fail, err |-> b.err]
      /\ b.q = q /\ b.out = a.out /\ b.err = err
    BY <1>4
<1>7. Core(e, b, w) /\ b.p # None
    <2>1. b.p = [role |-> a.p.role, state |-> b.p.state, sp0 |-> a.p.sp0, sp1 |-> a.p.sp1,
                 hs |-> b.p.hs]
        BY <1>2, <1>3, <1>5
    <2>2. b.p.hs = h
        BY <1>2, <1>5
    <2>3. QED
        BY <1>6, <2>1, <2>2, CoreWith
<1>8. QED
    BY <1>1, <1>2, <1>5, <1>6, <1>7

\* What the changes of a handler amount to
LEMMA Changes ==
    ASSUME NEW e, NEW a, NEW w, Core(e, a, w), a.p # None
    PROVE  /\ Fatal(a) = Became(a, a.p.state, a.p.hs, a.q, "fatal")
           /\ [a EXCEPT !.q = {}] = Became(a, a.p.state, a.p.hs, {}, a.err)
           /\ \A s : a.err = "ok" => Then(a, s) = Became(a, s, a.p.hs, a.q, "ok")
           /\ a.err = "ok" => Completed(a) = Became(a, "CONNECTED", None, a.q, "ok")
           /\ \A h : [a EXCEPT !.p.hs = h] = Became(a, a.p.state, h, a.q, a.err)
           /\ \A s, h : [a EXCEPT !.p = [a.p EXCEPT !.hs = h, !.state = s]]
                            = Became(a, s, h, a.q, a.err)
<1>1. PICK p, q, out, fail, err : /\ p = a.p /\ q = a.q /\ out = a.out /\ fail = a.fail
                                  /\ err = a.err
    OBVIOUS
<1>2. PICK r, t, x, y, g : r = p.role /\ t = p.state /\ x = p.sp0 /\ y = p.sp1 /\ g = p.hs
    OBVIOUS
<1>3. /\ a = [p |-> p, q |-> q, out |-> out, fail |-> fail, err |-> err]
      /\ p = [role |-> r, state |-> t, sp0 |-> x, sp1 |-> y, hs |-> g]
    BY <1>1, <1>2 DEF Core, PeerOK
<1>4. \A s, h, k, f : Became(a, s, h, k, f) =
          [p |-> [role |-> r, state |-> s, sp0 |-> x, sp1 |-> y, hs |-> h],
           q |-> k, out |-> out, fail |-> fail, err |-> f]
    BY <1>1, <1>2 DEF Became
<1>5. Fatal(a) = Became(a, a.p.state, a.p.hs, a.q, "fatal")
    BY <1>1, <1>2, <1>3, <1>4 DEF Fatal
<1>6. [a EXCEPT !.q = {}] = Became(a, a.p.state, a.p.hs, {}, a.err)
    BY <1>1, <1>2, <1>3, <1>4
<1>7. ASSUME NEW s, a.err = "ok" PROVE Then(a, s) = Became(a, s, a.p.hs, a.q, "ok")
    BY <1>1, <1>2, <1>3, <1>4, <1>7 DEF Then
<1>8. ASSUME NEW s, NEW h
      PROVE  [a EXCEPT !.p = [a.p EXCEPT !.hs = h, !.state = s]] = Became(a, s, h, a.q, a.err)
    <2>1. PICK b : b = [a.p EXCEPT !.hs = h, !.state = s]
        OBVIOUS
    <2>2. b = [[role |-> r, state |-> t, sp0 |-> x, sp1 |-> y, hs |-> g]
                  EXCEPT !.hs = h, !.state = s]
        BY <1>1, <1>3, <2>1
    <2>3. b = [role |-> r, state |-> s, sp0 |-> x, sp1 |-> y, hs |-> h]
        BY <2>2
    <2>4. [a EXCEPT !.p = b] = [p |-> b, q |-> q, out |-> out, fail |-> fail, err |-> err]
        BY <1>3
    <2>5. Became(a, s, h, q, err) = [p |-> b, q |-> q, out |-> out, fail |-> fail, err |-> err]
        BY <1>4, <2>3
    <2>6. [a EXCEPT !.p = b] = Became(a, s, h, q, err)
        BY <2>4, <2>5
    <2>7. QED
        BY <1>1, <2>1, <2>6
<1>9. ASSUME a.err = "ok" PROVE Completed(a) = Became(a, "CONNECTED", None, a.q, "ok")
    <2>1. PICK none : none = None
        OBVIOUS
    <2>2. Completed(a) = [a EXCEPT !.p.hs = none, !.p.state = "CONNECTED"]
        BY <1>9, <2>1 DEF Completed
    <2>3. Completed(a) = [a EXCEPT !.p = [a.p EXCEPT !.hs = none, !.state = "CONNECTED"]]
        BY <1>1, <1>3, <2>2
    <2>4. QED
        BY <1>8, <1>9, <2>1, <2>3
<1>10. ASSUME NEW h PROVE [a EXCEPT !.p.hs = h] = Became(a, a.p.state, h, a.q, a.err)
    BY <1>1, <1>2, <1>3, <1>4
<1>11. QED
    BY <1>5, <1>6, <1>7, <1>8, <1>9, <1>10

\* check_finished and what follows: the client's key is one the server agreed.
LEMMA HandleFinishedKeeps ==
    ASSUME NEW e \in Ends, NEW a, NEW w, WorldOK(w), Core(e, a, w), a.p # None, a.err = "ok",
           StateOK(e, a.p, w), a.p.state = "WAIT_FINISHED",
           NEW m, Received(e, m, w), m.t = "finished"
    PROVE  Handled(e, HandleFinished(a, m), w)
<1>1. a.p.hs # None /\ a.p.role = e /\ PeerOK(e, a.p, Seen(w, a.out))
    BY DEF Core, PeerOK, StateOK
<1>2. CASE ~CheckFinished(a.p, m)
    <2>1. HandleFinished(a, m) = Became(a, a.p.state, a.p.hs, a.q, "fatal")
        BY <1>2, Changes DEF HandleFinished
    <2>2. QED
        BY <2>1, BecameKeeps DEF Handled, Good
<1>3. CASE CheckFinished(a.p, m) /\ e = "client"
    <2>1. HandleFinished(a, m) = Became(a, "CONNECTED", None, a.q, "ok")
        BY <1>1, <1>3, Changes DEF HandleFinished
    <2>2. PICK b : b = Became(a, "CONNECTED", None, a.q, "ok")
        OBVIOUS
    <2>3. /\ Core(e, b, w) /\ b.p # None /\ b.p.state = "CONNECTED" /\ b.p.hs = None
          /\ b.p.sp0 = a.p.sp0
        BY <2>2, BecameKeeps
    <2>4. PICK k \in w.done :
              /\ Sequence(k)
              /\ m.hash = Append(Append(k, m.hash[Len(k) + 1]), Content("server", 0))
        BY <1>3 DEF Received, BodyOK, Other
    <2>5. Agreeing(a.p)
        BY <1>3 DEF StateOK
    <2>6. m.hash = Append(a.p.hs.hash, Content("server", 0))
        BY <1>1, <1>3 DEF CheckFinished, Labelled, Other
    <2>7. Sequence(a.p.sp0.key)
        BY <1>1, <2>5 DEF Agreeing, PeerOK, SecurityOK, KeyOK
    <2>8. Sequence(a.p.hs.hash) /\ Sequence(Append(k, m.hash[Len(k) + 1]))
        BY <1>1, <2>4, Appended, HandshakeThere
    <2>9. PICK g, h, i, x, y, z :
              /\ g = a.p.sp0.key /\ h = a.p.hs.hash /\ x = h[Len(h)]
              /\ y = m.hash[Len(k) + 1] /\ i = Append(k, y) /\ z = Content("server", 0)
        OBVIOUS
    <2>10. a.p.sp0.key = k
        <3>1. Append(h, z) = Append(i, z) /\ Sequence(h) /\ Sequence(i)
            BY <2>4, <2>6, <2>8, <2>9
        <3>2. h = i
            BY <3>1, AppendedSame
        <3>3. Append(g, x) = Append(k, y) /\ Sequence(g) /\ Sequence(k)
            BY <2>4, <2>5, <2>7, <2>9, <3>2 DEF Agreeing
        <3>4. QED
            BY <2>9, <3>3, AppendedSame
    <2>11. StateOK(e, b.p, w)
        BY <2>3, <2>4, <2>5, <2>10 DEF StateOK, Agreeing
    <2>12. QED
        BY <2>1, <2>2, <2>3, <2>11 DEF Handled, Good
<1>4. CASE CheckFinished(a.p, m) /\ e = "server"
    <2>1. /\ a.p.sp0.epoch = 0 /\ a.p.sp1 # None /\ a.p.sp1.key = a.p.hs.hash
        BY <1>4 DEF StateOK
    <2>2. PICK b : b = ServerFinishes(a, m)
        OBVIOUS
    <2>3. /\ b.p # None
          /\ \/ b.err = "failed" /\ Core("server", b, w)
             \/ /\ b.err \in {"ok", "failed"} /\ b.p.sp0.epoch = 1
                /\ Core("server", b, Agreed(w, b.p.sp0.key))
        BY <1>1, <1>4, <2>1, <2>2, ServerFinishesKeeps
    <2>4. HandleFinished(a, m) = Completed(b)
        BY <1>1, <1>4, <2>2 DEF HandleFinished
    <2>5. CASE b.err = "failed"
        <3>1. Completed(b) = b
            BY <2>5 DEF Completed
        <3>2. QED
            BY <1>4, <2>3, <2>4, <2>5, <3>1 DEF Handled, Good
    <2>6. CASE b.err # "failed"
        <3>1. PICK v : v = Agreed(w, b.p.sp0.key)
            OBVIOUS
        <3>2. b.err = "ok" /\ b.p.sp0.epoch = 1 /\ Core(e, b, v)
            BY <1>4, <2>3, <2>6, <3>1
        <3>3. Completed(b) = Became(b, "CONNECTED", None, b.q, "ok")
            BY <2>3, <3>2, Changes
        <3>4. PICK c : c = Became(b, "CONNECTED", None, b.q, "ok")
            OBVIOUS
        <3>5. /\ Core(e, c, v) /\ c.p # None /\ c.p.state = "CONNECTED" /\ c.p.hs = None
              /\ c.p.sp0 = b.p.sp0 /\ c.err = "ok"
            BY <2>3, <3>2, <3>4, BecameKeeps
        <3>6. StateOK(e, c.p, v)
            BY <1>4, <3>2, <3>5 DEF StateOK
        <3>7. Good(e, c, Agreed(w, c.p.sp0.key)) /\ c.p.sp0.epoch = 1
            BY <3>1, <3>2, <3>5, <3>6 DEF Good
        <3>8. QED
            BY <1>4, <2>4, <3>3, <3>4, <3>5, <3>7 DEF Handled
    <2>7. QED
        BY <2>5, <2>6
<1>5. QED
    BY <1>2, <1>3, <1>4 DEF Ends


\* Handshakes that differ in one thing: the number of the next message
LEMMA CountWith ==
    ASSUME NEW e \in Ends, NEW w, NEW hs, HandshakeOK(e, hs, w), NEW n
    PROVE  LET h == [hs EXCEPT !.mseqR = n]
           IN  /\ HandshakeOK(e, h, w)
               /\ h.hash = hs.hash /\ h.ext = hs.ext /\ h.random = hs.random
<1>1. PICK i, j, k, r, h, f, o :
          hs = [mseqR |-> i, mseqS |-> j, readEpoch |-> k, random |-> r, hash |-> h,
                ext |-> f, reorder |-> o]
    BY DEF HandshakeOK
<1>2. PICK l : l = k + 1
    OBVIOUS
<1>3. [hs EXCEPT !.mseqR = n]
          = [mseqR |-> n, mseqS |-> j, readEpoch |-> k, random |-> r, hash |-> h,
             ext |-> f, reorder |-> o]
    BY <1>1, <1>2
<1>4. /\ k \in Nat /\ l \in Nat /\ Sequence(h)
      /\ \A m \in o : BodyOK(Other(e), m, w) /\ m.t # "client_hello"
    BY <1>1, <1>2 DEF HandshakeOK
<1>5. QED
    BY <1>1, <1>3, <1>4 DEF HandshakeOK

\* What the key is made from
LEMMA ExtWith ==
    ASSUME NEW e \in Ends, NEW w, NEW hs, HandshakeOK(e, hs, w), NEW x
    PROVE  LET h == [hs EXCEPT !.ext = x]
           IN  /\ HandshakeOK(e, h, w)
               /\ h.hash = hs.hash /\ h.ext = x
<1>1. PICK i, j, k, r, h, f, o :
          hs = [mseqR |-> i, mseqS |-> j, readEpoch |-> k, random |-> r, hash |-> h,
                ext |-> f, reorder |-> o]
    BY DEF HandshakeOK
<1>2. PICK l : l = k + 1
    OBVIOUS
<1>3. [hs EXCEPT !.ext = x]
          = [mseqR |-> i, mseqS |-> j, readEpoch |-> k, random |-> r, hash |-> h,
             ext |-> x, reorder |-> o]
    BY <1>1, <1>2
<1>4. /\ k \in Nat /\ l \in Nat /\ Sequence(h)
      /\ \A m \in o : BodyOK(Other(e), m, w) /\ m.t # "client_hello"
    BY <1>1, <1>2 DEF HandshakeOK
<1>5. QED
    BY <1>1, <1>3, <1>4 DEF HandshakeOK

\* The messages that are ahead
LEMMA ReorderWith ==
    ASSUME NEW e \in Ends, NEW w, NEW hs, HandshakeOK(e, hs, w),
           NEW late, \A m \in late : BodyOK(Other(e), m, w) /\ m.t # "client_hello"
    PROVE  LET h == [hs EXCEPT !.reorder = late]
           IN  /\ HandshakeOK(e, h, w)
               /\ h.hash = hs.hash /\ h.ext = hs.ext /\ h.random = hs.random
<1>1. PICK i, j, k, r, h, f, o :
          hs = [mseqR |-> i, mseqS |-> j, readEpoch |-> k, random |-> r, hash |-> h,
                ext |-> f, reorder |-> o]
    BY DEF HandshakeOK
<1>2. PICK l : l = k + 1
    OBVIOUS
<1>3. [hs EXCEPT !.reorder = late]
          = [mseqR |-> i, mseqS |-> j, readEpoch |-> k, random |-> r, hash |-> h,
             ext |-> f, reorder |-> late]
    BY <1>1, <1>2
<1>4. /\ k \in Nat /\ l \in Nat /\ Sequence(h)
      /\ \A m \in o : BodyOK(Other(e), m, w) /\ m.t # "client_hello"
    BY <1>1, <1>2 DEF HandshakeOK
<1>5. QED
    BY <1>1, <1>3, <1>4 DEF HandshakeOK

\* The epoch that is read
LEMMA ReadWith ==
    ASSUME NEW e \in Ends, NEW w, NEW hs, HandshakeOK(e, hs, w)
    PROVE  LET h == [hs EXCEPT !.readEpoch = @ + 1]
           IN  /\ HandshakeOK(e, h, w)
               /\ h.hash = hs.hash
<1>1. PICK i, j, k, r, h, f, o :
          hs = [mseqR |-> i, mseqS |-> j, readEpoch |-> k, random |-> r, hash |-> h,
                ext |-> f, reorder |-> o]
    BY DEF HandshakeOK
<1>2. PICK l : l = k + 1
    OBVIOUS
<1>3. [hs EXCEPT !.readEpoch = @ + 1]
          = [mseqR |-> i, mseqS |-> j, readEpoch |-> l, random |-> r, hash |-> h,
             ext |-> f, reorder |-> o]
    BY <1>1, <1>2
<1>4. /\ k \in Nat /\ l \in Nat /\ Sequence(h)
      /\ \A m \in o : BodyOK(Other(e), m, w) /\ m.t # "client_hello"
    BY <1>1, <1>2 DEF HandshakeOK
<1>5. QED
    BY <1>1, <1>3, <1>4 DEF HandshakeOK

\* The same of an end whose handshake goes on
LEMMA HandshakeChanges ==
    ASSUME NEW e, NEW a, NEW w, Core(e, a, w), a.p # None, a.p.hs # None
    PROVE  /\ \A x : [a EXCEPT !.p.hs.ext = x]
                       = Became(a, a.p.state, [a.p.hs EXCEPT !.ext = x], a.q, a.err)
           /\ \A x : [a EXCEPT !.p.hs.reorder = x]
                       = Became(a, a.p.state, [a.p.hs EXCEPT !.reorder = x], a.q, a.err)
           /\ \A x : [a EXCEPT !.p.hs.mseqR = x]
                       = Became(a, a.p.state, [a.p.hs EXCEPT !.mseqR = x], a.q, a.err)
<1>1. PICK p, q, out, fail, err : /\ p = a.p /\ q = a.q /\ out = a.out /\ fail = a.fail
                                  /\ err = a.err
    OBVIOUS
<1>2. PICK r, t, x, y, g : r = p.role /\ t = p.state /\ x = p.sp0 /\ y = p.sp1 /\ g = p.hs
    OBVIOUS
<1>3. /\ a = [p |-> p, q |-> q, out |-> out, fail |-> fail, err |-> err]
      /\ p = [role |-> r, state |-> t, sp0 |-> x, sp1 |-> y, hs |-> g]
    BY <1>1, <1>2 DEF Core, PeerOK
<1>4. ASSUME NEW z
      PROVE  /\ [a EXCEPT !.p.hs.ext = z] = [a EXCEPT !.p.hs = [g EXCEPT !.ext = z]]
             /\ [a EXCEPT !.p.hs.reorder = z] = [a EXCEPT !.p.hs = [g EXCEPT !.reorder = z]]
             /\ [a EXCEPT !.p.hs.mseqR = z] = [a EXCEPT !.p.hs = [g EXCEPT !.mseqR = z]]
    BY <1>3
<1>5. \A h : [a EXCEPT !.p.hs = h] = Became(a, a.p.state, h, a.q, a.err)
    BY Changes
<1>6. QED
    BY <1>1, <1>2, <1>4, <1>5


\* handle_handshake_msg, its switch
Going(e, a, w) ==
    /\ Core(e, a, w) /\ a.p # None /\ a.p.hs # None /\ a.err = "ok" /\ StateOK(e, a.p, w)

\* check_hello_verify_request: the transcript starts again, with the same number.
LEMMA HelloVerifyKeeps ==
    ASSUME NEW e \in Ends, NEW a, NEW w, WorldOK(w), Going(e, a, w),
           NEW m, Received(e, m, w), m.t = "hello_verify_request", a.p.state = "CLIENTHELLO"
    PROVE  Good(e, CheckHelloVerifyRequest(a, m), w)
<1>1. /\ e = "client" /\ Unkeyed(a.p) /\ Len(a.p.hs.hash) >= 1
      /\ a.p.hs.random = Own("client", a.p.hs.hash)
    BY DEF Going, StateOK
<1>2. m.cookie # 0
    BY DEF Received, BodyOK
<1>3. PICK rnd : rnd = a.p.hs.random
    OBVIOUS
<1>4. Fresh("client", a.p.hs.hash, Seen(w, a.out))
    BY <1>1, HandshakeThere DEF Going
<1>5. Seen(w, a.out).randoms = w.randoms
    BY DEF Seen
<1>6. FirstHash(a, rnd, w)
    BY <1>1, <1>3, <1>4, <1>5 DEF FirstHash, Fresh, Going, At
<1>7. rnd = IF m.cookie = 0 THEN randoms + 1 ELSE a.p.hs.random
    BY <1>2, <1>3
<1>8. PICK c : c = m.cookie
    OBVIOUS
<1>9. PICK b : b = SendClientHello(a, c)
    OBVIOUS
<1>10. /\ Core("client", b, w) /\ b.p # None /\ b.p.state = a.p.state /\ Unkeyed(b.p)
       /\ b.p.hs # None /\ Len(b.p.hs.hash) = 1
       /\ b.p.hs.random = Own("client", b.p.hs.hash)
    BY <1>6, <1>7, <1>8, <1>9, SendClientHelloKeeps
<1>11. StateOK(e, b.p, w)
    BY <1>1, <1>10 DEF StateOK
<1>12. QED
    BY <1>1, <1>8, <1>9, <1>10, <1>11 DEF Good, CheckHelloVerifyRequest

\* check_server_hello, on the client
LEMMA ServerHelloKeeps ==
    ASSUME NEW e \in Ends, NEW a, NEW w, WorldOK(w), Going(e, a, w),
           NEW m, a.p.state = "CLIENTHELLO"
    PROVE  Good(e, Then(CheckServerHello(a, m), "WAIT_SERVERHELLODONE"), w)
<1>1. e = "client" /\ Unkeyed(a.p) /\ Len(a.p.hs.hash) >= 1
    BY DEF Going, StateOK
<1>2. MayHash(e, a, m, w)
    BY <1>1 DEF MayHash, Going, At
<1>3. PICK b : b = Hashed(a, m)
    OBVIOUS
<1>4. /\ Core(e, b, w) /\ b.p # None /\ b.err = "ok" /\ b.p.hs # None
      /\ b.p.sp1 = a.p.sp1 /\ b.p.sp0.epoch = a.p.sp0.epoch
      /\ b.p.hs.hash = Append(a.p.hs.hash, m)
    BY <1>2, <1>3, HashedKeeps DEF Hashes
<1>5. Len(b.p.hs.hash) >= 1
    <2>1. Sequence(a.p.hs.hash)
        BY HandshakeThere DEF Going
    <2>2. Len(a.p.hs.hash) \in Nat /\ Len(b.p.hs.hash) = Len(a.p.hs.hash) + 1
        BY <1>4, <2>1, Appended
    <2>3. QED
        BY <2>2
<1>6. PICK c : c = Became(b, "WAIT_SERVERHELLODONE", b.p.hs, b.q, "ok")
    OBVIOUS
<1>7. Then(b, "WAIT_SERVERHELLODONE") = c
    BY <1>4, <1>6, Changes
<1>8. /\ Core(e, c, w) /\ c.p # None /\ c.p.state = "WAIT_SERVERHELLODONE"
      /\ c.p.hs = b.p.hs /\ c.p.sp0 = b.p.sp0 /\ c.p.sp1 = b.p.sp1
    BY <1>4, <1>6, BecameKeeps
<1>9. StateOK(e, c.p, w)
    BY <1>1, <1>4, <1>5, <1>8 DEF StateOK, Unkeyed
<1>10. QED
    BY <1>3, <1>7, <1>8, <1>9 DEF Good, CheckServerHello

\* ServerHelloDone, on the client
LEMMA HelloDoneKeeps ==
    ASSUME NEW e \in Ends, NEW a, NEW w, WorldOK(w), Going(e, a, w),
           NEW m, a.p.state = "WAIT_SERVERHELLODONE"
    PROVE  Good(e, Then(CheckServerHelloDone(a, m), "WAIT_CHANGECIPHERSPEC"), w)
<1>1. e = "client" /\ Unkeyed(a.p) /\ Len(a.p.hs.hash) >= 1
    BY DEF Going, StateOK
<1>2. PICK b : b = CheckServerHelloDone(a, m)
    OBVIOUS
<1>3. /\ Core(e, b, w) /\ b.p # None /\ b.err \in {"ok", "failed"}
      /\ b.err = "ok" => b.p.hs # None /\ Agreeing(b.p)
    BY <1>1, <1>2, ServerHelloDoneKeeps DEF Going
<1>4. CASE b.err # "ok"
    BY <1>2, <1>3, <1>4 DEF Then, Good
<1>5. CASE b.err = "ok"
    <2>1. PICK c : c = Became(b, "WAIT_CHANGECIPHERSPEC", b.p.hs, b.q, "ok")
        OBVIOUS
    <2>2. Then(b, "WAIT_CHANGECIPHERSPEC") = c
        BY <1>3, <1>5, <2>1, Changes
    <2>3. /\ Core(e, c, w) /\ c.p # None /\ c.p.state = "WAIT_CHANGECIPHERSPEC"
          /\ c.p.hs = b.p.hs /\ c.p.sp0 = b.p.sp0
        BY <1>3, <2>1, BecameKeeps
    <2>4. StateOK(e, c.p, w)
        BY <1>1, <1>3, <1>5, <2>3 DEF StateOK, Agreeing
    <2>5. QED
        BY <1>2, <2>2, <2>3, <2>4 DEF Good
<1>6. QED
    BY <1>4, <1>5

\* check_client_keyexchange, on the server: its parameters for the key
LEMMA KeyExchangeKeeps ==
    ASSUME NEW e \in Ends, NEW a, NEW w, WorldOK(w), Going(e, a, w),
           NEW m, a.p.state = "WAIT_CLIENTKEYEXCHANGE"
    PROVE  Good(e, Then(CheckClientKeyExchange(a, m), "WAIT_CHANGECIPHERSPEC"), w)
<1>1. e = "server" /\ Unkeyed(a.p) /\ Len(a.p.hs.hash) >= 2
    BY DEF Going, StateOK
<1>2. MayHash(e, a, m, w)
    BY <1>1 DEF MayHash, Going, At
<1>3. PICK b : b = Hashed(a, m)
    OBVIOUS
<1>4. /\ Core(e, b, w) /\ b.p # None /\ b.err = "ok" /\ b.p.hs # None
      /\ b.p.sp1 = a.p.sp1 /\ b.p.sp0.epoch = a.p.sp0.epoch
      /\ b.p.hs.hash = Append(a.p.hs.hash, m)
    BY <1>2, <1>3, HashedKeeps DEF Hashes
<1>5. Len(b.p.hs.hash) >= 2
    <2>1. Sequence(a.p.hs.hash)
        BY HandshakeThere DEF Going
    <2>2. Len(a.p.hs.hash) \in Nat /\ Len(b.p.hs.hash) = Len(a.p.hs.hash) + 1
        BY <1>4, <2>1, Appended
    <2>3. QED
        BY <1>1, <2>2
<1>6. PICK x, h : x = b.p.hs.hash /\ h = [b.p.hs EXCEPT !.ext = x]
    OBVIOUS
<1>7. PICK v : v = Seen(w, b.out)
    OBVIOUS
<1>8. HandshakeOK(e, b.p.hs, v) /\ (Unkeyed(b.p) => Fresh(e, b.p.hs.hash, v))
    BY <1>4, <1>7, HandshakeThere
<1>9. HandshakeOK(e, h, v) /\ h.hash = x /\ h.ext = x
    BY <1>6, <1>8, ExtWith
<1>10. Unkeyed(b.p) => Fresh(e, h.hash, v)
    BY <1>6, <1>8, <1>9
<1>11. PICK c : c = Became(b, b.p.state, h, b.q, b.err)
    OBVIOUS
<1>12. CheckClientKeyExchange(a, m) = c
    <2>1. CheckClientKeyExchange(a, m) = [b EXCEPT !.p.hs.ext = b.p.hs.hash]
        BY <1>3 DEF CheckClientKeyExchange
    <2>2. [b EXCEPT !.p.hs.ext = x] = c
        BY <1>4, <1>6, <1>11, HandshakeChanges
    <2>3. QED
        BY <1>6, <2>1, <2>2
<1>13. /\ Core(e, c, w) /\ c.p # None /\ c.err = "ok"
       /\ c.p.hs = h /\ c.p.sp0 = b.p.sp0 /\ c.p.sp1 = b.p.sp1
    BY <1>4, <1>7, <1>9, <1>10, <1>11, BecameKeeps
<1>14. h # None
    BY <1>9, NotNone
<1>15. PICK d : d = Became(c, "WAIT_CHANGECIPHERSPEC", c.p.hs, c.q, "ok")
    OBVIOUS
<1>16. Then(c, "WAIT_CHANGECIPHERSPEC") = d
    BY <1>13, <1>15, Changes
<1>17. /\ Core(e, d, w) /\ d.p # None /\ d.p.state = "WAIT_CHANGECIPHERSPEC"
       /\ d.p.hs = h /\ d.p.sp0 = c.p.sp0 /\ d.p.sp1 = c.p.sp1
    BY <1>13, <1>15, BecameKeeps
<1>18. StateOK(e, d.p, w)
    BY <1>1, <1>4, <1>5, <1>6, <1>9, <1>13, <1>14, <1>17 DEF StateOK, Unkeyed
<1>19. QED
    BY <1>12, <1>16, <1>17, <1>18 DEF Good

\* handle_handshake_msg, the switch over the messages
LEMMA DispatchKeeps ==
    ASSUME NEW e \in Ends, NEW a, NEW w, WorldOK(w), Going(e, a, w),
           NEW m, Received(e, m, w)
    PROVE  Handled(e, Dispatch(a, m), w)
<1>1. m.t \in DOMAIN Expected
    BY DEF Received, BodyOK, HandshakeTypes
<1>2. CASE a.p.state # Expected[m.t]
    <2>1. Dispatch(a, m) = Became(a, a.p.state, a.p.hs, a.q, "fatal")
        BY <1>2, Changes DEF Dispatch, Going
    <2>2. QED
        BY <2>1, BecameKeeps DEF Handled, Good, Going
<1>3. CASE a.p.state = Expected[m.t] /\ m.t = "hello_verify_request"
    BY <1>3, HelloVerifyKeeps DEF Dispatch, Expected, Handled
<1>4. CASE a.p.state = Expected[m.t] /\ m.t = "server_hello"
    BY <1>4, ServerHelloKeeps DEF Dispatch, Expected, Handled
<1>5. CASE a.p.state = Expected[m.t] /\ m.t = "server_hello_done"
    BY <1>5, HelloDoneKeeps DEF Dispatch, Expected, Handled
<1>6. CASE a.p.state = Expected[m.t] /\ m.t = "client_key_exchange"
    BY <1>6, KeyExchangeKeeps DEF Dispatch, Expected, Handled
<1>7. CASE a.p.state = Expected[m.t] /\ m.t = "finished"
    BY <1>7, HandleFinishedKeeps DEF Dispatch, Expected, Going
<1>8. QED
    BY <1>1, <1>2, <1>3, <1>4, <1>5, <1>6, <1>7 DEF Expected


\* A state asks of the handshake only its transcript, its extended one and its number.
LEMMA StateSame ==
    ASSUME NEW e, NEW w, NEW p, NEW q, StateOK(e, p, w), p.hs # None, q.hs # None,
           q.state = p.state, q.sp0 = p.sp0, q.sp1 = p.sp1,
           q.hs.hash = p.hs.hash, q.hs.ext = p.hs.ext, q.hs.random = p.hs.random
    PROVE  StateOK(e, q, w)
BY DEF StateOK, Unkeyed, Agreeing

\* handle_handshake_msg, which drops the copies and counts the message
LEMMA CountedKeeps ==
    ASSUME NEW e \in Ends, NEW a, NEW w, Handled(e, a, w)
    PROVE  Handled(e, Counted(a), w)
<1>1. CASE a.err # "ok" \/ a.p.hs = None
    BY <1>1 DEF Counted
<1>2. CASE a.err = "ok" /\ a.p.hs # None
    <2>1. Core(e, a, w) /\ a.p # None /\ StateOK(e, a.p, w)
        BY <1>2 DEF Handled, Good
    <2>2. PICK n, h : n = a.p.hs.mseqR + 1 /\ h = [a.p.hs EXCEPT !.mseqR = n]
        OBVIOUS
    <2>3. PICK v : v = Seen(w, a.out)
        OBVIOUS
    <2>4. HandshakeOK(e, a.p.hs, v) /\ (Unkeyed(a.p) => Fresh(e, a.p.hs.hash, v))
        BY <1>2, <2>1, <2>3, HandshakeThere
    <2>5. /\ HandshakeOK(e, h, v) /\ h.hash = a.p.hs.hash /\ h.ext = a.p.hs.ext
          /\ h.random = a.p.hs.random
        BY <2>2, <2>4, CountWith
    <2>6. PICK b : b = Became(a, a.p.state, h, a.q, a.err)
        OBVIOUS
    <2>7. Counted(a) = b
        <3>1. Counted(a) = [a EXCEPT !.p.hs.mseqR = n]
            <4>1. Counted(a) = [a EXCEPT !.p.hs.mseqR = @ + 1]
                BY <1>2 DEF Counted
            <4>2. [a EXCEPT !.p.hs.mseqR = @ + 1] = [a EXCEPT !.p.hs.mseqR = a.p.hs.mseqR + 1]
                OBVIOUS
            <4>3. QED
                BY <2>2, <4>1, <4>2
        <3>2. QED
            BY <1>2, <2>1, <2>2, <2>6, <3>1, HandshakeChanges
    <2>8. Unkeyed(a.p) => Fresh(e, h.hash, v)
        BY <2>4, <2>5
    <2>9. /\ Core(e, b, w) /\ b.p # None /\ b.p.state = a.p.state /\ b.p.hs = h
          /\ b.p.sp0 = a.p.sp0 /\ b.p.sp1 = a.p.sp1
        BY <1>2, <2>1, <2>3, <2>5, <2>6, <2>8, BecameKeeps
    <2>10. h # None
        BY <2>5, NotNone
    <2>11. StateOK(e, b.p, w)
        BY <1>2, <2>1, <2>5, <2>9, <2>10, StateSame
    <2>12. QED
        BY <2>7, <2>9, <2>11 DEF Handled, Good
<1>3. QED
    BY <1>1, <1>2

\* One message in its turn, counted if it was handled
LEMMA HandleMessageKeeps ==
    ASSUME NEW e \in Ends, NEW a, NEW w, WorldOK(w), Going(e, a, w),
           NEW m, Received(e, m, w)
    PROVE  Handled(e, HandleMessage(a, m), w)
<1>1. PICK q : q = {}
    OBVIOUS
<1>2. PICK b : b = Became(a, a.p.state, a.p.hs, q, a.err)
    OBVIOUS
<1>3. [a EXCEPT !.q = {}] = b
    BY <1>1, <1>2, Changes DEF Going
<1>4. /\ Core(e, b, w) /\ b.p # None /\ b.err = "ok" /\ b.p.state = a.p.state
      /\ b.p.hs = a.p.hs /\ b.p.sp0 = a.p.sp0 /\ b.p.sp1 = a.p.sp1
    BY <1>1, <1>2, BecameKeeps DEF Going
<1>5. StateOK(e, b.p, w)
    BY <1>4, StateSame DEF Going
<1>6. Going(e, b, w)
    BY <1>4, <1>5 DEF Going
<1>7. QED
    BY <1>3, <1>6, DispatchKeeps, CountedKeeps DEF HandleMessage

\* What is ahead is a message that was received, and its turn changes nothing else.
LEMMA TakeTurnKeeps ==
    ASSUME NEW e \in Ends, NEW a, NEW w, WorldOK(w), Handled(e, a, w)
    PROVE  Handled(e, TakeTurn(a), w)
<1>1. PICK due : due = IF a.err # "ok" \/ a.p.hs = None THEN {}
                       ELSE {m \in a.p.hs.reorder : m.mseq = a.p.hs.mseqR}
    OBVIOUS
<1>2. CASE due = {}
    BY <1>1, <1>2 DEF TakeTurn
<1>3. CASE due # {}
    <2>1. a.err = "ok" /\ a.p.hs # None
        BY <1>1, <1>3
    <2>2. Going(e, a, w)
        BY <2>1 DEF Handled, Good, Going
    <2>3. PICK m : m = CHOOSE n \in due : TRUE
        OBVIOUS
    <2>4. m \in a.p.hs.reorder
        BY <1>1, <1>3, <2>1, <2>3
    <2>5. PICK v : v = Seen(w, a.out)
        OBVIOUS
    <2>6. HandshakeOK(e, a.p.hs, v) /\ (Unkeyed(a.p) => Fresh(e, a.p.hs.hash, v))
        BY <2>2, <2>5, HandshakeThere DEF Going
    <2>7. Received(e, m, w)
        BY <2>4, <2>5, <2>6 DEF HandshakeOK, Received, BodyOK, Seen
    <2>8. PICK late, h : late = a.p.hs.reorder \ {m} /\ h = [a.p.hs EXCEPT !.reorder = late]
        OBVIOUS
    <2>9. \A n \in late : BodyOK(Other(e), n, v) /\ n.t # "client_hello"
        BY <2>6, <2>8 DEF HandshakeOK
    <2>10. /\ HandshakeOK(e, h, v) /\ h.hash = a.p.hs.hash /\ h.ext = a.p.hs.ext
           /\ h.random = a.p.hs.random
        BY <2>6, <2>8, <2>9, ReorderWith
    <2>11. PICK b : b = Became(a, a.p.state, h, a.q, a.err)
        OBVIOUS
    <2>12. [a EXCEPT !.p.hs.reorder = @ \ {m}] = b
        <3>1. [a EXCEPT !.p.hs.reorder = @ \ {m}] = [a EXCEPT !.p.hs.reorder = late]
            BY <2>8
        <3>2. QED
            BY <2>2, <2>8, <2>11, <3>1, HandshakeChanges DEF Going
    <2>13. Unkeyed(a.p) => Fresh(e, h.hash, v)
        BY <2>6, <2>10
    <2>14. /\ Core(e, b, w) /\ b.p # None /\ b.p.state = a.p.state /\ b.p.hs = h
           /\ b.p.sp0 = a.p.sp0 /\ b.p.sp1 = a.p.sp1 /\ b.err = "ok"
        BY <2>2, <2>5, <2>10, <2>11, <2>13, BecameKeeps DEF Going
    <2>15. h # None
        BY <2>10, NotNone
    <2>16. StateOK(e, b.p, w)
        BY <2>2, <2>10, <2>14, <2>15, StateSame DEF Going
    <2>17. Going(e, b, w)
        BY <2>14, <2>15, <2>16 DEF Going
    <2>18. TakeTurn(a) = HandleMessage(b, m)
        BY <1>1, <1>3, <2>3, <2>12 DEF TakeTurn
    <2>19. QED
        BY <2>7, <2>17, <2>18, HandleMessageKeeps
<1>4. QED
    BY <1>2, <1>3

\* handle_handshake: now, kept for later, or dropped
LEMMA HandleHandshakeKeeps ==
    ASSUME NEW e \in Ends, NEW a, NEW w, WorldOK(w), Core(e, a, w), a.p # None,
           a.err = "ok", StateOK(e, a.p, w), NEW m, Received(e, m, w)
    PROVE  Handled(e, HandleHandshake(a, m), w)
<1>1. CASE HandleHandshake(a, m) = a
    BY <1>1 DEF Handled, Good
<1>2. CASE a.p.hs # None /\ HandleHandshake(a, m) = [a EXCEPT !.p.hs.reorder = @ \cup {m}]
    <2>1. PICK v : v = Seen(w, a.out)
        OBVIOUS
    <2>2. HandshakeOK(e, a.p.hs, v) /\ (Unkeyed(a.p) => Fresh(e, a.p.hs.hash, v))
        BY <1>2, <2>1, HandshakeThere
    <2>3. PICK late, h : late = a.p.hs.reorder \cup {m} /\ h = [a.p.hs EXCEPT !.reorder = late]
        OBVIOUS
    <2>4. \A n \in late : BodyOK(Other(e), n, v) /\ n.t # "client_hello"
        BY <2>1, <2>2, <2>3 DEF HandshakeOK, Received, BodyOK, Seen
    <2>5. /\ HandshakeOK(e, h, v) /\ h.hash = a.p.hs.hash /\ h.ext = a.p.hs.ext
          /\ h.random = a.p.hs.random
        BY <2>2, <2>3, <2>4, ReorderWith
    <2>6. PICK b : b = Became(a, a.p.state, h, a.q, a.err)
        OBVIOUS
    <2>7. [a EXCEPT !.p.hs.reorder = @ \cup {m}] = b
        <3>1. [a EXCEPT !.p.hs.reorder = @ \cup {m}] = [a EXCEPT !.p.hs.reorder = late]
            BY <2>3
        <3>2. QED
            BY <1>2, <2>3, <2>6, <3>1, HandshakeChanges
    <2>8. Unkeyed(a.p) => Fresh(e, h.hash, v)
        BY <2>2, <2>5
    <2>9. /\ Core(e, b, w) /\ b.p # None /\ b.p.state = a.p.state /\ b.p.hs = h
          /\ b.p.sp0 = a.p.sp0 /\ b.p.sp1 = a.p.sp1 /\ b.err = "ok"
        BY <2>1, <2>5, <2>6, <2>8, BecameKeeps
    <2>10. h # None
        BY <2>5, NotNone
    <2>11. StateOK(e, b.p, w)
        BY <1>2, <2>5, <2>9, <2>10, StateSame
    <2>12. QED
        BY <1>2, <2>7, <2>9, <2>11 DEF Handled, Good
<1>3. CASE a.p.hs # None /\ HandleHandshake(a, m) = Drain(HandleMessage(a, m))
    <2>1. Going(e, a, w)
        BY <1>3 DEF Going
    <2>2. Handled(e, HandleMessage(a, m), w)
        BY <2>1, HandleMessageKeeps
    <2>3. QED
        BY <1>3, <2>2, TakeTurnKeeps DEF Drain
<1>4. QED
    <2>1. CASE a.p.hs = None
        BY <1>1, <2>1 DEF HandleHandshake
    <2>2. CASE a.p.hs # None
        BY <1>1, <1>2, <1>3, <2>2 DEF HandleHandshake
    <2>3. QED
        BY <2>1, <2>2


\* A state asks nothing of the role.
LEMMA StateCopy ==
    ASSUME NEW e, NEW w, NEW p, NEW q, StateOK(e, p, w),
           q.state = p.state, q.sp0 = p.sp0, q.sp1 = p.sp1, q.hs = p.hs
    PROVE  StateOK(e, q, w)
BY DEF StateOK, Unkeyed, Agreeing

\* What an end is left with: what it had, or the server has agreed its key.
Settled(e, a, w) ==
    \/ Left(e, a, w)
    \/ /\ e = "server" /\ a.p # None /\ a.p.sp0.epoch = 1
       /\ Left(e, a, Agreed(w, a.p.sp0.key))

\* The queue is emptied by what was received.
LEMMA EmptiedKeeps ==
    ASSUME NEW e \in Ends, NEW a, NEW w, Core(e, a, w), a.p # None, StateOK(e, a.p, w)
    PROVE  LET b == [a EXCEPT !.q = {}] IN Left(e, b, w) /\ b.p # None /\ b.p.sp0 = a.p.sp0
<1>1. PICK q : q = {}
    OBVIOUS
<1>2. PICK b : b = Became(a, a.p.state, a.p.hs, q, a.err)
    OBVIOUS
<1>3. [a EXCEPT !.q = {}] = b
    BY <1>1, <1>2, Changes
<1>4. a.err \in {"ok", "fatal", "failed"}
    BY DEF Core
<1>5. /\ Core(e, b, w) /\ b.p # None /\ b.p.state = a.p.state
      /\ b.p.hs = a.p.hs /\ b.p.sp0 = a.p.sp0 /\ b.p.sp1 = a.p.sp1
    BY <1>1, <1>2, <1>4, BecameKeeps
<1>6. StateOK(e, b.p, w)
    BY <1>5, StateCopy
<1>7. QED
    BY <1>3, <1>5, <1>6 DEF Left

\* dtls_alert_send_from_err and what goes with it
LEMMA AfterHandshakeKeeps ==
    ASSUME NEW e \in Ends, NEW a, NEW w, WorldOK(w), Good(e, a, w)
    PROVE  /\ Left(e, AfterHandshake(a), w)
           /\ a.err # "fatal" => /\ AfterHandshake(a).p # None
                                 /\ AfterHandshake(a).p.sp0.epoch = a.p.sp0.epoch
                                 /\ AfterHandshake(a).p.sp0.key = a.p.sp0.key
<1>1. Core(e, a, w) /\ a.p # None
    BY DEF Good
<1>2. CASE a.err = "fatal"
    <2>1. PICK b : b = Alerted(a, "unexpected")
        OBVIOUS
    <2>2. Core(e, b, w)
        BY <1>1, <2>1, AlertedKeeps
    <2>3. AfterHandshake(a) = Destroy(b)
        BY <1>2, <2>1 DEF AfterHandshake
    <2>4. QED
        BY <1>2, <2>2, <2>3, DestroyKeeps DEF Left
<1>3. CASE a.err = "failed"
    <2>1. PICK b : b = Alerted(a, "internal_error")
        OBVIOUS
    <2>2. AfterHandshake(a) = b
        BY <1>3, <2>1 DEF AfterHandshake
    <2>3. /\ Left(e, b, w) /\ b.p # None
          /\ b.p.sp0.epoch = a.p.sp0.epoch /\ b.p.sp0.key = a.p.sp0.key
        BY <1>1, <2>1, AlertedKeeps
    <2>4. QED
        BY <2>2, <2>3
<1>4. CASE a.err = "ok"
    <2>1. StateOK(e, a.p, w)
        BY <1>4 DEF Good
    <2>2. AfterHandshake(a) = a \/ AfterHandshake(a) = [a EXCEPT !.q = {}]
        BY <1>4 DEF AfterHandshake
    <2>3. QED
        BY <1>1, <2>1, <2>2, EmptiedKeeps DEF Left
<1>5. QED
    BY <1>1, <1>2, <1>3, <1>4 DEF Core

\* A record with a handshake message, in dtls_handle_message
LEMMA HandshakeRecordKeeps ==
    ASSUME NEW e \in Ends, NEW a, NEW w, WorldOK(w), Core(e, a, w), a.p # None,
           a.err = "ok", StateOK(e, a.p, w), NEW m, Received(e, m, w)
    PROVE  Settled(e, HandshakeRecord(a, m), w)
<1>1. PICK b, c : b = HandleHandshake(a, m) /\ c = AfterHandshake(b)
    OBVIOUS
<1>2. Handled(e, b, w)
    BY <1>1, HandleHandshakeKeeps
<1>3. CASE Good(e, b, w)
    BY <1>1, <1>3, AfterHandshakeKeeps DEF HandshakeRecord, Settled
<1>4. CASE /\ e = "server" /\ b.err \in {"ok", "failed"}
           /\ b.p.sp0.epoch = 1
           /\ Good(e, b, Agreed(w, b.p.sp0.key))
    <2>1. PICK k : k = b.p.sp0.key
        OBVIOUS
    <2>2. PICK v : v = Agreed(w, k)
        OBVIOUS
    <2>3. WorldOK(v)
        BY <2>2, AgreedKeeps
    <2>4. Good(e, b, v)
        BY <1>4, <2>1, <2>2
    <2>5. Left(e, c, v) /\ c.p # None /\ c.p.sp0.epoch = 1 /\ c.p.sp0.key = k
        BY <1>1, <1>4, <2>1, <2>3, <2>4, AfterHandshakeKeeps
    <2>6. QED
        BY <1>1, <1>4, <2>2, <2>5 DEF HandshakeRecord, Settled
<1>5. QED
    BY <1>2, <1>3, <1>4 DEF Handled

\* handle_ccs: the server has its parameters, the client had them.
LEMMA HandleCcsKeeps ==
    ASSUME NEW e \in Ends, NEW a, NEW w, WorldOK(w), Core(e, a, w), a.p # None,
           a.err = "ok", StateOK(e, a.p, w)
    PROVE  Left(e, HandleCcs(a), w)
<1>1. CASE a.p.state # "WAIT_CHANGECIPHERSPEC"
    BY <1>1 DEF HandleCcs, Left
<1>2. CASE a.p.state = "WAIT_CHANGECIPHERSPEC"
    <2>1. a.p.role = e /\ PeerOK(e, a.p, Seen(w, a.out)) /\ a.p.hs # None
        BY <1>2 DEF Core, PeerOK, StateOK
    <2>2. PICK p : p = IF e = "server" THEN NextParams(a.p) ELSE a.p
        OBVIOUS
    <2>3. PICK c : c = [a EXCEPT !.p = p]
        OBVIOUS
    <2>4. /\ PeerOK(e, p, Seen(w, a.out)) /\ p.hs = a.p.hs /\ p.sp0 = a.p.sp0
          /\ e = "server" => p.sp1 # None /\ p.sp1.key = a.p.hs.hash
        <3>1. CASE e = "client"
            BY <2>1, <2>2, <3>1
        <3>2. CASE e = "server"
            <4>1. Unkeyed(a.p) /\ a.p.hs.ext = a.p.hs.hash /\ Len(a.p.hs.hash) >= 2
                BY <1>2, <3>2 DEF StateOK
            <4>2. /\ PeerOK(e, p, Seen(w, a.out)) /\ p = [a.p EXCEPT !.sp1 = p.sp1]
                  /\ p.sp1 # None /\ p.sp1.key = a.p.hs.hash
                BY <2>1, <2>2, <3>2, <4>1, NextParamsKeeps
            <4>3. PICK s : s = p.sp1
                OBVIOUS
            <4>4. p = [a.p EXCEPT !.sp1 = s]
                BY <4>2, <4>3
            <4>5. p.hs = a.p.hs /\ p.sp0 = a.p.sp0
                BY <4>4
            <4>6. QED
                BY <4>2, <4>5
        <3>3. QED
            BY <3>1, <3>2 DEF Ends
    <2>5. /\ Core(e, c, w) /\ c.p # None /\ c.p = p /\ c.err = "ok" /\ c.out = a.out
        <3>1. c.out = a.out
            BY <2>3
        <3>2. QED
            BY <2>3, <2>4, <3>1, CoreOfPeer
    <2>6. PICK h : h = [p.hs EXCEPT !.readEpoch = @ + 1]
        OBVIOUS
    <2>7. PICK v : v = Seen(w, c.out)
        OBVIOUS
    <2>8. HandshakeOK(e, p.hs, v) /\ (Unkeyed(p) => Fresh(e, p.hs.hash, v))
        BY <2>1, <2>4, <2>5, <2>7, HandshakeThere
    <2>9. HandshakeOK(e, h, v) /\ h.hash = p.hs.hash
        BY <2>6, <2>8, ReadWith
    <2>10. PICK b : b = Became(c, "WAIT_FINISHED", h, c.q, c.err)
        OBVIOUS
    <2>11. HandleCcs(a) = b
        <3>1. HandleCcs(a) = [a EXCEPT !.p = [p EXCEPT !.hs.readEpoch = @ + 1,
                                                        !.state = "WAIT_FINISHED"]]
            BY <1>2, <2>1, <2>2 DEF HandleCcs
        <3>2. [p EXCEPT !.hs.readEpoch = @ + 1, !.state = "WAIT_FINISHED"]
                  = [p EXCEPT !.hs = h, !.state = "WAIT_FINISHED"]
            <4>1. PICK r, s, x, y, g : r = p.role /\ s = p.state /\ x = p.sp0 /\ y = p.sp1
                                       /\ g = p.hs
                OBVIOUS
            <4>2. p = [role |-> r, state |-> s, sp0 |-> x, sp1 |-> y, hs |-> g]
                BY <2>4, <4>1 DEF PeerOK
            <4>3. h = [g EXCEPT !.readEpoch = @ + 1]
                BY <2>6, <4>1
            <4>4. QED
                BY <4>2, <4>3
        <3>3. PICK z : z = [p EXCEPT !.hs = h, !.state = "WAIT_FINISHED"]
            OBVIOUS
        <3>4. [c EXCEPT !.p = z] = b
            BY <2>5, <2>10, <3>3, Changes
        <3>5. [c EXCEPT !.p = z] = [a EXCEPT !.p = z]
            BY <2>3
        <3>6. QED
            BY <3>1, <3>2, <3>3, <3>4, <3>5
    <2>12. Unkeyed(c.p) => Fresh(e, h.hash, v)
        BY <2>5, <2>8, <2>9
    <2>13. /\ Core(e, b, w) /\ b.p # None /\ b.p.state = "WAIT_FINISHED" /\ b.p.hs = h
           /\ b.p.sp0 = p.sp0 /\ b.p.sp1 = p.sp1
        BY <2>5, <2>7, <2>9, <2>10, <2>12, BecameKeeps
    <2>14. h # None
        BY <2>9, NotNone
    <2>15. StateOK(e, b.p, w)
        BY <1>2, <2>4, <2>9, <2>13, <2>14 DEF StateOK, Unkeyed, Agreeing
    <2>16. QED
        BY <2>11, <2>13, <2>15 DEF Left
<1>3. QED
    BY <1>1, <1>2

\* dtls_handle_message, when the record is open and marked
LEMMA HandleRecordKeeps ==
    ASSUME NEW e \in Ends, NEW a, NEW w, WorldOK(w), Core(e, a, w), a.p # None,
           a.err = "ok", StateOK(e, a.p, w),
           NEW r, RecordOK(r, w), r.from = Other(e), ~ClientHello0(r)
    PROVE  Settled(e, HandleRecord(a, r), w)
<1>1. CASE r.type = "ccs"
    BY <1>1, HandleCcsKeeps DEF HandleRecord, Settled
<1>2. CASE r.type = "handshake"
    <2>1. Received(e, r.body, w)
        BY <1>2 DEF RecordOK, Received, ClientHello0
    <2>2. QED
        BY <1>2, <2>1, HandshakeRecordKeeps DEF HandleRecord
<1>3. CASE r.type = "alert"
    <2>1. HandleRecord(a, r) = a \/ HandleRecord(a, r) = HandleAlert(a, r.body.t)
        BY <1>3 DEF HandleRecord
    <2>2. QED
        BY <2>1, HandleAlertKeeps DEF Settled, Left
<1>4. CASE r.type \notin {"ccs", "handshake", "alert"}
    <2>1. HandleRecord(a, r) = a \/ HandleRecord(a, r) = [a EXCEPT !.q = {}]
        BY <1>4 DEF HandleRecord
    <2>2. QED
        BY <2>1, EmptiedKeeps DEF Settled, Left
<1>5. QED
    BY <1>1, <1>2, <1>3, <1>4


-----------------------------------------------------------------------------
(* Records that open *)

\* An end has handed up what it had, and maybe r.
TookIn(e, r, w, v) ==
    /\ v.net = w.net /\ v.randoms = w.randoms /\ v.done = w.done
    /\ \A s \in Taken(e, v) : \/ s \in Taken(e, w)
                              \/ s.key = r.key /\ s.seq = r.seq /\ r.epoch # 0

\* The window of the key a record came under has marked it.
LEMMA WindowKeeps ==
    ASSUME NEW e \in Ends, NEW w, NEW v, WorldOK(w), NEW sp, SecurityOK(e, sp, w),
           NEW r, r.seq \in Nat, ~Dropped(sp.win, r.seq), TookIn(e, r, w, v)
    PROVE  LET s == [sp EXCEPT !.win = Mark(@, r.seq)]
           IN  SecurityOK(e, s, v) /\ s.epoch = sp.epoch /\ s.key = sp.key
<1>1. PICK i, k, n, x, y : i = sp.epoch /\ k = sp.key /\ n = sp.rseq /\ x = sp.win
                           /\ y = Mark(x, r.seq)
    OBVIOUS
<1>2. PICK s : s = [sp EXCEPT !.win = Mark(@, r.seq)]
    OBVIOUS
<1>3. sp = [epoch |-> i, key |-> k, rseq |-> n, win |-> x]
    BY <1>1 DEF SecurityOK
<1>4. s = [epoch |-> i, key |-> k, rseq |-> n, win |-> y]
    BY <1>1, <1>2, <1>3
<1>5. /\ s = [epoch |-> s.epoch, key |-> s.key, rseq |-> s.rseq, win |-> s.win]
      /\ s.epoch = sp.epoch /\ s.key = sp.key /\ s.rseq = sp.rseq /\ s.win = Mark(sp.win, r.seq)
    BY <1>1, <1>4
<1>6. sp.win \in SeqNum
    BY DEF SecurityOK
<1>7. s.win \in SeqNum
    BY <1>5, <1>6, MarkIsWindow
<1>8. ASSUME NEW t \in Taken(e, v), t.key = s.key PROVE Dropped(s.win, t.seq)
    <2>1. CASE t \in Taken(e, w)
        <3>1. Dropped(sp.win, t.seq)
            BY <1>5, <1>8, <2>1 DEF SecurityOK
        <3>2. t.seq \in Nat
            BY <2>1 DEF Taken, WorldOK, RecordOK
        <3>3. QED
            BY <1>5, <1>6, <3>1, <3>2, MarkedIsDropped
    <2>2. CASE t.seq = r.seq
        BY <1>5, <1>6, <2>2, MarkedIsDropped
    <2>3. QED
        BY <2>1, <2>2 DEF TookIn
<1>9. Mine(e, v) = Mine(e, w)
    BY DEF Mine, TookIn
<1>10. KeyOK(e, sp.key, w) => KeyOK(e, s.key, v)
    BY <1>5 DEF KeyOK, TookIn
<1>11. SecurityOK(e, s, v)
    BY <1>5, <1>7, <1>8, <1>9, <1>10 DEF SecurityOK
<1>12. QED
    BY <1>2, <1>5, <1>11

\* To the other parameters the record is nothing.
LEMMA OtherWindowKeeps ==
    ASSUME NEW e \in Ends, NEW w, NEW v, NEW sp, SecurityOK(e, sp, w),
           NEW r, sp.key # r.key \/ r.epoch = 0, TookIn(e, r, w, v)
    PROVE  SecurityOK(e, sp, v)
<1>1. Mine(e, v) = Mine(e, w)
    BY DEF Mine, TookIn
<1>2. ASSUME NEW t \in Taken(e, v), t.key = sp.key PROVE Dropped(sp.win, t.seq)
    BY <1>2 DEF TookIn, SecurityOK
<1>3. KeyOK(e, sp.key, w) => KeyOK(e, sp.key, v)
    BY DEF KeyOK, TookIn
<1>4. QED
    BY <1>1, <1>2, <1>3 DEF SecurityOK

\* dtls_security_params_read_epoch
LEMMA Opened ==
    ASSUME NEW e \in Ends, NEW p, NEW w, PeerOK(e, p, w), NEW r, Opens(p, r)
    PROVE  \/ /\ ReadEpoch(p, r.epoch) = "sp0"
              /\ p.sp0.epoch = r.epoch /\ p.sp0.key = r.key /\ ~Dropped(p.sp0.win, r.seq)
           \/ /\ ReadEpoch(p, r.epoch) = "sp1"
              /\ p.sp1 # None
              /\ p.sp1.epoch = r.epoch /\ p.sp1.key = r.key /\ ~Dropped(p.sp1.win, r.seq)
<1>1. PICK x : x = ReadEpoch(p, r.epoch)
    OBVIOUS
<1>2. \/ x = "sp0" /\ p.sp0.epoch = r.epoch
      \/ x = "sp1" /\ p.sp1 # None /\ p.sp1.epoch = r.epoch
      \/ x = "none"
    BY <1>1 DEF ReadEpoch, ParamsEpoch
<1>3. x # "none" /\ ~Dropped(p[x].win, r.seq) /\ p[x].key = r.key
    BY <1>1 DEF Opens
<1>4. QED
    BY <1>1, <1>2, <1>3

\* Nor to a handshake
LEMMA HandshakeTook ==
    ASSUME NEW e \in Ends, NEW hs, NEW w, NEW v, HandshakeOK(e, hs, w),
           v.done = w.done
    PROVE  HandshakeOK(e, hs, v)
BY DEF HandshakeOK, BodyOK

\* The record is marked, and the older parameters may go.
LEMMA MarkedKeeps ==
    ASSUME NEW e \in Ends, NEW p, NEW w, NEW v, WorldOK(w), PeerOK(e, p, w), StateOK(e, p, w),
           NEW r, RecordOK(r, w), Opens(p, r), TookIn(e, r, w, v)
    PROVE  LET q == Marked(p, r)
           IN  PeerOK(e, q, v) /\ q # None /\ StateOK(e, q, v)
<1>1. PICK s, x, y, h : s = p.state /\ x = p.sp0 /\ y = p.sp1 /\ h = p.hs
    OBVIOUS
<1>2. p = [role |-> e, state |-> s, sp0 |-> x, sp1 |-> y, hs |-> h]
    BY <1>1 DEF PeerOK
<1>3. /\ SecurityOK(e, x, w)
      /\ y = None \/ (SecurityOK(e, y, w) /\ y.epoch # x.epoch)
      /\ h = None \/ (HandshakeOK(e, h, w) /\ (Unkeyed(p) => Fresh(e, h.hash, w)))
    BY <1>1 DEF PeerOK
<1>4. r.seq \in Nat
    BY DEF RecordOK
<1>5. PICK m : m = [p EXCEPT ![ReadEpoch(p, r.epoch)].win = Mark(@, r.seq)]
    OBVIOUS
<1>6. y = None \/ x.key # y.key
    <2>1. Len(NoKey) = 0
        BY EmptySequence DEF NoKey
    <2>2. QED
        BY <1>3, <2>1 DEF SecurityOK, KeyOK
<1>7. PICK a, b : /\ m = [role |-> e, state |-> s, sp0 |-> a, sp1 |-> b, hs |-> h]
                  /\ SecurityOK(e, a, v) /\ a.epoch = x.epoch /\ a.key = x.key
                  /\ \/ b = None /\ y = None
                     \/ y # None /\ SecurityOK(e, b, v) /\ b.epoch = y.epoch /\ b.key = y.key
                  /\ x.epoch = 0 /\ y = None => r.epoch = 0
    <2>1. CASE /\ ReadEpoch(p, r.epoch) = "sp0"
               /\ p.sp0.epoch = r.epoch /\ p.sp0.key = r.key /\ ~Dropped(p.sp0.win, r.seq)
        <3>1. PICK a : a = [x EXCEPT !.win = Mark(@, r.seq)]
            OBVIOUS
        <3>2. m = [role |-> e, state |-> s, sp0 |-> a, sp1 |-> y, hs |-> h]
            <4>1. m = [p EXCEPT !.sp0.win = Mark(@, r.seq)]
                BY <1>5, <2>1
            <4>2. [p EXCEPT !.sp0.win = Mark(@, r.seq)]
                      = [p EXCEPT !.sp0 = [x EXCEPT !.win = Mark(@, r.seq)]]
                BY <1>2
            <4>3. [p EXCEPT !.sp0 = a] = [role |-> e, state |-> s, sp0 |-> a, sp1 |-> y, hs |-> h]
                BY <1>2
            <4>4. QED
                BY <3>1, <4>1, <4>2, <4>3
        <3>3. SecurityOK(e, a, v) /\ a.epoch = x.epoch /\ a.key = x.key
            BY <1>1, <1>3, <1>4, <2>1, <3>1, WindowKeeps
        <3>4. y = None \/ SecurityOK(e, y, v)
            BY <1>1, <1>3, <1>6, <2>1, OtherWindowKeeps
        <3>5. QED
            BY <1>1, <2>1, <3>2, <3>3, <3>4
    <2>2. CASE /\ ReadEpoch(p, r.epoch) = "sp1"
               /\ p.sp1 # None
               /\ p.sp1.epoch = r.epoch /\ p.sp1.key = r.key /\ ~Dropped(p.sp1.win, r.seq)
        <3>1. PICK b : b = [y EXCEPT !.win = Mark(@, r.seq)]
            OBVIOUS
        <3>2. m = [role |-> e, state |-> s, sp0 |-> x, sp1 |-> b, hs |-> h]
            <4>1. m = [p EXCEPT !.sp1.win = Mark(@, r.seq)]
                BY <1>5, <2>2
            <4>2. [p EXCEPT !.sp1.win = Mark(@, r.seq)]
                      = [p EXCEPT !.sp1 = [y EXCEPT !.win = Mark(@, r.seq)]]
                BY <1>2
            <4>3. [p EXCEPT !.sp1 = b] = [role |-> e, state |-> s, sp0 |-> x, sp1 |-> b, hs |-> h]
                BY <1>2
            <4>4. QED
                BY <3>1, <4>1, <4>2, <4>3
        <3>3. SecurityOK(e, b, v) /\ b.epoch = y.epoch /\ b.key = y.key
            BY <1>1, <1>3, <1>4, <2>2, <3>1, WindowKeeps
        <3>4. SecurityOK(e, x, v)
            BY <1>1, <1>3, <1>6, <2>2, OtherWindowKeeps
        <3>5. QED
            BY <1>1, <2>2, <3>2, <3>3, <3>4
    <2>3. QED
        BY <2>1, <2>2, Opened
<1>8. PICK c : /\ c = b \/ (c = None /\ a.epoch = 1)
               /\ Marked(p, r) = [role |-> e, state |-> s, sp0 |-> a, sp1 |-> c, hs |-> h]
    <2>1. CASE Marked(p, r) = m
        BY <1>7, <2>1
    <2>2. CASE m.sp1 # None /\ m.sp0.epoch >= m.sp1.epoch
               /\ Marked(p, r) = [m EXCEPT !.sp1 = None]
        <3>1. PICK none : none = None
            OBVIOUS
        <3>2. Marked(p, r) = [role |-> e, state |-> s, sp0 |-> a, sp1 |-> none, hs |-> h]
            BY <1>7, <2>2, <3>1
        <3>3. m.sp0 = a /\ m.sp1 = b
            BY <1>7
        <3>4. a.epoch = 1
            BY <1>1, <1>3, <1>7, <2>2, <3>3 DEF SecurityOK
        <3>5. QED
            BY <3>1, <3>2, <3>4
    <2>3. QED
        BY <1>5, <2>1, <2>2 DEF Marked, FreeOther
<1>9. PICK q : q = Marked(p, r)
    OBVIOUS
<1>10. /\ q = [role |-> e, state |-> q.state, sp0 |-> q.sp0, sp1 |-> q.sp1, hs |-> q.hs]
       /\ q.state = p.state /\ q.sp0 = a /\ q.sp1 = c /\ q.hs = p.hs
    BY <1>1, <1>8, <1>9
<1>11. Unkeyed(q) <=> Unkeyed(p)
    BY <1>1, <1>7, <1>8, <1>10, NotNone DEF Unkeyed
<1>12. ASSUME h # None, Unkeyed(q) PROVE Fresh(e, h.hash, v)
    <2>1. Fresh(e, h.hash, w) /\ r.epoch = 0
        BY <1>1, <1>3, <1>7, <1>11, <1>12 DEF Unkeyed
    <2>2. Used(e, v) \subseteq Used(e, w) /\ v.randoms = w.randoms
        BY <2>1 DEF Used, Mine, TookIn
    <2>3. QED
        BY <2>1, <2>2 DEF Fresh
<1>13. c = None \/ (SecurityOK(e, c, v) /\ c.epoch # a.epoch)
    BY <1>3, <1>7, <1>8
<1>14. h = None \/ HandshakeOK(e, h, v)
    BY <1>3, HandshakeTook DEF TookIn
<1>15. PeerOK(e, q, v)
    BY <1>1, <1>7, <1>10, <1>12, <1>13, <1>14 DEF PeerOK
<1>16. q # None
    BY <1>15, NotNone
<1>17. StateOK(e, q, v)
    <2>1. v.done = w.done
        BY DEF TookIn
    <2>2. /\ q.sp0.epoch = p.sp0.epoch /\ q.sp0.key = p.sp0.key
          /\ p.sp0.epoch = 0 /\ p.sp1 # None => q.sp1 # None /\ q.sp1.key = p.sp1.key
        BY <1>1, <1>3, <1>7, <1>8, <1>10, NotNone
    <2>3. QED
        BY <1>10, <1>11, <2>1, <2>2 DEF StateOK, Agreeing
<1>18. QED
    BY <1>9, <1>15, <1>16, <1>17


-----------------------------------------------------------------------------
(* Actions: what an end leaves, and what the other has of it *)

\* The same of the other parameters
LEMMA NextNumberOther ==
    ASSUME NEW e \in Ends, NEW p, NEW w, WorldOK(w), PeerOK(e, p, w), p.sp1 # None,
           NEW r, r.from = e, r.epoch = p.sp1.epoch, r.key = p.sp1.key, r.seq = p.sp1.rseq
    PROVE  LET q == [p EXCEPT !.sp1.rseq = @ + 1]
           IN  /\ PeerOK(e, q, Seen(w, {r}))
               /\ q.state = p.state /\ q.hs = p.hs /\ q.sp0 = p.sp0 /\ q.sp1 # None
               /\ q.sp1.epoch = p.sp1.epoch /\ q.sp1.key = p.sp1.key
<1>1. PICK s, x, y, h : s = p.state /\ x = p.sp0 /\ y = p.sp1 /\ h = p.hs
    OBVIOUS
<1>2. p = [role |-> e, state |-> s, sp0 |-> x, sp1 |-> y, hs |-> h]
    BY <1>1 DEF PeerOK
<1>3. PICK t : t = SwitchParams(p)
    OBVIOUS
<1>4. PeerOK(e, t, w) /\ t.sp0 = y
    BY <1>1, <1>3, SwitchParamsKeeps
<1>5. PICK z : z = [y EXCEPT !.rseq = @ + 1]
    OBVIOUS
<1>6. t = [role |-> e, state |-> s, sp0 |-> y, sp1 |-> x, hs |-> h]
    BY <1>2, <1>3 DEF SwitchParams
<1>7. PICK u : u = [t EXCEPT !.sp0.rseq = @ + 1]
    OBVIOUS
<1>8. u = [role |-> e, state |-> s, sp0 |-> z, sp1 |-> x, hs |-> h]
    BY <1>5, <1>6, <1>7
<1>9. PeerOK(e, u, Seen(w, {r})) /\ Like(t, u)
    BY <1>1, <1>4, <1>7, NextNumber
<1>10. x # None
    BY <1>1, NotNone DEF PeerOK
<1>11. PICK q : q = SwitchParams(u)
    OBVIOUS
<1>12. q = [role |-> e, state |-> s, sp0 |-> x, sp1 |-> z, hs |-> h]
    BY <1>8, <1>11 DEF SwitchParams
<1>13. PeerOK(e, q, Seen(w, {r}))
    BY <1>8, <1>9, <1>10, <1>11, SwitchParamsKeeps
<1>14. [p EXCEPT !.sp1.rseq = @ + 1] = q
    BY <1>2, <1>5, <1>12
<1>15. z.epoch = y.epoch /\ z.key = y.key /\ z # None
    <2>1. u.sp0 = z
        BY <1>8
    <2>2. SecurityOK(e, z, Seen(w, {r}))
        BY <1>9, <2>1 DEF PeerOK
    <2>3. QED
        BY <1>4, <1>9, <2>1, <2>2, NotNone DEF Like
<1>16. QED
    BY <1>1, <1>12, <1>13, <1>14, <1>15

\* An end as a handler finds it
LEMMA Started ==
    ASSUME NEW e \in Ends, NEW p, NEW q, NEW fail, NEW w, w.randoms \in Nat
    PROVE  Core(e, Start(p, q, fail), w) <=>
               /\ \A n \in q : NodeOK(e, n, w)
               /\ p = None => q = {}
               /\ p # None => PeerOK(e, p, w)
<1>1. PICK none : none = {}
    OBVIOUS
<1>2. PICK a : a = Start(p, q, fail)
    OBVIOUS
<1>3. /\ a = [p |-> a.p, q |-> a.q, out |-> a.out, fail |-> a.fail, err |-> a.err]
      /\ a.p = p /\ a.q = q /\ a.out = none /\ a.err = "ok"
    BY <1>1, <1>2 DEF Start
<1>4. PICK v : v = Seen(w, none)
    OBVIOUS
<1>5. /\ v.randoms = w.randoms /\ v.done = w.done /\ v.net = w.net /\ v.got = w.got
    BY <1>1, <1>4 DEF Seen
<1>6. Mine(e, v) = Mine(e, w) /\ Taken(e, v) = Taken(e, w)
    BY <1>5 DEF Mine, Taken
<1>7. PeerOK(e, p, w) <=> PeerOK(e, p, v)
    BY <1>5, <1>6, PeerLater
<1>8. QED
    BY <1>1, <1>2, <1>3, <1>4, <1>7 DEF Core

\* The world after a step, but for what is on the way
After == [net |-> net, got |-> got', randoms |-> randoms', done |-> done']

\* What a handler of e may leave
Leaves(e, p, q, out) ==
    /\ \A r \in out : /\ RecordOK(r, After) /\ r.from = e
                      /\ r.type = "data" => r.body.mseq > writes[e]
    /\ \A n \in q : NodeOK(e, n, After)
    /\ p = None => q = {}
    /\ p # None => PeerOK(e, p, Seen(After, out)) /\ StateOK(e, p, After)

\* What one end leaves is right for the other one, too: no record it sent bears the other's name.
LEMMA CommitKeeps ==
    ASSUME DtlsOK, NEW e \in Ends, NEW p, NEW q, NEW out, Leaves(e, p, q, out),
           peer' = [peer EXCEPT ![e] = p], queue' = [queue EXCEPT ![e] = q],
           net' \subseteq net \cup out,
           randoms' \in Nat, randoms <= randoms', done \subseteq done',
           got'[Other(e)] = got[Other(e)]
    PROVE  RecordsOK' /\ EndsOK'
<1>1. PICK w, v, u : w = World /\ v = After /\ u = [net |-> net', got |-> got',
                                                    randoms |-> randoms', done |-> done']
    OBVIOUS
<1>2. u = World'
    BY <1>1 DEF World
<1>3. /\ w.net = net /\ w.got = got /\ w.randoms = randoms /\ w.done = done
      /\ v.net = net /\ v.got = got' /\ v.randoms = randoms' /\ v.done = done'
      /\ u.net = net' /\ u.got = got' /\ u.randoms = randoms' /\ u.done = done'
    BY <1>1 DEF World, After
<1>4. randoms \in Nat /\ randoms' \in Nat /\ randoms <= randoms'
    BY DEF DtlsOK, TypeOK
<1>5. \A r : RecordOK(r, w) \/ RecordOK(r, v) => RecordOK(r, u)
    BY <1>3, <1>4, RecordLater
<1>6. \A r \in net' : RecordOK(r, u)
    BY <1>1, <1>5 DEF DtlsOK, RecordsOK, Leaves
<1>7. Core(e, Start(p, q, 0), u) /\ (p # None => StateOK(e, p, u))
    <2>1. \A n \in q : NodeOK(e, n, u)
        BY <1>1, <1>3, <1>4, RecordLater DEF Leaves
    <2>2. ASSUME p # None PROVE PeerOK(e, p, u) /\ StateOK(e, p, u)
        <3>1. PICK z : z = Seen(v, out)
            OBVIOUS
        <3>2. z.net = net \cup out /\ z.got = got' /\ z.randoms = randoms' /\ z.done = done'
            BY <1>3, <3>1 DEF Seen
        <3>3. Mine(e, u) \subseteq Mine(e, z) /\ Taken(e, u) \subseteq Taken(e, z)
            BY <1>3, <3>2 DEF Mine, Taken
        <3>4. PeerOK(e, p, z) /\ StateOK(e, p, v)
            BY <1>1, <2>2, <3>1 DEF Leaves
        <3>5. PeerOK(e, p, u)
            BY <1>3, <1>4, <3>2, <3>3, <3>4, PeerLater
        <3>6. StateOK(e, p, u)
            BY <1>3, <3>4 DEF StateOK
        <3>7. QED
            BY <3>5, <3>6
    <2>3. QED
        BY <1>3, <1>4, <2>1, <2>2, Started DEF Leaves
<1>8. ASSUME NEW f \in Ends, f # e
      PROVE  /\ Core(f, Start(peer[f], queue[f], 0), u)
             /\ peer[f] # None => StateOK(f, peer[f], u)
    <2>1. f = Other(e)
        BY <1>8 DEF Ends, Other
    <2>2. Core(f, Start(peer[f], queue[f], 0), w) /\ (peer[f] # None => StateOK(f, peer[f], w))
        BY <1>1 DEF DtlsOK, EndsOK
    <2>3. /\ \A n \in queue[f] : NodeOK(f, n, w)
          /\ peer[f] = None => queue[f] = {}
          /\ peer[f] # None => PeerOK(f, peer[f], w)
        BY <1>3, <1>4, <2>2, Started
    <2>4. \A n \in queue[f] : NodeOK(f, n, u)
        BY <1>3, <1>4, <2>3, RecordLater
    <2>5. Mine(f, u) \subseteq Mine(f, w)
        BY <1>3, <1>8 DEF Mine, Leaves
    <2>6. Taken(f, u) \subseteq Taken(f, w)
        <3>1. SUFFICES ASSUME NEW r \in Taken(f, u) PROVE r \in Taken(f, w)
            OBVIOUS
        <3>2. /\ r \in net' /\ r.from # f /\ r.type = "data"
              /\ \E i \in 1..Len(got[f]) : got[f][i] = r.body.mseq
            BY <1>3, <2>1, <3>1 DEF Taken
        <3>3. PICK i \in 1..Len(got[f]) : got[f][i] = r.body.mseq
            BY <3>2
        <3>4. got[f][i] <= writes[e] /\ got[f][i] \in Nat /\ writes[e] \in Nat
            <4>1. got[f][i] <= writes[Other(f)] /\ Other(f) = e
                BY <2>1, <3>3 DEF DtlsOK, GotOK, Ends, Other
            <4>2. got[f] \in Seq(Nat) /\ writes[e] \in Nat
                BY DEF DtlsOK, TypeOK
            <4>3. QED
                BY <3>3, <4>1, <4>2
        <3>5. r \notin out
            BY <3>2, <3>3, <3>4 DEF Leaves
        <3>6. QED
            BY <1>3, <3>2, <3>5 DEF Taken
    <2>7. peer[f] # None => PeerOK(f, peer[f], u)
        BY <1>3, <1>4, <2>3, <2>5, <2>6, PeerLater
    <2>8. peer[f] # None => StateOK(f, peer[f], u)
        BY <1>3, <2>2 DEF StateOK
    <2>9. QED
        BY <1>3, <1>4, <2>3, <2>4, <2>7, <2>8, Started
<1>9. /\ peer'[e] = p /\ queue'[e] = q
      /\ \A f \in Ends : f # e => peer'[f] = peer[f] /\ queue'[f] = queue[f]
    BY DEF DtlsOK, TypeOK
<1>10. \A f \in Ends : /\ Core(f, Start(peer'[f], queue'[f], 0), u)
                       /\ peer'[f] # None => StateOK(f, peer'[f], u)
    BY <1>7, <1>8, <1>9
<1>11. RecordsOK'
    BY <1>2, <1>6 DEF RecordsOK
<1>12. EndsOK'
    BY <1>2, <1>10 DEF EndsOK
<1>13. QED
    BY <1>11, <1>12


\* No payload is new.
LEMMA NoPayloadKeeps ==
    ASSUME DtlsOK, got' = got, writes' \in [Ends -> Nat],
           \A e \in Ends : writes[e] <= writes'[e],
           randoms' \in Nat, randoms <= randoms',
           \A r \in net' : r.type = "data" => r \in net
    PROVE  PayloadsOK' /\ GotOK'
<1>1. /\ \A e \in Ends : writes[e] \in Nat /\ writes'[e] \in Nat /\ got[e] \in Seq(Nat)
      /\ randoms \in Nat
    BY DEF DtlsOK, TypeOK
<1>2. \A r \in net : r.from \in Ends
    BY DEF DtlsOK, RecordsOK, RecordOK
<1>3. PayloadsOK'
    <2>1. \A r \in net' : r.type = "data" =>
              r.epoch = 1 /\ r.body.mseq \in Nat /\ r.body.mseq <= writes'[r.from]
        BY <1>1, <1>2 DEF DtlsOK, PayloadsOK
    <2>2. \A r, s \in net' : /\ r.type = "data" /\ s.type = "data"
                             /\ r.from = s.from /\ r.body.mseq = s.body.mseq
                             => r.key = s.key /\ r.seq = s.seq
        BY DEF DtlsOK, PayloadsOK
    <2>3. QED
        BY <2>1, <2>2 DEF PayloadsOK
<1>4. PICK w, u : w = World /\ u = World'
    OBVIOUS
<1>5. w.net = net /\ w.got = got /\ u.net = net' /\ u.got = got'
    BY <1>4 DEF World
<1>6. \A e \in Ends : Taken(e, u) \subseteq Taken(e, w)
    BY <1>5 DEF Taken
<1>7. \A e \in Ends : \A r \in Taken(e, u) : Own(e, r.key) \in 1..randoms'
    BY <1>1, <1>4, <1>6 DEF DtlsOK, GotOK
<1>8. \A e \in Ends : \A i \in 1..Len(got[e]) : got[e][i] <= writes'[Other(e)]
    <2>1. SUFFICES ASSUME NEW e \in Ends, NEW i \in 1..Len(got[e])
                   PROVE  got[e][i] <= writes'[Other(e)]
        OBVIOUS
    <2>2. got[e][i] <= writes[Other(e)] /\ got[e][i] \in Nat /\ Other(e) \in Ends
        <3>1. got[e] \in Seq(Nat)
            BY <1>1
        <3>2. got[e][i] \in Nat
            BY <2>1, <3>1
        <3>3. got[e][i] <= writes[Other(e)]
            BY <2>1 DEF DtlsOK, GotOK
        <3>4. QED
            BY <3>2, <3>3 DEF Ends, Other
    <2>3. QED
        BY <1>1, <2>2
<1>9. HandedUpOnce'
    BY DEF DtlsOK, GotOK, HandedUpOnce
<1>10. GotOK'
    BY <1>4, <1>7, <1>8, <1>9 DEF GotOK
<1>11. QED
    BY <1>3, <1>10

\* One is, with the next number of its end.
LEMMA PayloadKeeps ==
    ASSUME DtlsOK, got' = got, randoms' = randoms, NEW e \in Ends,
           writes' = [writes EXCEPT ![e] = @ + 1],
           NEW out, net' \subseteq net \cup out,
           \A r \in out : /\ r.type = "data" /\ r.from = e /\ r.epoch = 1
                          /\ r.body.mseq = writes[e] + 1,
           \A r, s \in out : r = s
    PROVE  PayloadsOK' /\ GotOK'
<1>1. /\ \A f \in Ends : writes[f] \in Nat /\ got[f] \in Seq(Nat)
      /\ randoms \in Nat
      /\ writes'[e] = writes[e] + 1
      /\ \A f \in Ends : f # e => writes'[f] = writes[f]
    BY DEF DtlsOK, TypeOK
<1>2. \A r \in net : r.from \in Ends
    BY DEF DtlsOK, RecordsOK, RecordOK
<1>3. \A r \in net : r.type = "data" =>
          r.epoch = 1 /\ r.body.mseq \in Nat /\ r.body.mseq <= writes[r.from]
    BY DEF DtlsOK, PayloadsOK
<1>4. PayloadsOK'
    <2>1. ASSUME NEW r \in net', r.type = "data"
          PROVE  r.epoch = 1 /\ r.body.mseq \in Nat /\ r.body.mseq <= writes'[r.from]
        <3>1. CASE r \in net
            BY <1>1, <1>2, <1>3, <2>1, <3>1
        <3>2. CASE r \in out
            BY <1>1, <3>2
        <3>3. QED
            BY <2>1, <3>1, <3>2
    <2>2. ASSUME NEW r \in net', NEW s \in net', r.type = "data", s.type = "data",
                 r.from = s.from, r.body.mseq = s.body.mseq
          PROVE  r.key = s.key /\ r.seq = s.seq
        <3>1. CASE r \in net /\ s \in net
            BY <2>2, <3>1 DEF DtlsOK, PayloadsOK
        <3>2. CASE r \in out /\ s \in out
            BY <3>2
        <3>3. CASE (r \in net /\ s \in out) \/ (r \in out /\ s \in net)
            BY <1>1, <1>3, <2>2, <3>3
        <3>4. QED
            BY <2>2, <3>1, <3>2, <3>3
    <2>3. QED
        BY <2>1, <2>2 DEF PayloadsOK
<1>5. \A f \in Ends : \A i \in 1..Len(got[f]) :
          got[f][i] <= writes[Other(f)] /\ got[f][i] \in Nat /\ writes[Other(f)] \in Nat
    BY <1>1 DEF DtlsOK, GotOK, Ends, Other
<1>6. PICK w, u : w = World /\ u = World'
    OBVIOUS
<1>7. w.net = net /\ w.got = got /\ u.net = net' /\ u.got = got'
    BY <1>6 DEF World
<1>8. ASSUME NEW f \in Ends, NEW r \in Taken(f, u) PROVE r \in Taken(f, w)
    <2>1. /\ r \in net' /\ r.from # f /\ r.type = "data"
          /\ \E i \in 1..Len(got[f]) : got[f][i] = r.body.mseq
        BY <1>7, <1>8 DEF Taken
    <2>2. PICK i \in 1..Len(got[f]) : got[f][i] = r.body.mseq
        BY <2>1
    <2>3. r \notin out
        <3>1. SUFFICES ASSUME r \in out PROVE FALSE
            OBVIOUS
        <3>2. Other(f) = e
            BY <2>1, <3>1 DEF Ends, Other
        <3>3. QED
            BY <1>5, <2>2, <3>1, <3>2
    <2>4. QED
        BY <1>7, <2>1, <2>3 DEF Taken
<1>9. \A f \in Ends : \A r \in Taken(f, u) : Own(f, r.key) \in 1..randoms'
    BY <1>6, <1>8 DEF DtlsOK, GotOK
<1>10. \A f \in Ends : \A i \in 1..Len(got[f]) : got[f][i] <= writes'[Other(f)]
    <2>1. \A f \in Ends : Other(f) \in Ends
        BY DEF Ends, Other
    <2>2. \A f \in Ends : writes[f] <= writes'[f] /\ writes'[f] \in Nat
        BY <1>1
    <2>3. QED
        BY <1>5, <2>1, <2>2
<1>11. HandedUpOnce'
    BY DEF DtlsOK, GotOK, HandedUpOnce
<1>12. GotOK'
    BY <1>6, <1>9, <1>10, <1>11 DEF GotOK
<1>13. QED
    BY <1>4, <1>12

\* The world as it is, and each end in it
LEMMA Worlds ==
    ASSUME DtlsOK
    PROVE  /\ World.net = net /\ World.got = got /\ World.randoms = randoms
           /\ World.done = done
           /\ WorldOK(World) /\ UsedOK("client", World) /\ UsedOK("server", World)
           /\ \A e \in Ends : /\ \A n \in queue[e] : NodeOK(e, n, World)
                              /\ peer[e] = None => queue[e] = {}
                              /\ peer[e] # None => PeerOK(e, peer[e], World)
                              /\ peer[e] # None => StateOK(e, peer[e], World)
           /\ UNCHANGED <<got, randoms, done>> => After = World
<1>1. PICK w : w = World
    OBVIOUS
<1>2. w.net = net /\ w.got = got /\ w.randoms = randoms /\ w.done = done
    BY <1>1 DEF World
<1>3. WorldOK(w)
    BY <1>1, <1>2 DEF DtlsOK, TypeOK, RecordsOK, WorldOK
<1>4. \A e \in Ends : Core(e, Start(peer[e], queue[e], 0), w)
                      /\ (peer[e] # None => StateOK(e, peer[e], w))
    BY <1>1 DEF DtlsOK, EndsOK
<1>5. \A e \in Ends : /\ \A n \in queue[e] : NodeOK(e, n, w)
                      /\ peer[e] = None => queue[e] = {}
                      /\ peer[e] # None => PeerOK(e, peer[e], w)
    BY <1>3, <1>4, Started DEF WorldOK
<1>6. Len(NoKey) = 0
    BY EmptySequence DEF NoKey
<1>7. ASSUME NEW e \in Ends PROVE UsedOK(e, w)
    <2>1. ASSUME NEW r \in Mine(e, w) PROVE r.key # NoKey /\ Own(e, r.key) \in 1..w.randoms
        BY <1>3, <1>6, <2>1 DEF Mine, WorldOK, RecordOK, KeyOK
    <2>2. ASSUME NEW r \in Taken(e, w) PROVE r.key # NoKey /\ Own(e, r.key) \in 1..w.randoms
        <3>1. r \in net /\ r.type = "data"
            BY <1>2, <2>2 DEF Taken
        <3>2. r.epoch = 1 /\ RecordOK(r, w)
            BY <1>1, <3>1 DEF DtlsOK, PayloadsOK, RecordsOK
        <3>3. r.key # NoKey
            BY <1>6, <3>2 DEF RecordOK, KeyOK
        <3>4. QED
            BY <1>1, <1>2, <2>2, <3>3 DEF DtlsOK, GotOK
    <2>3. QED
        BY <2>1, <2>2 DEF UsedOK, Used
<1>8. UNCHANGED <<got, randoms, done>> => After = w
    BY <1>1 DEF After, World
<1>9. QED
    BY <1>1, <1>2, <1>3, <1>4, <1>5, <1>7, <1>8 DEF Ends


\* A step that commits what a handler leaves
LEMMA CommitStep ==
    ASSUME DtlsOK, NEW e \in Ends, NEW a, NEW consumed, Left(e, a, After),
           Commit(e, a, consumed), got' = got, writes' = writes,
           randoms' \in Nat, randoms <= randoms', done \subseteq done'
    PROVE  DtlsOK'
<1>1. Leaves(e, a.p, a.q, a.out)
    BY DEF Leaves, Left, Core
<1>2. /\ peer' = [peer EXCEPT ![e] = a.p] /\ queue' = [queue EXCEPT ![e] = a.q]
      /\ net' \subseteq net \cup a.out
    BY DEF Commit
<1>3. RecordsOK' /\ EndsOK'
    BY <1>1, <1>2, CommitKeeps
<1>4. \A r \in net' : r.type = "data" => r \in net
    BY <1>2 DEF Left, Core
<1>5. writes' \in [Ends -> Nat] /\ \A f \in Ends : writes[f] <= writes'[f]
    BY DEF DtlsOK, TypeOK
<1>6. PayloadsOK' /\ GotOK'
    BY <1>4, <1>5, NoPayloadKeeps
<1>7. TypeOK'
    <2>1. peer' = [f \in Ends |-> peer'[f]] /\ queue' = [f \in Ends |-> queue'[f]]
        BY <1>2 DEF DtlsOK, TypeOK
    <2>2. QED
        BY <1>5, <2>1 DEF DtlsOK, TypeOK
<1>8. QED
    BY <1>3, <1>6, <1>7 DEF DtlsOK

\* A step that changes no end, and may answer without a peer
LEMMA AnswerStep ==
    ASSUME DtlsOK, NEW out, net' \subseteq net \cup out,
           \A r \in out : RecordOK(r, World) /\ r.from = "server" /\ r.type # "data"
                          /\ r.epoch = 0,
           UNCHANGED <<peer, queue, randoms, writes, got, done>>
    PROVE  DtlsOK'
<1>1. After = World
    BY Worlds
<1>2. PICK w, p, q : w = World /\ p = peer["server"] /\ q = queue["server"]
    OBVIOUS
<1>3. /\ \A n \in q : NodeOK("server", n, w)
      /\ p = None => q = {}
      /\ p # None => PeerOK("server", p, w) /\ StateOK("server", p, w)
      /\ w.randoms \in Nat
    BY <1>2, Worlds DEF Ends, WorldOK
<1>4. p # None => PeerOK("server", p, Seen(w, out))
    <2>1. PICK v : v = Seen(w, out)
        OBVIOUS
    <2>2. v.net = w.net \cup out /\ v.got = w.got /\ v.randoms = w.randoms /\ v.done = w.done
        BY <2>1 DEF Seen
    <2>3. Mine("server", v) \subseteq Mine("server", w)
          /\ Taken("server", v) \subseteq Taken("server", w)
        BY <2>2 DEF Mine, Taken
    <2>4. QED
        BY <1>3, <2>1, <2>2, <2>3, PeerLater DEF Ends
<1>5. Leaves("server", p, q, out)
    BY <1>1, <1>2, <1>3, <1>4 DEF Leaves
<1>6. peer' = [peer EXCEPT !["server"] = p] /\ queue' = [queue EXCEPT !["server"] = q]
    BY <1>2 DEF DtlsOK, TypeOK
<1>7. randoms' \in Nat /\ randoms <= randoms'
    BY DEF DtlsOK, TypeOK
<1>8. RecordsOK' /\ EndsOK'
    BY <1>5, <1>6, <1>7, CommitKeeps DEF Ends
<1>9. \A r \in net' : r.type = "data" => r \in net
    OBVIOUS
<1>10. writes' \in [Ends -> Nat] /\ \A f \in Ends : writes[f] <= writes'[f]
    BY DEF DtlsOK, TypeOK
<1>11. PayloadsOK' /\ GotOK'
    BY <1>7, <1>9, <1>10, NoPayloadKeeps
<1>12. TypeOK'
    BY DEF DtlsOK, TypeOK
<1>13. QED
    BY <1>8, <1>11, <1>12 DEF DtlsOK

\* dtls_write of a peer that is connected
LEMMA DataStep ==
    ASSUME DtlsOK, NEW e \in Ends, peer[e] # None, peer[e].state = "CONNECTED", NEW fail,
           Commit(e, Send(Start(peer[e], queue[e], fail), "data",
                          Content("data", writes[e] + 1)), {}),
           writes' = [writes EXCEPT ![e] = @ + 1],
           UNCHANGED <<randoms, got, done>>
    PROVE  DtlsOK'
<1>1. PICK w, p, q, body : /\ w = World /\ p = peer[e] /\ q = queue[e]
                           /\ body = Content("data", writes[e] + 1)
    OBVIOUS
<1>2. After = w
    BY <1>1, Worlds
<1>3. /\ \A n \in q : NodeOK(e, n, w)
      /\ p # None /\ PeerOK(e, p, w) /\ StateOK(e, p, w)
      /\ WorldOK(w)
    BY <1>1, Worlds
<1>4. p.state = "CONNECTED" /\ p.sp0.epoch = 1 /\ p.role = e /\ KeyOK(e, p.sp0.key, w)
      /\ p.sp0.rseq \in Nat
    BY <1>1, <1>3 DEF StateOK, PeerOK, SecurityOK
<1>5. PICK a, r, z : /\ a = Send(Start(p, q, fail), "data", body)
                     /\ r = Record(e, p.sp0, "data", body)
                     /\ z = [p EXCEPT !.sp0.rseq = @ + 1]
    OBVIOUS
<1>6. a.p = z /\ a.q = q /\ (a.out = {} \/ a.out = {r})
    BY <1>4, <1>5 DEF Send, Start
<1>7. /\ r.from = e /\ r.type = "data" /\ r.epoch = 1 /\ r.key = p.sp0.key
      /\ r.seq = p.sp0.rseq /\ r.body = body
      /\ r = [from |-> r.from, type |-> r.type, epoch |-> r.epoch, key |-> r.key,
              seq |-> r.seq, body |-> r.body]
    BY <1>4, <1>5 DEF Record
<1>8. body.mseq = writes[e] + 1 /\ writes[e] \in Nat
    BY <1>1 DEF Content, Message, DtlsOK, TypeOK
<1>9. RecordOK(r, w)
    BY <1>4, <1>7 DEF RecordOK
<1>10. PICK v : v = Seen(w, {r})
    OBVIOUS
<1>11. PeerOK(e, z, v) /\ Like(p, z)
    BY <1>3, <1>4, <1>5, <1>7, <1>10, NextNumber
<1>12. z # None
    BY <1>11, NotNone
<1>13. StateOK(e, z, w)
    BY <1>3, <1>4, <1>11 DEF Like, StateOK
<1>14. PeerOK(e, z, Seen(w, a.out))
    <2>1. PICK u : u = Seen(w, a.out)
        OBVIOUS
    <2>2. /\ v.net = w.net \cup {r} /\ v.got = w.got /\ v.randoms = w.randoms /\ v.done = w.done
          /\ u.net = w.net \cup a.out /\ u.got = w.got /\ u.randoms = w.randoms
          /\ u.done = w.done
        BY <1>10, <2>1 DEF Seen
    <2>3. Mine(e, u) \subseteq Mine(e, v) /\ Taken(e, u) \subseteq Taken(e, v)
        BY <1>6, <2>2 DEF Mine, Taken
    <2>4. w.randoms \in Nat
        BY <1>3 DEF WorldOK
    <2>5. QED
        BY <1>11, <2>1, <2>2, <2>3, <2>4, PeerLater
<1>15. \A s \in a.out : /\ RecordOK(s, w) /\ s.from = e /\ s.type = "data" /\ s.epoch = 1
                        /\ s.body.mseq = writes[e] + 1
    BY <1>6, <1>7, <1>8, <1>9
<1>16. Leaves(e, a.p, a.q, a.out)
    BY <1>2, <1>3, <1>6, <1>8, <1>12, <1>13, <1>14, <1>15 DEF Leaves
<1>17. /\ peer' = [peer EXCEPT ![e] = a.p] /\ queue' = [queue EXCEPT ![e] = a.q]
       /\ net' \subseteq net \cup a.out
    BY <1>1, <1>5 DEF Commit
<1>18. randoms' \in Nat /\ randoms <= randoms'
    BY DEF DtlsOK, TypeOK
<1>19. RecordsOK' /\ EndsOK'
    BY <1>16, <1>17, <1>18, CommitKeeps
<1>20. \A s, t \in a.out : s = t
    BY <1>6
<1>21. PayloadsOK' /\ GotOK'
    BY <1>15, <1>17, <1>20, PayloadKeeps
<1>22. TypeOK'
    <2>1. peer' = [f \in Ends |-> peer'[f]] /\ queue' = [f \in Ends |-> queue'[f]]
        BY <1>17 DEF DtlsOK, TypeOK
    <2>2. writes' \in [Ends -> Nat]
        BY DEF DtlsOK, TypeOK
    <2>3. QED
        BY <2>1, <2>2 DEF DtlsOK, TypeOK
<1>23. QED
    BY <1>19, <1>21, <1>22 DEF DtlsOK


-----------------------------------------------------------------------------
(* New handshakes *)

\* The number that is made is nobody's.
LEMMA NumberMade ==
    ASSUME DtlsOK, randoms' = randoms + 1, got' = got, done' = done
    PROVE  /\ WorldOK(After) /\ After.randoms = randoms + 1 /\ randoms \in Nat
           /\ randoms' \in Nat /\ randoms <= randoms' /\ done \subseteq done'
           /\ \A r : RecordOK(r, World) => RecordOK(r, After)
           /\ \A e \in Ends : UsedOK(e, After)
           /\ \A e \in Ends : \A r \in Used(e, After) : Own(e, r.key) # randoms + 1
<1>1. PICK w, v : w = World /\ v = After
    OBVIOUS
<1>2. /\ w.net = net /\ w.got = got /\ w.randoms = randoms /\ w.done = done
      /\ v.net = net /\ v.got = got /\ v.randoms = randoms + 1 /\ v.done = done
    BY <1>1 DEF World, After
<1>3. randoms \in Nat
    BY DEF DtlsOK, TypeOK
<1>4. \A r : RecordOK(r, w) => RecordOK(r, v)
    BY <1>2, <1>3, RecordLater
<1>5. WorldOK(v)
    BY <1>1, <1>2, <1>3, <1>4 DEF WorldOK, DtlsOK, RecordsOK
<1>6. ASSUME NEW e \in Ends, NEW r \in Used(e, v)
      PROVE  r.key # NoKey /\ Own(e, r.key) \in 1..randoms
    <2>1. r \in Used(e, w)
        BY <1>2, <1>6 DEF Used, Mine, Taken
    <2>2. UsedOK(e, w)
        BY <1>1, Worlds DEF Ends
    <2>3. QED
        BY <1>2, <2>1, <2>2 DEF UsedOK
<1>7. \A e \in Ends : UsedOK(e, v)
    <2>1. 1..randoms \subseteq 1..(randoms + 1)
        BY <1>3
    <2>2. QED
        BY <1>2, <1>6, <2>1 DEF UsedOK
<1>8. \A e \in Ends : \A r \in Used(e, v) : Own(e, r.key) # randoms + 1
    BY <1>3, <1>6
<1>9. QED
    BY <1>1, <1>2, <1>3, <1>4, <1>5, <1>7, <1>8

\* dtls_connect_peer: a new session, or one that is renegotiated
LEMMA ConnectLeft ==
    ASSUME DtlsOK, randoms' = randoms + 1, got' = got, done' = done, NEW fail
    PROVE  Left("client", Connect(fail), After)
<1>1. PICK w, nil, q : w = After /\ nil = <<>> /\ q = {}
    OBVIOUS
<1>2. /\ WorldOK(w) /\ w.randoms = randoms + 1 /\ randoms \in Nat
      /\ UsedOK("client", w)
      /\ \A r \in Used("client", w) : Own("client", r.key) # randoms + 1
    BY <1>1, NumberMade DEF Ends
<1>3. PICK p : p = NewPeer("client")
    OBVIOUS
<1>4. PICK sp, hs, win : sp = NewSecurity(0, NoKey) /\ hs = NewHandshake(0) /\ win = NewWindow
    OBVIOUS
<1>5. /\ p = [role |-> "client", state |-> "INIT", sp0 |-> sp, sp1 |-> None, hs |-> hs]
      /\ sp = [epoch |-> 0, key |-> NoKey, rseq |-> 0, win |-> win]
      /\ hs = [mseqR |-> 0, mseqS |-> 0, readEpoch |-> 0, random |-> 0, hash |-> nil,
               ext |-> nil, reorder |-> q]
    BY <1>1, <1>3, <1>4 DEF NewPeer, NewSecurity, NewHandshake
<1>6. win \in SeqNum
    BY <1>4 DEF NewWindow, SeqNum
<1>7. Sequence(nil) /\ Len(nil) = 0
    BY <1>1, EmptySequence
<1>8. HandshakeOK("client", hs, w)
    BY <1>1, <1>5, <1>7 DEF HandshakeOK
<1>9. Fresh("client", hs.hash, w)
    BY <1>5, <1>7 DEF Fresh, At
<1>10. /\ p = [role |-> "client", state |-> p.state, sp0 |-> p.sp0, sp1 |-> None, hs |-> p.hs]
       /\ p.sp0 = [epoch |-> 0, key |-> NoKey, rseq |-> p.sp0.rseq, win |-> p.sp0.win]
       /\ p.sp0.rseq \in Nat /\ p.sp0.win \in SeqNum /\ p.hs = hs /\ p.state = "INIT"
    BY <1>5, <1>6
<1>11. PeerOK("client", p, w) /\ Unkeyed(p) /\ p.hs # None /\ p # None
    BY <1>2, <1>8, <1>9, <1>10, NewPeerKeeps DEF Ends
<1>12. PICK a : a = Start(p, q, fail)
    OBVIOUS
<1>13. Core("client", a, w)
    BY <1>1, <1>2, <1>11, <1>12, Started DEF Ends, WorldOK
<1>14. a.p = p /\ a.out = {} /\ a.err = "ok"
    BY <1>12 DEF Start
<1>15. FirstHash(a, randoms + 1, w)
    <2>1. Used("client", Seen(w, a.out)) \subseteq Used("client", w)
        BY <1>14 DEF Used, Mine, Taken, Seen
    <2>2. randoms + 1 \in 1..w.randoms
        BY <1>2
    <2>3. QED
        BY <1>2, <1>11, <1>13, <1>14, <2>1, <2>2 DEF FirstHash
<1>16. PICK b : b = SendClientHello(a, 0)
    OBVIOUS
<1>17. /\ Core("client", b, w) /\ b.p # None /\ b.err \in {"ok", "failed"}
       /\ b.p.state = "INIT" /\ Unkeyed(b.p) /\ b.p.hs # None
       /\ Len(b.p.hs.hash) = 1 /\ Own("client", b.p.hs.hash) = randoms + 1
       /\ b.p.hs.random = randoms + 1
    <2>1. PICK rnd, cookie : rnd = randoms + 1 /\ cookie = 0
        OBVIOUS
    <2>2. rnd = IF cookie = 0 THEN randoms + 1 ELSE a.p.hs.random
        BY <2>1
    <2>3. FirstHash(a, rnd, w)
        BY <1>15, <2>1
    <2>4. b = SendClientHello(a, cookie)
        BY <1>16, <2>1
    <2>5. QED
        BY <1>2, <1>10, <1>14, <2>1, <2>2, <2>3, <2>4, SendClientHelloKeeps
<1>18. Connect(fail) = Then(b, "CLIENTHELLO")
    BY <1>1, <1>3, <1>12, <1>16 DEF Connect
<1>19. CASE b.err # "ok"
    <2>1. StateOK("client", b.p, w)
        BY <1>17 DEF StateOK
    <2>2. QED
        BY <1>1, <1>17, <1>18, <1>19, <2>1 DEF Then, Left
<1>20. CASE b.err = "ok"
    <2>1. PICK c : c = Became(b, "CLIENTHELLO", b.p.hs, b.q, "ok")
        OBVIOUS
    <2>2. Then(b, "CLIENTHELLO") = c
        BY <1>17, <1>20, <2>1, Changes
    <2>3. /\ Core("client", c, w) /\ c.p # None /\ c.p.state = "CLIENTHELLO"
          /\ c.p.hs = b.p.hs /\ c.p.sp0 = b.p.sp0 /\ c.p.sp1 = b.p.sp1
        BY <1>17, <2>1, BecameKeeps DEF Ends
    <2>4. StateOK("client", c.p, w)
        <3>1. Len(c.p.hs.hash) >= 1 /\ c.p.hs.random = Own("client", c.p.hs.hash)
            <4>1. PICK g, n : g = b.p.hs /\ n = randoms + 1
                OBVIOUS
            <4>2. Len(g.hash) = 1 /\ Own("client", g.hash) = n /\ g.random = n
                BY <1>17, <4>1
            <4>3. Len(g.hash) >= 1 /\ g.random = Own("client", g.hash)
                BY <4>2
            <4>4. QED
                BY <2>3, <4>1, <4>3
        <3>2. Unkeyed(c.p) /\ c.p.hs # None
            BY <1>17, <2>3 DEF Unkeyed
        <3>3. QED
            BY <2>3, <3>1, <3>2 DEF StateOK
    <2>5. QED
        BY <1>1, <1>18, <2>2, <2>3, <2>4 DEF Left
<1>21. QED
    BY <1>19, <1>20

\* What a ClientHello that starts a handshake looks like
LEMMA ClientHelloRecord ==
    ASSUME DtlsOK, NEW r \in net, ClientHello0(r)
    PROVE  /\ RecordOK(r, World) /\ r.from = "client" /\ r.type = "handshake"
           /\ r.epoch = 0 /\ r.key = NoKey /\ r.seq \in Nat
           /\ r.body.t = "client_hello" /\ r.body.rnd # 0
           /\ r = [from |-> r.from, type |-> r.type, epoch |-> r.epoch, key |-> r.key,
                   seq |-> r.seq, body |-> r.body]
BY DEF DtlsOK, RecordsOK, ClientHello0, RecordOK, BodyOK

\* What is sent without a peer
LEMMA Answers ==
    ASSUME DtlsOK, NEW r \in net, ClientHello0(r), NEW w
    PROVE  \A x \in {HelloVerifyRequest(r), EphemeralAlert(r)} :
               RecordOK(x, w) /\ x.from = "server" /\ x.type # "data" /\ x.epoch = 0
<1>1. PICK n, k, b : n = r.seq /\ k = NoKey /\ b = r.body
    OBVIOUS
<1>2. /\ r = [from |-> "client", type |-> "handshake", epoch |-> 0, key |-> k, seq |-> n,
              body |-> b]
      /\ n \in Nat /\ b.rnd # 0
    BY <1>1, ClientHelloRecord
<1>3. PICK m : m = Message("hello_verify_request", b.mseq, 0, Cookie(b), <<>>)
    OBVIOUS
<1>4. m.t = "hello_verify_request" /\ m.cookie = b.rnd
    BY <1>3 DEF Message, Cookie
<1>5. BodyOK("server", m, w)
    BY <1>2, <1>4 DEF BodyOK, HandshakeTypes, Expected
<1>6. HelloVerifyRequest(r) = [from |-> "server", type |-> "handshake", epoch |-> 0,
                               key |-> k, seq |-> n, body |-> m]
    <2>1. HelloVerifyRequest(r) = [r EXCEPT !.from = "server", !.body = m]
        BY <1>1, <1>3 DEF HelloVerifyRequest
    <2>2. QED
        BY <1>2, <2>1
<1>7. PICK x : x = HelloVerifyRequest(r)
    OBVIOUS
<1>8. RecordOK(x, w) /\ x.from = "server" /\ x.type # "data" /\ x.epoch = 0
    BY <1>1, <1>2, <1>4, <1>5, <1>6, <1>7 DEF RecordOK, Ends
<1>9. PICK c : c = Content("internal_error", 0)
    OBVIOUS
<1>10. EphemeralAlert(r) = [from |-> "server", type |-> "alert", epoch |-> 0,
                            key |-> k, seq |-> n, body |-> c]
    <2>1. EphemeralAlert(r) = [r EXCEPT !.from = "server", !.type = "alert", !.body = c]
        BY <1>9 DEF EphemeralAlert
    <2>2. QED
        BY <1>2, <2>1
<1>11. PICK y : y = EphemeralAlert(r)
    OBVIOUS
<1>12. RecordOK(y, w) /\ y.from = "server" /\ y.type # "data" /\ y.epoch = 0
    BY <1>1, <1>2, <1>10, <1>11 DEF RecordOK, Ends
<1>13. QED
    BY <1>7, <1>8, <1>11, <1>12


\* An error that is cleared
LEMMA ClearedKeeps ==
    ASSUME NEW e \in Ends, NEW a, NEW w, Core(e, a, w), a.p # None
    PROVE  LET b == [a EXCEPT !.err = "ok"]
           IN  Core(e, b, w) /\ b.p # None /\ b.err = "ok"
<1>1. PICK p, q, out, fail, err : /\ p = a.p /\ q = a.q /\ out = a.out /\ fail = a.fail
                                  /\ err = a.err
    OBVIOUS
<1>2. PICK b : b = [a EXCEPT !.err = "ok"]
    OBVIOUS
<1>3. a = [p |-> p, q |-> q, out |-> out, fail |-> fail, err |-> err]
    BY <1>1 DEF Core
<1>4. b = [p |-> p, q |-> q, out |-> out, fail |-> fail, err |-> "ok"]
    BY <1>2, <1>3
<1>5. /\ b = [p |-> b.p, q |-> b.q, out |-> b.out, fail |-> b.fail, err |-> b.err]
      /\ b.p = a.p /\ b.q = a.q /\ b.out = a.out /\ b.err = "ok"
    BY <1>1, <1>4
<1>6. Core(e, b, w)
    BY <1>5 DEF Core
<1>7. QED
    BY <1>2, <1>5, <1>6

\* The peer of a verified ClientHello
LEMMA VerifiedPeerKeeps ==
    ASSUME NEW w, UsedOK("server", w), NEW r, r.seq \in Nat
    PROVE  LET p == VerifiedPeer(r)
           IN  /\ PeerOK("server", p, w) /\ Unkeyed(p) /\ p.hs # None /\ p # None
               /\ Sequence(p.hs.hash) /\ Len(p.hs.hash) = 1
<1>1. PICK nil, q, n, k, hash, win :
          /\ nil = <<>> /\ q = {} /\ n = r.seq /\ k = r.body.mseq /\ hash = <<r.body>>
          /\ win = FullWindow(n)
    OBVIOUS
<1>2. PICK sp, hs : /\ sp = [epoch |-> 0, key |-> NoKey, rseq |-> n, win |-> win]
                    /\ hs = [mseqR |-> k, mseqS |-> k, readEpoch |-> 0, random |-> 0,
                             hash |-> hash, ext |-> nil, reorder |-> q]
    OBVIOUS
<1>3. PICK sp0, hs0 : sp0 = NewSecurity(0, NoKey) /\ hs0 = NewHandshake(0)
    OBVIOUS
<1>4. NewPeer("server") = [role |-> "server", state |-> "INIT", sp0 |-> sp0, sp1 |-> None,
                           hs |-> hs0]
    BY <1>3 DEF NewPeer
<1>5. PICK p : p = VerifiedPeer(r)
    OBVIOUS
<1>6. [sp0 EXCEPT !.rseq = r.seq, !.win = FullWindow(r.seq)] = sp
    <2>1. PICK u : u = NewWindow
        OBVIOUS
    <2>2. sp0 = [epoch |-> 0, key |-> NoKey, rseq |-> 0, win |-> u]
        BY <1>3, <2>1 DEF NewSecurity
    <2>3. PICK z : z = [[epoch |-> 0, key |-> NoKey, rseq |-> 0, win |-> u]
                            EXCEPT !.rseq = n, !.win = win]
        OBVIOUS
    <2>4. z = [epoch |-> 0, key |-> NoKey, rseq |-> n, win |-> win]
        BY <2>3
    <2>5. QED
        BY <1>1, <1>2, <2>2, <2>3, <2>4
<1>7. [NewHandshake(r.body.mseq) EXCEPT !.hash = <<r.body>>] = hs
    <2>1. PICK g : g = NewHandshake(k)
        OBVIOUS
    <2>2. g = [mseqR |-> k, mseqS |-> k, readEpoch |-> 0, random |-> 0, hash |-> nil,
               ext |-> nil, reorder |-> q]
        BY <1>1, <2>1 DEF NewHandshake
    <2>3. [g EXCEPT !.hash = hash] = hs
        BY <1>2, <2>2
    <2>4. QED
        BY <1>1, <2>1, <2>3
<1>8. p = [NewPeer("server") EXCEPT
              !.sp0 = [@ EXCEPT !.rseq = r.seq, !.win = FullWindow(r.seq)], !.hs = hs]
    BY <1>5, <1>7 DEF VerifiedPeer
<1>9. p = [role |-> "server", state |-> "INIT", sp0 |-> sp, sp1 |-> None, hs |-> hs]
    <2>1. PICK z : z = NewPeer("server")
        OBVIOUS
    <2>2. z = [role |-> "server", state |-> "INIT", sp0 |-> sp0, sp1 |-> None, hs |-> hs0]
        BY <1>4, <2>1
    <2>3. z.sp0 = sp0
        BY <2>2
    <2>4. p = [z EXCEPT !.sp0 = [z.sp0 EXCEPT !.rseq = r.seq, !.win = FullWindow(r.seq)],
                        !.hs = hs]
        BY <1>8, <2>1, <2>2
    <2>5. p = [z EXCEPT !.sp0 = sp, !.hs = hs]
        BY <1>6, <2>3, <2>4
    <2>6. QED
        BY <2>2, <2>5
<1>10. win \in SeqNum /\ n \in Nat
    BY <1>1 DEF FullWindow, SeqNum
<1>11. Sequence(hash) /\ Len(hash) = 1
    <2>1. hash = Append(nil, r.body)
        BY <1>1
    <2>2. Sequence(nil) /\ Len(nil) = 0
        BY <1>1, EmptySequence
    <2>3. Sequence(Append(nil, r.body)) /\ Len(Append(nil, r.body)) = Len(nil) + 1
        BY <2>2, Appended
    <2>4. QED
        BY <2>1, <2>2, <2>3
<1>12. HandshakeOK("server", hs, w)
    BY <1>1, <1>2, <1>11 DEF HandshakeOK
<1>13. Fresh("server", hs.hash, w)
    <2>1. ~(Len(hash) >= At("server"))
        BY <1>11 DEF At
    <2>2. Fresh("server", hash, w)
        BY <2>1 DEF Fresh
    <2>3. hs.hash = hash
        BY <1>2
    <2>4. QED
        BY <2>2, <2>3
<1>14. /\ p = [role |-> "server", state |-> p.state, sp0 |-> p.sp0, sp1 |-> None,
               hs |-> p.hs]
       /\ p.sp0 = [epoch |-> 0, key |-> NoKey, rseq |-> p.sp0.rseq, win |-> p.sp0.win]
       /\ p.sp0.rseq \in Nat /\ p.sp0.win \in SeqNum /\ p.hs = hs
    BY <1>2, <1>9, <1>10
<1>15. PeerOK("server", p, w) /\ Unkeyed(p) /\ p.hs # None /\ p # None
    BY <1>12, <1>13, <1>14, NewPeerKeeps DEF Ends
<1>16. p.hs.hash = hash
    BY <1>2, <1>14
<1>17. QED
    BY <1>5, <1>11, <1>15, <1>16

\* dtls_send_server_hello_msgs under a number that is nobody's
LEMMA ServerHelloMsgsKeeps ==
    ASSUME NEW w, WorldOK(w), w.randoms = randoms + 1, randoms \in Nat,
           \A r \in Used("server", w) : Own("server", r.key) # randoms + 1,
           NEW a, Core("server", a, w), a.p # None, a.p.hs # None, a.err = "ok", a.out = {},
           Unkeyed(a.p), Len(a.p.hs.hash) = 1
    PROVE  LET b == SendServerHelloMsgs(a)
           IN  /\ Core("server", b, w) /\ b.p # None /\ b.err \in {"ok", "failed"}
               /\ b.err = "ok" => /\ b.p.hs # None /\ Unkeyed(b.p)
                                  /\ Len(b.p.hs.hash) >= 2
<1>1. PICK nil, n, m : /\ nil = <<>> /\ n = randoms + 1
                       /\ m = Message("server_hello", a.p.hs.mseqS, n, 0, nil)
    OBVIOUS
<1>2. PICK b, h : b = SendHandshake(a, "server_hello", n, 0, nil) /\ h = a.p.hs.hash
    OBVIOUS
<1>3. m.t = "server_hello" /\ m.rnd = n
    BY <1>1 DEF Message
<1>4. /\ Sequence(h) /\ Len(h) = 1
      /\ Len(Append(h, m)) = 2 /\ Append(h, m)[2] = m
    <2>1. Sequence(h) /\ Len(h) = 1
        BY <1>2, HandshakeThere DEF Ends
    <2>2. Len(Append(h, m)) = Len(h) + 1 /\ Append(h, m)[Len(h) + 1] = m
        BY <2>1, Appended
    <2>3. QED
        BY <2>1, <2>2
<1>5. MayHash("server", a, m, w)
    <2>1. PICK v : v = Seen(w, a.out)
        OBVIOUS
    <2>2. Used("server", v) \subseteq Used("server", w) /\ v.randoms = w.randoms
        BY <2>1 DEF Used, Mine, Taken, Seen
    <2>3. Own("server", Append(h, m)) = n
        BY <1>3, <1>4 DEF Own, At
    <2>4. n \in 1..v.randoms
        BY <1>1, <2>2
    <2>5. Fresh("server", Append(h, m), v)
        BY <1>1, <2>2, <2>3, <2>4 DEF Fresh
    <2>6. QED
        BY <1>2, <2>1, <2>5 DEF MayHash
<1>6. Sendable("server", a.p, "handshake", m, w)
    BY <1>3 DEF Sendable, BodyOK, HandshakeTypes, Expected
<1>7. Hashes("server", a, b, m, w)
    BY <1>1, <1>2, <1>5, <1>6, SendHandshakeKeeps DEF Ends
<1>8. /\ Core("server", b, w) /\ b.p # None /\ b.err \in {"ok", "failed"}
      /\ b.p.hs # None /\ Unkeyed(b.p) /\ Len(b.p.hs.hash) = 2
    BY <1>2, <1>4, <1>7 DEF Hashes, Unkeyed
<1>9. PICK c : c = SendHandshake(b, "server_hello_done", 0, 0, nil)
    OBVIOUS
<1>10. SendServerHelloMsgs(a) = c
    BY <1>1, <1>2, <1>9 DEF SendServerHelloMsgs, SendServerHello
<1>11. CASE b.err # "ok"
    BY <1>8, <1>9, <1>10, <1>11 DEF SendHandshake
<1>12. CASE b.err = "ok"
    <2>1. PICK o : o = Message("server_hello_done", b.p.hs.mseqS, 0, 0, nil)
        OBVIOUS
    <2>2. o.t = "server_hello_done"
        BY <2>1 DEF Message
    <2>3. MayHash("server", b, o, w)
        BY <1>8, <1>12 DEF MayHash, At
    <2>4. Sendable("server", b.p, "handshake", o, w)
        BY <2>2 DEF Sendable, BodyOK, HandshakeTypes, Expected
    <2>5. Hashes("server", b, c, o, w)
        BY <1>9, <2>1, <2>3, <2>4, SendHandshakeKeeps DEF Ends
    <2>6. Len(c.p.hs.hash) = 3
        <3>1. PICK g : g = b.p.hs.hash
            OBVIOUS
        <3>2. Sequence(g) /\ Len(g) = 2
            BY <1>8, <3>1, HandshakeThere DEF Ends
        <3>3. Len(Append(g, o)) = Len(g) + 1
            BY <3>2, Appended
        <3>4. QED
            BY <2>5, <3>1, <3>2, <3>3 DEF Hashes
    <2>7. /\ Core("server", c, w) /\ c.p # None /\ c.err \in {"ok", "failed"}
          /\ c.p.hs # None /\ Unkeyed(c.p) /\ Len(c.p.hs.hash) >= 2
        BY <1>8, <2>5, <2>6 DEF Hashes, Unkeyed
    <2>8. QED
        BY <1>10, <2>7
<1>13. QED
    BY <1>11, <1>12

\* A ClientHello with its cookie: a new peer on the server, or a handshake once more
LEMMA VerifiedStep ==
    ASSUME DtlsOK, NEW r \in net, ClientHello0(r), NEW fail, NEW consumed,
           HandleVerifiedClientHello(r, fail, consumed),
           writes' = writes, got' = got, done' = done
    PROVE  DtlsOK'
<1>1. PICK w, q : w = After /\ q = {}
    OBVIOUS
<1>2. randoms' = randoms + 1
    BY DEF HandleVerifiedClientHello
<1>3. /\ WorldOK(w) /\ w.randoms = randoms + 1 /\ randoms \in Nat
      /\ randoms' \in Nat /\ randoms <= randoms' /\ done \subseteq done'
      /\ UsedOK("server", w)
      /\ \A s \in Used("server", w) : Own("server", s.key) # randoms + 1
    BY <1>1, <1>2, NumberMade DEF Ends
<1>4. PICK p : p = VerifiedPeer(r)
    OBVIOUS
<1>5. /\ PeerOK("server", p, w) /\ Unkeyed(p) /\ p.hs # None /\ p # None
      /\ Len(p.hs.hash) = 1
    BY <1>3, <1>4, ClientHelloRecord, VerifiedPeerKeeps
<1>6. PICK a : a = Start(p, q, fail)
    OBVIOUS
<1>7. Core("server", a, w) /\ a.p = p /\ a.out = {} /\ a.err = "ok"
    <2>1. Core("server", a, w)
        BY <1>1, <1>3, <1>5, <1>6, Started DEF Ends, WorldOK
    <2>2. a.p = p /\ a.out = {} /\ a.err = "ok"
        BY <1>6 DEF Start
    <2>3. QED
        BY <2>1, <2>2
<1>8. PICK b : b = SendServerHelloMsgs(a)
    OBVIOUS
<1>9. /\ Core("server", b, w) /\ b.p # None /\ b.err \in {"ok", "failed"}
      /\ b.err = "ok" => b.p.hs # None /\ Unkeyed(b.p) /\ Len(b.p.hs.hash) >= 2
    BY <1>3, <1>5, <1>7, <1>8, ServerHelloMsgsKeeps
<1>10. \/ /\ b.err = "ok"
          /\ Commit("server", [b EXCEPT !.p.state = "WAIT_CLIENTKEYEXCHANGE",
                                        !.p.hs.mseqR = @ + 1], consumed)
       \/ /\ b.err # "ok"
          /\ Commit("server", [DestroyClose([b EXCEPT !.err = "ok"]) EXCEPT
                                 !.out = @ \cup {EphemeralAlert(r)}], consumed)
    BY <1>1, <1>4, <1>6, <1>8 DEF HandleVerifiedClientHello
<1>11. CASE b.err = "ok"
    <2>1. PICK h, n : n = b.p.hs.mseqR + 1 /\ h = [b.p.hs EXCEPT !.mseqR = n]
        OBVIOUS
    <2>2. PICK v : v = Seen(w, b.out)
        OBVIOUS
    <2>3. HandshakeOK("server", b.p.hs, v) /\ (Unkeyed(b.p) => Fresh("server", b.p.hs.hash, v))
        BY <1>9, <1>11, <2>2, HandshakeThere DEF Ends
    <2>4. HandshakeOK("server", h, v) /\ h.hash = b.p.hs.hash
        BY <2>1, <2>3, CountWith DEF Ends
    <2>5. PICK c : c = Became(b, "WAIT_CLIENTKEYEXCHANGE", h, b.q, b.err)
        OBVIOUS
    <2>6. [b EXCEPT !.p.state = "WAIT_CLIENTKEYEXCHANGE", !.p.hs.mseqR = @ + 1] = c
        <3>1. PICK i, j, k, l, o : /\ i = b.p /\ j = b.q /\ k = b.out /\ l = b.fail
                                   /\ o = b.err
            OBVIOUS
        <3>2. PICK ro, st, x, y, g : /\ ro = i.role /\ st = i.state /\ x = i.sp0 /\ y = i.sp1
                                     /\ g = i.hs
            OBVIOUS
        <3>3. /\ b = [p |-> i, q |-> j, out |-> k, fail |-> l, err |-> o]
              /\ i = [role |-> ro, state |-> st, sp0 |-> x, sp1 |-> y, hs |-> g]
            BY <1>9, <3>1, <3>2 DEF Core, PeerOK
        <3>4. h = [g EXCEPT !.mseqR = @ + 1]
            BY <2>1, <3>1, <3>2
        <3>5. c = [p |-> [role |-> ro, state |-> "WAIT_CLIENTKEYEXCHANGE", sp0 |-> x,
                          sp1 |-> y, hs |-> h],
                   q |-> j, out |-> k, fail |-> l, err |-> o]
            BY <2>5, <3>1, <3>2 DEF Became
        <3>6. [b EXCEPT !.p.state = "WAIT_CLIENTKEYEXCHANGE", !.p.hs.mseqR = @ + 1]
                  = [b EXCEPT !.p.state = "WAIT_CLIENTKEYEXCHANGE",
                              !.p.hs = [g EXCEPT !.mseqR = @ + 1]]
            BY <3>3
        <3>7. [b EXCEPT !.p.state = "WAIT_CLIENTKEYEXCHANGE", !.p.hs = h] = c
            <4>1. [b EXCEPT !.p.state = "WAIT_CLIENTKEYEXCHANGE", !.p.hs = h]
                      = [b EXCEPT !.p = [i EXCEPT !.state = "WAIT_CLIENTKEYEXCHANGE", !.hs = h]]
                BY <3>3
            <4>2. [i EXCEPT !.state = "WAIT_CLIENTKEYEXCHANGE", !.hs = h]
                      = [role |-> ro, state |-> "WAIT_CLIENTKEYEXCHANGE", sp0 |-> x,
                         sp1 |-> y, hs |-> h]
                <5>1. PICK z : z = [[role |-> ro, state |-> st, sp0 |-> x, sp1 |-> y, hs |-> g]
                                      EXCEPT !.state = "WAIT_CLIENTKEYEXCHANGE", !.hs = h]
                    OBVIOUS
                <5>2. z = [role |-> ro, state |-> "WAIT_CLIENTKEYEXCHANGE", sp0 |-> x,
                           sp1 |-> y, hs |-> h]
                    BY <5>1
                <5>3. QED
                    BY <3>3, <5>1, <5>2
            <4>3. PICK s : s = [i EXCEPT !.state = "WAIT_CLIENTKEYEXCHANGE", !.hs = h]
                OBVIOUS
            <4>4. [b EXCEPT !.p = s] = c
                BY <3>3, <3>5, <4>2, <4>3
            <4>5. QED
                BY <4>1, <4>3, <4>4
        <3>8. QED
            BY <3>4, <3>6, <3>7
    <2>7. Unkeyed(b.p) => Fresh("server", h.hash, v)
        BY <2>3, <2>4
    <2>8. /\ Core("server", c, w) /\ c.p # None /\ c.p.state = "WAIT_CLIENTKEYEXCHANGE"
          /\ c.p.hs = h /\ c.p.sp0 = b.p.sp0 /\ c.p.sp1 = b.p.sp1
        BY <1>9, <2>2, <2>4, <2>5, <2>7, BecameKeeps DEF Ends
    <2>9. h # None
        BY <2>4, NotNone DEF Ends
    <2>10. StateOK("server", c.p, w)
        BY <1>9, <1>11, <2>4, <2>8, <2>9 DEF StateOK, Unkeyed
    <2>11. Left("server", c, After) /\ Commit("server", c, consumed)
        BY <1>1, <1>10, <1>11, <2>6, <2>8, <2>10 DEF Left
    <2>12. QED
        BY <1>3, <2>11, CommitStep DEF Ends
<1>12. CASE b.err # "ok"
    <2>1. PICK c, d : c = [b EXCEPT !.err = "ok"] /\ d = DestroyClose(c)
        OBVIOUS
    <2>2. Core("server", c, w) /\ c.p # None /\ c.err = "ok"
        BY <1>9, <2>1, ClearedKeeps DEF Ends
    <2>3. Core("server", d, w) /\ d.p = None
        BY <1>3, <2>1, <2>2, DestroyCloseKeeps DEF Ends
    <2>4. PICK x, f : x = EphemeralAlert(r) /\ f = [d EXCEPT !.out = @ \cup {x}]
        OBVIOUS
    <2>5. RecordOK(x, w) /\ x.from = "server" /\ x.type # "data"
        BY <2>4, Answers
    <2>6. /\ f = [p |-> f.p, q |-> f.q, out |-> f.out, fail |-> f.fail, err |-> f.err]
          /\ f.p = None /\ f.q = d.q /\ f.out = d.out \cup {x} /\ f.err = d.err
        <3>1. PICK i, j, k, l, o : /\ i = d.p /\ j = d.q /\ k = d.out /\ l = d.fail
                                   /\ o = d.err
            OBVIOUS
        <3>2. d = [p |-> i, q |-> j, out |-> k, fail |-> l, err |-> o]
            BY <2>3, <3>1 DEF Core
        <3>3. f = [p |-> i, q |-> j, out |-> k \cup {x}, fail |-> l, err |-> o]
            BY <2>4, <3>2
        <3>4. QED
            BY <2>3, <3>1, <3>3
    <2>7. Core("server", f, w)
        BY <2>3, <2>5, <2>6 DEF Core
    <2>8. Left("server", f, After) /\ Commit("server", f, consumed)
        BY <1>1, <1>10, <1>12, <2>1, <2>4, <2>6, <2>7 DEF Left
    <2>9. QED
        BY <1>3, <2>8, CommitStep DEF Ends
<1>13. QED
    BY <1>11, <1>12


-----------------------------------------------------------------------------
(* Records of a peer *)

\* A payload that is handed up was not, and its key has a number of who gets it.
LEMMA HandedUpIsNew ==
    ASSUME DtlsOK, NEW e \in Ends, NEW r \in net, r.from = Other(e), HandsUp(e, r)
    PROVE  /\ r.body.mseq \in Nat /\ r.body.mseq <= writes[Other(e)]
           /\ Own(e, r.key) \in 1..randoms
           /\ \A i \in 1..Len(got[e]) : got[e][i] # r.body.mseq
<1>1. PICK w, p : w = World /\ p = peer[e]
    OBVIOUS
<1>2. w.net = net /\ w.got = got /\ w.randoms = randoms /\ w.done = done
    BY <1>1 DEF World
<1>3. p # None /\ PeerOK(e, p, w) /\ Opens(p, r) /\ r.type = "data" /\ r.epoch # 0
    BY <1>1, Worlds DEF HandsUp
<1>4. r.body.mseq \in Nat /\ r.body.mseq <= writes[r.from]
    BY <1>3 DEF DtlsOK, PayloadsOK
<1>5. PICK sp : /\ SecurityOK(e, sp, w) /\ sp.epoch = r.epoch /\ sp.key = r.key
                /\ ~Dropped(sp.win, r.seq)
    BY <1>3, Opened DEF PeerOK
<1>6. Own(e, r.key) \in 1..randoms
    BY <1>2, <1>3, <1>5 DEF SecurityOK, KeyOK
<1>7. ASSUME NEW i \in 1..Len(got[e]), got[e][i] = r.body.mseq PROVE FALSE
    <2>1. r.from # e
        BY DEF Ends, Other
    <2>2. r \in Taken(e, w)
        BY <1>2, <1>3, <1>7, <2>1 DEF Taken
    <2>3. QED
        BY <1>5, <2>2 DEF SecurityOK
<1>8. QED
    BY <1>4, <1>6, <1>7

\* What is handed up, or not
Gets(e, r) == IF HandsUp(e, r) THEN [got EXCEPT ![e] = Append(@, r.body.mseq)] ELSE got

\* The payload n of r comes behind those of g, which makes them h.
Gained(e, r, n, g, h) ==
    /\ n \in Nat /\ n <= writes[Other(e)] /\ Own(e, r.key) \in 1..randoms
    /\ \A i \in 1..Len(g) : g[i] # n
    /\ g \in Seq(Nat) /\ h \in Seq(Nat) /\ Len(g) \in Nat /\ Len(h) = Len(g) + 1
    /\ (\A i \in 1..Len(g) : h[i] = g[i] /\ h[i] \in Nat) /\ h[Len(g) + 1] = n
    /\ got' \in [Ends -> Seq(Nat)] /\ got'[e] = h
    /\ \A f \in Ends : f # e => got'[f] = got[f]
    /\ \A s \in net : s.from # e /\ s.type = "data"
                      /\ (\E i \in 1..Len(h) : h[i] = s.body.mseq) =>
          \/ s \in Taken(e, World)
          \/ s.key = r.key /\ s.seq = r.seq /\ r.epoch # 0

\* One payload is handed up, and its record is marked.
LEMMA GetsOne ==
    ASSUME DtlsOK, NEW e \in Ends, NEW r \in net, r.from = Other(e), got' = Gets(e, r),
           HandsUp(e, r)
    PROVE  Gained(e, r, r.body.mseq, got[e], Append(got[e], r.body.mseq))
<1> PICK n, g, h : n = r.body.mseq /\ g = got[e] /\ h = Append(g, n)
    OBVIOUS
<1>1. PICK w : w = World
    OBVIOUS
<1>2. w.net = net /\ w.got = got /\ w.randoms = randoms /\ w.done = done
    BY <1>1 DEF World
<1>3. got \in [Ends -> Seq(Nat)]
    BY DEF DtlsOK, TypeOK
<1>4. /\ n \in Nat /\ n <= writes[Other(e)] /\ Own(e, r.key) \in 1..randoms
      /\ \A i \in 1..Len(g) : g[i] # n
    BY HandedUpIsNew
<1>5. g \in Seq(Nat) /\ h \in Seq(Nat) /\ Len(g) \in Nat /\ Len(h) = Len(g) + 1
      /\ (\A i \in 1..Len(g) : h[i] = g[i] /\ h[i] \in Nat) /\ h[Len(g) + 1] = n
    BY <1>3, <1>4
<1>6. got' = [got EXCEPT ![e] = h]
    BY DEF Gets
<1>7. /\ got' \in [Ends -> Seq(Nat)] /\ got'[e] = h
      /\ \A f \in Ends : f # e => got'[f] = got[f]
    BY <1>3, <1>5, <1>6
<1>8. /\ \A s, t \in net : /\ s.type = "data" /\ t.type = "data"
                           /\ s.from = t.from /\ s.body.mseq = t.body.mseq
                           => s.key = t.key /\ s.seq = t.seq
      /\ \A s \in net : s.from \in Ends
    BY DEF DtlsOK, PayloadsOK, RecordsOK, RecordOK
<1>9. r.type = "data" /\ r.epoch # 0
    BY DEF HandsUp
<1>10. ASSUME NEW s \in net, s.from # e, s.type = "data",
              NEW i \in 1..Len(h), h[i] = s.body.mseq
       PROVE  \/ s \in Taken(e, w)
              \/ s.key = r.key /\ s.seq = r.seq /\ r.epoch # 0
    <2>1. CASE i \in 1..Len(g)
        <3>1. g[i] = s.body.mseq
            BY <1>5, <1>10, <2>1
        <3>2. QED
            BY <1>2, <1>10, <2>1, <3>1 DEF Taken
    <2>2. CASE i \notin 1..Len(g)
        <3>1. i = Len(g) + 1
            BY <1>5, <1>10, <2>2
        <3>2. s.body.mseq = n
            BY <1>5, <1>10, <3>1
        <3>3. s.from = r.from
            BY <1>8, <1>10 DEF Ends, Other
        <3>4. QED
            BY <1>8, <1>9, <1>10, <3>2, <3>3
    <2>3. QED
        BY <2>1, <2>2
<1>11. Gained(e, r, n, g, h)
    BY <1>1, <1>4, <1>5, <1>7, <1>10 DEF Gained
<1>12. QED
    BY <1>11

\* In the world after it, the end has what it had and the record.
LEMMA GetsTookIn ==
    ASSUME DtlsOK, NEW e \in Ends, NEW r \in net, r.from = Other(e), got' = Gets(e, r),
           NEW v, v.net = net, v.randoms = randoms, v.done = done, v.got = got'
    PROVE  TookIn(e, r, World, v) /\ got'[Other(e)] = got[Other(e)]
<1>1. PICK w : w = World
    OBVIOUS
<1>2. w.net = net /\ w.got = got /\ w.randoms = randoms /\ w.done = done
    BY <1>1 DEF World
<1>3. CASE ~HandsUp(e, r)
    <2>1. got' = got
        BY <1>3 DEF Gets
    <2>2. QED
        BY <1>1, <1>2, <2>1 DEF TookIn, Taken
<1>4. CASE HandsUp(e, r)
    <2>1. PICK n, g, h : n = r.body.mseq /\ g = got[e] /\ h = Append(g, n)
        OBVIOUS
    <2>2. /\ got'[e] = h
          /\ \A f \in Ends : f # e => got'[f] = got[f]
          /\ \A s \in net : s.from # e /\ s.type = "data"
                             /\ (\E i \in 1..Len(h) : h[i] = s.body.mseq) =>
                 \/ s \in Taken(e, w)
                 \/ s.key = r.key /\ s.seq = r.seq /\ r.epoch # 0
        <3>1. Gained(e, r, n, g, h)
            BY <1>4, <2>1, GetsOne
        <3>2. QED
            BY <1>1, <3>1 DEF Gained
    <2>3. ASSUME NEW s \in Taken(e, v)
          PROVE  \/ s \in Taken(e, w)
                 \/ s.key = r.key /\ s.seq = r.seq /\ r.epoch # 0
        <3>1. /\ s \in net /\ s.from # e /\ s.type = "data"
              /\ \E i \in 1..Len(h) : h[i] = s.body.mseq
            BY <2>2, <2>3 DEF Taken
        <3>2. QED
            BY <2>2, <3>1
    <2>4. TookIn(e, r, w, v)
        BY <1>2, <2>3 DEF TookIn
    <2>5. Other(e) \in Ends /\ Other(e) # e
        BY DEF Ends, Other
    <2>6. QED
        BY <1>1, <2>2, <2>4, <2>5
<1>5. QED
    BY <1>3, <1>4

\* A payload that was not dropped was not handed up before.
LEMMA GetsKeeps ==
    ASSUME DtlsOK, NEW e \in Ends, NEW r \in net, r.from = Other(e), got' = Gets(e, r),
           writes' = writes, randoms' = randoms, \A s \in net' : s.type = "data" => s \in net
    PROVE  PayloadsOK' /\ GotOK' /\ got' \in [Ends -> Seq(Nat)]
<1>1. PICK w : w = World
    OBVIOUS
<1>2. w.net = net /\ w.got = got /\ w.randoms = randoms /\ w.done = done
    BY <1>1 DEF World
<1>3. Other(e) \in Ends /\ Other(e) # e
    BY DEF Ends, Other
<1>4. got \in [Ends -> Seq(Nat)] /\ writes \in [Ends -> Nat] /\ randoms \in Nat
    BY DEF DtlsOK, TypeOK
<1>5. CASE ~HandsUp(e, r)
    <2>1. got' = got
        BY <1>5 DEF Gets
    <2>2. writes' \in [Ends -> Nat] /\ \A f \in Ends : writes[f] <= writes'[f]
        BY <1>4
    <2>3. QED
        BY <1>4, <2>1, <2>2, NoPayloadKeeps
<1>6. CASE HandsUp(e, r)
    <2>1. PICK n, g, h : n = r.body.mseq /\ g = got[e] /\ h = Append(g, n)
        OBVIOUS
    <2>2. /\ n \in Nat /\ n <= writes[Other(e)] /\ Own(e, r.key) \in 1..randoms
          /\ \A i \in 1..Len(g) : g[i] # n
          /\ g \in Seq(Nat) /\ h \in Seq(Nat) /\ Len(g) \in Nat /\ Len(h) = Len(g) + 1
          /\ (\A i \in 1..Len(g) : h[i] = g[i] /\ h[i] \in Nat) /\ h[Len(g) + 1] = n
        <3>1. Gained(e, r, n, g, h)
            BY <1>6, <2>1, GetsOne
        <3>2. QED
            BY <3>1 DEF Gained
    <2>3. /\ got' \in [Ends -> Seq(Nat)] /\ got'[e] = h
          /\ \A f \in Ends : f # e => got'[f] = got[f]
          /\ \A s \in net : s.from # e /\ s.type = "data"
                             /\ (\E i \in 1..Len(h) : h[i] = s.body.mseq) =>
                 \/ s \in Taken(e, w)
                 \/ s.key = r.key /\ s.seq = r.seq /\ r.epoch # 0
        <3>1. Gained(e, r, n, g, h)
            BY <1>6, <2>1, GetsOne
        <3>2. QED
            BY <1>1, <3>1 DEF Gained
    <2>4. /\ \A s \in net : s.type = "data" =>
                 s.epoch = 1 /\ s.body.mseq \in Nat /\ s.body.mseq <= writes[s.from]
          /\ \A s, t \in net : /\ s.type = "data" /\ t.type = "data"
                               /\ s.from = t.from /\ s.body.mseq = t.body.mseq
                               => s.key = t.key /\ s.seq = t.seq
          /\ \A s \in net : s.from \in Ends
        BY DEF DtlsOK, PayloadsOK, RecordsOK, RecordOK
    <2>5. PayloadsOK'
        BY <2>4 DEF PayloadsOK
    <2>6. PICK u : u = World'
        OBVIOUS
    <2>7. u.net = net' /\ u.got = got' /\ u.randoms = randoms
        BY <2>6 DEF World
    <2>8. \A f \in Ends : \A s \in Taken(f, w) : Own(f, s.key) \in 1..randoms
        BY <1>1 DEF DtlsOK, GotOK
    <2>9. ASSUME NEW f \in Ends, NEW s \in Taken(f, u) PROVE Own(f, s.key) \in 1..randoms
        <3>1. s \in net' /\ s.from # f /\ s.type = "data" /\ s \in net
            BY <2>7, <2>9 DEF Taken
        <3>2. CASE f # e
            <4>1. s \in Taken(f, w)
                BY <1>2, <2>3, <2>7, <2>9, <3>1, <3>2 DEF Taken
            <4>2. QED
                BY <2>8, <4>1
        <3>3. CASE f = e
            <4>1. \E i \in 1..Len(h) : h[i] = s.body.mseq
                BY <2>3, <2>7, <2>9, <3>3 DEF Taken
            <4>2. s \in Taken(e, w) \/ s.key = r.key
                BY <2>3, <3>1, <3>3, <4>1
            <4>3. QED
                BY <2>2, <2>8, <3>3, <4>2
        <3>4. QED
            BY <3>2, <3>3
    <2>10. \A f \in Ends : \A i \in 1..Len(got[f]) : got[f][i] <= writes[Other(f)]
        BY DEF DtlsOK, GotOK
    <2>11. ASSUME NEW f \in Ends, NEW i \in 1..Len(got'[f])
           PROVE  got'[f][i] <= writes'[Other(f)]
        <3>1. CASE f # e
            BY <2>3, <2>10, <2>11, <3>1
        <3>2. CASE f = e /\ i \in 1..Len(g)
            BY <2>1, <2>2, <2>3, <2>10, <3>2
        <3>3. CASE f = e /\ i \notin 1..Len(g)
            <4>1. i = Len(g) + 1
                BY <2>2, <2>3, <2>11, <3>3
            <4>2. QED
                BY <2>2, <2>2, <2>3, <3>3, <4>1
        <3>4. QED
            BY <3>1, <3>2, <3>3
    <2>12. HandedUpOnce'
        <3>1. \A f \in Ends : \A i, j \in DOMAIN got[f] : got[f][i] = got[f][j] => i = j
            BY DEF DtlsOK, GotOK, HandedUpOnce
        <3>2. DOMAIN g = 1..Len(g) /\ DOMAIN h = 1..Len(h)
            BY <2>2
        <3>3. ASSUME NEW i \in DOMAIN h, NEW j \in DOMAIN h, h[i] = h[j] PROVE i = j
            <4>1. CASE i \in 1..Len(g) /\ j \in 1..Len(g)
                BY <2>1, <2>2, <3>1, <3>2, <3>3, <4>1
            <4>2. CASE i \notin 1..Len(g) /\ j \notin 1..Len(g)
                BY <2>2, <3>2, <3>3, <4>2
            <4>3. CASE i \in 1..Len(g) /\ j \notin 1..Len(g)
                <5>1. j = Len(g) + 1
                    BY <2>2, <3>2, <3>3, <4>3
                <5>2. QED
                    BY <2>2, <2>2, <3>3, <4>3, <5>1
            <4>4. CASE i \notin 1..Len(g) /\ j \in 1..Len(g)
                <5>1. i = Len(g) + 1
                    BY <2>2, <3>2, <3>3, <4>4
                <5>2. QED
                    BY <2>2, <2>2, <3>3, <4>4, <5>1
            <4>5. QED
                BY <4>1, <4>2, <4>3, <4>4
        <3>4. \A f \in Ends : \A i, j \in DOMAIN got'[f] : got'[f][i] = got'[f][j] => i = j
            BY <2>3, <3>1, <3>3
        <3>5. QED
            BY <3>4 DEF HandedUpOnce
    <2>13. GotOK'
        BY <2>6, <2>9, <2>11, <2>12 DEF GotOK
    <2>14. QED
        BY <2>3, <2>5, <2>13
<1>7. QED
    BY <1>5, <1>6

\* dtls_handle_message, a record for a peer there is
LEMMA PeerRecordStep ==
    ASSUME DtlsOK, NEW r \in net, ~ClientHello0(r), NEW fail, NEW consumed,
           HandlePeerRecord(Other(r.from), r, fail, consumed), writes' = writes
    PROVE  DtlsOK'
<1>1. PICK e, w, v : /\ e = Other(r.from) /\ w = World
                     /\ v = [net |-> net, got |-> got', randoms |-> randoms, done |-> done]
    OBVIOUS
<1>2. /\ w.net = net /\ w.got = got /\ w.randoms = randoms /\ w.done = done
      /\ v.net = net /\ v.got = got' /\ v.randoms = randoms /\ v.done = done
    BY <1>1 DEF World
<1>3. e \in Ends /\ r.from = Other(e) /\ RecordOK(r, w)
    BY <1>1 DEF DtlsOK, RecordsOK, RecordOK, Ends, Other
<1>4. PICK p, q, a : /\ p = Marked(peer[e], r) /\ q = queue[e]
                     /\ a = HandleRecord(Start(p, q, fail), r)
    OBVIOUS
<1>5. /\ peer[e] # None /\ Opens(peer[e], r)
      /\ Commit(e, a, consumed)
      /\ done' = IF e = "server" /\ a.p # None THEN done \cup ({a.p.sp0.key} \ {NoKey})
                 ELSE done
      /\ got' = Gets(e, r) /\ randoms' = randoms
    BY <1>1, <1>4 DEF HandlePeerRecord, Gets
<1>6. TookIn(e, r, w, v) /\ got'[Other(e)] = got[Other(e)]
    BY <1>1, <1>2, <1>3, <1>5, GetsTookIn
<1>7. /\ WorldOK(w) /\ PeerOK(e, peer[e], w) /\ StateOK(e, peer[e], w)
      /\ \A n \in q : NodeOK(e, n, w)
    BY <1>1, <1>3, <1>4, <1>5, Worlds
<1>8. randoms \in Nat
    BY DEF DtlsOK, TypeOK
<1>9. PeerOK(e, p, v) /\ p # None /\ StateOK(e, p, v)
    BY <1>3, <1>4, <1>5, <1>6, <1>7, MarkedKeeps
<1>10. /\ \A s : RecordOK(s, w) => RecordOK(s, v)
       /\ \A n : NodeOK(e, n, w) => NodeOK(e, n, v)
    BY <1>2, <1>8, RecordLater
<1>11. WorldOK(v) /\ RecordOK(r, v) /\ \A n \in q : NodeOK(e, n, v)
    BY <1>2, <1>3, <1>7, <1>8, <1>10 DEF WorldOK
<1>12. PICK b : b = Start(p, q, fail)
    OBVIOUS
<1>13. Core(e, b, v) /\ b.p = p /\ b.err = "ok"
    <2>1. Core(e, b, v)
        BY <1>3, <1>9, <1>11, <1>12, Started DEF WorldOK
    <2>2. b.p = p /\ b.err = "ok"
        BY <1>12 DEF Start
    <2>3. QED
        BY <2>1, <2>2
<1>14. Settled(e, a, v)
    BY <1>3, <1>4, <1>9, <1>11, <1>12, <1>13, HandleRecordKeeps
<1>15. Left(e, a, After) /\ done \subseteq done'
    <2>1. done \subseteq done'
        BY <1>5
    <2>2. /\ After.net = net /\ After.got = got' /\ After.randoms = randoms
          /\ After.done = done'
        BY <1>5 DEF After
    <2>3. CASE Left(e, a, v)
        <3>1. Core(e, a, After)
            BY <1>2, <1>8, <2>1, <2>2, <2>3, CoreLater DEF Left
        <3>2. a.p # None => StateOK(e, a.p, After)
            BY <1>2, <2>1, <2>2, <2>3 DEF Left, StateOK
        <3>3. QED
            BY <2>1, <3>1, <3>2 DEF Left
    <2>4. CASE /\ e = "server" /\ a.p # None /\ a.p.sp0.epoch = 1
               /\ Left(e, a, Agreed(v, a.p.sp0.key))
        <3>1. PICK k, u : k = a.p.sp0.key /\ u = Agreed(v, k)
            OBVIOUS
        <3>2. Core(e, a, u)
            BY <2>4, <3>1 DEF Left
        <3>3. k # NoKey
            <4>1. SecurityOK(e, a.p.sp0, Seen(u, a.out))
                BY <2>4, <3>2 DEF Core, PeerOK
            <4>2. Len(NoKey) = 0
                BY EmptySequence DEF NoKey
            <4>3. QED
                BY <2>4, <3>1, <4>1, <4>2 DEF SecurityOK, KeyOK
        <3>4. done' = done \cup {k}
            BY <1>5, <2>4, <3>1, <3>3
        <3>5. After = u
            BY <1>2, <1>5, <3>1, <3>4 DEF After, Agreed
        <3>6. QED
            BY <2>1, <2>4, <3>1, <3>5
    <2>5. QED
        BY <1>14, <2>3, <2>4 DEF Settled
<1>16. Leaves(e, a.p, a.q, a.out)
    BY <1>15 DEF Leaves, Left, Core
<1>17. /\ peer' = [peer EXCEPT ![e] = a.p] /\ queue' = [queue EXCEPT ![e] = a.q]
       /\ net' \subseteq net \cup a.out
    BY <1>5 DEF Commit
<1>18. RecordsOK' /\ EndsOK'
    <2>1. randoms' \in Nat /\ randoms <= randoms'
        BY <1>5, <1>8
    <2>2. PICK x, y, z : x = a.p /\ y = a.q /\ z = a.out
        OBVIOUS
    <2>3. /\ Leaves(e, x, y, z) /\ net' \subseteq net \cup z
          /\ peer' = [peer EXCEPT ![e] = x] /\ queue' = [queue EXCEPT ![e] = y]
        BY <1>16, <1>17, <2>2
    <2>4. QED
        BY <1>3, <1>6, <1>15, <2>1, <2>3, CommitKeeps
<1>19. \A s \in net' : s.type = "data" => s \in net
    BY <1>15, <1>17 DEF Left, Core
<1>20. PayloadsOK' /\ GotOK' /\ got' \in [Ends -> Seq(Nat)]
    BY <1>3, <1>5, <1>19, GetsKeeps
<1>21. TypeOK'
    <2>1. peer' = [f \in Ends |-> peer'[f]] /\ queue' = [f \in Ends |-> queue'[f]]
        BY <1>17 DEF DtlsOK, TypeOK
    <2>2. QED
        BY <1>5, <1>20, <2>1 DEF DtlsOK, TypeOK
<1>22. QED
    BY <1>18, <1>20, <1>21 DEF DtlsOK


-----------------------------------------------------------------------------
(* What is sent again *)

\* dtls_retransmit: the copy under the next number of its parameters
LEMMA ResentKeeps ==
    ASSUME NEW e \in Ends, NEW w, WorldOK(w), NEW p, PeerOK(e, p, w), StateOK(e, p, w),
           NEW n, NodeOK(e, n, w), n.type # "alert",
           NEW q, \A k \in q : NodeOK(e, k, w),
           NEW sp, sp = ParamsEpoch(p, n.epoch), sp # "none"
    PROVE  LET r == Record(e, p[sp], n.type, n.body)
           IN  Left(e, [Start([p EXCEPT ![sp].rseq = @ + 1], q, 0) EXCEPT !.out = {r}], w)
<1>1. PICK r, z, t : /\ r = Record(e, p[sp], n.type, n.body)
                     /\ z = [p EXCEPT ![sp].rseq = @ + 1]
                     /\ t = p[sp]
    OBVIOUS
<1>2. \/ sp = "sp0" /\ t = p.sp0 /\ t.epoch = n.epoch
      \/ sp = "sp1" /\ t = p.sp1 /\ t # None /\ t.epoch = n.epoch
    BY <1>1 DEF ParamsEpoch
<1>3. SecurityOK(e, t, w)
    BY <1>2 DEF PeerOK
<1>4. /\ r.from = e /\ r.type = n.type /\ r.epoch = n.epoch /\ r.epoch = t.epoch
      /\ r.key = t.key /\ r.seq = t.rseq /\ r.body = n.body
      /\ r = [from |-> r.from, type |-> r.type, epoch |-> r.epoch, key |-> r.key,
              seq |-> r.seq, body |-> r.body]
    BY <1>1, <1>2 DEF Record
<1>5. RecordOK(r, w) /\ r.type # "data"
    BY <1>3, <1>4 DEF RecordOK, NodeOK, SecurityOK
<1>6. PeerOK(e, z, Seen(w, {r})) /\ StateOK(e, z, w)
    <2>1. CASE sp = "sp0"
        <3>1. z = [p EXCEPT !.sp0.rseq = @ + 1]
            BY <1>1, <2>1
        <3>2. PeerOK(e, z, Seen(w, {r})) /\ Like(p, z)
            BY <1>2, <1>4, <2>1, <3>1, NextNumber
        <3>3. StateOK(e, z, w)
            BY <3>2 DEF Like, StateOK, Unkeyed, Agreeing
        <3>4. QED
            BY <3>2, <3>3
    <2>2. CASE sp = "sp1"
        <3>1. z = [p EXCEPT !.sp1.rseq = @ + 1]
            BY <1>1, <2>2
        <3>2. /\ PeerOK(e, z, Seen(w, {r}))
              /\ z.state = p.state /\ z.hs = p.hs /\ z.sp0 = p.sp0 /\ z.sp1 # None
              /\ z.sp1.epoch = p.sp1.epoch /\ z.sp1.key = p.sp1.key
            BY <1>2, <1>4, <2>2, <3>1, NextNumberOther
        <3>3. p.sp1 # None
            BY <1>2, <2>2
        <3>4. StateOK(e, z, w)
            BY <3>2, <3>3 DEF StateOK, Unkeyed, Agreeing
        <3>5. QED
            BY <3>2, <3>4
    <2>3. QED
        BY <1>2, <2>1, <2>2
<1>7. PICK a, o : o = {r} /\ a = [Start(z, q, 0) EXCEPT !.out = o]
    OBVIOUS
<1>8. a = [p |-> z, q |-> q, out |-> o, fail |-> 0, err |-> "ok"]
    BY <1>7 DEF Start
<1>9. /\ a = [p |-> a.p, q |-> a.q, out |-> a.out, fail |-> a.fail, err |-> a.err]
      /\ a.p = z /\ a.q = q /\ a.out = o /\ a.err = "ok"
    BY <1>8
<1>10. z # None
    BY <1>6, NotNone
<1>11. Core(e, a, w)
    BY <1>4, <1>5, <1>6, <1>7, <1>9, <1>10 DEF Core
<1>12. QED
    BY <1>1, <1>6, <1>7, <1>9, <1>11 DEF Left

\* dtls_retransmit: one copy goes out under the parameters of its epoch.
LEMMA ResendStep ==
    ASSUME DtlsOK, NEW e \in Ends, NEW n \in queue[e], Resend(e, n),
           UNCHANGED <<randoms, writes, got, done>>
    PROVE  DtlsOK'
<1>1. PICK w, p, q : w = World /\ p = peer[e] /\ q = queue[e]
    OBVIOUS
<1>2. /\ WorldOK(w) /\ After = w /\ w.randoms \in Nat
      /\ \A k \in q : NodeOK(e, k, w)
      /\ p # None /\ PeerOK(e, p, w) /\ StateOK(e, p, w)
    BY <1>1, Worlds DEF WorldOK
<1>3. ASSUME NEW a, Left(e, a, w), Commit(e, a, {}) PROVE DtlsOK'
    <2>1. randoms' \in Nat /\ randoms <= randoms' /\ done \subseteq done'
        BY DEF DtlsOK, TypeOK
    <2>2. QED
        BY <1>2, <1>3, <2>1, CommitStep
<1>4. ASSUME NEW k, \A m \in k : NodeOK(e, m, w)
      PROVE  Core(e, Start(p, k, 0), w) /\ Left(e, Start(p, k, 0), w)
    <2>1. Core(e, Start(p, k, 0), w)
        BY <1>2, <1>4, Started
    <2>2. Start(p, k, 0).p = p
        BY DEF Start
    <2>3. QED
        BY <1>2, <2>1, <2>2 DEF Left
<1>5. PICK sp, again, rest, both : /\ sp = ParamsEpoch(p, n.epoch)
                                   /\ again = [n EXCEPT !.cnt = @ + 1]
                                   /\ rest = q \ {n} /\ both = rest \cup {again}
    OBVIOUS
<1>6. NodeOK(e, n, w) /\ NodeOK(e, again, w)
    <2>1. NodeOK(e, n, w)
        BY <1>1, <1>2
    <2>2. PICK i, j, k, l : i = n.type /\ j = n.epoch /\ k = n.body /\ l = n.cnt
        OBVIOUS
    <2>3. n = [type |-> i, epoch |-> j, body |-> k, cnt |-> l]
        BY <2>1, <2>2 DEF NodeOK
    <2>4. again = [type |-> i, epoch |-> j, body |-> k, cnt |-> l + 1]
        BY <1>5, <2>3
    <2>5. NodeOK(e, again, w)
        BY <2>1, <2>2, <2>4 DEF NodeOK
    <2>6. QED
        BY <2>1, <2>5
<1>7. (\A k \in rest : NodeOK(e, k, w)) /\ (\A k \in both : NodeOK(e, k, w))
    BY <1>2, <1>5, <1>6
<1>8. CASE n.cnt = MaxRetransmit
    <2>1. Commit(e, Start(p, rest, 0), {})
        BY <1>1, <1>5, <1>8 DEF Resend
    <2>2. QED
        BY <1>3, <1>4, <1>7, <2>1
<1>9. CASE n.cnt # MaxRetransmit /\ n.type = "alert"
    <2>1. PICK a, d : a = Start(p, rest, 0) /\ d = n.body.t
        OBVIOUS
    <2>2. Commit(e, HandleAlert(a, d), {})
        BY <1>1, <1>5, <1>9, <2>1 DEF Resend
    <2>3. Core(e, a, w) /\ a.p # None /\ a.err = "ok"
        <3>1. a.p = p /\ a.err = "ok"
            BY <2>1 DEF Start
        <3>2. QED
            BY <1>2, <1>4, <1>7, <2>1, <3>1
    <2>4. Left(e, HandleAlert(a, d), w)
        BY <1>2, <2>3, HandleAlertKeeps DEF Left
    <2>5. QED
        BY <1>3, <2>2, <2>4
<1>10. CASE n.cnt # MaxRetransmit /\ n.type # "alert" /\ sp = "none"
    <2>1. Commit(e, Start(p, both, 0), {})
        BY <1>1, <1>5, <1>10 DEF Resend
    <2>2. QED
        BY <1>3, <1>4, <1>7, <2>1
<1>11. CASE n.cnt # MaxRetransmit /\ n.type # "alert" /\ sp # "none"
    <2>1. PICK a : a = [Start([p EXCEPT ![sp].rseq = @ + 1], both, 0)
                          EXCEPT !.out = {Record(e, p[sp], n.type, n.body)}]
        OBVIOUS
    <2>2. Left(e, a, w)
        BY <1>2, <1>5, <1>6, <1>7, <1>11, <2>1, ResentKeeps
    <2>3. Commit(e, a, {})
        BY <1>1, <1>5, <1>11, <2>1 DEF Resend
    <2>4. QED
        BY <1>3, <2>2, <2>3
<1>12. QED
    BY <1>8, <1>9, <1>10, <1>11

-----------------------------------------------------------------------------
(* The invariant *)

\* Before anything is sent
LEMMA InitOK == ASSUME Init PROVE DtlsOK
<1>1. PICK nil, w : nil = <<>> /\ w = World
    OBVIOUS
<1>2. /\ w.net = {} /\ w.randoms = 0 /\ w.got = got
    BY <1>1 DEF Init, World
<1>3. nil \in Seq(Nat) /\ Len(nil) = 0
    BY <1>1
<1>4. /\ peer = [e \in Ends |-> None] /\ queue = [e \in Ends |-> {}]
      /\ got = [e \in Ends |-> nil] /\ writes = [e \in Ends |-> 0]
      /\ net = {} /\ randoms = 0 /\ done = {}
    BY <1>1 DEF Init
<1>5. TypeOK
    BY <1>3, <1>4 DEF TypeOK
<1>6. RecordsOK /\ PayloadsOK
    BY <1>4 DEF RecordsOK, PayloadsOK
<1>7. \A e \in Ends : Len(got[e]) = 0 /\ got[e] = nil
    BY <1>3, <1>4
<1>8. GotOK
    <2>1. \A e \in Ends : Taken(e, w) = {}
        BY <1>2 DEF Taken
    <2>2. HandedUpOnce
        BY <1>3, <1>7 DEF HandedUpOnce
    <2>3. QED
        BY <1>1, <1>7, <2>1, <2>2 DEF GotOK
<1>9. EndsOK
    <2>1. ASSUME NEW e \in Ends
          PROVE  Core(e, Start(peer[e], queue[e], 0), w) /\ peer[e] = None
        <3>1. peer[e] = None /\ queue[e] = {}
            BY <1>4
        <3>2. QED
            BY <1>2, <3>1, Started
    <2>2. QED
        BY <1>1, <2>1 DEF EndsOK
<1>10. QED
    BY <1>5, <1>6, <1>8, <1>9 DEF DtlsOK

\* A datagram arrives, whichever it is.
LEMMA ArriveStep ==
    ASSUME DtlsOK, NEW r \in net, NEW fail, NEW consumed, Arrive(r, fail, consumed),
           writes' = writes
    PROVE  DtlsOK'
<1>1. CASE ClientHello0(r)
    <2>1. got' = got /\ done' = done
        BY <1>1 DEF Arrive
    <2>2. CASE HandleClientHello(r, consumed)
        <3>1. PICK out : out = {HelloVerifyRequest(r)}
            OBVIOUS
        <3>2. net' \subseteq net \cup out /\ UNCHANGED <<peer, queue, randoms>>
            BY <2>2, <3>1 DEF HandleClientHello
        <3>3. \A x \in out : RecordOK(x, World) /\ x.from = "server" /\ x.type # "data"
                             /\ x.epoch = 0
            BY <1>1, <3>1, Answers
        <3>4. QED
            BY <2>1, <3>2, <3>3, AnswerStep
    <2>3. CASE HandleVerifiedClientHello(r, fail, consumed)
        BY <1>1, <2>1, <2>3, VerifiedStep
    <2>4. QED
        BY <1>1, <2>2, <2>3 DEF Arrive
<1>2. CASE ~ClientHello0(r)
    <2>1. CASE HandlePeerRecord(Other(r.from), r, fail, consumed)
        BY <1>2, <2>1, PeerRecordStep
    <2>2. CASE Drop(Other(r.from), r, consumed)
        <3>1. PICK out : out = {}
            OBVIOUS
        <3>2. net' \subseteq net \cup out /\ UNCHANGED <<peer, queue, randoms, got, done>>
            BY <2>2 DEF Drop
        <3>3. \A x \in out : RecordOK(x, World) /\ x.from = "server" /\ x.type # "data"
                             /\ x.epoch = 0
            BY <3>1
        <3>4. QED
            BY <3>2, <3>3, AnswerStep
    <2>3. QED
        BY <1>2, <2>1, <2>2 DEF Arrive
<1>3. QED
    BY <1>1, <1>2

\* The steps of one end that send no record of another's
LEMMA NothingSent ==
    ASSUME DtlsOK, net' \subseteq net, UNCHANGED <<peer, queue, randoms, writes, got, done>>
    PROVE  DtlsOK'
<1>1. PICK out : out = {}
    OBVIOUS
<1>2. net' \subseteq net \cup out
    BY <1>1
<1>3. \A x \in out : RecordOK(x, World) /\ x.from = "server" /\ x.type # "data"
                     /\ x.epoch = 0
    BY <1>1
<1>4. QED
    BY <1>2, <1>3, AnswerStep

\* The invariant is inductive.
LEMMA NextOK == ASSUME DtlsOK, [Next]_vars PROVE DtlsOK'
<1>1. randoms \in Nat /\ writes \in [Ends -> Nat]
    BY DEF DtlsOK, TypeOK
<1>2. CASE ConnectionSend
    <2>1. got' = got /\ done' = done
        BY <1>2 DEF ConnectionSend
    <2>2. PICK fail \in Fails \cap {0, 1} :
              \/ /\ randoms' = randoms + 1
                 /\ Commit("client", Connect(fail), {})
                 /\ UNCHANGED writes
              \/ /\ ~NeedsConnect /\ peer["client"].state = "CONNECTED"
                 /\ writes' = [writes EXCEPT !["client"] = @ + 1]
                 /\ Commit("client",
                           Send(Start(peer["client"], queue["client"], fail), "data",
                                Content("data", writes["client"] + 1)), {})
                 /\ UNCHANGED randoms
              \/ UNCHANGED <<peer, queue, net, nat, randoms, writes>>
        BY <1>2 DEF ConnectionSend
    <2>3. CASE /\ randoms' = randoms + 1
               /\ Commit("client", Connect(fail), {})
               /\ UNCHANGED writes
        <3>1. Left("client", Connect(fail), After)
            BY <2>1, <2>3, ConnectLeft
        <3>2. randoms' \in Nat /\ randoms <= randoms' /\ done \subseteq done'
            BY <1>1, <2>1, <2>3
        <3>3. QED
            BY <2>1, <2>3, <3>1, <3>2, CommitStep DEF Ends
    <2>4. CASE /\ ~NeedsConnect /\ peer["client"].state = "CONNECTED"
               /\ writes' = [writes EXCEPT !["client"] = @ + 1]
               /\ Commit("client",
                         Send(Start(peer["client"], queue["client"], fail), "data",
                              Content("data", writes["client"] + 1)), {})
               /\ UNCHANGED randoms
        <3>1. peer["client"] # None
            BY <2>4 DEF NeedsConnect
        <3>2. QED
            BY <2>1, <2>4, <3>1, DataStep DEF Ends
    <2>5. CASE UNCHANGED <<peer, queue, net, nat, randoms, writes>>
        BY <2>1, <2>5, NothingSent
    <2>6. QED
        BY <2>2, <2>3, <2>4, <2>5
<1>3. CASE ServerWrite
    BY <1>3, DataStep DEF ServerWrite, Ends
<1>4. CASE Pause
    BY <1>4, NothingSent DEF Pause
<1>5. CASE Quit
    <2>1. UNCHANGED <<randoms, writes, got, done>>
        BY <1>5 DEF Quit
    <2>2. CASE peer["client"] = None
        BY <1>5, <2>1, <2>2, NothingSent DEF Quit
    <2>3. CASE peer["client"] # None
        <3>1. PICK w, p, q, a : /\ w = World /\ p = peer["client"] /\ q = queue["client"]
                                /\ a = Start(p, q, 0)
            OBVIOUS
        <3>2. /\ WorldOK(w) /\ After = w /\ w.randoms \in Nat
              /\ \A k \in q : NodeOK("client", k, w)
              /\ p # None /\ PeerOK("client", p, w)
            BY <2>1, <2>3, <3>1, Worlds DEF WorldOK, Ends
        <3>3. Core("client", a, w) /\ a.p # None /\ a.err = "ok"
            <4>1. Core("client", a, w)
                BY <3>1, <3>2, Started DEF Ends
            <4>2. a.p = p /\ a.err = "ok"
                BY <3>1 DEF Start
            <4>3. QED
                BY <3>2, <4>1, <4>2
        <3>4. Left("client", DestroyClose(a), After)
            BY <3>2, <3>3, DestroyCloseKeeps DEF Left, Ends
        <3>5. Commit("client", DestroyClose(a), {})
            BY <1>5, <2>3, <3>1 DEF Quit
        <3>6. randoms' \in Nat /\ randoms <= randoms' /\ done \subseteq done'
            BY <1>1, <2>1
        <3>7. QED
            BY <2>1, <3>4, <3>5, <3>6, CommitStep DEF Ends
    <2>4. QED
        BY <2>2, <2>3
<1>6. CASE Deliver
    <2>1. PICK r \in net, fail \in Fails : Arrive(r, fail, {r})
        BY <1>6 DEF Deliver
    <2>2. writes' = writes
        BY <1>6 DEF Deliver
    <2>3. QED
        BY <2>1, <2>2, ArriveStep
<1>7. CASE Repeat
    <2>1. PICK r \in net : Arrive(r, 0, {})
        BY <1>7 DEF Repeat
    <2>2. writes' = writes
        BY <1>7 DEF Repeat
    <2>3. QED
        BY <2>1, <2>2, ArriveStep
<1>8. CASE Lose
    <2>1. net' \subseteq net /\ UNCHANGED <<peer, queue, randoms, writes, got, done>>
        BY <1>8 DEF Lose
    <2>2. QED
        BY <2>1, NothingSent
<1>9. CASE CheckRetransmit
    <2>1. PICK e \in Resending : \E n \in queue[e] : Resend(e, n)
        BY <1>9 DEF CheckRetransmit
    <2>2. PICK n \in queue[e] : Resend(e, n)
        BY <2>1
    <2>3. e \in Ends
        BY DtlsAssumption
    <2>4. UNCHANGED <<randoms, writes, got, done>>
        BY <1>9 DEF CheckRetransmit
    <2>5. QED
        BY <2>2, <2>3, <2>4, ResendStep
<1>10. CASE UNCHANGED vars
    BY <1>10, NothingSent DEF vars
<1>11. QED
    BY <1>2, <1>3, <1>4, <1>5, <1>6, <1>7, <1>8, <1>9, <1>10 DEF Next


\* Between the entries of the library each end has what its state says, and what is on
\* the way was sent under numbers that are not used again.
THEOREM Invariance == Spec => []DtlsOK
<1>1. Init => DtlsOK
    BY InitOK
<1>2. DtlsOK /\ [Next]_vars => DtlsOK'
    BY NextOK
<1>3. QED
    BY <1>1, <1>2, PTL DEF Spec

-----------------------------------------------------------------------------
(* Theorems *)

\* A client that takes itself for connected has the key of a handshake whose Finished
\* the server found right: handle_handshake_msg lets no handshake end on messages of two.
THEOREM Agreement == Spec => []ConnectedIsAgreed
<1>1. DtlsOK => ConnectedIsAgreed
    <2>1. SUFFICES ASSUME DtlsOK, peer["client"] # None, peer["client"].state = "CONNECTED"
                   PROVE  peer["client"].sp0.key \in done
        BY DEF ConnectedIsAgreed
    <2>2. StateOK("client", peer["client"], World) /\ World.done = done
        BY <2>1, Worlds DEF Ends
    <2>3. QED
        BY <2>1, <2>2 DEF StateOK
<1>2. QED
    BY <1>1, Invariance, PTL

\* However often a record comes and whatever handshakes come in between, its payload is
\* handed to the application once: dtls_handle_message drops what its window has.
THEOREM AtMostOnce == Spec => []HandedUpOnce
<1>1. DtlsOK => HandedUpOnce
    BY DEF DtlsOK, GotOK
<1>2. QED
    BY <1>1, Invariance, PTL

\* Copies belong to a peer there is, and no number is given twice under a key:
\* dtls_retransmit and dtls_send_multi count on from what was sent.
THEOREM SoundCopies == Spec => []CopiesAreSound
<1>1. DtlsOK => CopiesAreSound
    <2>1. SUFFICES ASSUME DtlsOK PROVE CopiesAreSound
        OBVIOUS
    <2>2. \A e \in Ends : peer[e] = None => queue[e] = {}
        BY <2>1, Worlds
    <2>3. ASSUME NEW r \in net, peer[r.from] # None, r.key # NoKey,
                 NEW sp \in {peer[r.from].sp0, peer[r.from].sp1} \ {None}, sp.key = r.key
          PROVE  r.seq < sp.rseq
        <3>1. PICK w, e : w = World /\ e = r.from
            OBVIOUS
        <3>2. RecordOK(r, w)
            BY <2>1, <3>1 DEF DtlsOK, RecordsOK
        <3>3. e \in Ends /\ r.epoch = 1
            BY <2>3, <3>1, <3>2 DEF RecordOK
        <3>4. r \in Mine(e, w)
            BY <3>1, <3>3, <2>1, Worlds DEF Mine
        <3>5. PeerOK(e, peer[e], w)
            BY <2>1, <2>3, <3>1, <3>3, Worlds
        <3>6. SecurityOK(e, sp, w)
            BY <2>3, <3>1, <3>5 DEF PeerOK
        <3>7. QED
            BY <2>3, <3>4, <3>6 DEF SecurityOK
    <2>4. QED
        BY <2>2, <2>3 DEF CopiesAreSound
<1>2. QED
    BY <1>1, Invariance, PTL
=============================================================================
