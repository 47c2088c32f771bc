-------------------------------- MODULE Dtls --------------------------------
(***************************************************************************)
(* The DTLS connection of lwm2mclient_tinydtls: dtlsconnection.c over      *)
(* tinydtls, with a server that is built on the same library, between      *)
(* which datagrams are lost, repeated, delayed and reordered.              *)
(*                                                                         *)
(* The callbacks of dtlsconnection.c offer a pre-shared key and no hint,   *)
(* so the handshake is ClientHello, HelloVerifyRequest, ClientHello,       *)
(* ServerHello, ServerHelloDone, then ClientKeyExchange, ChangeCipherSpec  *)
(* and Finished of the client, then those of the server.  Each record is a *)
(* datagram of its own.  Both have the right key; memory does not run out. *)
(*                                                                         *)
(* Cryptography is modelled by what it does: a random number is one never  *)
(* used before, a hash is the sequence of what was hashed, a key is the    *)
(* transcript it is made from, and a record opens under the key that       *)
(* closed it only.  Time is two things: an end may resend, and 40 seconds  *)
(* may pass without a send.                                                *)
(***************************************************************************)
EXTENDS Integers, Sequences, ReplayWindow

CONSTANTS
    Resending,      \* the ends whose program calls dtls_check_retransmit
    MaxRetransmit,  \* DTLS_DEFAULT_MAX_RETRANSMIT
    MaxTries,       \* how often the client sends before it pauses
    MaxRandoms,     \* bound: random numbers made by both
    MaxWrites,      \* bound: payloads an end sends in records
    MaxFaults       \* bound: losses, repetitions, failing and early sends

\* NULL: no peer has this role, no parameters this epoch, no handshake this one.
None == [role |-> "none", epoch |-> -1, readEpoch |-> -1]

Ends == {"client", "server"}
Other(e) == IF e = "client" THEN "server" ELSE "client"

ASSUME DtlsAssumption ==
    /\ Resending \subseteq Ends
    /\ {MaxRetransmit, MaxTries, MaxRandoms, MaxFaults} \subseteq Nat
    /\ MaxWrites \in [Ends -> Nat]

VARIABLES
    peer,    \* the dtls_peer_t each context has for the other
    queue,   \* sendqueue of each context
    net,     \* records on the way; identical ones are one
    nat,     \* connP->lastSend is more than DTLS_NAT_TIMEOUT ago
    tries,   \* sends left until the client's application pauses
    gone,    \* the client has quit
    randoms, \* random numbers made so far
    writes,  \* payloads each end has sent
    faults,  \* what went wrong so far
    got,     \* history: the payloads handed to each application
    done     \* history: the keys of handshakes the server found right

vars == <<peer, queue, net, nat, tries, gone, randoms, writes, faults, got, done>>

-----------------------------------------------------------------------------
(* Records and what the ends remember. *)

\* A handshake message: header and content; what a type lacks is 0 or empty.
Message(t, mseq, rnd, cookie, hash) ==
    [t |-> t, mseq |-> mseq, rnd |-> rnd, cookie |-> cookie, hash |-> hash]

\* Other content: an alert's description, or the number of a payload.
Content(t, n) == Message(t, n, 0, 0, <<>>)

NoKey == <<>>
NewSecurity(epoch, key) == [epoch |-> epoch, key |-> key, rseq |-> 0, win |-> NewWindow]
NewHandshake(mseq) ==
    [mseqR |-> mseq, mseqS |-> mseq, readEpoch |-> 0, random |-> 0, hash |-> <<>>,
     ext |-> <<>>, reorder |-> {}]

\* dtls_new_peer with the role and the handshake its maker gives it
NewPeer(role) ==
    [role |-> role, state |-> "INIT", sp0 |-> NewSecurity(0, NoKey), sp1 |-> None,
     hs |-> NewHandshake(0)]

\* dtls_security_params_epoch, dtls_security_params_read_epoch: which one it is
ParamsEpoch(p, epoch) ==
    CASE p.sp0.epoch = epoch -> "sp0"
      [] p.sp0.epoch # epoch /\ p.sp1 # None -> IF p.sp1.epoch = epoch THEN "sp1" ELSE "none"
      [] OTHER -> "none"

ReadEpoch(p, epoch) ==
    IF p.hs # None THEN IF p.hs.readEpoch = epoch THEN ParamsEpoch(p, epoch) ELSE "none"
    ELSE IF p.sp0.epoch = epoch THEN "sp0" ELSE "none"

\* dtls_security_params_next as calculate_key_block fills it, _switch, _free_other
NextParams(p) == [p EXCEPT !.sp1 = NewSecurity(p.sp0.epoch + 1, p.hs.ext)]
SwitchParams(p) == [p EXCEPT !.sp0 = p.sp1, !.sp1 = p.sp0]
FreeOther(p) ==
    IF p.sp1 # None /\ p.sp0.epoch >= p.sp1.epoch THEN [p EXCEPT !.sp1 = None] ELSE p

-----------------------------------------------------------------------------
(***************************************************************************)
(* Handlers work on the peer, the queue and the records to send.  fail is  *)
(* how many writes are left until one fails, 0 when none does, and err is  *)
(* what the handler returns: "fatal" an alert, "failed" -1.                *)
(***************************************************************************)

Start(p, q, fail) == [p |-> p, q |-> q, out |-> {}, fail |-> fail, err |-> "ok"]

\* dtls_prepare_record: the record is closed with the key of its parameters.
Record(from, sp, type, body) ==
    [from |-> from, type |-> type, epoch |-> sp.epoch, key |-> sp.key, seq |-> sp.rseq,
     body |-> body]

\* netq_node_new: what is kept to be sent again
Node(sp, type, body) == [type |-> type, epoch |-> sp.epoch, body |-> body, cnt |-> 0]

\* dtls_send_multi: the record, a copy for the retransmit buffer, and the write
Send(a, type, body) ==
    LET sp == a.p.sp0
    IN  IF a.err # "ok" THEN a
        ELSE [p |-> [a.p EXCEPT !.sp0.rseq = @ + 1],
              q |-> IF type \in {"handshake", "ccs"} THEN a.q \cup {Node(sp, type, body)}
                    ELSE a.q,
              out |-> IF a.fail = 1 THEN a.out ELSE a.out \cup {Record(a.p.role, sp, type, body)},
              fail |-> a.fail - 1,
              err |-> IF a.fail = 1 THEN "failed" ELSE "ok"]

\* dtls_send_handshake_msg_hash
SendHandshake(a, t, rnd, cookie, hash) ==
    IF a.err # "ok" THEN a
    ELSE LET m == Message(t, a.p.hs.mseqS, rnd, cookie, hash)
         IN  Send([a EXCEPT !.p.hs.mseqS = @ + 1, !.p.hs.hash = Append(@, m)], "handshake", m)

\* dtls_send_client_hello: the random number is that of the first one.
SendClientHello(a, cookie) ==
    SendHandshake([a EXCEPT !.p.hs.random = IF cookie = 0 THEN randoms + 1 ELSE @,
                            !.p.hs.readEpoch = a.p.sp0.epoch,
                            !.p.hs.hash = <<>>],
                  "client_hello", IF cookie = 0 THEN randoms + 1 ELSE a.p.hs.random, cookie, <<>>)

\* dtls_send_finished: what was hashed, and the label of who sends it
Labelled(hash, role) == Append(hash, Content(role, 0))
SendFinished(a) ==
    IF a.err # "ok" THEN a
    ELSE SendHandshake(a, "finished", 0, 0, Labelled(a.p.hs.hash, a.p.role))

\* dtls_send_alert: its result is not looked at; a copy stands for a timeout.
SendAlert(a, description) ==
    LET alert == Content(description, 0)
    IN  [Send(a, "alert", alert) EXCEPT !.q = @ \cup {Node(a.p.sp0, "alert", alert)},
                                        !.err = "ok"]

\* dtls_destroy_peer for a peer that is closed or closing, or not to be told:
\* dtls_stop_retransmission takes every node of the session.
Destroy(a) == [a EXCEPT !.p = None, !.q = {}]

\* dtls_destroy_peer with DTLS_DESTROY_CLOSE for one that is not, dtls_close
DestroyClose(a) ==
    Destroy(IF a.p.state \in {"CLOSED", "CLOSING"} THEN a
            ELSE SendAlert([a EXCEPT !.p.state = "CLOSING"], "close_notify"))

-----------------------------------------------------------------------------
(* Handshake messages. *)

Fatal(a) == [a EXCEPT !.err = "fatal"]
Hashed(a, m) == [a EXCEPT !.p.hs.hash = Append(@, m)]
Then(a, state) == IF a.err = "ok" THEN [a EXCEPT !.p.state = state] ELSE a

\* check_server_hello_verify_request, check_server_hello
CheckHelloVerifyRequest(a, m) == SendClientHello(a, m.cookie)
CheckServerHello(a, m) == Hashed(a, m)

\* dtls_send_client_key_exchange
SendClientKeyExchange(a) == SendHandshake(a, "client_key_exchange", 0, 0, <<>>)

\* dtls_send_ccs
SendCcs(a) == Send(a, "ccs", Content("ccs", 0))

\* The parameters made from the hash so far, and those that then count
Keyed(a) ==
    IF a.err = "ok" THEN [a EXCEPT !.p = NextParams([@ EXCEPT !.hs.ext = a.p.hs.hash])] ELSE a
Switched(a) == IF a.err = "ok" THEN [a EXCEPT !.p = SwitchParams(@)] ELSE a

\* check_server_hellodone
CheckServerHelloDone(a, m) ==
    SendFinished(Switched(SendCcs(Keyed(SendClientKeyExchange(Hashed(a, m))))))

\* check_finished: the label is the other's.
CheckFinished(p, m) == m.hash = Labelled(p.hs.hash, Other(p.role))

\* What the server sends when the client's Finished is right
ServerFinishes(a, m) == SendFinished(Switched(SendCcs(Hashed(a, m))))

Completed(a) ==
    IF a.err = "ok" THEN [a EXCEPT !.p.hs = None, !.p.state = "CONNECTED"] ELSE a

HandleFinished(a, m) ==
    IF ~CheckFinished(a.p, m) THEN Fatal(a)
    ELSE Completed(IF a.p.role = "server" THEN ServerFinishes(a, m) ELSE a)

\* The state in which each message is expected
Expected == [hello_verify_request |-> "CLIENTHELLO",
             server_hello |-> "CLIENTHELLO",
             server_hello_done |-> "WAIT_SERVERHELLODONE",
             client_key_exchange |-> "WAIT_CLIENTKEYEXCHANGE",
             finished |-> "WAIT_FINISHED"]

\* check_client_keyexchange: the hash is kept for the extended master secret.
CheckClientKeyExchange(a, m) ==
    LET b == Hashed(a, m) IN [b EXCEPT !.p.hs.ext = b.p.hs.hash]

\* handle_handshake_msg, its switch
Dispatch(a, m) ==
    CASE a.p.state # Expected[m.t] -> Fatal(a)
      [] a.p.state = Expected[m.t] /\ m.t = "hello_verify_request" ->
             CheckHelloVerifyRequest(a, m)
      [] a.p.state = Expected[m.t] /\ m.t = "server_hello" ->
             Then(CheckServerHello(a, m), "WAIT_SERVERHELLODONE")
      [] a.p.state = Expected[m.t] /\ m.t = "server_hello_done" ->
             Then(CheckServerHelloDone(a, m), "WAIT_CHANGECIPHERSPEC")
      [] a.p.state = Expected[m.t] /\ m.t = "client_key_exchange" ->
             Then(CheckClientKeyExchange(a, m), "WAIT_CHANGECIPHERSPEC")
      [] OTHER -> HandleFinished(a, m)

\* handle_handshake_msg: copies of what was sent before are dropped first, and a
\* message is counted unless it was the last.
Counted(a) == IF a.err = "ok" /\ a.p.hs # None THEN [a EXCEPT !.p.hs.mseqR = @ + 1] ELSE a
HandleMessage(a, m) == Counted(Dispatch([a EXCEPT !.q = {}], m))

\* The messages that were ahead are taken as their turn comes: of a handshake an
\* end gets four at most, and the one that lets them in is one of those.
TakeTurn(a) ==
    LET due == IF a.err # "ok" \/ a.p.hs = None THEN {}
               ELSE {m \in a.p.hs.reorder : m.mseq = a.p.hs.mseqR}
    IN  IF due = {} THEN a
        ELSE LET m == CHOOSE m \in due : TRUE
             IN  HandleMessage([a EXCEPT !.p.hs.reorder = @ \ {m}], m)

Drain(a) == TakeTurn(TakeTurn(TakeTurn(a)))

\* handle_handshake
HandleHandshake(a, m) ==
    LET hs == a.p.hs
    IN  CASE hs = None -> a
          [] hs # None /\ m.mseq < hs.mseqR -> a
          [] hs # None /\ m.mseq > hs.mseqR ->
                 IF \E n \in hs.reorder : n.mseq = m.mseq THEN a
                 ELSE [a EXCEPT !.p.hs.reorder = @ \cup {m}]
          [] OTHER -> Drain(HandleMessage(a, m))

-----------------------------------------------------------------------------
(* Records of a peer. *)

\* Mutant: the client does not wait for the server's Finished.
MutHandleCcs(a) ==
    IF a.p.state # "WAIT_CHANGECIPHERSPEC" THEN a
    ELSE IF a.p.role = "client" THEN [a EXCEPT !.p.hs = None, !.p.state = "CONNECTED"]
    ELSE [a EXCEPT !.p = [NextParams(a.p) EXCEPT !.hs.readEpoch = @ + 1,
                                                 !.state = "WAIT_FINISHED"]]

\* handle_ccs: the server makes its key now.
HandleCcs(a) ==
    IF a.p.state # "WAIT_CHANGECIPHERSPEC" THEN a
    ELSE LET p == IF a.p.role = "server" THEN NextParams(a.p) ELSE a.p
         IN  [a EXCEPT !.p = [p EXCEPT !.hs.readEpoch = @ + 1, !.state = "WAIT_FINISHED"]]

\* handle_alert: every description but close_notify is sent as fatal here. The
\* peer is off the list before it is destroyed, so dtls_close does not find it.
HandleAlert(a, description) ==
    IF description = "close_notify" /\ a.p.state # "CLOSING"
    THEN Destroy(SendAlert([a EXCEPT !.p.state = "CLOSING"], "close_notify"))
    ELSE Destroy(a)

\* dtls_handle_message on a handshake record: dtls_alert_send_from_err, and the
\* end of the peer when the alert was fatal; -1 leaves it closing.
Alerted(a, description) ==
    SendAlert([a EXCEPT !.p.state = "CLOSING", !.err = "ok"], description)

AfterHandshake(a) ==
    CASE a.err = "fatal" -> Destroy(Alerted(a, "unexpected"))
      [] a.err = "failed" -> Alerted(a, "internal_error")
      [] OTHER -> IF a.p.state = "CONNECTED" THEN [a EXCEPT !.q = {}] ELSE a

HandshakeRecord(a, m) == AfterHandshake(HandleHandshake(a, m))

\* dtls_handle_message on what was decrypted. p is the peer with the record marked.
HandleRecord(a, r) ==
    CASE r.type = "ccs" -> HandleCcs(a)
      [] r.type = "handshake" -> HandshakeRecord(a, r.body)
      [] r.type = "alert" -> IF a.p.state = "WAIT_FINISHED" THEN a
                             ELSE HandleAlert(a, r.body.t)
      [] OTHER -> IF r.epoch = 0 \/ a.p.state = "WAIT_FINISHED" THEN a
                  ELSE [a EXCEPT !.q = {}]

\* The record opens: known epoch, not seen, and the key it was closed with.
Opens(p, r) ==
    /\ ReadEpoch(p, r.epoch) # "none"
    /\ ~Dropped(p[ReadEpoch(p, r.epoch)].win, r.seq)
    /\ p[ReadEpoch(p, r.epoch)].key = r.key

\* decrypt_verify lets the older parameters go once the newer ones opened a record.
Marked(p, r) ==
    LET sp == ReadEpoch(p, r.epoch)
        m == [p EXCEPT ![sp].win = Mark(@, r.seq)]
    IN  IF r.key = NoKey THEN m ELSE FreeOther(m)

\* A payload is handed up whatever the state but while a Finished is awaited.
HandsUp(e, r) ==
    /\ r.type = "data"
    /\ peer[e] # None
    /\ Opens(peer[e], r)
    /\ r.epoch # 0
    /\ peer[e].state # "WAIT_FINISHED"

-----------------------------------------------------------------------------
(* Actions.  One of them runs one entry of the library to its end. *)

Init ==
    /\ peer = [e \in Ends |-> None]
    /\ queue = [e \in Ends |-> {}]
    /\ net = {}
    /\ nat = FALSE
    /\ tries = MaxTries
    /\ gone = FALSE
    /\ randoms = 0
    /\ writes = [e \in Ends |-> 0]
    /\ faults = 0
    /\ got = [e \in Ends |-> <<>>]
    /\ done = {}

\* The write that fails: none, or, at the price of a fault, one of the three that
\* a handler makes at most.
Fails == IF faults < MaxFaults THEN 0..3 ELSE {0}

\* Timers run for seconds: it is a fault when one ends while records are under way.
Early == IF net # {} THEN 1 ELSE 0

\* What a handler of e leaves. A send of the client sets lastSend.
Commit(e, a, consumed) ==
    /\ peer' = [peer EXCEPT ![e] = a.p]
    /\ queue' = [queue EXCEPT ![e] = a.q]
    /\ net' = (net \ consumed) \cup a.out
    /\ nat' = IF e = "client" /\ a.out # {} THEN FALSE ELSE nat

\* dtls_connect_peer for a peer that is not in the list
Connect(fail) ==
    Then(SendClientHello(Start(NewPeer("client"), {}, fail), 0), "CLIENTHELLO")

\* Mutant: a session that has been silent is taken to be there.
MutNeedsConnect == peer["client"] = None

NeedsConnect == nat \/ peer["client"] = None

\* connection_send before the pause: with lastSend too old, connection_rehandshake,
\* whose result is above 0, so that the payload is not sent; else dtls_write, which
\* drops the payload while it connects. A send while records are under way is early.
ConnectionSend ==
    /\ ~gone
    /\ tries > 0
    /\ tries' = tries - 1
    /\ \E fail \in Fails \cap {0, 1} :
          LET connects == NeedsConnect
              connected == ~connects /\ peer["client"].state = "CONNECTED"
          IN  /\ faults + Early + fail <= MaxFaults
              /\ faults' = faults + Early + fail
              /\ \/ /\ connects
                    /\ randoms < MaxRandoms
                    /\ randoms' = randoms + 1
                    /\ Commit("client", Connect(fail), {})
                    /\ UNCHANGED writes
                 \/ /\ connected
                    /\ writes["client"] < MaxWrites["client"]
                    /\ writes' = [writes EXCEPT !["client"] = @ + 1]
                    /\ Commit("client",
                              Send(Start(peer["client"], queue["client"], fail), "data",
                                   Content("data", writes["client"] + 1)), {})
                    /\ UNCHANGED randoms
                 \/ /\ ~connects /\ ~connected /\ fail = 0
                    /\ UNCHANGED <<peer, queue, net, nat, randoms, writes>>
    /\ UNCHANGED <<gone, got, done>>

\* The server's application answers on the session, dtls_write.
ServerWrite ==
    /\ peer["server"] # None
    /\ peer["server"].state = "CONNECTED"
    /\ writes["server"] < MaxWrites["server"]
    /\ writes' = [writes EXCEPT !["server"] = @ + 1]
    /\ Commit("server", Send(Start(peer["server"], queue["server"], 0), "data",
                             Content("data", writes["server"] + 1)), {})
    /\ UNCHANGED <<tries, gone, randoms, faults, got, done>>

\* The client's application has nothing to send, or has given up, for more than
\* DTLS_NAT_TIMEOUT. Records do not stay under way that long but for a fault.
Pause ==
    /\ ~gone
    /\ tries = 0 \/ nat
    /\ tries < MaxTries
    /\ faults + Early <= MaxFaults
    /\ faults' = faults + Early
    /\ tries' = MaxTries
    /\ nat' = TRUE
    /\ UNCHANGED <<peer, queue, net, gone, randoms, writes, got, done>>

\* connection_free: dtls_free_context tells the peer, and the socket is closed.
Quit ==
    /\ ~gone
    /\ gone' = TRUE
    /\ IF peer["client"] = None THEN UNCHANGED <<peer, queue, net, nat>>
       ELSE Commit("client", DestroyClose(Start(peer["client"], queue["client"], 0)), {})
    /\ UNCHANGED <<tries, randoms, writes, faults, got, done>>

-----------------------------------------------------------------------------
(* Records that arrive.  One that is repeated stays on the way. *)

ClientHello0(r) == r.type = "handshake" /\ r.body.t = "client_hello"

\* dtls_create_cookie: a hash of the session and of the content, the random number
Cookie(m) == m.rnd

\* dtls_0_verify_peer: the ClientHello has the cookie made for it.
Verified(m) == m.cookie = Cookie(m)

\* dtls_0_send_hello_verify_request: without a peer, under the ClientHello's numbers
HelloVerifyRequest(r) ==
    [r EXCEPT !.from = "server",
              !.body = Message("hello_verify_request", r.body.mseq, 0, Cookie(r.body), <<>>)]

\* handle_0_client_hello
HandleClientHello(r, consumed) ==
    /\ ~Verified(r.body)
    /\ net' = (net \ consumed) \cup {HelloVerifyRequest(r)}
    /\ UNCHANGED <<peer, queue, nat, randoms>>

\* handle_0_verified_client_hello: a peer there is goes, whatever its state. The new
\* one begins with the numbers of the ClientHello.
VerifiedPeer(r) ==
    [NewPeer("server") EXCEPT
        !.sp0 = [@ EXCEPT !.rseq = r.seq, !.win = FullWindow(r.seq)],
        !.hs = [NewHandshake(r.body.mseq) EXCEPT !.hash = <<r.body>>]]

\* dtls_send_server_hello, and dtls_send_server_hello_msgs for a key without a hint
SendServerHello(a) == SendHandshake(a, "server_hello", randoms + 1, 0, <<>>)
SendServerHelloMsgs(a) ==
    SendHandshake(SendServerHello(a), "server_hello_done", 0, 0, <<>>)

\* dtls_0_send_alert_from_err
EphemeralAlert(r) ==
    [r EXCEPT !.from = "server", !.type = "alert", !.body = Content("internal_error", 0)]

HandleVerifiedClientHello(r, fail, consumed) ==
    /\ Verified(r.body)
    /\ randoms < MaxRandoms
    /\ randoms' = randoms + 1
    /\ \E a \in {SendServerHelloMsgs(Start(VerifiedPeer(r), {}, fail))} :
          \/ /\ a.err = "ok"
             /\ Commit("server", [a EXCEPT !.p.state = "WAIT_CLIENTKEYEXCHANGE",
                                           !.p.hs.mseqR = @ + 1], consumed)
          \/ /\ a.err # "ok"
             /\ Commit("server", [DestroyClose([a EXCEPT !.err = "ok"]) EXCEPT
                                    !.out = @ \cup {EphemeralAlert(r)}], consumed)

\* connection_handle_packet, dtls_handle_message for a record that opens
HandlePeerRecord(e, r, fail, consumed) ==
    /\ peer[e] # None
    /\ Opens(peer[e], r)
    /\ \E a \in {HandleRecord(Start(Marked(peer[e], r), queue[e], fail), r)} :
          /\ Commit(e, a, consumed)
          /\ done' = IF e = "server" /\ a.p # None
                     THEN done \cup ({a.p.sp0.key} \ {NoKey})
                     ELSE done
    /\ got' = IF HandsUp(e, r) THEN [got EXCEPT ![e] = Append(@, r.body.mseq)] ELSE got
    /\ UNCHANGED randoms

\* What does not open, or has no peer, is dropped.
Drop(e, r, consumed) ==
    /\ IF peer[e] = None THEN TRUE ELSE ~Opens(peer[e], r)
    /\ net' = net \ consumed
    /\ UNCHANGED <<peer, queue, nat, randoms, got, done>>

Arrive(r, fail, consumed) ==
    LET e == Other(r.from)
    IN  IF ClientHello0(r)
        THEN /\ \/ HandleClientHello(r, consumed) /\ fail = 0
                \/ HandleVerifiedClientHello(r, fail, consumed)
             /\ UNCHANGED <<got, done>>
        ELSE \/ HandlePeerRecord(e, r, fail, consumed)
             \/ Drop(e, r, consumed) /\ fail = 0

Takes(r) == r.from = "client" \/ ~gone

\* A record that overtakes an earlier one of its sender costs a fault.
Overtakes(r) ==
    \E o \in net : /\ o.from = r.from
                   /\ \/ o.epoch < r.epoch
                      \/ o.epoch = r.epoch /\ o.seq < r.seq

Deliver ==
    \E r \in net, fail \in Fails :
        LET cost == (IF fail # 0 THEN 1 ELSE 0) + (IF Overtakes(r) THEN 1 ELSE 0)
        IN  /\ Takes(r)
            /\ faults + cost <= MaxFaults
            /\ Arrive(r, fail, {r})
            /\ faults' = faults + cost
            /\ UNCHANGED <<tries, gone, writes>>

Repeat ==
    /\ faults < MaxFaults
    /\ \E r \in net : Takes(r) /\ Arrive(r, 0, {})
    /\ faults' = faults + 1
    /\ UNCHANGED <<tries, gone, writes>>

Lose ==
    \E r \in net :
        /\ Takes(r) => faults < MaxFaults
        /\ net' = net \ {r}
        /\ faults' = IF Takes(r) THEN faults + 1 ELSE faults
        /\ UNCHANGED <<peer, queue, nat, tries, gone, randoms, writes, got, done>>

\* Mutant: the number of the first copy is used again.
MutResend(e, n) ==
    LET sp == ParamsEpoch(peer[e], n.epoch)
    IN  /\ sp # "none"
        /\ Commit(e, [Start(peer[e], queue[e] \ {n}, 0) EXCEPT
                        !.out = {Record(e, peer[e][sp], n.type, n.body)}], {})

\* dtls_check_retransmit and dtls_retransmit for a node that is due: the parameters
\* are those of its epoch, if the peer still has them.
Resend(e, n) ==
    LET sp == ParamsEpoch(peer[e], n.epoch)
        again == [n EXCEPT !.cnt = @ + 1]
    IN  IF n.cnt = MaxRetransmit THEN
            Commit(e, Start(peer[e], queue[e] \ {n}, 0), {})
        ELSE IF n.type = "alert" THEN
            Commit(e, HandleAlert(Start(peer[e], queue[e] \ {n}, 0), n.body.t), {})
        ELSE IF sp = "none" THEN
            Commit(e, Start(peer[e], (queue[e] \ {n}) \cup {again}, 0), {})
        ELSE Commit(e, [Start([peer[e] EXCEPT ![sp].rseq = @ + 1],
                              (queue[e] \ {n}) \cup {again}, 0) EXCEPT
                          !.out = {Record(e, peer[e][sp], n.type, n.body)}], {})

CheckRetransmit ==
    /\ \E e \in Resending :
          /\ e = "client" => ~gone
          /\ \E n \in queue[e] : Resend(e, n)
    /\ faults + Early <= MaxFaults
    /\ faults' = faults + Early
    /\ UNCHANGED <<tries, gone, randoms, writes, got, done>>

Next ==
    \/ ConnectionSend
    \/ ServerWrite
    \/ Pause
    \/ Quit
    \/ Deliver
    \/ Repeat
    \/ Lose
    \/ CheckRetransmit

\* Both programs wait in select(), so a record that is there is read; the client's
\* application sends again until it is answered (CoAP), and pauses when it gave up.
\* Each is weakly fair; when it is enabled is written out.
CanDeliver ==
    \E r \in net : /\ Takes(r)
                   /\ ~Overtakes(r)
                   /\ ClientHello0(r) /\ Verified(r.body) => randoms < MaxRandoms
CanSend ==
    /\ net = {} /\ ~gone /\ tries > 0
    /\ IF NeedsConnect THEN randoms < MaxRandoms
       ELSE peer["client"].state = "CONNECTED" => writes["client"] < MaxWrites["client"]
CanPause == net = {} /\ ~gone /\ tries = 0

Fairness ==
    /\ []<>~CanDeliver \/ []<><<Deliver>>_vars
    /\ []<>~CanSend \/ []<><<ConnectionSend>>_vars
    /\ []<>~CanPause \/ []<><<Pause>>_vars

Spec == Init /\ [][Next]_vars /\ Fairness

-----------------------------------------------------------------------------
(* Properties. *)

\* A client that takes itself for connected has the key of a handshake whose client
\* Finished the server found right (check_finished, handle_handshake_msg): none ends
\* on messages of two handshakes or before the server has what it needs. (That the
\* server is connected cannot be said: a Finished whose write failed is sent again.)
ConnectedIsAgreed ==
    peer["client"] # None =>
        (peer["client"].state = "CONNECTED" => peer["client"].sp0.key \in done)

\* No payload is handed to an application twice, however its record is repeated and
\* reordered and whatever handshakes come in between (dtls_handle_message).
HandedUpOnce ==
    \A e \in Ends : \A i, j \in DOMAIN got[e] : got[e][i] = got[e][j] => i = j

\* What is sent again can be: it belongs to a peer there is, which dtls_retransmit
\* finds by node->peer (dtls_destroy_peer, handle_alert). And it gets a number of its
\* own: the next one an end gives a record is beyond those of its records that are on
\* the way under the same key (dtls_set_record_header, dtls_security_params_next).
CopiesAreSound ==
    /\ \A e \in Ends : peer[e] = None => queue[e] = {}
    /\ \A r \in net : peer[r.from] # None /\ r.key # NoKey =>
          \A sp \in {peer[r.from].sp0, peer[r.from].sp1} \ {None} :
              sp.key = r.key => r.seq < sp.rseq

\* A client whose application goes on is heard in the end, though what was lost is
\* never sent again by its DTLS, though the server may have dropped the session and
\* though payloads are dropped while it connects: the pause makes a new handshake.
Heard == <>(gone \/ got["server"] # <<>>)
=============================================================================
