--------------------------- MODULE ServerClients ---------------------------
(***************************************************************************)
(* The server's clients and their observations: the server half of         *)
(* core/registration.c and of core/observe.c, with the registrations that  *)
(* core/packet.c assembles from blocks.                                    *)
(*                                                                         *)
(* A client is known by its internalID, which is in its location and in    *)
(* the tokens of its observations.  The handlers run one at a time, but a  *)
(* request's answer comes any number of other requests, registrations and  *)
(* expirations later, and answers overtake one another.  A request ends    *)
(* once, as ReliableRequest promises and Transaction does.                 *)
(*                                                                         *)
(* Time is left out: a lifetime may end at any moment.  The counter        *)
(* observationId is a uint16_t; MaxCalls keeps it far below its end.       *)
(***************************************************************************)
EXTENDS Naturals, FiniteSets

CONSTANTS
    Devices,     \* endpoint names; each is also the session it talks from
    Uris,        \* what is observed; each of its own object or instance
    MaxClients,  \* bound: internalIDs
    MaxRegistrations, \* bound: POSTs of /rd, each with all its blocks
    MaxCalls,    \* bound: calls of lwm2m_observe and lwm2m_observe_cancel
    NoName,      \* the name of a registration whose last block has not come
    Nothing      \* an entry that is free, a call that sent nothing

Ids == 0..(MaxClients - 1)
Calls == 1..MaxCalls

ASSUME SizesAssumption ==
    MaxClients \in Nat \ {0} /\ MaxRegistrations \in Nat /\ MaxCalls \in Nat

VARIABLES
    registered,    \* internalIDs of contextP->clientList
    client,        \* the lwm2m_client_t of each internalID
    location,      \* the location each device was last given
    registrations, \* POSTs of /rd so far
    observations,  \* the clients' observationLists
    nextCall,      \* the next call of the user
    request,       \* what each call sent
    pending,       \* calls whose transaction is on transactionList
    told,          \* what the callback of each call was told
    over,          \* observe calls the user knows, or has asked, to be over
    dropped,       \* observe calls whose observation went without a word to them
    notified,      \* <<token's call, call whose callback got it>>, of a
                   \* notification handled in the last step
    reused,        \* internalIDs given anew that tokens of old calls name
    down           \* how the server has crashed

table == <<registered, client, location, registrations>>
calls == <<nextCall, request, pending, told>>
history == <<over, dropped, reused>>
vars == <<table, observations, calls, history, notified, down>>

\* The objects a client lists are in no entry: only an update reads them.
Clients == [name : Devices \cup {NoName}, session : Devices,
            observationId : 0..MaxCalls, block : BOOLEAN]
Requests == [kind : {"observe", "cancel", "forget"}, client : Ids, uri : Uris, id : 1..MaxCalls]
Observations == [client : Ids, uri : Uris, id : 1..MaxCalls, call : Calls,
                 status : {"REGISTERED", "REG_PENDING", "DEREG_PENDING"}]
Nowhere == MaxClients

ASSUME NamesAssumption == NoName \notin Devices /\ Nothing \notin Clients \cup Requests

-----------------------------------------------------------------------------
(* Lists *)

\* lwm2m_list_newId: the least id that is not on the list.
NewIds == {i \in Ids \ registered : \A j \in 0..(i - 1) : j \in registered}

\* prv_getClientByName, utils_findClient: the first client on the list.
First(S) == {i \in S : \A j \in S : i <= j}
ByName(d) == First({i \in registered : client[i].name = d})
BySession(d) == First({i \in registered : client[i].session = d})

\* Clients the user has been told of.
Known == {i \in registered : client[i].name # NoName}

Observed(i) == {o \in observations : o.client = i}

\* prv_findObservationByURI
ByUri(i, u) == {o \in Observed(i) : o.uri = u}

\* LWM2M_LIST_RM takes the first observation with the id.  Another one with
\* that id means the wrong one may go, and the right one be freed, or added
\* again, while it is on the list.
Unique(o) == \A q \in Observed(o.client) : q.id = o.id => q = o

CallsOf(os) == {o.call : o \in os}

\* A handler starts, and has given nobody a notification.
Handles == down = "no" /\ notified' = {}

Crash(how) ==
    /\ down' = how
    /\ UNCHANGED <<table, observations, calls, history>>

-----------------------------------------------------------------------------
Init ==
    /\ registered = {}
    /\ client = [i \in Ids |-> Nothing]
    /\ location = [d \in Devices |-> Nowhere]
    /\ registrations = 0
    /\ observations = {}
    /\ nextCall = 1
    /\ request = [c \in Calls |-> Nothing]
    /\ pending = {}
    /\ told = [c \in Calls |-> "none"]
    /\ over = {} /\ dropped = {} /\ notified = {} /\ reused = {}
    /\ down = "no"

-----------------------------------------------------------------------------
(* registration.c *)

\* registration_freeClient, after the monitor was told: the client's
\* observations go with it.  Its requests stay.
Remove(i) ==
    /\ registered' = registered \ {i}
    /\ client' = [client EXCEPT ![i] = Nothing]
    /\ observations' = observations \ Observed(i)
    /\ over' = over \cup CallsOf(Observed(i))
    /\ UNCHANGED dropped

\* A new entry under id i: its counter starts at 0 again.
Reused(i) ==
    reused' = IF \E c \in Calls : request[c] # Nothing /\ request[c].client = i
              THEN reused \cup {i} ELSE reused

\* The part of registration_handleRequest after the client's entry is found
\* or made: a known one keeps its observations and its counter.
Entry(name, d, observationId, block) ==
    [name |-> name, session |-> d, observationId |-> observationId, block |-> block]

\* A POST of /rd, or its first block.
Post ==
    /\ Handles /\ registrations < MaxRegistrations
    /\ registrations' = registrations + 1

Fill(i, d, observationId, block) ==
    /\ client' = [client EXCEPT ![i] = Entry(d, d, observationId, block)]
    /\ location' = [location EXCEPT ![d] = i]

\* POST /rd in one message.
Register(d) ==
    /\ Post
    /\ \/ \E i \in ByName(d) :
            /\ Fill(i, d, client[i].observationId, client[i].block)
            /\ UNCHANGED <<registered, reused>>
       \/ /\ ByName(d) = {}
          /\ \E i \in NewIds :
                /\ Fill(i, d, 0, FALSE)
                /\ registered' = registered \cup {i}
                /\ Reused(i)
    /\ UNCHANGED <<observations, calls, over, dropped, down>>

\* The first block of a longer POST /rd: lwm2m_handle_packet makes an entry
\* without a name, unless some client has the session.
RegisterFirstBlock(d) ==
    /\ Post
    /\ \/ \E i \in BySession(d) :
            /\ client' = [client EXCEPT ![i].block = TRUE]
            /\ UNCHANGED <<registered, reused>>
       \/ /\ BySession(d) = {}
          /\ \E i \in NewIds :
                /\ client' = [client EXCEPT ![i] = Entry(NoName, d, 0, TRUE)]
                /\ registered' = registered \cup {i}
                /\ Reused(i)
    /\ UNCHANGED <<location, observations, calls, over, dropped, down>>

\* Its last block.  The entry of the session is taken for the one the first
\* block made, and freed, without a word to the monitor, when the name has one
\* already; they may be the same.
RegisterLastBlock(d) ==
    /\ Handles
    /\ \E t \in BySession(d) :
         /\ client[t].block
         /\ \/ /\ ByName(d) = {}
               /\ Fill(t, d, client[t].observationId, TRUE)
               /\ UNCHANGED <<registered, registrations, observations, calls, history, down>>
            \/ \E i \in ByName(d) \ {t} :
                 /\ registered' = registered \ {t}
                 /\ client' = [client EXCEPT ![t] = Nothing,
                                 ![i] = Entry(d, d, client[i].observationId, client[i].block)]
                 /\ location' = [location EXCEPT ![d] = i]
                 /\ observations' = observations \ Observed(t)
                 /\ dropped' = dropped \cup CallsOf(Observed(t))
                 /\ UNCHANGED <<registrations, calls, over, reused, down>>
            \/ /\ ByName(d) = {t}
               /\ Crash("freed")

\* Mutant: the update tells the callbacks and keeps the observations.
MutUpdate(d, objs) ==
    /\ Handles /\ location[d] \in registered
    /\ LET i == location[d]
           gone == {o \in Observed(i) : objs # {} /\ o.uri \notin objs}
       IN  /\ client' = [client EXCEPT ![i].session = d]
           /\ over' = over \cup CallsOf(gone)
    /\ UNCHANGED <<registered, location, registrations, observations, calls, dropped, reused, down>>

\* POST /rd/<id>, with a list of objects unless objs is empty.  The location
\* is all that names the client.
Update(d, objs) ==
    /\ Handles /\ location[d] \in registered
    /\ LET i == location[d]
           gone == {o \in Observed(i) : objs # {} /\ o.uri \notin objs}
       IN  \/ /\ \A o \in gone : Unique(o)
              /\ client' = [client EXCEPT ![i].session = d]
              /\ observations' = observations \ gone
              /\ over' = over \cup CallsOf(gone)
              /\ UNCHANGED <<registered, location, registrations, calls, dropped, reused, down>>
           \/ /\ \E o \in gone : ~Unique(o)
              /\ Crash("list")

\* DELETE /rd/<id>
Deregister(d) ==
    /\ Handles /\ location[d] \in registered
    /\ Remove(location[d])
    /\ UNCHANGED <<location, registrations, calls, reused, down>>

\* registration_step: the client's lifetime has ended.
Expire(i) ==
    /\ Handles
    /\ Remove(i)
    /\ UNCHANGED <<location, registrations, calls, reused, down>>

-----------------------------------------------------------------------------
(* observe.c *)

SetStatus(o, status) == (observations \ {o}) \cup {[o EXCEPT !.status = status]}

\* The user's next call sends request r, or is told that it can't be sent.
Send(r, sends) ==
    /\ nextCall' = nextCall + 1
    /\ request' = [request EXCEPT ![nextCall] = r]
    /\ pending' = IF sends THEN pending \cup {nextCall} ELSE pending
    /\ told' = IF sends THEN told ELSE [told EXCEPT ![nextCall] = "failed"]

\* Mutant: the counter stands still.
MutObserve(i, u, sends) ==
    /\ Handles /\ nextCall \in Calls
    /\ Send([kind |-> "observe", client |-> i, uri |-> u, id |-> 1], sends)
    /\ UNCHANGED <<table, observations, history, down>>

\* prv_lwm2m_observe.  The status changes although nothing may be sent.
Observe(i, u, sends) ==
    /\ Handles /\ nextCall \in Calls
    /\ LET id == client[i].observationId + 1
       IN  /\ client' = [client EXCEPT ![i].observationId = id]
           /\ \/ /\ \E o \in Observed(i) : o.id = id
                 /\ nextCall' = nextCall + 1
                 /\ told' = [told EXCEPT ![nextCall] = "failed"]
                 /\ UNCHANGED <<observations, request, pending>>
              \/ /\ \A o \in Observed(i) : o.id # id
                 /\ Send([kind |-> "observe", client |-> i, uri |-> u, id |-> id], sends)
                 /\ observations' = {IF o \in ByUri(i, u) THEN [o EXCEPT !.status = "REG_PENDING"]
                                     ELSE o : o \in observations}
    /\ UNCHANGED <<registered, location, registrations, history, down>>

\* prv_lwm2m_observe_cancel: a confirmed observation is cancelled by a
\* request, any other is forgotten at once.
Cancel(i, u, sends) ==
    /\ Handles /\ nextCall \in Calls
    /\ \E o \in ByUri(i, u) :
         \/ /\ o.status = "REGISTERED"
            /\ Send([kind |-> "cancel", client |-> i, uri |-> u, id |-> o.id], sends)
            /\ observations' = SetStatus(o, "DEREG_PENDING")
            /\ UNCHANGED <<table, history, down>>
         \/ /\ o.status # "REGISTERED" /\ Unique(o)
            /\ Send([kind |-> "forget", client |-> i, uri |-> u, id |-> o.id], FALSE)
            /\ observations' = observations \ {o}
            /\ over' = over \cup {o.call}
            /\ UNCHANGED <<table, dropped, reused, down>>
         \/ /\ o.status # "REGISTERED" /\ ~Unique(o)
            /\ Crash("list")

\* The callback of call c is told r; the request is over.
End(c, r) ==
    /\ pending' = pending \ {c}
    /\ told' = [told EXCEPT ![c] = r]
    /\ UNCHANGED <<nextCall, request>>

\* What call c stores under its token.
Confirmation(c) ==
    [client |-> request[c].client, uri |-> request[c].uri, id |-> request[c].id,
     call |-> c, status |-> "REGISTERED"]

\* Mutant: what was stored for the URI stays.
MutStore(c) ==
    /\ observations' = observations \cup {Confirmation(c)}
    /\ End(c, "ok")
    /\ UNCHANGED dropped

\* prv_obsRequestCallback when the observation is confirmed: what was stored
\* for the URI becomes this call's.  The 202 for the end of what was stored goes
\* to the callback of this call, before its success; the call whose observation
\* it was hears nothing.
Store(c) ==
    LET old == ByUri(request[c].client, request[c].uri)
    IN  /\ observations' = (observations \ old) \cup {Confirmation(c)}
        /\ End(c, IF old = {} THEN "ok" ELSE "ok_after_202")
        /\ dropped' = dropped \cup CallsOf(old)

\* prv_obsRequestCallback: ok is a 2.05 with the observe option, anything else
\* another answer, or none.
ObserveReply(c, ok) ==
    LET i == request[c].client
        old == ByUri(i, request[c].uri)
        deregistering == \E o \in old : o.status = "DEREG_PENDING"
    IN  /\ Handles /\ request[c].kind = "observe"
        /\ \/ /\ i \notin registered
              /\ End(c, "failed")
              /\ UNCHANGED <<observations, dropped, down>>
           \/ /\ i \in registered /\ (deregistering \/ ~ok)
              /\ End(c, "failed")
              /\ UNCHANGED <<observations, dropped, down>>
           \/ /\ i \in registered /\ ~deregistering /\ ok
              /\ \A o \in old : Unique(o)
              /\ Store(c)
              /\ UNCHANGED down
           \/ /\ i \in registered /\ ~deregistering /\ ok
              /\ \E o \in old : ~Unique(o)
              /\ down' = "list"
              /\ UNCHANGED <<observations, calls, dropped>>
        /\ UNCHANGED <<table, over, reused>>

\* prv_obsCancelRequestCallback: observe_remove gets what is found, be it
\* nothing.
CancelReply(c, ok) ==
    LET i == request[c].client
        old == ByUri(i, request[c].uri)
    IN  /\ Handles /\ request[c].kind = "cancel"
        /\ \/ /\ i \notin registered
              /\ End(c, "failed")
              /\ UNCHANGED <<observations, over, down>>
           \/ /\ i \in registered /\ ~ok
              /\ End(c, "failed")
              /\ UNCHANGED <<observations, over, down>>
           \/ \E o \in old :
                /\ i \in registered /\ ok /\ Unique(o)
                /\ End(c, "ok")
                /\ observations' = observations \ {o}
                /\ over' = over \cup {o.call}
                /\ UNCHANGED down
           \/ /\ i \in registered /\ ok
              /\ old = {} \/ \E o \in old : ~Unique(o)
              /\ down' = IF old = {} THEN "null" ELSE "list"
              /\ UNCHANGED <<observations, calls, over>>
        /\ UNCHANGED <<table, dropped, reused>>

\* observe_handleNotify on a notification with the token of call t, which may
\* come as soon as the request is sent, for ever, and from any session; a token
\* that finds nothing is rejected.
HandleNotify(t) ==
    /\ down = "no" /\ request[t] # Nothing /\ request[t].kind = "observe"
    /\ request[t].client \in registered
    /\ \E o \in Observed(request[t].client) :
         /\ o.id = request[t].id
         /\ notified' = {<<t, o.call>>}
    /\ UNCHANGED <<table, observations, calls, history, down>>

-----------------------------------------------------------------------------
Next ==
    \/ \E d \in Devices :
          \/ Register(d) \/ RegisterFirstBlock(d) \/ RegisterLastBlock(d)
          \/ \E objs \in SUBSET Uris : Update(d, objs)
          \/ Deregister(d)
    \/ \E i \in registered : Expire(i)
    \/ \E i \in Known, u \in Uris, sends \in BOOLEAN :
          Observe(i, u, sends) \/ Cancel(i, u, sends)
    \/ \E c \in pending, ok \in BOOLEAN : ObserveReply(c, ok) \/ CancelReply(c, ok)
    \/ \E t \in Calls : HandleNotify(t)

Spec == Init /\ [][Next]_vars

-----------------------------------------------------------------------------
(* Properties *)

\* Every variable has its type.
TypeOK ==
    /\ registered \subseteq Ids /\ client \in [Ids -> Clients \cup {Nothing}]
    /\ \A i \in registered : client[i] # Nothing
    /\ location \in [Devices -> Ids \cup {Nowhere}] /\ registrations \in 0..MaxRegistrations
    /\ observations \subseteq Observations
    /\ nextCall \in 1..(MaxCalls + 1) /\ request \in [Calls -> Requests \cup {Nothing}]
    /\ pending \subseteq Calls
    /\ told \in [Calls -> {"none", "ok", "ok_after_202", "failed"}]
    /\ over \subseteq Calls /\ dropped \subseteq Calls /\ reused \subseteq Ids
    /\ notified \subseteq Calls \X Calls
    /\ down \in {"no", "null", "freed", "list"}

\* A name has one client, a client one observation of a URI, and every
\* observation a client that is registered, however registrations, in one
\* message or in blocks, cross updates, expirations and late answers.
OneOfEach ==
    /\ \A i, j \in registered :
          client[i].name = client[j].name /\ client[i].name # NoName => i = j
    /\ \A o, q \in observations : o.client = q.client /\ o.uri = q.uri => o = q
    /\ \A o \in observations : o.client \in registered

\* The last its callback heard of its request is that it succeeded.
Confirmed(c) == told[c] \in {"ok", "ok_after_202"}

\* A stored observation, whose callback and userData notifications and
\* updates use, belongs to a call that was told of its success and not since
\* of its end, be it by an update, a cancellation, a deregistration or an
\* expiration.  And a call that was told of its success and not of its end
\* has its observation stored, but for two cases in which the code drops one
\* without telling its call: a later call for the same URI took its place
\* (prv_obsRequestCallback tells that one), or a registration in blocks freed
\* the client's entry.
StoredAreLive ==
    /\ \A o \in observations : Confirmed(o.call) /\ o.call \notin over \cup dropped
    /\ \A c \in Calls :
          request[c] # Nothing /\ request[c].kind = "observe" /\ Confirmed(c)
             => c \in over \cup dropped \/ \E o \in observations : o.call = c

\* A notification reaches only a call that was told of its success and not of
\* its end; and it is the call whose token the notification has, unless the
\* client's internalID has named another registration before.
NotifyReachesItsCall ==
    [][\A n \in notified' \ notified :
          /\ Confirmed(n[2]) /\ n[2] \notin over \cup dropped
          /\ n[1] = n[2] \/ request[n[1]].client \in reused]_vars

\* A registration under a known name, in blocks or not, resets that client's
\* entry ("we reset this registration", registration_handleRequest): it never
\* takes the entry away from under the handler.
RegistrationResets == down # "freed"
=============================================================================
