------------------------ MODULE ServerClientsProofs ------------------------
(***************************************************************************)
(* Theorems about ServerClients, for every value of its constants: the     *)
(* lists of clients and observations, and the calls that notifications     *)
(* reach.  The invariant has three parts: what is known of the calls, what *)
(* is stored, and which calls a token may name.                            *)
(***************************************************************************)
EXTENDS ServerClients, FiniteSetTheorems, WellFoundedInduction, TLAPS

\* Call c sent a request to observe something of client i.
Asks(c, i) == request[c] # Nothing /\ request[c].kind = "observe" /\ request[c].client = i

\* Observe calls whose observation is over, with or without a word to them.
Gone == over \cup dropped

\* What is known of the calls: those to come have sent nothing and been told
\* nothing, neither have those under way, and the user knows an observation to
\* be over only after its call was answered.  A client's counter is behind them.
CallsKnown ==
    /\ \A c \in Calls : c >= nextCall => request[c] = Nothing /\ told[c] = "none"
    /\ \A c \in pending : request[c] # Nothing /\ told[c] = "none"
    /\ \A c \in Gone : told[c] # "none"
    /\ \A i \in registered : client[i].observationId < nextCall

\* Of a call at most one observation is stored, the one it asked for.
StoredAsAsked ==
    /\ \A o, q \in observations : o.call = q.call => o = q
    /\ \A o \in observations : Asks(o.call, o.client) /\ request[o.call].id = o.id

\* A token names one call, unless the internalID in it was given anew: the
\* client's counter has passed all the calls that asked for something of it.
TokensDiffer ==
    /\ \A i \in registered \ reused, c \in Calls :
          Asks(c, i) => request[c].id <= client[i].observationId
    /\ \A c, t \in Calls, i \in Ids \ reused :
          Asks(c, i) /\ Asks(t, i) /\ request[c].id = request[t].id => c = t

\* A step in which no call is told anew that its observation is confirmed, and
\* none that was told something is told more.
NoneConfirmed ==
    /\ \A c \in Calls : told[c] # "none" => told'[c] = told[c] /\ request'[c] = request[c]
    /\ \A c \in Calls : told[c] = "none" /\ Confirmed(c)' => request'[c].kind # "observe"

ListsOK == CallsKnown /\ StoredAsAsked /\ TokensDiffer /\ OneOfEach /\ StoredAreLive

-----------------------------------------------------------------------------
(* The lists *)

\* A set of internalIDs without a least one is empty: what the list is searched
\* for and not found is not on it.
LEMMA FirstOfNone ==
    ASSUME NEW S \in SUBSET Ids, First(S) = {}
    PROVE  S = {}
<1> SUFFICES ASSUME S # {} PROVE FALSE
    OBVIOUS
<1>1. S \subseteq Nat
    BY DEF Ids
<1>2. PICK i \in S : \A j \in S : ~ (<<j, i>> \in OpToRel(<, Nat))
    BY <1>1, NatLessThanWellFounded, WFMin, Zenon
<1>3. \A j \in S : ~ (j < i)
    BY <1>1, <1>2 DEF OpToRel
<1>4. \A j \in S : i <= j
    BY <1>1, <1>3
<1>5. QED
    BY <1>4 DEF First

LEMMA SearchFacts ==
    ASSUME TypeOK, NEW d \in Devices
    PROVE  /\ \A i \in ByName(d) : i \in registered /\ client[i].name = d
           /\ \A i \in BySession(d) : i \in registered /\ client[i].session = d
           /\ ByName(d) = {} => \A i \in registered : client[i].name # d
<1>1. {i \in registered : client[i].name = d} \in SUBSET Ids
    BY DEF TypeOK
<1>2. ByName(d) = {} => {i \in registered : client[i].name = d} = {}
    BY <1>1, FirstOfNone DEF ByName
<1>3. QED
    BY <1>2 DEF ByName, BySession, First

LEMMA EntryFacts ==
    ASSUME NEW name \in Devices \cup {NoName}, NEW d \in Devices, NEW n \in 0..MaxCalls, NEW b \in BOOLEAN
    PROVE  /\ Entry(name, d, n, b) \in Clients
           /\ Entry(name, d, n, b) # Nothing
           /\ Entry(name, d, n, b).name = name
           /\ Entry(name, d, n, b).observationId = n
BY NamesAssumption DEF Entry, Clients, NamesAssumption

LEMMA ClientFacts ==
    ASSUME TypeOK, NEW i \in registered
    PROVE  /\ i \in Ids /\ client[i] \in Clients
           /\ client[i].name \in Devices \cup {NoName} /\ client[i].session \in Devices
           /\ client[i].observationId \in 0..MaxCalls /\ client[i].block \in BOOLEAN
<1>1. client[i] \in Clients /\ i \in Ids
    BY DEF TypeOK
<1>2. QED
    BY <1>1 DEF Clients

\* Every stored observation is that of its call: another one has another call.
LEMMA CallFacts ==
    ASSUME TypeOK, ListsOK, NEW o \in observations
    PROVE  /\ o.call \in Calls /\ o.client \in registered /\ o.uri \in Uris
           /\ Confirmed(o.call) /\ o.call \notin Gone /\ o.call \notin pending
           /\ told[o.call] # "none"
           /\ ~(o.call >= nextCall)
<1>1. o \in Observations
    BY DEF TypeOK
<1>2. o.call \in Calls /\ o.uri \in Uris
    BY <1>1 DEF Observations
<1>3. Confirmed(o.call) /\ o.call \notin Gone /\ told[o.call] # "none"
    BY DEF ListsOK, StoredAreLive, Gone, Confirmed
<1>4. o.call \notin pending /\ ~(o.call >= nextCall)
    BY <1>2, <1>3 DEF ListsOK, CallsKnown
<1>5. QED
    BY <1>2, <1>3, <1>4 DEF ListsOK, OneOfEach

\* The observations that go, and are gone then.
LEMMA ObservationsGo ==
    ASSUME TypeOK, ListsOK, NEW gone \in SUBSET observations,
           observations' = observations \ gone, Gone' = Gone \cup CallsOf(gone), NoneConfirmed
    PROVE  /\ observations' \subseteq Observations /\ over' \subseteq Calls /\ dropped' \subseteq Calls
           /\ \A c \in Gone' : told'[c] # "none"
           /\ StoredAsAsked' /\ StoredAreLive'
<1>1. \A o \in observations : /\ o.call \in Calls /\ Confirmed(o.call) /\ o.call \notin Gone
                             /\ told[o.call] # "none"
    BY CallFacts
<1>2. observations' \subseteq Observations /\ over' \subseteq Calls /\ dropped' \subseteq Calls
    <2>1. Gone' \subseteq Calls
        BY <1>1 DEF TypeOK, CallsOf, Gone
    <2>2. QED
        BY <2>1 DEF TypeOK, Gone
<1>3. \A c \in Gone' : told'[c] # "none"
    <2>1. ASSUME NEW c \in Gone' PROVE told'[c] # "none"
        <3>1. c \in Calls /\ told[c] # "none"
            BY <1>1 DEF CallsOf, TypeOK, ListsOK, CallsKnown, Gone
        <3>2. QED
            BY <3>1 DEF NoneConfirmed
    <2>2. QED
        BY <2>1
<1>4. \A o \in observations : request'[o.call] = request[o.call] /\ told'[o.call] = told[o.call]
    BY <1>1 DEF NoneConfirmed
<1>5. StoredAsAsked'
    BY <1>4 DEF ListsOK, StoredAsAsked, Asks
<1>6. ASSUME NEW o \in observations' PROVE Confirmed(o.call)' /\ o.call \notin Gone'
    <2>1. o \in observations /\ o \notin gone
        OBVIOUS
    <2>2. o.call \notin CallsOf(gone)
        BY <2>1 DEF CallsOf, ListsOK, StoredAsAsked
    <2>3. QED
        BY <1>1, <1>4, <2>1, <2>2 DEF Confirmed
<1>7. ASSUME NEW c \in Calls, request'[c] # Nothing, request'[c].kind = "observe", Confirmed(c)'
      PROVE  c \in Gone' \/ \E o \in observations' : o.call = c
    <2>1. told[c] # "none" /\ request'[c] = request[c] /\ told'[c] = told[c]
        BY <1>7 DEF NoneConfirmed
    <2>2. c \in Gone \/ \E o \in observations : o.call = c
        BY <1>7, <2>1 DEF ListsOK, StoredAreLive, Confirmed, Gone
    <2>3. QED
        BY <2>2 DEF CallsOf
<1>8. StoredAreLive'
    BY <1>6, <1>7 DEF StoredAreLive, Gone
<1>9. QED
    BY <1>2, <1>3, <1>5, <1>8

\* An entry that stays keeps its counter; one that is new has none of the calls,
\* or its id is among the reused.
EntriesKept ==
    /\ reused \subseteq reused'
    /\ \A i \in registered' :
          \/ i \in registered /\ client'[i].observationId = client[i].observationId
          \/ /\ client'[i].observationId = 0
             /\ i \in reused' \/ \A c \in Calls : ~Asks(c, i)

LEMMA TokensKept ==
    ASSUME TypeOK, ListsOK, EntriesKept, UNCHANGED <<request, nextCall>>
    PROVE  TokensDiffer' /\ \A i \in registered' : client'[i].observationId < nextCall'
<1>1. \A i \in registered' : client'[i].observationId < nextCall'
    BY DEF EntriesKept, ListsOK, CallsKnown, TypeOK
<1>2. \A c \in Calls, i \in Ids : Asks(c, i)' <=> Asks(c, i)
    BY DEF Asks
<1>3. ASSUME NEW i \in registered' \ reused', NEW c \in Calls, Asks(c, i)'
      PROVE  request'[c].id <= client'[i].observationId
    <2>1. i \in registered /\ client'[i].observationId = client[i].observationId /\ i \notin reused
        BY <1>3 DEF EntriesKept, Asks
    <2>2. Asks(c, i)
        BY <1>3 DEF Asks
    <2>3. QED
        BY <2>1, <2>2 DEF ListsOK, TokensDiffer
<1>4. ASSUME NEW c \in Calls, NEW t \in Calls, NEW i \in Ids \ reused',
             Asks(c, i)', Asks(t, i)', request'[c].id = request'[t].id
      PROVE  c = t
    <2>1. i \notin reused /\ Asks(c, i) /\ Asks(t, i)
        BY <1>4 DEF EntriesKept, Asks
    <2>2. QED
        BY <1>4, <2>1 DEF ListsOK, TokensDiffer
<1>5. TokensDiffer'
    BY <1>3, <1>4 DEF TokensDiffer
<1>6. QED
    BY <1>1, <1>5

-----------------------------------------------------------------------------
(* registration.c *)

LEMMA PostType ==
    ASSUME TypeOK, Post
    PROVE  registrations' \in 0..MaxRegistrations /\ notified' = {}
BY SizesAssumption DEF TypeOK, Post, Handles, SizesAssumption

LEMMA ReusedFacts ==
    ASSUME TypeOK, NEW i \in Ids, Reused(i)
    PROVE  /\ reused' \subseteq Ids /\ reused \subseteq reused'
           /\ i \in reused' \/ \A c \in Calls : ~Asks(c, i)
BY DEF Reused, Asks, TypeOK

\* What a handler of the registrations leaves alone.
LEMMA ObservationsStay ==
    ASSUME TypeOK, ListsOK, UNCHANGED <<observations, calls, over, dropped>>
    PROVE  /\ StoredAsAsked' /\ StoredAreLive'
           /\ \A c \in Calls : c >= nextCall' => request'[c] = Nothing /\ told'[c] = "none"
           /\ \A c \in pending' : request'[c] # Nothing /\ told'[c] = "none"
           /\ \A c \in Gone' : told'[c] # "none"
BY DEF ListsOK, StoredAsAsked, StoredAreLive, Confirmed, CallsKnown, Gone, Asks, calls

\* Nobody is told anything.
LEMMA NothingTold == UNCHANGED calls => NoneConfirmed
BY DEF NoneConfirmed, Confirmed, calls

LEMMA FillFacts ==
    ASSUME TypeOK, NEW i \in Ids, NEW d \in Devices, NEW n \in 0..MaxCalls, NEW b \in BOOLEAN, Fill(i, d, n, b)
    PROVE  /\ client' \in [Ids -> Clients \cup {Nothing}]
           /\ location' \in [Devices -> Ids \cup {Nowhere}]
           /\ client'[i] # Nothing /\ client'[i].name = d /\ client'[i].observationId = n
           /\ \A j \in Ids \ {i} : client'[j] = client[j]
<1> DEFINE e == Entry(d, d, n, b)
<1>1. client' = [client EXCEPT ![i] = e] /\ location' = [location EXCEPT ![d] = i]
    BY DEF Fill
<1>2. e \in Clients /\ e # Nothing /\ e.name = d /\ e.observationId = n
    BY EntryFacts
<1>. HIDE DEF e
<1>3. QED
    BY <1>1, <1>2 DEF TypeOK

LEMMA RegisterOK ==
    ASSUME TypeOK, ListsOK, NEW d \in Devices, Register(d)
    PROVE  TypeOK' /\ ListsOK'
<1>1. /\ registrations' \in 0..MaxRegistrations /\ notified' = {}
      /\ UNCHANGED <<observations, calls, over, dropped, down>>
    BY PostType DEF Register
<1>2. /\ client' \in [Ids -> Clients \cup {Nothing}]
      /\ location' \in [Devices -> Ids \cup {Nowhere}]
      /\ registered' \subseteq Ids /\ registered \subseteq registered' /\ reused' \subseteq Ids
      /\ \A i \in registered' : client'[i] # Nothing
      /\ EntriesKept
      /\ \A i, j \in registered' :
            client'[i].name = client'[j].name /\ client'[i].name # NoName => i = j
    <2>1. CASE \E i \in ByName(d) :
                  /\ Fill(i, d, client[i].observationId, client[i].block)
                  /\ UNCHANGED <<registered, reused>>
        <3>1. PICK i \in ByName(d) :
                  /\ Fill(i, d, client[i].observationId, client[i].block)
                  /\ UNCHANGED <<registered, reused>>
            BY <2>1
        <3>2. i \in registered /\ i \in Ids /\ client[i].name = d
            BY SearchFacts DEF TypeOK
        <3>3. client[i].observationId \in 0..MaxCalls /\ client[i].block \in BOOLEAN
            BY <3>2, ClientFacts
        <3>4. /\ client' \in [Ids -> Clients \cup {Nothing}]
              /\ location' \in [Devices -> Ids \cup {Nowhere}]
              /\ client'[i] # Nothing /\ client'[i].name = d
              /\ client'[i].observationId = client[i].observationId
              /\ \A j \in Ids \ {i} : client'[j] = client[j]
            BY <3>1, <3>2, <3>3, FillFacts
        <3>5. \A j \in registered : /\ client'[j] # Nothing
                                    /\ client'[j].name = client[j].name
                                    /\ client'[j].observationId = client[j].observationId
            BY <3>2, <3>4 DEF TypeOK
        <3>6. EntriesKept
            BY <3>1, <3>5 DEF EntriesKept
        <3>7. QED
            BY <3>1, <3>4, <3>5, <3>6 DEF TypeOK, ListsOK, OneOfEach
    <2>2. CASE /\ ByName(d) = {}
               /\ \E i \in NewIds : /\ Fill(i, d, 0, FALSE)
                                    /\ registered' = registered \cup {i}
                                    /\ Reused(i)
        <3>1. PICK i \in NewIds : /\ Fill(i, d, 0, FALSE)
                                  /\ registered' = registered \cup {i}
                                  /\ Reused(i)
            BY <2>2
        <3>2. i \in Ids /\ i \notin registered
            BY DEF NewIds
        <3>3. /\ client' \in [Ids -> Clients \cup {Nothing}]
              /\ location' \in [Devices -> Ids \cup {Nowhere}]
              /\ client'[i] # Nothing /\ client'[i].name = d
              /\ client'[i].observationId = 0
              /\ \A j \in Ids \ {i} : client'[j] = client[j]
            <4>1. 0 \in 0..MaxCalls /\ FALSE \in BOOLEAN
                BY SizesAssumption DEF SizesAssumption
            <4>2. QED
                BY <3>1, <3>2, <4>1, FillFacts
        <3>4. \A j \in registered : client'[j] = client[j] /\ client[j] # Nothing /\ client[j].name # d
            BY <2>2, <3>2, <3>3, SearchFacts DEF TypeOK
        <3>5. EntriesKept /\ reused' \subseteq Ids
            BY <3>1, <3>2, <3>3, <3>4, ReusedFacts DEF EntriesKept
        <3>6. ASSUME NEW j \in registered', NEW k \in registered',
                     client'[j].name = client'[k].name, client'[j].name # NoName
              PROVE  j = k
            BY <3>1, <3>3, <3>4, <3>6 DEF ListsOK, OneOfEach
        <3>7. QED
            BY <3>1, <3>2, <3>3, <3>4, <3>5, <3>6 DEF TypeOK
    <2>3. QED
        BY <2>1, <2>2 DEF Register
<1>3. TokensDiffer' /\ CallsKnown'
    BY <1>1, <1>2, TokensKept, ObservationsStay DEF calls, CallsKnown
<1>4. OneOfEach'
    BY <1>1, <1>2 DEF ListsOK, OneOfEach
<1>5. QED
    BY <1>1, <1>2, <1>3, <1>4, ObservationsStay DEF TypeOK, ListsOK, calls

LEMMA RegisterFirstBlockOK ==
    ASSUME TypeOK, ListsOK, NEW d \in Devices, RegisterFirstBlock(d)
    PROVE  TypeOK' /\ ListsOK'
<1>1. /\ registrations' \in 0..MaxRegistrations /\ notified' = {}
      /\ UNCHANGED <<location, observations, calls, over, dropped, down>>
    BY PostType DEF RegisterFirstBlock
<1>2. /\ client' \in [Ids -> Clients \cup {Nothing}]
      /\ registered' \subseteq Ids /\ registered \subseteq registered' /\ reused' \subseteq Ids
      /\ \A i \in registered' : client'[i] # Nothing
      /\ EntriesKept
      /\ \A i, j \in registered' :
            client'[i].name = client'[j].name /\ client'[i].name # NoName => i = j
    <2>1. CASE \E i \in BySession(d) : /\ client' = [client EXCEPT ![i].block = TRUE]
                                       /\ UNCHANGED <<registered, reused>>
        <3>1. PICK i \in BySession(d) : /\ client' = [client EXCEPT ![i].block = TRUE]
                                        /\ UNCHANGED <<registered, reused>>
            BY <2>1
        <3>2. i \in registered
            BY SearchFacts
        <3>3. i \in Ids /\ client[i] \in Clients
            BY <3>2, ClientFacts
        <3>4. /\ client'[i] \in Clients
              /\ client'[i].name = client[i].name /\ client'[i].observationId = client[i].observationId
            BY <3>1, <3>3 DEF TypeOK, Clients
        <3>5. \A j \in Ids \ {i} : client'[j] = client[j]
            BY <3>1 DEF TypeOK
        <3>6. client' \in [Ids -> Clients \cup {Nothing}]
            BY <3>1, <3>4 DEF TypeOK
        <3>7. \A j \in registered : /\ client'[j] # Nothing
                                    /\ client'[j].name = client[j].name
                                    /\ client'[j].observationId = client[j].observationId
            BY <3>4, <3>5, NamesAssumption DEF TypeOK, NamesAssumption
        <3>8. QED
            BY <3>1, <3>6, <3>7 DEF TypeOK, ListsOK, OneOfEach, EntriesKept
    <2>2. CASE \E i \in NewIds : /\ client' = [client EXCEPT ![i] = Entry(NoName, d, 0, TRUE)]
                                /\ registered' = registered \cup {i}
                                /\ Reused(i)
        <3>1. PICK i \in NewIds : /\ client' = [client EXCEPT ![i] = Entry(NoName, d, 0, TRUE)]
                                  /\ registered' = registered \cup {i}
                                  /\ Reused(i)
            BY <2>2
        <3>2. i \in Ids /\ i \notin registered
            BY DEF NewIds
        <3> DEFINE e == Entry(NoName, d, 0, TRUE)
        <3>3. e \in Clients /\ e # Nothing /\ e.name = NoName /\ e.observationId = 0
            <4>1. 0 \in 0..MaxCalls /\ TRUE \in BOOLEAN /\ NoName \in Devices \cup {NoName}
                BY SizesAssumption DEF SizesAssumption
            <4>2. QED
                BY <4>1, EntryFacts
        <3>4. client' = [client EXCEPT ![i] = e]
            BY <3>1
        <3>. HIDE DEF e
        <3>5. client'[i] = e /\ \A j \in registered : client'[j] = client[j] /\ client[j] # Nothing
            BY <3>2, <3>4 DEF TypeOK
        <3>6. EntriesKept /\ reused' \subseteq Ids
            BY <3>1, <3>2, <3>3, <3>5, ReusedFacts DEF EntriesKept
        <3>7. ASSUME NEW j \in registered', NEW k \in registered',
                     client'[j].name = client'[k].name, client'[j].name # NoName
              PROVE  j = k
            BY <3>1, <3>3, <3>5, <3>7 DEF ListsOK, OneOfEach
        <3>8. client' \in [Ids -> Clients \cup {Nothing}]
            BY <3>3, <3>4 DEF TypeOK
        <3>9. QED
            BY <3>1, <3>2, <3>3, <3>5, <3>6, <3>7, <3>8 DEF TypeOK
    <2>3. QED
        BY <2>1, <2>2 DEF RegisterFirstBlock
<1>3. TokensDiffer' /\ CallsKnown'
    BY <1>1, <1>2, TokensKept, ObservationsStay DEF calls, CallsKnown
<1>4. OneOfEach'
    BY <1>1, <1>2 DEF ListsOK, OneOfEach
<1>5. QED
    BY <1>1, <1>2, <1>3, <1>4, ObservationsStay DEF TypeOK, ListsOK, calls

LEMMA RegisterLastBlockOK ==
    ASSUME TypeOK, ListsOK, NEW d \in Devices, RegisterLastBlock(d)
    PROVE  TypeOK' /\ ListsOK'
<1>1. notified' = {}
    BY DEF RegisterLastBlock, Handles
<1>2. PICK t \in BySession(d) :
          \/ /\ ByName(d) = {}
             /\ Fill(t, d, client[t].observationId, TRUE)
             /\ UNCHANGED <<registered, registrations, observations, calls, history, down>>
          \/ \E i \in ByName(d) \ {t} :
               /\ registered' = registered \ {t}
               /\ client' = [client EXCEPT ![t] = Nothing,
                               ![i] = Entry(d, d, client[i].observationId, client[i].block)]
               /\ location' = [location EXCEPT ![d] = i]
               /\ observations' = observations \ Observed(t)
               /\ dropped' = dropped \cup CallsOf(Observed(t))
               /\ UNCHANGED <<registrations, calls, over, reused, down>>
          \/ /\ ByName(d) = {t}
             /\ Crash("freed")
    BY DEF RegisterLastBlock
<1>3. t \in registered /\ t \in Ids
    BY SearchFacts DEF TypeOK
<1>4. CASE /\ ByName(d) = {}
           /\ Fill(t, d, client[t].observationId, TRUE)
           /\ UNCHANGED <<registered, registrations, observations, calls, history, down>>
    <2>1. client[t].observationId \in 0..MaxCalls
        BY <1>3, ClientFacts
    <2>2. /\ client' \in [Ids -> Clients \cup {Nothing}]
          /\ location' \in [Devices -> Ids \cup {Nowhere}]
          /\ client'[t] # Nothing /\ client'[t].name = d
          /\ client'[t].observationId = client[t].observationId
          /\ \A j \in Ids \ {t} : client'[j] = client[j]
        BY <1>3, <1>4, <2>1, FillFacts
    <2>3. \A j \in registered : /\ client'[j] # Nothing
                                /\ client'[j].observationId = client[j].observationId
                                /\ j # t => client'[j].name = client[j].name /\ client[j].name # d
        BY <1>3, <1>4, <2>2, SearchFacts DEF TypeOK
    <2>4. EntriesKept
        BY <1>4, <2>3 DEF EntriesKept, history
    <2>5. TokensDiffer' /\ CallsKnown'
        BY <1>4, <2>4, TokensKept, ObservationsStay DEF calls, history, CallsKnown
    <2>6. OneOfEach'
        BY <1>4, <2>2, <2>3 DEF ListsOK, OneOfEach
    <2>7. QED
        BY <1>1, <1>4, <2>2, <2>3, <2>5, <2>6, ObservationsStay DEF TypeOK, ListsOK, calls, history
<1>5. CASE \E i \in ByName(d) \ {t} :
               /\ registered' = registered \ {t}
               /\ client' = [client EXCEPT ![t] = Nothing,
                               ![i] = Entry(d, d, client[i].observationId, client[i].block)]
               /\ location' = [location EXCEPT ![d] = i]
               /\ observations' = observations \ Observed(t)
               /\ dropped' = dropped \cup CallsOf(Observed(t))
               /\ UNCHANGED <<registrations, calls, over, reused, down>>
    <2>1. PICK i \in ByName(d) \ {t} :
               /\ registered' = registered \ {t}
               /\ client' = [client EXCEPT ![t] = Nothing,
                               ![i] = Entry(d, d, client[i].observationId, client[i].block)]
               /\ location' = [location EXCEPT ![d] = i]
               /\ observations' = observations \ Observed(t)
               /\ dropped' = dropped \cup CallsOf(Observed(t))
               /\ UNCHANGED <<registrations, calls, over, reused, down>>
        BY <1>5
    <2>2. i \in registered /\ i \in Ids /\ i # t /\ client[i].name = d
        BY SearchFacts DEF TypeOK
    <2>3. client[i].observationId \in 0..MaxCalls /\ client[i].block \in BOOLEAN
        BY <2>2, ClientFacts
    <2> DEFINE e == Entry(d, d, client[i].observationId, client[i].block)
    <2>4. e \in Clients /\ e # Nothing /\ e.name = d /\ e.observationId = client[i].observationId
        BY <2>3, EntryFacts
    <2>5. client' = [client EXCEPT ![t] = Nothing, ![i] = e]
        BY <2>1
    <2>. HIDE DEF e
    <2>6. /\ client' \in [Ids -> Clients \cup {Nothing}]
          /\ location' \in [Devices -> Ids \cup {Nowhere}]
        BY <2>1, <2>2, <2>4, <2>5 DEF TypeOK
    <2>7. \A j \in registered' : /\ j \in registered /\ client'[j] # Nothing
                                 /\ client'[j].name = client[j].name
                                 /\ client'[j].observationId = client[j].observationId
        BY <1>3, <2>1, <2>2, <2>4, <2>5 DEF TypeOK
    <2>8. EntriesKept
        BY <2>1, <2>7 DEF EntriesKept
    <2>9. /\ observations' = observations \ Observed(t) /\ Observed(t) \in SUBSET observations
          /\ Gone' = Gone \cup CallsOf(Observed(t))
        BY <2>1 DEF Gone, Observed
    <2>10. /\ observations' \subseteq Observations /\ over' \subseteq Calls /\ dropped' \subseteq Calls
           /\ \A c \in Gone' : told'[c] # "none"
           /\ StoredAsAsked' /\ StoredAreLive'
        BY <2>1, <2>9, ObservationsGo, NothingTold
    <2>11. TokensDiffer' /\ CallsKnown'
        BY <2>1, <2>8, <2>10, TokensKept DEF calls, CallsKnown, ListsOK
    <2>12. OneOfEach'
        <3>1. \A j, k \in registered' :
                  client'[j].name = client'[k].name /\ client'[j].name # NoName => j = k
            BY <2>7 DEF ListsOK, OneOfEach
        <3>2. \A o \in observations' : o \in observations /\ o.client \in registered'
            BY <2>1, <2>9 DEF ListsOK, OneOfEach, Observed
        <3>3. QED
            BY <3>1, <3>2 DEF ListsOK, OneOfEach
    <2>13. registered' \subseteq Ids /\ \A j \in registered' : client'[j] # Nothing
        BY <2>1, <2>7 DEF TypeOK
    <2>14. QED
        BY <1>1, <2>1, <2>6, <2>10, <2>11, <2>12, <2>13 DEF TypeOK, ListsOK, calls
<1>6. CASE Crash("freed")
    BY <1>1, <1>6 DEF Crash, TypeOK, ListsOK, CallsKnown, StoredAsAsked, TokensDiffer, OneOfEach, StoredAreLive,
                      Confirmed, Gone, Asks, table, calls, history
<1>7. QED
    BY <1>2, <1>4, <1>5, <1>6

\* A step that removes the client i, and its observations.
LEMMA RemoveOK ==
    ASSUME TypeOK, ListsOK, NEW i \in Ids, Remove(i), Handles,
           UNCHANGED <<location, registrations, calls, reused, down>>
    PROVE  TypeOK' /\ ListsOK'
<1>1. /\ observations' = observations \ Observed(i) /\ Observed(i) \in SUBSET observations
      /\ Gone' = Gone \cup CallsOf(Observed(i))
    BY DEF Remove, Gone, Observed
<1>2. /\ observations' \subseteq Observations /\ over' \subseteq Calls /\ dropped' \subseteq Calls
      /\ \A c \in Gone' : told'[c] # "none"
      /\ StoredAsAsked' /\ StoredAreLive'
    BY <1>1, ObservationsGo, NothingTold
<1>3. registered' = registered \ {i} /\ \A j \in registered' : j \in registered /\ client'[j] = client[j]
    BY DEF Remove, TypeOK
<1>4. EntriesKept
    BY <1>3 DEF EntriesKept
<1>5. TokensDiffer' /\ CallsKnown'
    BY <1>2, <1>4, TokensKept DEF calls, CallsKnown, ListsOK
<1>6. OneOfEach'
    BY <1>1, <1>3 DEF ListsOK, OneOfEach, Observed
<1>7. client' \in [Ids -> Clients \cup {Nothing}] /\ registered' \subseteq Ids
    BY DEF Remove, TypeOK
<1>8. QED
    BY <1>2, <1>3, <1>5, <1>6, <1>7 DEF TypeOK, ListsOK, calls, Handles

LEMMA UpdateOK ==
    ASSUME TypeOK, ListsOK, NEW d \in Devices, NEW objs \in SUBSET Uris, Update(d, objs)
    PROVE  TypeOK' /\ ListsOK'
<1> DEFINE i == location[d]
           gone == {o \in Observed(i) : objs # {} /\ o.uri \notin objs}
<1>1. i \in registered /\ notified' = {} /\ gone \in SUBSET observations
    BY DEF Update, Handles, Observed
<1>2. CASE /\ client' = [client EXCEPT ![i].session = d]
           /\ observations' = observations \ gone
           /\ over' = over \cup CallsOf(gone)
           /\ UNCHANGED <<registered, location, registrations, calls, dropped, reused, down>>
    <2>1. client[i] \in Clients /\ i \in Ids
        BY <1>1, ClientFacts
    <2>2. /\ client'[i] \in Clients
          /\ client'[i].name = client[i].name /\ client'[i].observationId = client[i].observationId
        BY <1>2, <2>1 DEF TypeOK, Clients
    <2>3. \A j \in Ids \ {i} : client'[j] = client[j]
        BY <1>2 DEF TypeOK
    <2>4. client' \in [Ids -> Clients \cup {Nothing}]
        BY <1>2, <2>2 DEF TypeOK
    <2>5. \A j \in registered : /\ client'[j] # Nothing
                                /\ client'[j].name = client[j].name
                                /\ client'[j].observationId = client[j].observationId
        BY <2>2, <2>3, NamesAssumption DEF TypeOK, NamesAssumption
    <2>6. EntriesKept
        BY <1>2, <2>5 DEF EntriesKept
    <2>7. /\ observations' \subseteq Observations /\ over' \subseteq Calls /\ dropped' \subseteq Calls
          /\ \A c \in Gone' : told'[c] # "none"
          /\ StoredAsAsked' /\ StoredAreLive'
        <3>1. Gone' = Gone \cup CallsOf(gone)
            BY <1>2 DEF Gone
        <3>2. QED
            BY <1>1, <1>2, <3>1, ObservationsGo, NothingTold
    <2>8. TokensDiffer' /\ CallsKnown'
        BY <1>2, <2>6, <2>7, TokensKept DEF calls, CallsKnown, ListsOK
    <2>9. OneOfEach'
        BY <1>2, <2>5 DEF ListsOK, OneOfEach
    <2>10. QED
        BY <1>1, <1>2, <2>4, <2>5, <2>7, <2>8, <2>9 DEF TypeOK, ListsOK, calls
<1>3. CASE Crash("list")
    BY <1>1, <1>3 DEF Crash, TypeOK, ListsOK, CallsKnown, StoredAsAsked, TokensDiffer, OneOfEach, StoredAreLive,
                      Confirmed, Gone, Asks, table, calls, history
<1>4. QED
    BY <1>2, <1>3 DEF Update

-----------------------------------------------------------------------------
(* observe.c *)

\* Observations of which only the status changes.
LEMMA StatusChange ==
    ASSUME TypeOK, ListsOK, NEW g \in [observations -> Observations],
           \A o \in observations : /\ g[o].client = o.client /\ g[o].uri = o.uri
                                  /\ g[o].id = o.id /\ g[o].call = o.call,
           observations' = {g[o] : o \in observations}, UNCHANGED <<over, dropped>>, NoneConfirmed
    PROVE  /\ observations' \subseteq Observations
           /\ StoredAsAsked' /\ StoredAreLive'
           /\ \A o, q \in observations' : o.client = q.client /\ o.uri = q.uri => o = q
           /\ \A o \in observations' : o.client \in registered
<1>1. \A p \in observations' : \E o \in observations : p = g[o]
    OBVIOUS
<1>2. \A o \in observations : /\ request'[o.call] = request[o.call] /\ told'[o.call] = told[o.call]
                             /\ Confirmed(o.call)
                             /\ o.call \notin Gone
    BY CallFacts DEF NoneConfirmed
<1>3. StoredAsAsked'
    <2>1. ASSUME NEW p \in observations', NEW q \in observations', p.call = q.call PROVE p = q
        BY <1>1, <2>1 DEF ListsOK, StoredAsAsked
    <2>2. ASSUME NEW p \in observations' PROVE Asks(p.call, p.client)' /\ request'[p.call].id = p.id
        BY <1>1, <1>2 DEF ListsOK, StoredAsAsked, Asks
    <2>3. QED
        BY <2>1, <2>2 DEF StoredAsAsked
<1>4. StoredAreLive'
    <2>1. \A p \in observations' : Confirmed(p.call)' /\ p.call \notin Gone'
        BY <1>1, <1>2 DEF Confirmed, Gone
    <2>2. ASSUME NEW c \in Calls, request'[c] # Nothing, request'[c].kind = "observe", Confirmed(c)'
          PROVE  c \in Gone' \/ \E p \in observations' : p.call = c
        <3>1. told[c] # "none" /\ request'[c] = request[c] /\ told'[c] = told[c]
            BY <2>2 DEF NoneConfirmed
        <3>2. c \in Gone \/ \E o \in observations : o.call = c
            BY <2>2, <3>1 DEF ListsOK, StoredAreLive, Confirmed, Gone
        <3>3. QED
            BY <3>2 DEF Gone
    <2>3. QED
        BY <2>1, <2>2 DEF StoredAreLive, Gone
<1>5. ASSUME NEW p \in observations', NEW q \in observations', p.client = q.client, p.uri = q.uri PROVE p = q
    BY <1>1, <1>5 DEF ListsOK, OneOfEach
<1>6. \A p \in observations' : p.client \in registered
    BY <1>1 DEF ListsOK, OneOfEach
<1>7. QED
    BY <1>3, <1>4, <1>5, <1>6

LEMMA StatusRecord ==
    ASSUME NEW o \in Observations, NEW s \in {"REGISTERED", "REG_PENDING", "DEREG_PENDING"}
    PROVE  /\ [o EXCEPT !.status = s] \in Observations
           /\ [o EXCEPT !.status = s].client = o.client /\ [o EXCEPT !.status = s].uri = o.uri
           /\ [o EXCEPT !.status = s].id = o.id /\ [o EXCEPT !.status = s].call = o.call
BY DEF Observations

\* A new call changes nothing of those before.
LEMMA SendFacts ==
    ASSUME TypeOK, ListsOK, nextCall \in Calls, NEW r \in Requests, NEW sends \in BOOLEAN, Send(r, sends)
    PROVE  /\ nextCall' = nextCall + 1 /\ nextCall' \in 1..(MaxCalls + 1)
           /\ request' \in [Calls -> Requests \cup {Nothing}] /\ request'[nextCall] = r
           /\ pending' \subseteq Calls /\ told' \in [Calls -> {"none", "ok", "ok_after_202", "failed"}]
           /\ \A c \in Calls : c # nextCall => request'[c] = request[c] /\ told'[c] = told[c]
           /\ \A c \in Calls : c >= nextCall' => request'[c] = Nothing /\ told'[c] = "none"
           /\ \A c \in pending' : request'[c] # Nothing /\ told'[c] = "none"
           /\ NoneConfirmed
           /\ request[nextCall] = Nothing /\ told[nextCall] = "none"
<1>1. r # Nothing
    BY NamesAssumption DEF NamesAssumption
<1>2. nextCall' = nextCall + 1 /\ nextCall' \in 1..(MaxCalls + 1)
    BY SizesAssumption DEF Send, Calls, SizesAssumption
<1>3. request[nextCall] = Nothing /\ told[nextCall] = "none" /\ nextCall \notin pending
    BY DEF ListsOK, CallsKnown, Calls
<1>4. request' = [request EXCEPT ![nextCall] = r]
    BY DEF Send
<1>5. /\ pending' = IF sends THEN pending \cup {nextCall} ELSE pending
      /\ told' = IF sends THEN told ELSE [told EXCEPT ![nextCall] = "failed"]
    BY DEF Send
<1>6. \A c \in Calls : c # nextCall => request'[c] = request[c] /\ told'[c] = told[c]
    BY <1>4, <1>5 DEF TypeOK
<1>7. \A c \in Calls : c >= nextCall' => request'[c] = Nothing /\ told'[c] = "none"
    BY <1>2, <1>6 DEF ListsOK, CallsKnown, Calls
<1>8. request' \in [Calls -> Requests \cup {Nothing}] /\ request'[nextCall] = r
    BY <1>4 DEF TypeOK
<1>9. pending' \subseteq Calls /\ told' \in [Calls -> {"none", "ok", "ok_after_202", "failed"}]
    BY <1>5 DEF TypeOK
<1>10. ASSUME NEW c \in pending' PROVE request'[c] # Nothing /\ told'[c] = "none"
    <2>1. CASE c = nextCall
        BY <1>1, <1>3, <1>5, <1>8, <2>1
    <2>2. CASE c # nextCall
        <3>1. c \in pending /\ c \in Calls
            BY <1>5, <1>9, <2>2
        <3>2. QED
            BY <1>6, <2>2, <3>1 DEF ListsOK, CallsKnown
    <2>3. QED
        BY <2>1, <2>2
<1>11. NoneConfirmed
    BY <1>3, <1>5, <1>6 DEF NoneConfirmed, Confirmed, TypeOK
<1>12. QED
    BY <1>2, <1>3, <1>6, <1>7, <1>8, <1>9, <1>10, <1>11

LEMMA ObserveOK ==
    ASSUME TypeOK, ListsOK, NEW i \in Known, NEW u \in Uris, NEW sends \in BOOLEAN, Observe(i, u, sends)
    PROVE  TypeOK' /\ ListsOK'
<1> DEFINE id == client[i].observationId + 1
           r == [kind |-> "observe", client |-> i, uri |-> u, id |-> id]
           new(o) == IF o \in ByUri(i, u) THEN [o EXCEPT !.status = "REG_PENDING"] ELSE o
           g == [o \in observations |-> new(o)]
<1>1. /\ notified' = {} /\ nextCall \in Calls
      /\ client' = [client EXCEPT ![i].observationId = id]
      /\ UNCHANGED <<registered, location, registrations, over, dropped, reused, down>>
    BY DEF Observe, Handles, history
<1>2. /\ i \in registered /\ i \in Ids /\ client[i] \in Clients
      /\ client[i].observationId \in Nat /\ client[i].observationId < nextCall
    BY ClientFacts DEF Known, ListsOK, CallsKnown
<1>3. id \in 1..MaxCalls /\ id \in 0..MaxCalls /\ id < nextCall + 1 /\ client[i].observationId < id
    BY <1>1, <1>2, SizesAssumption DEF Calls, SizesAssumption
<1>4. /\ client'[i] \in Clients /\ client'[i].observationId = id /\ client'[i].name = client[i].name
      /\ \A j \in Ids \ {i} : client'[j] = client[j]
    <2>. HIDE DEF id
    <2>1. /\ [client[i] EXCEPT !.observationId = id] \in Clients
          /\ [client[i] EXCEPT !.observationId = id].observationId = id
          /\ [client[i] EXCEPT !.observationId = id].name = client[i].name
        BY <1>2, <1>3 DEF Clients
    <2>2. client' = [client EXCEPT ![i] = [client[i] EXCEPT !.observationId = id]]
        BY <1>1
    <2>3. QED
        BY <1>2, <2>1, <2>2 DEF TypeOK
<1>5. client' \in [Ids -> Clients \cup {Nothing}]
    BY <1>1, <1>4 DEF TypeOK
<1>6. \A j \in registered : /\ client'[j] # Nothing /\ client'[j].name = client[j].name
                            /\ client'[j].observationId = IF j = i THEN id ELSE client[j].observationId
    BY <1>4, NamesAssumption DEF TypeOK, NamesAssumption
<1>7. \A j, k \in registered' :
          client'[j].name = client'[k].name /\ client'[j].name # NoName => j = k
    BY <1>1, <1>6 DEF ListsOK, OneOfEach
<1>8. nextCall' = nextCall + 1 => \A j \in registered' : client'[j].observationId < nextCall'
    <2>1. ASSUME nextCall' = nextCall + 1, NEW j \in registered PROVE client'[j].observationId < nextCall'
        <3>1. client[j].observationId \in Nat /\ client[j].observationId < nextCall /\ nextCall \in Nat
            BY <1>1, ClientFacts DEF ListsOK, CallsKnown, Calls
        <3>2. QED
            BY <1>3, <1>6, <2>1, <3>1
    <2>2. QED
        BY <1>1, <2>1
<1>9. CASE /\ nextCall' = nextCall + 1
           /\ told' = [told EXCEPT ![nextCall] = "failed"]
           /\ UNCHANGED <<observations, request, pending>>
    <2>1. told[nextCall] = "none" /\ request[nextCall] = Nothing /\ nextCall \notin pending
        BY <1>1 DEF ListsOK, CallsKnown, Calls
    <2>2. \A c \in Calls \ {nextCall} : told'[c] = told[c]
        BY <1>9 DEF TypeOK
    <2>3. /\ \A c \in Calls : c >= nextCall' => request'[c] = Nothing /\ told'[c] = "none"
          /\ \A c \in pending' : request'[c] # Nothing /\ told'[c] = "none"
          /\ \A c \in Gone' : told'[c] # "none"
        BY <1>1, <1>9, <2>1, <2>2 DEF ListsOK, CallsKnown, Calls, TypeOK, Gone
    <2>4. CallsKnown'
        BY <1>8, <1>9, <2>3 DEF CallsKnown
    <2>5. StoredAsAsked'
        BY <1>9 DEF ListsOK, StoredAsAsked, Asks
    <2>6. StoredAreLive'
        <3>1. \A o \in observations : told'[o.call] = told[o.call]
            BY <2>1, <2>2, CallFacts
        <3>2. \A c \in Calls : Confirmed(c)' => Confirmed(c)
            BY <1>9, <2>2 DEF Confirmed, TypeOK
        <3>3. QED
            BY <1>1, <1>9, <3>1, <3>2 DEF ListsOK, StoredAreLive, Confirmed
    <2>7. OneOfEach'
        BY <1>1, <1>7, <1>9 DEF ListsOK, OneOfEach
    <2>8. TokensDiffer'
        <3>1. ASSUME NEW j \in registered \ reused, NEW c \in Calls, Asks(c, j)
              PROVE  request[c].id <= client'[j].observationId
            <4>1. request[c].id <= client[j].observationId
                BY <3>1 DEF ListsOK, TokensDiffer
            <4>2. request[c].id \in Nat /\ client[j].observationId \in Nat
                BY <3>1, ClientFacts DEF TypeOK, Asks, Requests
            <4>3. QED
                BY <1>3, <1>6, <4>1, <4>2
        <3>2. QED
            BY <1>1, <1>9, <3>1 DEF ListsOK, TokensDiffer, Asks
    <2>9. nextCall' \in 1..(MaxCalls + 1) /\ told' \in [Calls -> {"none", "ok", "ok_after_202", "failed"}]
        BY <1>1, <1>9, SizesAssumption DEF TypeOK, Calls, SizesAssumption
    <2>10. QED
        BY <1>1, <1>5, <1>6, <1>9, <2>4, <2>5, <2>6, <2>7, <2>8, <2>9 DEF TypeOK, ListsOK
<1>10. CASE Send(r, sends) /\ observations' = {new(o) : o \in observations}
    <2>1. r \in Requests
        BY <1>2, <1>3 DEF Requests
    <2>2. r.kind = "observe" /\ r.client = i /\ r.id = id /\ r # Nothing
        BY <2>1, NamesAssumption DEF NamesAssumption
    <2>. HIDE DEF r
    <2>3. /\ nextCall' = nextCall + 1 /\ nextCall' \in 1..(MaxCalls + 1)
          /\ request' \in [Calls -> Requests \cup {Nothing}] /\ request'[nextCall] = r
          /\ pending' \subseteq Calls /\ told' \in [Calls -> {"none", "ok", "ok_after_202", "failed"}]
          /\ \A c \in Calls : c # nextCall => request'[c] = request[c] /\ told'[c] = told[c]
          /\ \A c \in Calls : c >= nextCall' => request'[c] = Nothing /\ told'[c] = "none"
          /\ \A c \in pending' : request'[c] # Nothing /\ told'[c] = "none"
          /\ NoneConfirmed
          /\ request[nextCall] = Nothing /\ told[nextCall] = "none"
        BY <1>1, <1>10, <2>1, SendFacts
    <2>4. /\ g \in [observations -> Observations]
          /\ \A o \in observations : /\ g[o].client = o.client /\ g[o].uri = o.uri
                                     /\ g[o].id = o.id /\ g[o].call = o.call
        <3>1. ASSUME NEW o \in observations
              PROVE  /\ new(o) \in Observations
                     /\ new(o).client = o.client /\ new(o).uri = o.uri
                     /\ new(o).id = o.id /\ new(o).call = o.call
            <4>1. o \in Observations
                BY DEF TypeOK
            <4>2. QED
                BY <4>1, StatusRecord
        <3>2. QED
            BY <3>1
    <2>5. observations' = {g[o] : o \in observations}
        BY <1>10
    <2>. HIDE DEF g
    <2>6. /\ observations' \subseteq Observations
          /\ StoredAsAsked' /\ StoredAreLive'
          /\ \A o, q \in observations' : o.client = q.client /\ o.uri = q.uri => o = q
          /\ \A o \in observations' : o.client \in registered
        BY <1>1, <2>3, <2>4, <2>5, StatusChange
    <2>7. OneOfEach'
        BY <1>1, <1>7, <2>6 DEF OneOfEach
    <2>8. CallsKnown'
        BY <1>1, <1>8, <2>3 DEF CallsKnown, ListsOK, TypeOK, Gone
    <2>9. \A c \in Calls, j \in Ids : Asks(c, j)' <=> Asks(c, j) \/ (c = nextCall /\ j = i)
        BY <1>1, <2>2, <2>3 DEF Asks
    <2>10. \A c \in Calls, j \in registered \ reused : Asks(c, j) => request[c].id <= client[j].observationId
        BY DEF ListsOK, TokensDiffer
    <2>11. \A c \in Calls, j \in Ids : Asks(c, j) => request[c].id \in Nat /\ c # nextCall
        BY <2>3 DEF TypeOK, Asks, Requests
    <2>12. TokensDiffer'
        <3>1. ASSUME NEW j \in registered \ reused, NEW c \in Calls, Asks(c, j)'
              PROVE  request'[c].id <= client'[j].observationId
            <4>1. CASE c = nextCall
                BY <1>3, <1>6, <2>2, <2>3, <2>9, <2>11, <3>1, <4>1 DEF TypeOK
            <4>2. CASE c # nextCall
                <5>1. Asks(c, j) /\ request'[c] = request[c]
                    BY <2>3, <2>9, <3>1, <4>2 DEF TypeOK
                <5>2. client[j].observationId \in Nat
                    BY ClientFacts
                <5>3. QED
                    BY <1>3, <1>6, <2>10, <2>11, <5>1, <5>2 DEF TypeOK
            <4>3. QED
                BY <4>1, <4>2
        <3>2. ASSUME NEW c \in Calls, NEW t \in Calls, NEW j \in Ids \ reused,
                     Asks(c, j)', Asks(t, j)', request'[c].id = request'[t].id
              PROVE  c = t
            <4>1. ASSUME NEW x \in Calls, x # nextCall, Asks(x, j)', j = i PROVE request'[x].id # id
                <5>1. Asks(x, j) /\ request'[x] = request[x]
                    BY <2>3, <2>9, <4>1
                <5>2. request[x].id <= client[i].observationId /\ request[x].id \in Nat
                    BY <1>2, <2>10, <2>11, <4>1, <5>1
                <5>3. QED
                    BY <1>2, <1>3, <5>1, <5>2
            <4>2. CASE c = nextCall /\ t # nextCall
                <5>1. j = i /\ request'[c].id = id
                    BY <2>2, <2>3, <2>9, <2>11, <3>2, <4>2
                <5>2. QED
                    BY <3>2, <4>1, <4>2, <5>1
            <4>3. CASE t = nextCall /\ c # nextCall
                <5>1. j = i /\ request'[t].id = id
                    BY <2>2, <2>3, <2>9, <2>11, <3>2, <4>3
                <5>2. QED
                    BY <3>2, <4>1, <4>3, <5>1
            <4>4. CASE c # nextCall /\ t # nextCall
                <5>1. Asks(c, j) /\ Asks(t, j) /\ request[c].id = request[t].id
                    BY <2>3, <2>9, <3>2, <4>4
                <5>2. QED
                    BY <5>1 DEF ListsOK, TokensDiffer
            <4>5. QED
                BY <4>2, <4>3, <4>4
        <3>3. QED
            BY <1>1, <3>1, <3>2 DEF TokensDiffer
    <2>13. QED
        BY <1>1, <1>5, <1>6, <2>3, <2>6, <2>7, <2>8, <2>12 DEF TypeOK, ListsOK
<1>11. QED
    BY <1>9, <1>10 DEF Observe

LEMMA CancelOK ==
    ASSUME TypeOK, ListsOK, NEW i \in Known, NEW u \in Uris, NEW sends \in BOOLEAN, Cancel(i, u, sends)
    PROVE  TypeOK' /\ ListsOK'
<1>1. notified' = {} /\ nextCall \in Calls /\ i \in registered /\ i \in Ids
    BY DEF Cancel, Handles, Known, TypeOK
<1>2. PICK o \in ByUri(i, u) :
         \/ /\ o.status = "REGISTERED"
            /\ Send([kind |-> "cancel", client |-> i, uri |-> u, id |-> o.id], sends)
            /\ observations' = SetStatus(o, "DEREG_PENDING")
            /\ UNCHANGED <<table, history, down>>
         \/ /\ o.status # "REGISTERED" /\ Unique(o)
            /\ Send([kind |-> "forget", client |-> i, uri |-> u, id |-> o.id], FALSE)
            /\ observations' = observations \ {o}
            /\ over' = over \cup {o.call}
            /\ UNCHANGED <<table, dropped, reused, down>>
         \/ /\ o.status # "REGISTERED" /\ ~Unique(o)
            /\ Crash("list")
    BY DEF Cancel
<1>3. o \in observations /\ o \in Observations /\ o.id \in 1..MaxCalls
    BY DEF ByUri, Observed, TypeOK, Observations
\* A call that observes nothing is in nobody's way.
<1>4. ASSUME NEW kind \in {"cancel", "forget"}, NEW b \in BOOLEAN, UNCHANGED <<table, reused, down>>,
             Send([kind |-> kind, client |-> i, uri |-> u, id |-> o.id], b)
      PROVE  /\ TokensDiffer'
             /\ (\A c \in Gone' : told'[c] # "none") => CallsKnown'
             /\ NoneConfirmed
             /\ nextCall' \in 1..(MaxCalls + 1) /\ request' \in [Calls -> Requests \cup {Nothing}]
             /\ pending' \subseteq Calls /\ told' \in [Calls -> {"none", "ok", "ok_after_202", "failed"}]
    <2> DEFINE r == [kind |-> kind, client |-> i, uri |-> u, id |-> o.id]
    <2>1. r \in Requests /\ r.kind = kind
        BY <1>1, <1>3 DEF Requests
    <2>. HIDE DEF r
    <2>2. /\ nextCall' = nextCall + 1 /\ nextCall' \in 1..(MaxCalls + 1)
          /\ request' \in [Calls -> Requests \cup {Nothing}] /\ request'[nextCall] = r
          /\ pending' \subseteq Calls /\ told' \in [Calls -> {"none", "ok", "ok_after_202", "failed"}]
          /\ \A c \in Calls : c # nextCall => request'[c] = request[c] /\ told'[c] = told[c]
          /\ \A c \in Calls : c >= nextCall' => request'[c] = Nothing /\ told'[c] = "none"
          /\ \A c \in pending' : request'[c] # Nothing /\ told'[c] = "none"
          /\ NoneConfirmed
          /\ request[nextCall] = Nothing
        BY <1>1, <1>4, <2>1, SendFacts DEF r
    <2>3. \A c \in Calls, j \in Ids : Asks(c, j)' => Asks(c, j) /\ request'[c] = request[c]
        BY <2>1, <2>2 DEF Asks
    <2>4. TokensDiffer'
        BY <1>4, <2>3 DEF ListsOK, TokensDiffer, table, TypeOK
    <2>5. \A j \in registered' : client'[j].observationId < nextCall'
        <3>1. \A j \in registered : client[j].observationId \in Nat /\ client[j].observationId < nextCall
            BY ClientFacts DEF ListsOK, CallsKnown
        <3>2. QED
            BY <1>1, <1>4, <2>2, <3>1 DEF table, Calls
    <2>6. QED
        BY <2>2, <2>4, <2>5 DEF CallsKnown
<1>5. CASE /\ Send([kind |-> "cancel", client |-> i, uri |-> u, id |-> o.id], sends)
           /\ observations' = SetStatus(o, "DEREG_PENDING")
           /\ UNCHANGED <<table, history, down>>
    <2> DEFINE g == [q \in observations |-> IF q = o THEN [o EXCEPT !.status = "DEREG_PENDING"] ELSE q]
    <2>1. /\ g \in [observations -> Observations]
          /\ \A q \in observations : /\ g[q].client = q.client /\ g[q].uri = q.uri
                                     /\ g[q].id = q.id /\ g[q].call = q.call
        BY <1>3, StatusRecord DEF TypeOK
    <2>2. observations' = {g[q] : q \in observations}
        BY <1>3, <1>5 DEF SetStatus
    <2>. HIDE DEF g
    <2>3. /\ TokensDiffer'
          /\ (\A c \in Gone' : told'[c] # "none") => CallsKnown'
          /\ NoneConfirmed
          /\ nextCall' \in 1..(MaxCalls + 1) /\ request' \in [Calls -> Requests \cup {Nothing}]
          /\ pending' \subseteq Calls /\ told' \in [Calls -> {"none", "ok", "ok_after_202", "failed"}]
        BY <1>4, <1>5 DEF history
    <2>4. /\ observations' \subseteq Observations
          /\ StoredAsAsked' /\ StoredAreLive'
          /\ \A p, q \in observations' : p.client = q.client /\ p.uri = q.uri => p = q
          /\ \A q \in observations' : q.client \in registered
        BY <1>5, <2>1, <2>2, <2>3, StatusChange DEF history
    <2>5. OneOfEach'
        BY <1>5, <2>4 DEF OneOfEach, ListsOK, table
    <2>6. CallsKnown'
        BY <1>5, <2>3 DEF ListsOK, CallsKnown, TypeOK, Gone, history, NoneConfirmed
    <2>7. QED
        BY <1>1, <1>5, <2>3, <2>4, <2>5, <2>6 DEF TypeOK, ListsOK, table, history
<1>6. CASE /\ Send([kind |-> "forget", client |-> i, uri |-> u, id |-> o.id], FALSE)
           /\ observations' = observations \ {o}
           /\ over' = over \cup {o.call}
           /\ UNCHANGED <<table, dropped, reused, down>>
    <2>1. /\ TokensDiffer'
          /\ (\A c \in Gone' : told'[c] # "none") => CallsKnown'
          /\ NoneConfirmed
          /\ nextCall' \in 1..(MaxCalls + 1) /\ request' \in [Calls -> Requests \cup {Nothing}]
          /\ pending' \subseteq Calls /\ told' \in [Calls -> {"none", "ok", "ok_after_202", "failed"}]
        BY <1>4, <1>6
    <2>2. {o} \in SUBSET observations /\ Gone' = Gone \cup CallsOf({o})
        BY <1>3, <1>6 DEF CallsOf, Gone
    <2>3. /\ observations' \subseteq Observations /\ over' \subseteq Calls /\ dropped' \subseteq Calls
          /\ \A c \in Gone' : told'[c] # "none"
          /\ StoredAsAsked' /\ StoredAreLive'
        BY <1>6, <2>1, <2>2, ObservationsGo
    <2>4. OneOfEach'
        BY <1>6 DEF OneOfEach, ListsOK, table
    <2>5. QED
        BY <1>1, <1>6, <2>1, <2>3, <2>4 DEF TypeOK, ListsOK, table
<1>7. CASE Crash("list")
    BY <1>1, <1>7 DEF Crash, TypeOK, ListsOK, CallsKnown, StoredAsAsked, TokensDiffer, OneOfEach, StoredAreLive,
                      Confirmed, Gone, Asks, table, calls, history
<1>8. QED
    BY <1>2, <1>5, <1>6, <1>7

\* A request that ends: nothing was told before.
LEMMA EndFacts ==
    ASSUME TypeOK, ListsOK, NEW c \in pending, NEW r \in {"ok", "ok_after_202", "failed"}, End(c, r)
    PROVE  /\ pending' \subseteq Calls /\ told' \in [Calls -> {"none", "ok", "ok_after_202", "failed"}]
           /\ c \in Calls /\ told[c] = "none" /\ told'[c] = r /\ c \notin pending' /\ request[c] # Nothing
           /\ \A b \in Calls : told[b] # "none" => told'[b] = told[b] /\ request'[b] = request[b]
           /\ \A b \in Calls : b >= nextCall' => request'[b] = Nothing /\ told'[b] = "none"
           /\ \A b \in pending' : request'[b] # Nothing /\ told'[b] = "none"
           /\ \A b \in Gone : told'[b] # "none"
           /\ UNCHANGED <<nextCall, request>>
<1>1. c \in Calls /\ told[c] = "none" /\ request[c] # Nothing
    BY DEF TypeOK, ListsOK, CallsKnown
<1>2. ~(c >= nextCall)
    BY <1>1 DEF ListsOK, CallsKnown
<1>3. \A b \in Calls : told'[b] = IF b = c THEN r ELSE told[b]
    BY DEF End, TypeOK
<1>4. UNCHANGED <<nextCall, request>> /\ pending' = pending \ {c}
    BY DEF End
<1>5. told' \in [Calls -> {"none", "ok", "ok_after_202", "failed"}]
    BY DEF End, TypeOK
<1>6. QED
    BY <1>1, <1>2, <1>3, <1>4, <1>5 DEF TypeOK, ListsOK, CallsKnown, Gone

\* It ends, and some observations go.
LEMMA EndsAndGo ==
    ASSUME TypeOK, ListsOK, NEW c \in pending, NEW r \in {"ok", "ok_after_202", "failed"}, End(c, r), Handles,
           r = "failed" \/ request[c].kind # "observe", NEW gone \in SUBSET observations,
           observations' = observations \ gone, Gone' = Gone \cup CallsOf(gone),
           UNCHANGED <<table, reused, down>>
    PROVE  TypeOK' /\ ListsOK'
<1>1. /\ pending' \subseteq Calls /\ told' \in [Calls -> {"none", "ok", "ok_after_202", "failed"}]
      /\ \A b \in Calls : told[b] # "none" => told'[b] = told[b] /\ request'[b] = request[b]
      /\ \A b \in Calls : b >= nextCall' => request'[b] = Nothing /\ told'[b] = "none"
      /\ \A b \in pending' : request'[b] # Nothing /\ told'[b] = "none"
      /\ UNCHANGED <<nextCall, request>>
      /\ c \in Calls
    BY EndFacts
<1>2. /\ observations' \subseteq Observations /\ over' \subseteq Calls /\ dropped' \subseteq Calls
      /\ \A b \in Gone' : told'[b] # "none"
      /\ StoredAsAsked' /\ StoredAreLive'
    <2>1. \A b \in Calls : b # c => told'[b] = told[b]
        BY DEF End, TypeOK
    <2>2. r = "failed" => ~Confirmed(c)'
        BY <1>1 DEF End, Confirmed, TypeOK
    <2>3. NoneConfirmed
        BY <1>1, <2>1, <2>2 DEF NoneConfirmed, Confirmed
    <2>4. QED
        BY <2>3, ObservationsGo
<1>3. EntriesKept
    BY DEF EntriesKept, table
<1>4. TokensDiffer' /\ CallsKnown'
    BY <1>1, <1>2, <1>3, TokensKept DEF CallsKnown
<1>5. OneOfEach'
    BY DEF ListsOK, OneOfEach, table
<1>6. QED
    BY <1>1, <1>2, <1>4, <1>5 DEF TypeOK, ListsOK, table, Handles

\* It ends well, and what it observes is stored under its token.
LEMMA EndsAndStores ==
    ASSUME TypeOK, ListsOK, NEW c \in pending, request[c].kind = "observe", request[c].client \in registered,
           Store(c), Handles, UNCHANGED <<table, over, reused, down>>
    PROVE  TypeOK' /\ ListsOK'
<1>0. PICK r \in Requests : r = request[c]
    BY DEF TypeOK, ListsOK, CallsKnown
<1> DEFINE old == ByUri(r.client, r.uri)
           new == [client |-> r.client, uri |-> r.uri, id |-> r.id, call |-> c, status |-> "REGISTERED"]
           word == IF old = {} THEN "ok" ELSE "ok_after_202"
<1>9. End(c, word) /\ word \in {"ok", "ok_after_202"}
    BY <1>0 DEF Store
<1>. HIDE DEF word
<1>1. /\ pending' \subseteq Calls /\ told' \in [Calls -> {"none", "ok", "ok_after_202", "failed"}]
      /\ c \in Calls /\ told[c] = "none" /\ Confirmed(c)' /\ request[c] # Nothing
      /\ \A b \in Calls : told[b] # "none" => told'[b] = told[b] /\ request'[b] = request[b]
      /\ \A b \in Calls : b >= nextCall' => request'[b] = Nothing /\ told'[b] = "none"
      /\ \A b \in pending' : request'[b] # Nothing /\ told'[b] = "none"
      /\ \A b \in Gone : told'[b] # "none"
      /\ UNCHANGED <<nextCall, request>>
    BY <1>9, EndFacts DEF Confirmed
<1>3. /\ new \in Observations /\ new.call = c /\ new.client = r.client /\ new.uri = r.uri /\ new.id = r.id
    BY <1>1 DEF Requests, Observations
<1>4. /\ observations' = (observations \ old) \cup {new}
      /\ over' = over /\ dropped' = dropped \cup CallsOf(old) /\ Gone' = Gone \cup CallsOf(old)
      /\ old = {o \in observations : o.client = r.client /\ o.uri = r.uri}
    BY <1>0 DEF Store, ByUri, Observed, Confirmation, Gone
<1>. HIDE DEF new, old
<1>5. \A o \in observations : /\ o \in Observations /\ o.call \in Calls /\ Confirmed(o.call) /\ o.call \notin Gone
                             /\ o.client \in registered /\ o.call # c
                             /\ told'[o.call] = told[o.call] /\ told[o.call] # "none"
    BY <1>1, CallFacts DEF TypeOK
<1>6. observations' \subseteq Observations /\ over' \subseteq Calls /\ dropped' \subseteq Calls
    BY <1>3, <1>4, <1>5 DEF TypeOK, CallsOf
<1>7. ASSUME NEW b \in Gone' PROVE told'[b] # "none" /\ b # c
    <2>1. CASE b \in Gone
        BY <1>1, <2>1 DEF ListsOK, CallsKnown
    <2>2. CASE b \in CallsOf(old)
        BY <1>1, <1>4, <1>5, <2>2 DEF CallsOf
    <2>3. QED
        BY <1>4, <2>1, <2>2
<1>8. StoredAsAsked'
    <2>1. \A o \in observations : Asks(o.call, o.client)' /\ request'[o.call].id = o.id
        BY <1>1 DEF ListsOK, StoredAsAsked, Asks
    <2>2. Asks(c, r.client)' /\ request'[c].id = r.id
        BY <1>0, <1>1 DEF Asks
    <2>3. \A o, q \in observations' : o.call = q.call => o = q
        BY <1>3, <1>4, <1>5 DEF ListsOK, StoredAsAsked
    <2>4. ASSUME NEW o \in observations' PROVE Asks(o.call, o.client)' /\ request'[o.call].id = o.id
        <3>1. CASE o = new
            BY <1>3, <2>2, <3>1 DEF Asks
        <3>2. CASE o \in observations
            BY <2>1, <3>2
        <3>3. QED
            BY <1>4, <3>1, <3>2
    <2>5. QED
        BY <2>3, <2>4 DEF StoredAsAsked
<1>13. StoredAreLive'
    <2>1. ASSUME NEW o \in observations \ old PROVE Confirmed(o.call)' /\ o.call \notin Gone'
        <3>1. o.call \notin CallsOf(old)
            BY <1>4 DEF CallsOf, ListsOK, StoredAsAsked
        <3>2. QED
            BY <1>4, <1>5, <3>1 DEF Confirmed
    <2>2. Confirmed(c)' /\ c \notin Gone'
        BY <1>1, <1>7
    <2>3. \A o \in observations' : Confirmed(o.call)' /\ o.call \notin Gone'
        BY <1>3, <1>4, <2>1, <2>2
    <2>4. ASSUME NEW b \in Calls, request'[b] # Nothing, request'[b].kind = "observe", Confirmed(b)'
          PROVE  b \in Gone' \/ \E o \in observations' : o.call = b
        <3>1. CASE b = c
            BY <1>3, <1>4, <3>1
        <3>2. CASE b # c
            <4>1. told'[b] = told[b] /\ request'[b] = request[b]
                BY <1>1, <1>9, <3>2 DEF End, TypeOK
            <4>2. b \in Gone \/ \E o \in observations : o.call = b
                BY <2>4, <4>1 DEF ListsOK, StoredAreLive, Confirmed, Gone
            <4>3. QED
                BY <1>4, <4>2 DEF CallsOf
        <3>3. QED
            BY <3>1, <3>2
    <2>5. QED
        BY <2>3, <2>4 DEF StoredAreLive, Gone
<1>10. OneOfEach'
    <2>1. \A o, q \in observations' : o.client = q.client /\ o.uri = q.uri => o = q
        BY <1>3, <1>4 DEF ListsOK, OneOfEach
    <2>2. \A o \in observations' : o.client \in registered
        BY <1>0, <1>3, <1>4, <1>5
    <2>3. QED
        BY <2>1, <2>2 DEF ListsOK, OneOfEach, table
<1>11. EntriesKept
    BY DEF EntriesKept, table
<1>12. TokensDiffer' /\ CallsKnown'
    BY <1>1, <1>7, <1>11, TokensKept DEF CallsKnown
<1>14. QED
    BY <1>1, <1>6, <1>8, <1>13, <1>10, <1>12 DEF TypeOK, ListsOK, table, Handles

LEMMA CrashOK ==
    ASSUME TypeOK, ListsOK, down' \in {"null", "list"}, Handles, UNCHANGED <<table, observations, calls, history>>
    PROVE  TypeOK' /\ ListsOK'
BY DEF TypeOK, ListsOK, CallsKnown, StoredAsAsked, TokensDiffer, OneOfEach, StoredAreLive, Confirmed, Gone, Asks,
       table, calls, history, Handles

LEMMA ObserveReplyOK ==
    ASSUME TypeOK, ListsOK, NEW c \in pending, NEW ok \in BOOLEAN, ObserveReply(c, ok)
    PROVE  TypeOK' /\ ListsOK'
<1>1. Handles /\ request[c].kind = "observe" /\ UNCHANGED <<table, over, reused>>
    BY DEF ObserveReply
<1>2. CASE End(c, "failed") /\ UNCHANGED <<observations, dropped, down>>
    <2>1. observations' = observations \ {} /\ Gone' = Gone \cup CallsOf({})
        BY <1>1, <1>2 DEF CallsOf, Gone
    <2>2. QED
        BY <1>1, <1>2, <2>1, EndsAndGo
<1>3. CASE request[c].client \in registered /\ Store(c) /\ UNCHANGED down
    BY <1>1, <1>3, EndsAndStores
<1>4. CASE down' = "list" /\ UNCHANGED <<observations, calls, dropped>>
    BY <1>1, <1>4, CrashOK DEF history
<1>5. QED
    BY <1>2, <1>3, <1>4 DEF ObserveReply

LEMMA CancelReplyOK ==
    ASSUME TypeOK, ListsOK, NEW c \in pending, NEW ok \in BOOLEAN, CancelReply(c, ok)
    PROVE  TypeOK' /\ ListsOK'
<1>1. Handles /\ request[c].kind # "observe" /\ UNCHANGED <<table, dropped, reused>>
    BY DEF CancelReply
<1>2. CASE End(c, "failed") /\ UNCHANGED <<observations, over, down>>
    <2>1. observations' = observations \ {} /\ Gone' = Gone \cup CallsOf({})
        BY <1>1, <1>2 DEF CallsOf, Gone
    <2>2. QED
        BY <1>1, <1>2, <2>1, EndsAndGo
<1>3. CASE \E o \in ByUri(request[c].client, request[c].uri) :
                /\ End(c, "ok")
                /\ observations' = observations \ {o}
                /\ over' = over \cup {o.call}
                /\ UNCHANGED down
    <2>1. PICK o \in observations : /\ End(c, "ok")
                                    /\ observations' = observations \ {o}
                                    /\ over' = over \cup {o.call}
                                    /\ UNCHANGED down
        BY <1>3 DEF ByUri, Observed
    <2>2. Gone' = Gone \cup CallsOf({o})
        BY <1>1, <2>1 DEF CallsOf, Gone
    <2>3. QED
        BY <1>1, <2>1, <2>2, EndsAndGo
<1>4. CASE down' \in {"null", "list"} /\ UNCHANGED <<observations, calls, over>>
    BY <1>1, <1>4, CrashOK DEF history
<1>5. QED
    BY <1>2, <1>3, <1>4 DEF CancelReply

\* A notification finds the call whose token it has, or one that a reused
\* internalID has given the same.
LEMMA NotifyFinds ==
    ASSUME TypeOK, ListsOK, NEW t \in Calls, HandleNotify(t)
    PROVE  /\ TypeOK' /\ ListsOK'
           /\ \A n \in notified' : /\ Confirmed(n[2]) /\ n[2] \notin over \cup dropped
                                   /\ n[1] = n[2] \/ request[n[1]].client \in reused
<1>1. PICK o \in observations : /\ o.client = request[t].client /\ o.id = request[t].id
                                /\ notified' = {<<t, o.call>>}
    BY DEF HandleNotify, Observed
<1>2. /\ request[t] # Nothing /\ request[t].kind = "observe"
      /\ UNCHANGED <<table, observations, calls, history, down>>
    BY DEF HandleNotify
<1>3. o.call \in Calls /\ Confirmed(o.call) /\ o.call \notin over \cup dropped /\ o.client \in Ids
    BY CallFacts DEF TypeOK, Gone
<1>4. Asks(t, o.client) /\ Asks(o.call, o.client) /\ request[o.call].id = o.id
    BY <1>1, <1>2 DEF ListsOK, StoredAsAsked, Asks
<1>5. t = o.call \/ request[t].client \in reused
    BY <1>1, <1>3, <1>4 DEF ListsOK, TokensDiffer
<1>6. TypeOK'
    BY <1>1, <1>2, <1>3 DEF TypeOK, table, calls, history
<1>7. ListsOK'
    BY <1>2 DEF ListsOK, CallsKnown, StoredAsAsked, TokensDiffer, OneOfEach, StoredAreLive, Confirmed, Gone, Asks,
               table, calls, history
<1>8. QED
    BY <1>1, <1>3, <1>5, <1>6, <1>7

-----------------------------------------------------------------------------
(* The theorems *)

LEMMA NextOK ==
    ASSUME TypeOK, ListsOK, [Next]_vars
    PROVE  TypeOK' /\ ListsOK'
<1>1. CASE \E d \in Devices :
              \/ Register(d) \/ RegisterFirstBlock(d) \/ RegisterLastBlock(d)
              \/ \E objs \in SUBSET Uris : Update(d, objs)
    BY <1>1, RegisterOK, RegisterFirstBlockOK, RegisterLastBlockOK, UpdateOK
<1>2. ASSUME NEW d \in Devices, Deregister(d) PROVE TypeOK' /\ ListsOK'
    <2>1. /\ location[d] \in Ids /\ Remove(location[d]) /\ Handles
          /\ UNCHANGED <<location, registrations, calls, reused, down>>
        BY <1>2 DEF Deregister, TypeOK
    <2>2. QED
        BY <2>1, RemoveOK
<1>3. ASSUME NEW i \in registered, Expire(i) PROVE TypeOK' /\ ListsOK'
    <2>1. /\ i \in Ids /\ Remove(i) /\ Handles
          /\ UNCHANGED <<location, registrations, calls, reused, down>>
        BY <1>3 DEF Expire, TypeOK
    <2>2. QED
        BY <2>1, RemoveOK
<1>4. CASE \E i \in Known, u \in Uris, sends \in BOOLEAN : Observe(i, u, sends) \/ Cancel(i, u, sends)
    BY <1>4, ObserveOK, CancelOK
<1>5. CASE \E c \in pending, ok \in BOOLEAN : ObserveReply(c, ok) \/ CancelReply(c, ok)
    BY <1>5, ObserveReplyOK, CancelReplyOK
<1>6. CASE \E t \in Calls : HandleNotify(t)
    BY <1>6, NotifyFinds
<1>7. CASE UNCHANGED vars
    BY <1>7 DEF vars, TypeOK, ListsOK, CallsKnown, StoredAsAsked, TokensDiffer, OneOfEach, StoredAreLive, Confirmed,
                Gone, Asks, table, calls, history
<1>8. QED
    BY <1>1, <1>2, <1>3, <1>4, <1>5, <1>6, <1>7 DEF Next

\* Only HandleNotify gives a call a notification.
LEMMA NotifyStep ==
    ASSUME TypeOK, ListsOK, [Next]_vars
    PROVE  \A n \in notified' \ notified :
              /\ Confirmed(n[2]) /\ n[2] \notin over \cup dropped
              /\ n[1] = n[2] \/ request[n[1]].client \in reused
<1>1. CASE \E t \in Calls : HandleNotify(t)
    BY <1>1, NotifyFinds
<1>2. CASE notified' \subseteq notified
    BY <1>2
<1>3. notified' = {} \/ notified' = notified \/ \E t \in Calls : HandleNotify(t)
    BY DEF Next, vars, Register, RegisterFirstBlock, RegisterLastBlock, Update, Deregister, Expire, Observe,
           Cancel, ObserveReply, CancelReply, Post, Handles
<1>4. QED
    BY <1>1, <1>2, <1>3

LEMMA InitOK == Init => TypeOK /\ ListsOK
<1> SUFFICES ASSUME Init PROVE TypeOK /\ ListsOK
    OBVIOUS
<1>1. TypeOK
    BY SizesAssumption DEF Init, TypeOK, SizesAssumption
<1>2. ListsOK
    BY DEF Init, ListsOK, CallsKnown, StoredAsAsked, TokensDiffer, OneOfEach, StoredAreLive, Confirmed, Gone, Asks
<1>3. QED
    BY <1>1, <1>2

LEMMA ListsInvariant == Spec => [](TypeOK /\ ListsOK)
<1>1. TypeOK /\ ListsOK /\ [Next]_vars => (TypeOK /\ ListsOK)'
    BY NextOK
<1>2. QED
    BY <1>1, InitOK, PTL DEF Spec

\* Every variable keeps its type, for any number of devices, URIs,
\* registrations and calls.
THEOREM TypeCorrect == Spec => []TypeOK
BY ListsInvariant, PTL

\* However registrations in one message and in blocks, updates, expirations and
\* late answers cross, the client list has one entry of a name, a client one
\* observation of a URI, and an observation a client (registration.c, observe.c).
THEOREM ListedOnce == Spec => []OneOfEach
<1>1. ListsOK => OneOfEach
    BY DEF ListsOK
<1>2. QED
    BY <1>1, ListsInvariant, PTL

\* What is stored is a call's that was told of its success, and not of its end:
\* its callback and its userData may be used.
THEOREM StoredCallsLive == Spec => []StoredAreLive
<1>1. ListsOK => StoredAreLive
    BY DEF ListsOK
<1>2. QED
    BY <1>1, ListsInvariant, PTL

\* observe_handleNotify gives a notification to the call whose token it has, if
\* the internalID in the token was never given anew, and never to one that ended.
THEOREM NotificationsReachTheirCall == Spec => NotifyReachesItsCall
<1>1. TypeOK /\ ListsOK /\ [Next]_vars =>
          [\A n \in notified' \ notified :
              /\ Confirmed(n[2]) /\ n[2] \notin over \cup dropped
              /\ n[1] = n[2] \/ request[n[1]].client \in reused]_vars
    BY NotifyStep
<1>2. QED
    BY <1>1, ListsInvariant, PTL DEF Spec, NotifyReachesItsCall
=============================================================================
