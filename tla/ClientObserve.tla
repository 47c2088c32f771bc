---------------------------- MODULE ClientObserve ----------------------------
(***************************************************************************)
(* A client's notifications (the client half of core/observe.c), with the  *)
(* requests of the servers that reach them (dm_handleRequest in            *)
(* core/management.c, object_delete in core/objects.c, handle_reset in     *)
(* core/packet.c), the application's changes and the loop that calls       *)
(* lwm2m_step (examples/client/lwm2mclient.c).                             *)
(*                                                                         *)
(* There is one object, whose resources are integers.  The servers are     *)
(* those the client is registered with, and stay so; the others are not    *)
(* answered.  Memory is never short.  What reads, executes or writes a     *)
(* resource without more is the application's affair and left out.         *)
(***************************************************************************)
EXTENDS Integers, FiniteSets

CONSTANTS
    LWM2M_MAX_ID,  \* the id of a part of an URI that is not set
    Instances,     \* ids of the object's instances
    ResourceIds,   \* ids of their resources
    Uris,          \* what the servers observe
    Servers,       \* the client's servers
    Values,        \* values of the resources
    Attributes,    \* what the queries of the servers set and clear
    MaxPeriod,     \* as long as any period is
    MaxSleep,      \* the longest select() of the loop
    MaxRequests,   \* bound: requests of the servers
    MaxChanges,    \* bound: changes the application makes or reports
    MaxEvents      \* bound: both together

Resources == [instance : Instances, resource : ResourceIds]

Flags == {"pmin", "pmax", "gt", "lt", "st"}
Numeric == {"gt", "lt", "st"}

\* lwm2m_attributes_t
AttributeSets == [toSet : SUBSET Flags, toClear : SUBSET Flags,
                  minPeriod : 0..MaxPeriod, maxPeriod : 0..MaxPeriod,
                  greaterThan : Int, lessThan : Int, step : Nat]

ASSUME UrisAssumption ==
    /\ LWM2M_MAX_ID \notin Instances \cup ResourceIds
    /\ Uris \subseteq [instance : Instances \cup {LWM2M_MAX_ID},
                       resource : ResourceIds \cup {LWM2M_MAX_ID}]
    /\ \A u \in Uris : u.instance = LWM2M_MAX_ID => u.resource = LWM2M_MAX_ID

ASSUME BoundsAssumption ==
    /\ Values \subseteq Int /\ Values # {}
    /\ Attributes \subseteq AttributeSets
    /\ MaxPeriod \in Nat /\ MaxSleep \in Nat \ {0}
    /\ MaxRequests \in Nat /\ MaxChanges \in Nat /\ MaxEvents \in Nat

VARIABLES
    instances,  \* the instances that exist
    value,      \* the values of the resources
    watcher,    \* observedList: the watcher of each server on each URI
    awake,      \* the loop is about to call lwm2m_step
    sleep,      \* what is left of its select()
    unread,     \* the observed URIs the last step could not read or serialize
    lost,       \* for the properties: the instances lost in a refused PUT
    requests,   \* requests of the servers so far
    changes     \* changes so far

vars == <<instances, value, watcher, awake, sleep, unread, lost, requests, changes>>

\* lwm2m_watcher_t.  "since" is the time since lastTime, and as long as MaxPeriod
\* when it is longer.  Three fields are for the properties: what the server was
\* last told, whether there is something it was not told and that nobody reports
\* (another server's write, or the value asked for by an Observe answered 5.00),
\* and whether lastValue may be apart from what it was told.
NoParameters == [toSet |-> {}, toClear |-> {}, minPeriod |-> 0, maxPeriod |-> 0,
                 greaterThan |-> 0, lessThan |-> 0, step |-> 0]

Watchers == [status : {"none", "inactive", "active"}, update : BOOLEAN, since : 0..MaxPeriod,
             hasParameters : BOOLEAN, parameters : AttributeSets, lastValue : Int,
             told : [Resources -> Values], silent : BOOLEAN, apart : BOOLEAN]

NoWatcher == [status |-> "none", update |-> FALSE, since |-> 0, hasParameters |-> FALSE,
              parameters |-> NoParameters, lastValue |-> 0,
              told |-> [r \in Resources |-> CHOOSE v \in Values : TRUE],
              silent |-> FALSE, apart |-> FALSE]

IsResource(u) == u.resource # LWM2M_MAX_ID
Exists(u) == u.instance = LWM2M_MAX_ID \/ u.instance \in instances
Listed(u) == \E s \in Servers : watcher[u][s].status # "none"
Active(u, s) == watcher[u][s].status = "active"

Meets(a, b) == a = LWM2M_MAX_ID \/ b = LWM2M_MAX_ID \/ a = b

\* A resource and an URI that has to do with it, or two such URIs.
Concerns(u, t) == Meets(u.instance, t.instance) /\ Meets(u.resource, t.resource)

-----------------------------------------------------------------------------
(* The requests of the servers *)

\* prv_findObserved: parts of u that are not set match anything.
Finds(u, t) ==
    /\ Listed(t)
    /\ u.instance # LWM2M_MAX_ID => t.instance = u.instance
    /\ u.resource # LWM2M_MAX_ID => t.resource = u.resource

\* Where the watcher for u goes: to the first of the list that is found.  The
\* order of the list is left out.
Place(u, t) == IF \E o \in Uris : Finds(u, o) THEN Finds(u, t) ELSE t = u

\* prv_getWatcher
GetWatcher(t, s) ==
    IF watcher[t][s].status = "none" THEN [NoWatcher EXCEPT !.status = "inactive"]
                                     ELSE watcher[t][s]

\* A packet or a change is handled; a step follows.
Handled == awake' = TRUE /\ sleep' = 0

Request ==
    /\ ~awake
    /\ requests < MaxRequests /\ requests + changes < MaxEvents
    /\ requests' = requests + 1
    /\ Handled
    /\ UNCHANGED <<unread, changes>>

\* An Observe of u is handled at the watcher w of t, and only then serialized:
\* when that fails the answer is 5.00, and the server is told nothing.
Observed(u, t, w, serialized) ==
    [w EXCEPT !.status = "active", !.since = 0,
              !.lastValue = IF IsResource(u) THEN value[u] ELSE @,
              !.told = IF serialized THEN value ELSE @,
              !.silent = ~serialized /\ (@ \/ w.status = "inactive"),
              !.apart = ~serialized \/ t # u]

\* A GET with Observe 0 (dm_handleRequest, observe_handleRequest).  The update
\* that may be due stays due.
Observe ==
    /\ Request
    /\ \E u \in Uris, s \in Servers, t \in Uris, serialized \in BOOLEAN :
        /\ Exists(u) /\ Place(u, t)
        /\ watcher' = [watcher EXCEPT ![t][s] = Observed(u, t, GetWatcher(t, s), serialized)]
    /\ UNCHANGED <<instances, value, lost>>

\* observe_handleRequest with Observe 1, or a reset that answers the watcher's
\* last message: observe_cancel.
Cancel ==
    /\ Request
    /\ \E t \in Uris, s \in Servers :
        /\ watcher[t][s].status # "none"
        /\ watcher' = [watcher EXCEPT ![t][s] = NoWatcher]
    /\ UNCHANGED <<instances, value, lost>>

\* The rule "lt" + 2 * "stp" < "gt", with the values that would then hold.
Consistent(w, a) ==
    LET kept == IF w.hasParameters THEN w.parameters.toSet ELSE {}
        from(f) == IF f \in a.toSet THEN a ELSE w.parameters
    IN  Numeric \subseteq (a.toSet \cup kept) \ a.toClear =>
            from("lt").lessThan + 2 * from("st").step < from("gt").greaterThan

\* Parameters there are already get new values; what they did not set stays
\* unset.
SetParameters(w, a) ==
    LET p == w.parameters
        new(f, x, y) == IF f \in a.toSet THEN x ELSE y
    IN  IF w.hasParameters
        THEN [w EXCEPT !.parameters =
                [toSet |-> p.toSet \ a.toClear, toClear |-> p.toClear,
                 minPeriod |-> new("pmin", a.minPeriod, p.minPeriod),
                 maxPeriod |-> new("pmax", a.maxPeriod, p.maxPeriod),
                 greaterThan |-> new("gt", a.greaterThan, p.greaterThan),
                 lessThan |-> new("lt", a.lessThan, p.lessThan),
                 step |-> new("st", a.step, p.step)]]
        ELSE IF a.toSet # {}
        THEN [w EXCEPT !.hasParameters = TRUE, !.parameters = a]
        ELSE w

\* observe_setParameters: the watcher is made, and stays, even if the values are
\* then refused.
WriteAttributes ==
    /\ Request
    /\ \E u \in Uris, s \in Servers, t \in Uris, a \in Attributes :
        /\ Exists(u) /\ Place(u, t)
        /\ LET w == GetWatcher(t, s)
           IN  watcher' = [watcher EXCEPT ![t][s] =
                    IF Consistent(w, a) THEN SetParameters(w, a) ELSE w]
    /\ UNCHANGED <<instances, value, lost>>

\* Something under r is no longer what it was, and nobody has called
\* lwm2m_resource_value_changed.
Unreported(r) ==
    [u \in Uris |-> [s \in Servers |->
        [watcher[u][s] EXCEPT !.silent = @ \/ Concerns(r, u)]]]

\* object_write of a resource
Write ==
    /\ Request
    /\ \E r \in Resources, v \in Values :
        /\ r.instance \in instances
        /\ value' = [value EXCEPT ![r] = v]
        /\ watcher' = Unreported(r)
    /\ UNCHANGED <<instances, lost>>

Whole(i) == [instance |-> i, resource |-> LWM2M_MAX_ID]

\* The resources of an instance get values.
Filled(i, v) == [q \in Resources |-> IF q.instance = i THEN v ELSE value[q]]

\* object_write of a whole instance by a PUT: writeFunc deletes it and creates it
\* again.  When the new one is refused the old one is gone.  object_write calls
\* observe_clear in neither case.
Replace ==
    /\ Request
    /\ \E i \in instances :
        /\ \/ /\ \E v \in Values : value' = Filled(i, v)
              /\ UNCHANGED <<instances, lost>>
           \/ /\ instances' = instances \ {i}
              /\ lost' = lost \cup {i}
              /\ UNCHANGED value
        /\ watcher' = Unreported(Whole(i))

\* object_create
Create ==
    /\ Request
    /\ \E i \in Instances \ instances, v \in Values :
        /\ instances' = instances \cup {i}
        /\ value' = Filled(i, v)
        /\ watcher' = Unreported(Whole(i))
        /\ lost' = lost \ {i}

\* Mutant: observations of its resources stay.
MutClear(i) ==
    [u \in Uris |-> [s \in Servers |->
        IF u.instance = i /\ ~IsResource(u) THEN NoWatcher ELSE watcher[u][s]]]

\* observe_clear of an instance
Clear(i) ==
    [u \in Uris |-> [s \in Servers |->
        IF u.instance = i THEN NoWatcher ELSE watcher[u][s]]]

\* object_delete
Delete ==
    /\ Request
    /\ \E i \in instances :
        /\ instances' = instances \ {i}
        /\ watcher' = Clear(i)
    /\ UNCHANGED <<value, lost>>

-----------------------------------------------------------------------------
(* The application *)

\* Mutant: only who observes the resource itself is told.
MutValueChanged(u) ==
    [t \in Uris |-> [s \in Servers |->
        [watcher[t][s] EXCEPT !.update = @ \/ (Active(t, s) /\ u = t)]]]

\* lwm2m_resource_value_changed
ValueChanged(u) ==
    [t \in Uris |-> [s \in Servers |->
        [watcher[t][s] EXCEPT !.update = @ \/ (Active(t, s) /\ Concerns(u, t))]]]

\* handle_value_changed in lwm2mclient.c
Change ==
    /\ ~awake
    /\ changes < MaxChanges /\ requests + changes < MaxEvents
    /\ changes' = changes + 1
    /\ \E r \in Resources, v \in Values :
        /\ r.instance \in instances
        /\ value' = [value EXCEPT ![r] = v]
        /\ watcher' = ValueChanged(r)
    /\ Handled
    /\ UNCHANGED <<instances, unread, lost, requests>>

\* prv_change in lwm2mclient.c without a value
Report ==
    /\ ~awake
    /\ changes < MaxChanges /\ requests + changes < MaxEvents
    /\ changes' = changes + 1
    /\ \E u \in Uris : watcher' = ValueChanged(u)
    /\ Handled
    /\ UNCHANGED <<instances, value, unread, lost, requests>>

-----------------------------------------------------------------------------
(* observe_step *)

\* The parameters that hold: none when there are none.
Set(w) == IF w.hasParameters THEN w.parameters.toSet ELSE {}

\* From one side of a threshold to the other.
Crosses(v, last, threshold) ==
    \/ v < threshold /\ last > threshold
    \/ v > threshold /\ last < threshold

Distance(a, b) == IF a < b THEN b - a ELSE a - b

\* The conditions on the value are met.
Notable(u, w) ==
    /\ IsResource(u)
    /\ \/ "lt" \in Set(w) /\ Crosses(value[u], w.lastValue, w.parameters.lessThan)
       \/ "gt" \in Set(w) /\ Crosses(value[u], w.lastValue, w.parameters.greaterThan)
       \/ "st" \in Set(w) /\ Distance(value[u], w.lastValue) >= w.parameters.step

\* An update is due: when a minimum period is set it alone decides.
UpdateDue(u, w) ==
    /\ w.update
    /\ IF "pmin" \in Set(w) THEN w.since >= w.parameters.minPeriod
                            ELSE Set(w) = {} \/ Notable(u, w)

MaximumReached(w) == "pmax" \in Set(w) /\ w.since >= w.parameters.maxPeriod

Notified(u, w) ==
    [w EXCEPT !.since = 0, !.update = FALSE,
              !.lastValue = IF IsResource(u) THEN value[u] ELSE @,
              !.told = value, !.silent = FALSE, !.apart = FALSE]

\* Mutant: the update is forgotten when it is not due.
MutStepWatcher(u, w) ==
    IF w.status = "active" /\ (UpdateDue(u, w) \/ MaximumReached(w))
    THEN Notified(u, w) ELSE [w EXCEPT !.update = FALSE]

\* Mutant: the value is stored although it is not sent.
MutStepWatcherStores(u, w) ==
    IF w.status = "active" /\ (UpdateDue(u, w) \/ MaximumReached(w))
    THEN Notified(u, w) ELSE [w EXCEPT !.lastValue = IF IsResource(u) THEN value[u] ELSE @]

StepWatcher(u, w) ==
    IF w.status = "active" /\ (UpdateDue(u, w) \/ MaximumReached(w))
    THEN Notified(u, w) ELSE w

\* Mutant: a minimum period that holds an update back is not waited for.
MutDeadlines(w, stepped) ==
    IF "pmax" \in Set(w) THEN {w.parameters.maxPeriod - stepped.since} ELSE {}

\* How long the loop may sleep for a watcher, which was w and is now stepped.
Deadlines(w, stepped) ==
    {d \in {w.parameters.minPeriod - w.since} :
        w.update /\ "pmin" \in Set(w) /\ d > 0}
    \cup {d \in {w.parameters.maxPeriod - stepped.since} : "pmax" \in Set(w)}

\* A step with what it can read and serialize.  When the data of an URI fails it
\* is left alone, timers included; lwm2m_step may be woken earlier for
\* something else.
StepReading(readable) ==
    /\ awake
    /\ watcher' = [u \in Uris |-> [s \in Servers |->
            IF u \in readable THEN StepWatcher(u, watcher[u][s]) ELSE watcher[u][s]]]
    /\ unread' = {u \in Uris : Listed(u)} \ readable
    /\ LET deadlines == {d \in 0..MaxPeriod : \E u \in readable, s \in Servers :
                            /\ Active(u, s)
                            /\ d \in Deadlines(watcher[u][s], watcher'[u][s])}
       IN  \E t \in 0..MaxSleep :
            /\ \A d \in deadlines : t <= d
            /\ t = 0 => 0 \in deadlines
            /\ sleep' = t
            /\ awake' = (t = 0)
    /\ UNCHANGED <<instances, value, lost, requests, changes>>

There == {u \in Uris : Listed(u) /\ Exists(u)}

Step == \E readable \in SUBSET There : StepReading(readable)

\* A second passes in select().  A watcher that is not active has no lastTime.
Tick ==
    /\ ~awake
    /\ sleep' = sleep - 1
    /\ awake' = (sleep' = 0)
    /\ watcher' = [u \in Uris |-> [s \in Servers |->
            [watcher[u][s] EXCEPT !.since =
                IF Active(u, s) /\ @ < MaxPeriod THEN @ + 1 ELSE @]]]
    /\ UNCHANGED <<instances, value, unread, lost, requests, changes>>

Init ==
    /\ instances = Instances
    /\ value \in [Resources -> Values]
    /\ watcher = [u \in Uris |-> [s \in Servers |-> NoWatcher]]
    /\ awake = TRUE
    /\ sleep = 0
    /\ unread = {}
    /\ lost = {}
    /\ requests = 0
    /\ changes = 0

Next ==
    \/ Observe \/ Cancel \/ WriteAttributes \/ Write \/ Replace \/ Create \/ Delete
    \/ Change \/ Report
    \/ Step \/ Tick

SafeSpec == Init /\ [][Next]_vars

\* The loop goes on, time passes, and what there is can be read now and then.
Spec ==
    /\ SafeSpec
    /\ WF_vars(Step)
    /\ WF_vars(Tick)
    /\ SF_vars(StepReading(There))

-----------------------------------------------------------------------------
(* Properties *)

\* The variables have their types, the loop sleeps when it is not awake, and
\* only a server that observes has an update due.
TypeOK ==
    /\ instances \subseteq Instances
    /\ value \in [Resources -> Values]
    /\ watcher \in [Uris -> [Servers -> Watchers]]
    /\ \A u \in Uris, s \in Servers : watcher[u][s].update => Active(u, s)
    /\ awake \in BOOLEAN /\ sleep \in 0..MaxSleep /\ awake = (sleep = 0)
    /\ unread \subseteq Uris /\ lost \subseteq Instances
    /\ requests \in 0..MaxRequests /\ changes \in 0..MaxChanges

\* The values under an URI that a watcher was last told are the values now.
UpToDate(u, s) ==
    \A r \in Resources : Concerns(r, u) => watcher[u][s].told[r] = value[r]

\* A change the application reports is not lost: until the server is told, the
\* watcher's update stays due, whatever periods, thresholds, failing reads and
\* new observations come in between, those answered 5.00 included.  Excepted is
\* an observation that begins with a 5.00: its server has been told nothing.
NoLostChange ==
    \A u \in Uris, s \in Servers :
        Active(u, s) /\ ~watcher[u][s].silent => UpToDate(u, s) \/ watcher[u][s].update

\* No threshold stays crossed: after a step, what the server knows and the value
\* are not on either side of a threshold it has set, unless a minimum period
\* holds the notification back.  observe_step compares with the value last
\* sent, not with the value last seen.  That is not so, and the crossing may be
\* missed, after an Observe that was answered 5.00, whose value is stored, or
\* that was of another URI, whose value is not; until the next notification.
NoMissedCrossing ==
    ~awake => \A u \in Uris \ unread, s \in Servers :
        LET w == watcher[u][s]
        IN  Active(u, s) /\ ~w.silent /\ ~w.apart /\ IsResource(u) /\ "pmin" \notin Set(w) =>
                /\ "gt" \in Set(w) => ~Crosses(value[u], w.told[u], w.parameters.greaterThan)
                /\ "lt" \in Set(w) => ~Crosses(value[u], w.told[u], w.parameters.lessThan)

\* The loop never sleeps past the end of a period: neither past a maximum period
\* nor past the minimum period that holds back an update, for any watcher whose
\* data the last step could read.
WakesInTime ==
    ~awake => \A u \in Uris \ unread, s \in Servers :
        LET w == watcher[u][s]
        IN  Active(u, s) =>
                /\ "pmax" \in Set(w) => w.since + sleep <= w.parameters.maxPeriod
                /\ "pmin" \in Set(w) /\ w.update => w.since + sleep <= w.parameters.minPeriod

\* Nobody observes what does not exist, but an instance that a refused PUT has
\* taken away and nobody has created again: one that is deleted takes its
\* observations with it, those that outlived such a PUT included, and one with
\* the same id is not observed because that one was.
NoStrayWatcher ==
    \A u \in Uris : Listed(u) => Exists(u) \/ u.instance \in lost

\* A server that sets no threshold is told of every change the application
\* reports, or has cancelled, or the value is written by a server.
EventuallyTold ==
    \A u \in Uris, s \in Servers :
        Active(u, s) ~>
            \/ UpToDate(u, s) \/ ~Active(u, s) \/ watcher[u][s].silent
            \/ Set(watcher[u][s]) \cap Numeric # {}
=============================================================================
