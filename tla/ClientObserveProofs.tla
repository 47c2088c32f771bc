------------------------- MODULE ClientObserveProofs -------------------------
(***************************************************************************)
(* Proofs about ClientObserve, for any object, URIs, servers and periods:  *)
(* types, and that the properties its run checks are invariants.           *)
(***************************************************************************)
EXTENDS ClientObserve, TLAPS

\* An URI whose resource is set is one of the resources.
LEMMA ResourceUris ==
    ASSUME NEW u \in Uris, IsResource(u) PROVE u \in Resources
BY UrisAssumption DEF UrisAssumption, IsResource, Resources

LEMMA NoWatcherType == NoWatcher \in Watchers
<1>1. \A v \in {CHOOSE v \in Values : TRUE} : v \in Values
    BY BoundsAssumption DEF BoundsAssumption
<1>2. [r \in Resources |-> CHOOSE v \in Values : TRUE] \in [Resources -> Values]
    BY <1>1
<1>3. NoParameters \in AttributeSets
    BY BoundsAssumption DEF BoundsAssumption, NoParameters, AttributeSets
<1>4. QED
    BY <1>2, <1>3, BoundsAssumption DEF BoundsAssumption, NoWatcher, Watchers

LEMMA GetWatcherType ==
    ASSUME TypeOK, NEW t \in Uris, NEW s \in Servers
    PROVE  GetWatcher(t, s) \in Watchers
<1>1. [NoWatcher EXCEPT !.status = "inactive"] \in Watchers
    BY NoWatcherType DEF Watchers
<1>2. watcher[t][s] \in Watchers
    BY DEF TypeOK
<1>3. QED
    BY <1>1, <1>2 DEF GetWatcher

LEMMA SetParametersType ==
    ASSUME NEW w \in Watchers, NEW a \in Attributes
    PROVE  SetParameters(w, a) \in Watchers
<1>1. a \in AttributeSets
    BY BoundsAssumption DEF BoundsAssumption
<1>2. w.parameters \in AttributeSets
    BY DEF Watchers
<1>3. CASE w.hasParameters
    <2> DEFINE p == SetParameters(w, a).parameters
    <2>1. p \in AttributeSets
        BY <1>1, <1>2, <1>3 DEF SetParameters, AttributeSets, Watchers
    <2>2. SetParameters(w, a) = [w EXCEPT !.parameters = p]
        BY <1>3 DEF SetParameters, Watchers
    <2>3. QED
        BY <2>1, <2>2 DEF Watchers
<1>4. CASE ~w.hasParameters
    BY <1>1, <1>4 DEF SetParameters, Watchers
<1>5. QED
    BY <1>3, <1>4

LEMMA NotifiedType ==
    ASSUME TypeOK, NEW u \in Uris, NEW w \in Watchers
    PROVE  Notified(u, w) \in Watchers
<1>1. (IF IsResource(u) THEN value[u] ELSE w.lastValue) \in Int
    BY ResourceUris, BoundsAssumption DEF BoundsAssumption, TypeOK, Watchers
<1>2. 0 \in 0..MaxPeriod /\ value \in [Resources -> Values]
    BY BoundsAssumption DEF BoundsAssumption, TypeOK
<1> DEFINE v == IF IsResource(u) THEN value[u] ELSE w.lastValue
<1>3. Notified(u, w) = [w EXCEPT !.since = 0, !.update = FALSE, !.lastValue = v,
                                 !.told = value, !.silent = FALSE, !.apart = FALSE]
    BY DEF Notified, Watchers
<1>. HIDE DEF v
<1>4. v \in Int
    BY <1>1 DEF v
<1>5. QED
    BY <1>2, <1>3, <1>4 DEF Watchers

\* An Observe makes the watcher active, and tells the server the values or nothing.
LEMMA ObservedType ==
    ASSUME TypeOK, NEW u \in Uris, NEW t \in Uris, NEW w \in Watchers,
           NEW serialized \in BOOLEAN
    PROVE  LET x == Observed(u, t, w, serialized)
           IN  /\ x \in Watchers /\ x.status = "active" /\ x.update = w.update
               /\ x.told = IF serialized THEN value ELSE w.told
               /\ x.silent = (~serialized /\ (w.silent \/ w.status = "inactive"))
               /\ x.apart = (~serialized \/ t # u)
               /\ IsResource(u) => x.lastValue = value[u]
<1> DEFINE v == IF IsResource(u) THEN value[u] ELSE w.lastValue
           m == IF serialized THEN value ELSE w.told
           q == ~serialized /\ (w.silent \/ w.status = "inactive")
           p == ~serialized \/ t # u
<1>1. v \in Int
    BY ResourceUris, BoundsAssumption DEF BoundsAssumption, TypeOK, Watchers
<1>2. m \in [Resources -> Values] /\ 0 \in 0..MaxPeriod
    BY BoundsAssumption DEF BoundsAssumption, TypeOK, Watchers
<1>3. q \in BOOLEAN /\ p \in BOOLEAN
    OBVIOUS
<1>4. Observed(u, t, w, serialized) =
        [w EXCEPT !.status = "active", !.since = 0, !.lastValue = v, !.told = m,
                  !.silent = q, !.apart = p]
    BY DEF Observed, Watchers
<1>5. IsResource(u) => v = value[u]
    OBVIOUS
<1> DEFINE x == [w EXCEPT !.status = "active", !.since = 0, !.lastValue = v, !.told = m,
                          !.silent = q, !.apart = p]
<1>. HIDE DEF v, m, q, p
<1>6. x \in Watchers
    BY <1>1, <1>2, <1>3 DEF Watchers
<1>7. /\ x.status = "active" /\ x.update = w.update /\ x.told = m
      /\ x.silent = q /\ x.apart = p /\ x.lastValue = v
    BY DEF Watchers
<1>8. QED
    BY <1>4, <1>5, <1>6, <1>7 DEF m, q, p

LEMMA StepWatcherType ==
    ASSUME TypeOK, NEW u \in Uris, NEW w \in Watchers
    PROVE  StepWatcher(u, w) \in Watchers
BY NotifiedType DEF StepWatcher

-----------------------------------------------------------------------------
(* Types *)

LEMMA InitType == Init => TypeOK
<1> SUFFICES ASSUME Init PROVE TypeOK
    OBVIOUS
<1>1. watcher \in [Uris -> [Servers -> Watchers]]
    BY NoWatcherType DEF Init
<1>2. \A u \in Uris, s \in Servers : ~watcher[u][s].update
    BY DEF Init, NoWatcher
<1>3. 0 \in 0..MaxSleep /\ 0 \in 0..MaxRequests /\ 0 \in 0..MaxChanges
    BY BoundsAssumption DEF BoundsAssumption
<1>4. QED
    BY <1>1, <1>2, <1>3 DEF Init, TypeOK, Active

\* One watcher replaced by another, which has an update due only if it is active.
LEMMA OneWatcherType ==
    ASSUME TypeOK, NEW t \in Uris, NEW s \in Servers, NEW w \in Watchers,
           w.update => w.status = "active",
           watcher' = [watcher EXCEPT ![t][s] = w]
    PROVE  /\ watcher' \in [Uris -> [Servers -> Watchers]]
           /\ \A u \in Uris, r \in Servers :
                /\ watcher'[u][r].update => watcher'[u][r].status = "active"
                /\ watcher'[u][r] = IF u = t /\ r = s THEN w ELSE watcher[u][r]
BY DEF TypeOK, Active

\* A request counts, and a step follows it: types hold if the handler keeps them.
LEMMA RequestType ==
    ASSUME TypeOK, Request, instances' \subseteq Instances, lost' \subseteq Instances,
           value' \in [Resources -> Values],
           watcher' \in [Uris -> [Servers -> Watchers]],
           \A u \in Uris, s \in Servers :
                watcher'[u][s].update => watcher'[u][s].status = "active"
    PROVE  TypeOK'
<1>1. /\ awake' = TRUE /\ sleep' = 0 /\ changes' = changes /\ unread' = unread
      /\ requests < MaxRequests /\ requests' = requests + 1
    BY DEF Request, Handled
<1>2. requests' \in 0..MaxRequests /\ 0 \in 0..MaxSleep
    BY <1>1, BoundsAssumption DEF BoundsAssumption, TypeOK
<1>3. QED
    BY <1>1, <1>2 DEF TypeOK, Active

LEMMA ObserveType == TypeOK /\ Observe => TypeOK'
<1> SUFFICES ASSUME TypeOK, Observe PROVE TypeOK'
    OBVIOUS
<1>1. PICK u \in Uris, s \in Servers, t \in Uris, serialized \in BOOLEAN :
        watcher' = [watcher EXCEPT ![t][s] = Observed(u, t, GetWatcher(t, s), serialized)]
    BY DEF Observe
<1> DEFINE w == Observed(u, t, GetWatcher(t, s), serialized)
<1>2. w \in Watchers /\ w.status = "active"
    BY GetWatcherType, ObservedType
<1>. HIDE DEF w
<1>3. /\ watcher' \in [Uris -> [Servers -> Watchers]]
      /\ \A x \in Uris, y \in Servers :
            watcher'[x][y].update => watcher'[x][y].status = "active"
    BY <1>1, <1>2, OneWatcherType DEF w
<1>4. /\ Request /\ instances' \subseteq Instances /\ lost' \subseteq Instances
      /\ value' \in [Resources -> Values]
    BY DEF Observe, TypeOK
<1>5. QED
    BY <1>3, <1>4, RequestType

LEMMA CancelType == TypeOK /\ Cancel => TypeOK'
<1> SUFFICES ASSUME TypeOK, Cancel PROVE TypeOK'
    OBVIOUS
<1>1. PICK t \in Uris, s \in Servers : watcher' = [watcher EXCEPT ![t][s] = NoWatcher]
    BY DEF Cancel
<1>2. NoWatcher \in Watchers /\ ~NoWatcher.update
    BY NoWatcherType DEF NoWatcher
<1>3. /\ watcher' \in [Uris -> [Servers -> Watchers]]
      /\ \A x \in Uris, y \in Servers :
            watcher'[x][y].update => watcher'[x][y].status = "active"
    BY <1>1, <1>2, OneWatcherType
<1>4. /\ Request /\ instances' \subseteq Instances /\ lost' \subseteq Instances
      /\ value' \in [Resources -> Values]
    BY DEF Cancel, TypeOK
<1>5. QED
    BY <1>3, <1>4, RequestType

\* Parameters change nothing else.
LEMMA SetParametersKeeps ==
    ASSUME NEW w \in Watchers, NEW a \in Attributes
    PROVE  LET x == SetParameters(w, a)
           IN  /\ x.status = w.status /\ x.update = w.update /\ x.since = w.since
               /\ x.told = w.told /\ x.silent = w.silent /\ x.apart = w.apart
               /\ x.lastValue = w.lastValue
BY DEF SetParameters, Watchers

LEMMA WriteAttributesType == TypeOK /\ WriteAttributes => TypeOK'
<1> SUFFICES ASSUME TypeOK, WriteAttributes PROVE TypeOK'
    OBVIOUS
<1>1. PICK s \in Servers, t \in Uris, a \in Attributes :
        watcher' = [watcher EXCEPT ![t][s] =
            IF Consistent(GetWatcher(t, s), a)
            THEN SetParameters(GetWatcher(t, s), a) ELSE GetWatcher(t, s)]
    BY DEF WriteAttributes
<1> DEFINE g == GetWatcher(t, s)
           w == IF Consistent(g, a) THEN SetParameters(g, a) ELSE g
<1>2. g \in Watchers /\ (g.update => g.status = "active")
    BY GetWatcherType DEF GetWatcher, NoWatcher, TypeOK, Active
<1>3. watcher' = [watcher EXCEPT ![t][s] = w]
    BY <1>1
<1>. HIDE DEF g
<1>4. w \in Watchers /\ (w.update => w.status = "active")
    BY <1>2, SetParametersType, SetParametersKeeps
<1>. HIDE DEF w
<1>5. /\ watcher' \in [Uris -> [Servers -> Watchers]]
      /\ \A x \in Uris, y \in Servers :
            watcher'[x][y].update => watcher'[x][y].status = "active"
    BY <1>3, <1>4, OneWatcherType
<1>6. /\ Request /\ instances' \subseteq Instances /\ lost' \subseteq Instances
      /\ value' \in [Resources -> Values]
    BY DEF WriteAttributes, TypeOK
<1>7. QED
    BY <1>5, <1>6, RequestType

\* A silent write leaves the watchers as they were, but for "silent".
LEMMA UnreportedType ==
    ASSUME TypeOK, NEW r, watcher' = Unreported(r)
    PROVE  /\ watcher' \in [Uris -> [Servers -> Watchers]]
           /\ \A u \in Uris, s \in Servers :
                /\ watcher'[u][s] = [watcher[u][s] EXCEPT
                                        !.silent = watcher[u][s].silent \/ Concerns(r, u)]
                /\ watcher'[u][s].update => watcher'[u][s].status = "active"
<1>1. ASSUME NEW u \in Uris, NEW s \in Servers
      PROVE  /\ watcher'[u][s] = [watcher[u][s] EXCEPT
                                        !.silent = watcher[u][s].silent \/ Concerns(r, u)]
             /\ watcher'[u][s] \in Watchers
             /\ watcher'[u][s].update => watcher'[u][s].status = "active"
  <2>1. watcher[u][s] \in Watchers /\ (watcher[u][s].update => watcher[u][s].status = "active")
        BY DEF TypeOK, Active
  <2>2. watcher'[u][s] = [watcher[u][s] EXCEPT
                                        !.silent = watcher[u][s].silent \/ Concerns(r, u)]
        BY <2>1 DEF Unreported, Watchers
  <2>3. (watcher[u][s].silent \/ Concerns(r, u)) \in BOOLEAN
        OBVIOUS
  <2>4. QED
        BY <2>1, <2>2, <2>3 DEF Watchers
<1>2. QED
    BY <1>1 DEF Unreported

LEMMA WriteType == TypeOK /\ Write => TypeOK'
<1> SUFFICES ASSUME TypeOK, Write PROVE TypeOK'
    OBVIOUS
<1>1. PICK r \in Resources, v \in Values :
        value' = [value EXCEPT ![r] = v] /\ watcher' = Unreported(r)
    BY DEF Write
<1>2. /\ Request /\ instances' \subseteq Instances /\ lost' \subseteq Instances
      /\ value' \in [Resources -> Values]
    BY <1>1 DEF Write, TypeOK
<1>3. QED
    BY <1>1, <1>2, UnreportedType, RequestType

\* Values for a whole instance
LEMMA FilledType ==
    ASSUME TypeOK, NEW i, NEW v \in Values
    PROVE  Filled(i, v) \in [Resources -> Values]
BY DEF Filled, TypeOK

LEMMA ReplaceOrCreateType ==
    ASSUME TypeOK, Replace \/ Create
    PROVE  TypeOK'
<1>1. PICK i \in Instances : watcher' = Unreported(Whole(i))
    BY DEF Replace, Create, TypeOK
<1>2. /\ Request /\ instances' \subseteq Instances /\ lost' \subseteq Instances
      /\ value' \in [Resources -> Values]
    BY FilledType DEF Replace, Create, TypeOK
<1>3. /\ watcher' \in [Uris -> [Servers -> Watchers]]
      /\ \A u \in Uris, s \in Servers :
            watcher'[u][s].update => watcher'[u][s].status = "active"
    BY <1>1, UnreportedType
<1>4. QED
    BY <1>2, <1>3, RequestType

LEMMA DeleteType == TypeOK /\ Delete => TypeOK'
<1> SUFFICES ASSUME TypeOK, Delete PROVE TypeOK'
    OBVIOUS
<1>1. PICK i \in instances : instances' = instances \ {i} /\ watcher' = Clear(i)
    BY DEF Delete
<1>2. ASSUME NEW u \in Uris, NEW s \in Servers
      PROVE  /\ watcher'[u][s] \in Watchers
             /\ watcher'[u][s].update => watcher'[u][s].status = "active"
    BY <1>1, NoWatcherType DEF Clear, TypeOK, Active, NoWatcher
<1>3. watcher' \in [Uris -> [Servers -> Watchers]]
    BY <1>1, <1>2 DEF Clear
<1>4. /\ Request /\ instances' \subseteq Instances /\ lost' \subseteq Instances
      /\ value' \in [Resources -> Values]
    BY <1>1 DEF Delete, TypeOK
<1>5. QED
    BY <1>2, <1>3, <1>4, RequestType

\* A report tags active watchers, and does nothing else to any.
LEMMA ValueChangedType ==
    ASSUME TypeOK, NEW r, watcher' = ValueChanged(r)
    PROVE  /\ watcher' \in [Uris -> [Servers -> Watchers]]
           /\ \A u \in Uris, s \in Servers :
                /\ watcher'[u][s] = [watcher[u][s] EXCEPT
                        !.update = watcher[u][s].update \/ (Active(u, s) /\ Concerns(r, u))]
                /\ watcher'[u][s].update => watcher'[u][s].status = "active"
<1>1. ASSUME NEW u \in Uris, NEW s \in Servers
      PROVE  /\ watcher'[u][s] = [watcher[u][s] EXCEPT
                        !.update = watcher[u][s].update \/ (Active(u, s) /\ Concerns(r, u))]
             /\ watcher'[u][s] \in Watchers
             /\ watcher'[u][s].update => watcher'[u][s].status = "active"
  <2> DEFINE b == watcher[u][s].update \/ (Active(u, s) /\ Concerns(r, u))
  <2>1. watcher[u][s] \in Watchers /\ (watcher[u][s].update => watcher[u][s].status = "active")
        BY DEF TypeOK, Active
  <2>2. watcher'[u][s] = [watcher[u][s] EXCEPT !.update = b]
        BY <2>1 DEF ValueChanged, Watchers
  <2>3. b \in BOOLEAN /\ (b => watcher[u][s].status = "active")
        BY <2>1 DEF Active
  <2>. HIDE DEF b
  <2>4. watcher'[u][s] \in Watchers /\ (watcher'[u][s].update => watcher'[u][s].status = "active")
        BY <2>1, <2>2, <2>3 DEF Watchers
  <2>5. QED
        BY <2>2, <2>4 DEF b
<1>2. QED
    BY <1>1 DEF ValueChanged

LEMMA ApplicationType ==
    ASSUME TypeOK, Change \/ Report
    PROVE  TypeOK'
<1>1. value' \in [Resources -> Values] /\ (\E r : watcher' = ValueChanged(r))
    BY DEF Change, Report, TypeOK
<1>2. /\ awake' = TRUE /\ sleep' = 0 /\ instances' = instances
      /\ requests' = requests /\ unread' = unread /\ lost' = lost
      /\ changes < MaxChanges /\ changes' = changes + 1
    BY DEF Change, Report, Handled
<1>3. changes' \in 0..MaxChanges /\ 0 \in 0..MaxSleep
    BY <1>2, BoundsAssumption DEF BoundsAssumption, TypeOK
<1>4. QED
    BY <1>1, <1>2, <1>3, ValueChangedType DEF TypeOK, Active

LEMMA StepType == TypeOK /\ Step => TypeOK'
<1> SUFFICES ASSUME TypeOK, Step PROVE TypeOK'
    OBVIOUS
<1>1. PICK readable \in SUBSET Uris : StepReading(readable)
    BY DEF Step, There
<1>2. watcher' = [u \in Uris |-> [s \in Servers |->
            IF u \in readable THEN StepWatcher(u, watcher[u][s]) ELSE watcher[u][s]]]
    BY <1>1 DEF StepReading
<1>3. ASSUME NEW u \in Uris, NEW s \in Servers
      PROVE  /\ watcher'[u][s] \in Watchers
             /\ watcher'[u][s].update => watcher'[u][s].status = "active"
  <2>1. watcher[u][s] \in Watchers /\ (watcher[u][s].update => watcher[u][s].status = "active")
        BY DEF TypeOK, Active
  <2>2. Notified(u, watcher[u][s]).update = FALSE
        BY <2>1 DEF Notified, Watchers
  <2>3. watcher'[u][s] \in {StepWatcher(u, watcher[u][s]), watcher[u][s]}
        BY <1>2
  <2>4. QED
        BY <2>1, <2>2, <2>3, StepWatcherType DEF StepWatcher
<1>4. watcher' \in [Uris -> [Servers -> Watchers]]
    BY <1>2, <1>3
<1>5. PICK t \in 0..MaxSleep : sleep' = t /\ awake' = (t = 0)
    BY <1>1 DEF StepReading
<1>6. UNCHANGED <<instances, value, lost, requests, changes>> /\ unread' \subseteq Uris
    BY <1>1 DEF StepReading
<1>7. QED
    BY <1>3, <1>4, <1>5, <1>6 DEF TypeOK, Active

\* A second makes every watcher a second older, up to MaxPeriod.
LEMMA TickWatchers ==
    ASSUME TypeOK, Tick, NEW u \in Uris, NEW s \in Servers
    PROVE  /\ watcher'[u][s] \in Watchers
           /\ watcher'[u][s].status = watcher[u][s].status
           /\ watcher'[u][s].update = watcher[u][s].update
           /\ watcher'[u][s].hasParameters = watcher[u][s].hasParameters
           /\ watcher'[u][s].parameters = watcher[u][s].parameters
           /\ watcher'[u][s].lastValue = watcher[u][s].lastValue
           /\ watcher'[u][s].told = watcher[u][s].told
           /\ watcher'[u][s].silent = watcher[u][s].silent
           /\ watcher'[u][s].apart = watcher[u][s].apart
           /\ watcher'[u][s].since \in {watcher[u][s].since, watcher[u][s].since + 1}
<1> DEFINE w == watcher[u][s]
           n == IF Active(u, s) /\ w.since < MaxPeriod THEN w.since + 1 ELSE w.since
<1>1. w \in Watchers
    BY DEF TypeOK
<1>2. watcher'[u][s] = [w EXCEPT !.since = n]
    BY <1>1 DEF Tick, Watchers
<1>3. n \in 0..MaxPeriod /\ n \in {w.since, w.since + 1}
    BY <1>1, BoundsAssumption DEF BoundsAssumption, Watchers
<1>. HIDE DEF n, w
<1>4. [w EXCEPT !.since = n] \in Watchers /\ [w EXCEPT !.since = n].since = n
    BY <1>1, <1>3 DEF Watchers
<1>5. QED
    BY <1>1, <1>2, <1>3, <1>4 DEF w, Watchers

LEMMA TickType == TypeOK /\ Tick => TypeOK'
<1> SUFFICES ASSUME TypeOK, Tick PROVE TypeOK'
    OBVIOUS
<1>1. watcher' \in [Uris -> [Servers -> Watchers]]
    BY TickWatchers DEF Tick
<1>2. ASSUME NEW u \in Uris, NEW s \in Servers
      PROVE  watcher'[u][s].update => watcher'[u][s].status = "active"
  <2>1. watcher[u][s] \in Watchers /\ (watcher[u][s].update => watcher[u][s].status = "active")
        BY DEF TypeOK, Active
  <2>2. QED
        BY <2>1, TickWatchers
<1>3. sleep' = sleep - 1 /\ awake' = (sleep' = 0) /\ sleep \in 1..MaxSleep
  <2>1. ~awake /\ sleep \in 0..MaxSleep /\ awake = (sleep = 0)
        BY DEF Tick, TypeOK
  <2>2. sleep # 0
        BY <2>1
  <2>3. sleep \in 1..MaxSleep
        BY <2>1, <2>2, BoundsAssumption DEF BoundsAssumption
  <2>4. QED
        BY <2>3 DEF Tick
<1>4. UNCHANGED <<instances, value, unread, lost, requests, changes>>
    BY DEF Tick
<1>5. sleep' \in 0..MaxSleep
    BY <1>3, BoundsAssumption DEF BoundsAssumption
<1>6. QED
    BY <1>1, <1>2, <1>3, <1>4, <1>5 DEF TypeOK, Active

LEMMA NextType == TypeOK /\ [Next]_vars => TypeOK'
<1> SUFFICES ASSUME TypeOK, [Next]_vars PROVE TypeOK'
    OBVIOUS
<1>1. CASE UNCHANGED vars
    BY <1>1 DEF vars, TypeOK, Active
<1>2. QED
    BY <1>1, ObserveType, CancelType, WriteAttributesType, WriteType, ReplaceOrCreateType,
       DeleteType, ApplicationType, StepType, TickType DEF Next

\* The variables have their types, the loop sleeps when it is not awake, and only
\* a server that observes has an update due (observe.c, lwm2mclient.c).
THEOREM TypeCorrect == SafeSpec => []TypeOK
BY InitType, NextType, PTL DEF SafeSpec

-----------------------------------------------------------------------------
(* What each action does to the watchers *)

\* An observation: one watcher is made active, of a URI that exists.  Its server is
\* told, or is told nothing; then, if the watcher was not active, it is silent.
LEMMA ObserveWatchers ==
    ASSUME TypeOK, Observe
    PROVE  \E u \in Uris, t \in Uris, s \in Servers, serialized \in BOOLEAN :
             /\ Exists(u) /\ Place(u, t)
             /\ watcher'[t][s].status = "active"
             /\ watcher'[t][s].apart = (~serialized \/ t # u)
             /\ IsResource(u) => watcher'[t][s].lastValue = value[u]
             /\ serialized => watcher'[t][s].told = value
             /\ ~serialized =>
                    \/ watcher'[t][s].silent
                    \/ /\ Active(t, s) /\ watcher'[t][s].told = watcher[t][s].told
                       /\ watcher'[t][s].silent = watcher[t][s].silent
                       /\ watcher'[t][s].update = watcher[t][s].update
             /\ \A x \in Uris, y \in Servers :
                    ~(x = t /\ y = s) => watcher'[x][y] = watcher[x][y]
<1>1. PICK u \in Uris, s \in Servers, t \in Uris, serialized \in BOOLEAN :
        /\ Exists(u) /\ Place(u, t)
        /\ watcher' = [watcher EXCEPT ![t][s] = Observed(u, t, GetWatcher(t, s), serialized)]
    BY DEF Observe
<1> DEFINE g == GetWatcher(t, s)
           w == Observed(u, t, g, serialized)
<1>2. g \in Watchers
    BY GetWatcherType
<1>3. \/ g.status = "inactive"
      \/ g = watcher[t][s] /\ Active(t, s)
    BY NoWatcherType DEF GetWatcher, Watchers, TypeOK, Active
<1>4. watcher' = [watcher EXCEPT ![t][s] = w]
    BY <1>1
<1>. HIDE DEF g
<1>5. /\ w.status = "active" /\ w.update = g.update
      /\ w.told = IF serialized THEN value ELSE g.told
      /\ w.silent = (~serialized /\ (g.silent \/ g.status = "inactive"))
      /\ w.apart = (~serialized \/ t # u)
      /\ IsResource(u) => w.lastValue = value[u]
    BY <1>2, ObservedType
<1>6. ~serialized =>
            \/ w.silent
            \/ /\ Active(t, s) /\ w.told = watcher[t][s].told
               /\ w.silent = watcher[t][s].silent /\ w.update = watcher[t][s].update
  <2>1. SUFFICES ASSUME ~serialized, ~w.silent
                 PROVE  /\ Active(t, s) /\ w.told = watcher[t][s].told
                        /\ w.silent = watcher[t][s].silent /\ w.update = watcher[t][s].update
        OBVIOUS
  <2>2. g = watcher[t][s] /\ Active(t, s) /\ w.silent = watcher[t][s].silent
        BY <1>2, <1>3, <1>5, <2>1 DEF Watchers
  <2>3. QED
        BY <1>5, <2>1, <2>2
<1>. HIDE DEF w
<1>7. /\ watcher'[t][s] = w
      /\ \A x \in Uris, y \in Servers :
            ~(x = t /\ y = s) => watcher'[x][y] = watcher[x][y]
    BY <1>4 DEF TypeOK
<1>8. QED
    BY <1>1, <1>5, <1>6, <1>7

\* Attributes: one watcher gets parameters, or is made, for a URI that exists.
LEMMA WriteAttributesWatchers ==
    ASSUME TypeOK, WriteAttributes
    PROVE  \E u \in Uris, t \in Uris, s \in Servers :
             /\ Exists(u) /\ Place(u, t)
             /\ \/ watcher'[t][s].status = "inactive"
                \/ /\ watcher'[t][s].status = watcher[t][s].status
                   /\ watcher'[t][s].update = watcher[t][s].update
                   /\ watcher'[t][s].lastValue = watcher[t][s].lastValue
                   /\ watcher'[t][s].told = watcher[t][s].told
                   /\ watcher'[t][s].silent = watcher[t][s].silent
                   /\ watcher'[t][s].apart = watcher[t][s].apart
             /\ \A x \in Uris, y \in Servers :
                    ~(x = t /\ y = s) => watcher'[x][y] = watcher[x][y]
<1>1. PICK u \in Uris, s \in Servers, t \in Uris, a \in Attributes :
        /\ Exists(u) /\ Place(u, t)
        /\ watcher' = [watcher EXCEPT ![t][s] =
            IF Consistent(GetWatcher(t, s), a)
            THEN SetParameters(GetWatcher(t, s), a) ELSE GetWatcher(t, s)]
    BY DEF WriteAttributes
<1> DEFINE g == GetWatcher(t, s)
           w == IF Consistent(g, a) THEN SetParameters(g, a) ELSE g
<1>2. g \in Watchers
    BY GetWatcherType
<1>3. \/ g.status = "inactive"
      \/ g = watcher[t][s]
    BY NoWatcherType DEF GetWatcher, Watchers
<1>4. watcher' = [watcher EXCEPT ![t][s] = w]
    BY <1>1
<1>. HIDE DEF g
<1>5. /\ w.status = g.status /\ w.update = g.update /\ w.lastValue = g.lastValue
      /\ w.told = g.told /\ w.silent = g.silent /\ w.apart = g.apart
    BY <1>2, SetParametersKeeps
<1>. HIDE DEF w
<1>6. /\ watcher'[t][s] = w
      /\ \A x \in Uris, y \in Servers :
            ~(x = t /\ y = s) => watcher'[x][y] = watcher[x][y]
    BY <1>4 DEF TypeOK
<1>7. QED
    BY <1>1, <1>3, <1>5, <1>6

\* A step: a watcher stays as it is, or is told, and the latter when it is due.
LEMMA StepWatchers ==
    ASSUME TypeOK, NEW readable \in SUBSET Uris, StepReading(readable),
           NEW u \in Uris, NEW s \in Servers
    PROVE  \/ /\ watcher'[u][s] = watcher[u][s]
              /\ u \in readable /\ Active(u, s) =>
                    ~UpdateDue(u, watcher[u][s]) /\ ~MaximumReached(watcher[u][s])
           \/ /\ u \in readable /\ Active(u, s)
              /\ watcher'[u][s] = Notified(u, watcher[u][s])
BY DEF StepReading, StepWatcher, Active

\* What Notified does.
LEMMA NotifiedFields ==
    ASSUME NEW u \in Uris, NEW w \in Watchers
    PROVE  LET x == Notified(u, w)
           IN  /\ x.status = w.status /\ x.since = 0 /\ ~x.update
               /\ x.hasParameters = w.hasParameters /\ x.parameters = w.parameters
               /\ x.told = value /\ ~x.silent /\ ~x.apart
               /\ IsResource(u) => x.lastValue = value[u]
BY DEF Notified, Watchers

-----------------------------------------------------------------------------
(* Nobody observes what does not exist *)

\* Exists, or was lost in a refused PUT.
Known(u) == Exists(u) \/ u.instance \in lost

\* A watcher's place is on the list, or is an URI that exists.
LEMMA PlaceKnown ==
    ASSUME NoStrayWatcher, NEW u \in Uris, NEW t \in Uris, Exists(u), Place(u, t)
    PROVE  Known(t)
BY DEF NoStrayWatcher, Place, Finds, Known

LEMMA NoStrayWatcherStep ==
    ASSUME TypeOK, NoStrayWatcher, [Next]_vars
    PROVE  NoStrayWatcher'
<1> SUFFICES ASSUME NEW u \in Uris, NEW s \in Servers, watcher'[u][s].status # "none"
             PROVE  Known(u)'
    BY DEF NoStrayWatcher, Listed, Known
<1>1. watcher[u][s].status # "none" => Known(u)
    BY DEF NoStrayWatcher, Listed, Known
<1>2. CASE Observe
  <2>1. Known(u)
    <3>1. PICK a \in Uris, t \in Uris, y \in Servers :
            /\ Exists(a) /\ Place(a, t)
            /\ ~(u = t /\ s = y) => watcher'[u][s] = watcher[u][s]
          BY <1>2, ObserveWatchers
    <3>2. QED
          BY <1>1, <3>1, PlaceKnown
  <2>2. QED
        BY <1>2, <2>1 DEF Observe, Exists, Known
<1>3. CASE WriteAttributes
  <2>1. Known(u)
    <3>1. PICK a \in Uris, t \in Uris, y \in Servers :
            /\ Exists(a) /\ Place(a, t)
            /\ ~(u = t /\ s = y) => watcher'[u][s] = watcher[u][s]
          BY <1>3, WriteAttributesWatchers
    <3>2. QED
          BY <1>1, <3>1, PlaceKnown
  <2>2. QED
        BY <1>3, <2>1 DEF WriteAttributes, Exists, Known
<1>4. CASE Cancel
  <2>1. watcher'[u][s] \in {NoWatcher, watcher[u][s]}
        BY <1>4 DEF Cancel, TypeOK
  <2>2. QED
        BY <1>1, <1>4, <2>1 DEF Cancel, Exists, Known, NoWatcher
<1>5. CASE Write \/ Replace \/ Create
  <2>1. watcher'[u][s].status = watcher[u][s].status
    <3>1. PICK r : watcher' = Unreported(r)
          BY <1>5 DEF Write, Replace, Create
    <3>2. watcher'[u][s] = [watcher[u][s] EXCEPT
                                !.silent = watcher[u][s].silent \/ Concerns(r, u)]
          BY <3>1, UnreportedType
    <3>3. QED
          BY <3>2 DEF TypeOK, Watchers
  <2>2. instances \cup lost \subseteq instances' \cup lost'
        BY <1>5 DEF Write, Replace, Create
  <2>3. QED
        BY <1>1, <2>1, <2>2 DEF Exists, Known
<1>6. CASE Delete
  <2>1. PICK i \in instances : instances' = instances \ {i} /\ watcher' = Clear(i)
        BY <1>6 DEF Delete
  <2>2. u.instance # i /\ watcher'[u][s] = watcher[u][s]
        BY <2>1 DEF Clear, NoWatcher
  <2>3. QED
        BY <1>1, <1>6, <2>1, <2>2 DEF Delete, Exists, Known
<1>7. CASE Change \/ Report
  <2>1. /\ watcher'[u][s].status = watcher[u][s].status
        /\ instances' = instances /\ lost' = lost
    <3>1. PICK r : watcher' = ValueChanged(r)
          BY <1>7 DEF Change, Report
    <3>2. watcher'[u][s] = [watcher[u][s] EXCEPT !.update = watcher[u][s].update
                                                    \/ (Active(u, s) /\ Concerns(r, u))]
          BY <3>1, ValueChangedType
    <3>3. watcher'[u][s].status = watcher[u][s].status
          BY <3>2 DEF TypeOK, Watchers
    <3>4. QED
          BY <1>7, <3>3 DEF Change, Report
  <2>2. QED
        BY <1>1, <2>1 DEF Exists, Known
<1>8. CASE Step
  <2>1. watcher[u][s] \in Watchers
        BY DEF TypeOK
  <2>2. watcher'[u][s].status = watcher[u][s].status
        BY <1>8, <2>1, StepWatchers, NotifiedFields DEF Step, There
  <2>3. QED
        BY <1>1, <1>8, <2>2 DEF Step, There, StepReading, Exists, Known
<1>9. CASE Tick
    BY <1>1, <1>9, TickWatchers DEF Tick, Exists, Known
<1>10. CASE UNCHANGED vars
    BY <1>1, <1>10 DEF vars, Exists, Known
<1>11. QED
    BY <1>2, <1>3, <1>4, <1>5, <1>6, <1>7, <1>8, <1>9, <1>10 DEF Next

\* Nobody observes what does not exist, but an instance lost in a refused PUT:
\* object_delete clears what observes the instance or its resources, and a watcher
\* is made only for what can be read, or joins another.
THEOREM NobodyStrays == SafeSpec => []NoStrayWatcher
<1>1. Init => NoStrayWatcher
    BY DEF Init, NoStrayWatcher, Listed, NoWatcher
<1>2. QED
    BY <1>1, NoStrayWatcherStep, TypeCorrect, PTL DEF SafeSpec

-----------------------------------------------------------------------------
(* No change is lost *)

\* For one watcher: told, due, or written by a server.
Kept(u, s) == Active(u, s) /\ ~watcher[u][s].silent => UpToDate(u, s) \/ watcher[u][s].update

\* A watcher that does not change while the values under its URI do not either.
LEMMA SameKept ==
    ASSUME NEW u \in Uris, NEW s \in Servers, Kept(u, s),
           watcher'[u][s].status = watcher[u][s].status,
           watcher'[u][s].silent = watcher[u][s].silent,
           watcher'[u][s].told = watcher[u][s].told,
           watcher[u][s].update => watcher'[u][s].update,
           \A r \in Resources : Concerns(r, u) => value'[r] = value[r]
    PROVE  Kept(u, s)'
BY DEF Kept, UpToDate, Active

LEMMA NoLostChangeStep ==
    ASSUME TypeOK, NoLostChange, [Next]_vars
    PROVE  NoLostChange'
<1> SUFFICES ASSUME NEW u \in Uris, NEW s \in Servers PROVE Kept(u, s)'
    BY DEF NoLostChange, Kept
<1>1. Kept(u, s) /\ watcher[u][s] \in Watchers
    BY DEF NoLostChange, Kept, TypeOK
<1>2. CASE Observe
  <2>1. value' = value
        BY <1>2 DEF Observe
  <2>2. \/ watcher'[u][s] = watcher[u][s]
        \/ watcher'[u][s].told = value
        \/ watcher'[u][s].silent
        \/ /\ Active(u, s) /\ watcher'[u][s].told = watcher[u][s].told
           /\ watcher'[u][s].silent = watcher[u][s].silent
           /\ watcher'[u][s].update = watcher[u][s].update
        BY <1>2, ObserveWatchers
  <2>3. QED
        BY <1>1, <2>1, <2>2, SameKept DEF Kept, UpToDate, Active
<1>3. CASE WriteAttributes
  <2>1. value' = value
        BY <1>3 DEF WriteAttributes
  <2>2. \/ watcher'[u][s] = watcher[u][s]
        \/ watcher'[u][s].status = "inactive"
        \/ /\ watcher'[u][s].status = watcher[u][s].status
           /\ watcher'[u][s].update = watcher[u][s].update
           /\ watcher'[u][s].told = watcher[u][s].told
           /\ watcher'[u][s].silent = watcher[u][s].silent
        BY <1>3, WriteAttributesWatchers
  <2>3. QED
        BY <1>1, <2>1, <2>2, SameKept DEF Kept, Active
<1>4. CASE Cancel
  <2>1. watcher'[u][s] \in {NoWatcher, watcher[u][s]} /\ value' = value
        BY <1>4 DEF Cancel, TypeOK
  <2>2. QED
        BY <1>1, <2>1, SameKept DEF Kept, Active, NoWatcher
<1>5. CASE Write
  <2>1. PICK r \in Resources, v \in Values :
            value' = [value EXCEPT ![r] = v] /\ watcher' = Unreported(r)
        BY <1>5 DEF Write
  <2>2. watcher'[u][s] = [watcher[u][s] EXCEPT !.silent = watcher[u][s].silent \/ Concerns(r, u)]
        BY <2>1, UnreportedType
  <2>3. CASE Concerns(r, u)
        BY <1>1, <2>2, <2>3 DEF Kept, Watchers
  <2>4. CASE ~Concerns(r, u)
    <3>1. \A q \in Resources : Concerns(q, u) => value'[q] = value[q]
          BY <2>1, <2>4 DEF TypeOK
    <3>2. QED
          BY <1>1, <2>2, <2>4, <3>1, SameKept DEF Watchers
  <2>5. QED
        BY <2>3, <2>4
<1>6. CASE Replace \/ Create
  <2>1. PICK i \in Instances :
            /\ \A q \in Resources : q.instance # i => value'[q] = value[q]
            /\ watcher' = Unreported(Whole(i))
        BY <1>6 DEF Replace, Create, Filled, TypeOK
  <2>2. watcher'[u][s] = [watcher[u][s] EXCEPT
                            !.silent = watcher[u][s].silent \/ Concerns(Whole(i), u)]
        BY <2>1, UnreportedType
  <2>3. CASE Concerns(Whole(i), u)
        BY <1>1, <2>2, <2>3 DEF Kept, Watchers
  <2>4. CASE ~Concerns(Whole(i), u)
    <3>1. ~Meets(i, u.instance)
          BY <2>4 DEF Concerns, Meets, Whole
    <3>2. \A q \in Resources : Concerns(q, u) => value'[q] = value[q]
          BY <2>1, <3>1 DEF Concerns
    <3>3. QED
          BY <1>1, <2>2, <2>4, <3>2, SameKept DEF Watchers
  <2>5. QED
        BY <2>3, <2>4
<1>7. CASE Delete
  <2>1. watcher'[u][s] \in {NoWatcher, watcher[u][s]} /\ value' = value
        BY <1>7 DEF Delete, Clear
  <2>2. QED
        BY <1>1, <2>1, SameKept DEF Kept, Active, NoWatcher
<1>8. CASE Change \/ Report
  <2>1. PICK r : /\ watcher' = ValueChanged(r)
                 /\ \A q \in Resources : q # r => value'[q] = value[q]
        BY <1>8 DEF Change, Report, TypeOK
  <2>2. watcher'[u][s] = [watcher[u][s] EXCEPT
            !.update = watcher[u][s].update \/ (Active(u, s) /\ Concerns(r, u))]
        BY <2>1, ValueChangedType
  <2>3. CASE Active(u, s) /\ Concerns(r, u)
        BY <1>1, <2>2, <2>3 DEF Kept, Watchers
  <2>4. CASE ~Active(u, s)
        BY <1>1, <2>2, <2>4 DEF Kept, Active, Watchers
  <2>5. CASE ~Concerns(r, u)
    <3>1. \A q \in Resources : Concerns(q, u) => value'[q] = value[q]
          BY <2>1, <2>5
    <3>2. QED
          BY <1>1, <2>2, <2>5, <3>1, SameKept DEF Watchers
  <2>6. QED
        BY <2>3, <2>4, <2>5
<1>9. CASE Step
  <2>1. value' = value
        BY <1>9 DEF Step, There, StepReading
  <2>2. \/ watcher'[u][s] = watcher[u][s]
        \/ watcher'[u][s].told = value
        BY <1>1, <1>9, StepWatchers, NotifiedFields DEF Step, There
  <2>3. QED
        BY <1>1, <2>1, <2>2, SameKept DEF Kept, UpToDate
<1>10. CASE Tick
  <2>1. value' = value
        BY <1>10 DEF Tick
  <2>2. QED
        BY <1>1, <1>10, <2>1, TickWatchers, SameKept
<1>11. CASE UNCHANGED vars
    BY <1>1, <1>11, SameKept DEF vars
<1>12. QED
    BY <1>2, <1>3, <1>4, <1>5, <1>6, <1>7, <1>8, <1>9, <1>10, <1>11 DEF Next

\* A change the application reports stays due until the server is told of it:
\* observe_step clears "update" only where it has sent the value.
THEOREM NoChangeLost == SafeSpec => []NoLostChange
<1>1. Init => NoLostChange
    BY DEF Init, NoLostChange, Active, NoWatcher
<1>2. QED
    BY <1>1, NoLostChangeStep, TypeCorrect, PTL DEF SafeSpec

-----------------------------------------------------------------------------
(* The loop wakes in time *)

\* A handler that wakes the loop, or a stutter, or the two steps that remain.
LEMMA Wakes ==
    ASSUME [Next]_vars
    PROVE  awake' \/ Step \/ Tick \/ UNCHANGED vars
BY DEF Next, Observe, Cancel, WriteAttributes, Write, Replace, Create, Delete, Change, Report,
       Request, Handled

\* A deadline of a watcher bounds what the loop sleeps.
LEMMA SleepsUntil ==
    ASSUME NEW readable \in SUBSET Uris, StepReading(readable),
           NEW u \in readable, NEW s \in Servers, Active(u, s),
           NEW d \in Deadlines(watcher[u][s], watcher'[u][s]), d \in 0..MaxPeriod
    PROVE  sleep' <= d
BY DEF StepReading

\* Who observes after a step observed before it, so that its URI was read or is
\* among the unread.
LEMMA StillListed ==
    ASSUME TypeOK, NEW readable \in SUBSET Uris, StepReading(readable),
           NEW u \in Uris, NEW s \in Servers, Active(u, s)', u \notin unread'
    PROVE  u \in readable
<1>1. watcher'[u][s] = watcher[u][s] \/ Active(u, s)
    BY StepWatchers
<1>2. Listed(u)
    BY <1>1 DEF Listed, Active
<1>3. QED
    BY <1>2 DEF StepReading

LEMMA WakesInTimeStep ==
    ASSUME TypeOK, WakesInTime, [Next]_vars
    PROVE  WakesInTime'
<1> SUFFICES ASSUME ~awake', NEW u \in Uris, u \notin unread', NEW s \in Servers, Active(u, s)'
             PROVE  LET x == watcher'[u][s]
                    IN  /\ "pmax" \in Set(x) => x.since + sleep' <= x.parameters.maxPeriod
                        /\ "pmin" \in Set(x) /\ x.update =>
                                x.since + sleep' <= x.parameters.minPeriod
    BY DEF WakesInTime, Set
<1> DEFINE w == watcher[u][s]
           x == watcher'[u][s]
<1>1. w \in Watchers /\ w.since \in 0..MaxPeriod /\ w.parameters \in AttributeSets
    BY DEF TypeOK, Watchers
<1>2. MaxPeriod \in Nat /\ w.parameters.minPeriod \in 0..MaxPeriod
                        /\ w.parameters.maxPeriod \in 0..MaxPeriod
    BY <1>1, BoundsAssumption DEF BoundsAssumption, AttributeSets
<1>3. sleep' \in 0..MaxSleep /\ MaxSleep \in Nat
    BY NextType, BoundsAssumption DEF BoundsAssumption, TypeOK
<1>4. CASE Step
  <2>1. PICK readable \in SUBSET Uris : StepReading(readable)
        BY <1>4 DEF Step, There
  <2>2. u \in readable
        BY <2>1, StillListed
  <2>3. CASE x = w /\ ~UpdateDue(u, w) /\ ~MaximumReached(w)
    <3>1. Active(u, s)
          BY <2>3 DEF Active
    <3>2. ASSUME "pmax" \in Set(w)
          PROVE  w.since + sleep' <= w.parameters.maxPeriod
      <4>1. w.since < w.parameters.maxPeriod
            BY <1>1, <1>2, <2>3, <3>2 DEF MaximumReached
      <4>2. w.parameters.maxPeriod - w.since \in Deadlines(w, x)
            BY <2>3, <3>2 DEF Deadlines
      <4>3. sleep' <= w.parameters.maxPeriod - w.since
            BY <1>1, <1>2, <2>1, <2>2, <3>1, <4>1, <4>2, SleepsUntil
      <4>4. QED
            BY <1>1, <1>2, <1>3, <4>3
    <3>3. ASSUME "pmin" \in Set(w), w.update
          PROVE  w.since + sleep' <= w.parameters.minPeriod
      <4>1. w.since < w.parameters.minPeriod
            BY <1>1, <1>2, <2>3, <3>3 DEF UpdateDue
      <4>2. w.parameters.minPeriod - w.since \in Deadlines(w, x)
            BY <1>1, <1>2, <3>3, <4>1 DEF Deadlines
      <4>3. sleep' <= w.parameters.minPeriod - w.since
            BY <1>1, <1>2, <2>1, <2>2, <3>1, <4>1, <4>2, SleepsUntil
      <4>4. QED
            BY <1>1, <1>2, <1>3, <4>3
    <3>4. QED
          BY <2>3, <3>2, <3>3
  <2>4. CASE Active(u, s) /\ x = Notified(u, w)
    <3>1. /\ x.since = 0 /\ ~x.update
          /\ x.hasParameters = w.hasParameters /\ x.parameters = w.parameters
          BY <1>1, <2>4, NotifiedFields
    <3>2. ASSUME "pmax" \in Set(x)
          PROVE  x.since + sleep' <= x.parameters.maxPeriod
      <4>1. "pmax" \in Set(w)
            BY <3>1, <3>2 DEF Set
      <4>2. w.parameters.maxPeriod \in Deadlines(w, x)
            BY <1>2, <3>1, <4>1 DEF Deadlines
      <4>3. QED
            BY <1>2, <1>3, <2>1, <2>2, <2>4, <3>1, <4>2, SleepsUntil
    <3>3. QED
          BY <3>1, <3>2
  <2>5. \/ x = w /\ (Active(u, s) => ~UpdateDue(u, w) /\ ~MaximumReached(w))
        \/ Active(u, s) /\ x = Notified(u, w)
        BY <2>1, <2>2, StepWatchers
  <2>6. QED
        BY <2>3, <2>4, <2>5 DEF Active
<1>5. CASE Tick
  <2>1. /\ x.status = w.status /\ x.update = w.update
        /\ x.hasParameters = w.hasParameters /\ x.parameters = w.parameters
        /\ x.since \in {w.since, w.since + 1}
        BY <1>5, TickWatchers
  <2>2. ~awake /\ sleep' = sleep - 1 /\ sleep \in 0..MaxSleep /\ u \notin unread
        BY <1>5 DEF Tick, TypeOK
  <2>3. /\ "pmax" \in Set(w) => w.since + sleep <= w.parameters.maxPeriod
        /\ "pmin" \in Set(w) /\ w.update => w.since + sleep <= w.parameters.minPeriod
        BY <2>1, <2>2 DEF WakesInTime, Active
  <2>4. Set(x) = Set(w)
        BY <2>1 DEF Set
  <2>5. QED
        BY <1>1, <1>2, <1>3, <2>1, <2>2, <2>3, <2>4
<1>6. CASE UNCHANGED vars
    BY <1>6 DEF vars, WakesInTime, Active
<1>7. QED
    BY <1>4, <1>5, <1>6, Wakes

\* The loop does not sleep past the end of a period (the timeoutP of observe_step).
THEOREM WakesOnTime == SafeSpec => []WakesInTime
<1>1. Init => WakesInTime
    BY DEF Init, WakesInTime
<1>2. QED
    BY <1>1, WakesInTimeStep, TypeCorrect, PTL DEF SafeSpec

-----------------------------------------------------------------------------
(* No threshold stays crossed *)

\* observe_step compares with what the server was told, unless an Observe has
\* stored what it did not send, or has sent what it did not store.
Baseline ==
    \A u \in Uris, s \in Servers :
        Active(u, s) /\ ~watcher[u][s].apart /\ IsResource(u) =>
            watcher[u][s].lastValue = watcher[u][s].told[u]

\* While the loop sleeps, an update that is due and that no minimum period holds
\* back is one whose conditions are not met.
Rested ==
    ~awake => \A u \in Uris \ unread, s \in Servers :
        LET w == watcher[u][s]
        IN  Active(u, s) /\ w.update /\ "pmin" \notin Set(w) => ~Notable(u, w)

LEMMA SameBaseline ==
    ASSUME Baseline, NEW u \in Uris, NEW s \in Servers,
           watcher'[u][s].status = watcher[u][s].status,
           watcher'[u][s].lastValue = watcher[u][s].lastValue,
           watcher'[u][s].told = watcher[u][s].told,
           watcher'[u][s].apart = watcher[u][s].apart
    PROVE  Active(u, s)' /\ ~watcher'[u][s].apart /\ IsResource(u) =>
                watcher'[u][s].lastValue = watcher'[u][s].told[u]
BY DEF Baseline, Active

LEMMA BaselineStep ==
    ASSUME TypeOK, Baseline, [Next]_vars
    PROVE  Baseline'
<1> SUFFICES ASSUME NEW u \in Uris, NEW s \in Servers, Active(u, s)',
                    ~watcher'[u][s].apart, IsResource(u)
             PROVE  watcher'[u][s].lastValue = watcher'[u][s].told[u]
    BY DEF Baseline
<1>1. watcher[u][s] \in Watchers
    BY DEF TypeOK
<1>2. CASE Observe
  <2>1. PICK a \in Uris, t \in Uris, y \in Servers, serialized \in BOOLEAN :
          /\ watcher'[t][y].apart = (~serialized \/ t # a)
          /\ IsResource(a) => watcher'[t][y].lastValue = value[a]
          /\ serialized => watcher'[t][y].told = value
          /\ \A q \in Uris, z \in Servers :
                ~(q = t /\ z = y) => watcher'[q][z] = watcher[q][z]
        BY <1>2, ObserveWatchers
  <2>2. CASE u = t /\ s = y
        BY <2>1, <2>2
  <2>3. CASE ~(u = t /\ s = y)
        BY <2>1, <2>3, SameBaseline
  <2>4. QED
        BY <2>2, <2>3
<1>3. CASE WriteAttributes
  <2>1. \/ watcher'[u][s] = watcher[u][s]
        \/ watcher'[u][s].status = "inactive"
        \/ /\ watcher'[u][s].status = watcher[u][s].status
           /\ watcher'[u][s].lastValue = watcher[u][s].lastValue
           /\ watcher'[u][s].told = watcher[u][s].told
           /\ watcher'[u][s].apart = watcher[u][s].apart
        BY <1>3, WriteAttributesWatchers
  <2>2. QED
        BY <2>1, SameBaseline DEF Active
<1>4. CASE Cancel \/ Delete
  <2>1. watcher'[u][s] \in {NoWatcher, watcher[u][s]}
        BY <1>4 DEF Cancel, Delete, Clear, TypeOK
  <2>2. QED
        BY <2>1, SameBaseline DEF Active, NoWatcher
<1>5. CASE Write \/ Replace \/ Create
  <2>1. PICK r : watcher' = Unreported(r)
        BY <1>5 DEF Write, Replace, Create
  <2>2. watcher'[u][s] = [watcher[u][s] EXCEPT !.silent = watcher[u][s].silent \/ Concerns(r, u)]
        BY <2>1, UnreportedType
  <2>3. QED
        BY <1>1, <2>2, SameBaseline DEF Watchers
<1>6. CASE Change \/ Report
  <2>1. PICK r : watcher' = ValueChanged(r)
        BY <1>6 DEF Change, Report
  <2>2. watcher'[u][s] = [watcher[u][s] EXCEPT
            !.update = watcher[u][s].update \/ (Active(u, s) /\ Concerns(r, u))]
        BY <2>1, ValueChangedType
  <2>3. QED
        BY <1>1, <2>2, SameBaseline DEF Watchers
<1>7. CASE Step
  <2>1. \/ watcher'[u][s] = watcher[u][s]
        \/ watcher'[u][s].told = value /\ watcher'[u][s].lastValue = value[u]
        BY <1>1, <1>7, StepWatchers, NotifiedFields DEF Step, There
  <2>2. QED
        BY <2>1, SameBaseline
<1>8. CASE Tick
    BY <1>8, TickWatchers, SameBaseline
<1>9. CASE UNCHANGED vars
    BY <1>9, SameBaseline DEF vars
<1>10. QED
    BY <1>2, <1>3, <1>4, <1>5, <1>6, <1>7, <1>8, <1>9 DEF Next

LEMMA RestedStep ==
    ASSUME TypeOK, Rested, [Next]_vars
    PROVE  Rested'
<1> SUFFICES ASSUME ~awake', NEW u \in Uris, u \notin unread', NEW s \in Servers,
                    Active(u, s)', watcher'[u][s].update, "pmin" \notin Set(watcher'[u][s])
             PROVE  ~Notable(u, watcher[u][s])'
    BY DEF Rested, Set, Notable
<1> DEFINE w == watcher[u][s]
           x == watcher'[u][s]
<1>1. w \in Watchers
    BY DEF TypeOK
<1>2. CASE Step
  <2>1. PICK readable \in SUBSET Uris : StepReading(readable)
        BY <1>2 DEF Step, There
  <2>2. u \in readable /\ value' = value
        BY <2>1, StillListed DEF StepReading
  <2>3. x = w /\ (Active(u, s) => ~UpdateDue(u, w))
        BY <1>1, <2>1, <2>2, StepWatchers, NotifiedFields
  <2>4. QED
        BY <2>2, <2>3 DEF UpdateDue, Notable, Active, Set
<1>3. CASE Tick
  <2>1. /\ x.status = w.status /\ x.update = w.update /\ x.lastValue = w.lastValue
        /\ x.hasParameters = w.hasParameters /\ x.parameters = w.parameters
        BY <1>3, TickWatchers
  <2>2. ~awake /\ u \notin unread /\ value' = value
        BY <1>3 DEF Tick
  <2>3. QED
        BY <2>1, <2>2 DEF Rested, Notable, Active, Set
<1>4. CASE UNCHANGED vars
    BY <1>4 DEF vars, Rested, Notable, Active, Set
<1>5. QED
    BY <1>2, <1>3, <1>4, Wakes

\* Either nothing has changed since the server was told, or the change is due and
\* crosses nothing.
LEMMA RestedCrossing ==
    ASSUME TypeOK, NoLostChange, Baseline, Rested
    PROVE  NoMissedCrossing
<1> SUFFICES ASSUME ~awake, NEW u \in Uris, u \notin unread, NEW s \in Servers,
                    Active(u, s), ~watcher[u][s].silent, ~watcher[u][s].apart, IsResource(u),
                    "pmin" \notin Set(watcher[u][s])
             PROVE  LET w == watcher[u][s]
                    IN  /\ "gt" \in Set(w) =>
                                ~Crosses(value[u], w.told[u], w.parameters.greaterThan)
                        /\ "lt" \in Set(w) =>
                                ~Crosses(value[u], w.told[u], w.parameters.lessThan)
    BY DEF NoMissedCrossing
<1> DEFINE w == watcher[u][s]
<1>1. w \in Watchers /\ w.parameters \in AttributeSets
    BY DEF TypeOK, Watchers
<1>2. u \in Resources /\ value[u] \in Int
    BY ResourceUris, BoundsAssumption DEF BoundsAssumption, TypeOK
<1>3. CASE w.update
  <2>1. w.lastValue = w.told[u] /\ ~Notable(u, w)
        BY <1>3 DEF Baseline, Rested
  <2>2. QED
        BY <2>1 DEF Notable
<1>4. CASE ~w.update
  <2>1. w.told[u] = value[u]
        BY <1>2, <1>4 DEF NoLostChange, UpToDate, Concerns, Meets
  <2>2. w.parameters.greaterThan \in Int /\ w.parameters.lessThan \in Int
        BY <1>1 DEF AttributeSets
  <2>3. QED
        BY <1>2, <2>1, <2>2 DEF Crosses
<1>5. QED
    BY <1>3, <1>4

\* After a step no value lies beyond a threshold the server has set and was not
\* told of, for any URIs, those that match each other in prv_findObserved included,
\* and whatever Observe is answered 5.00: but where lastValue is apart from what
\* the server was told (observe_handleRequest).
THEOREM CrossingsAreTold == SafeSpec => []NoMissedCrossing
<1>1. Init => Baseline /\ Rested
    BY DEF Init, Baseline, Rested, Active, NoWatcher
<1>2. TypeOK /\ Baseline /\ [Next]_vars => Baseline'
    BY BaselineStep
<1>3. TypeOK /\ Rested /\ [Next]_vars => Rested'
    BY RestedStep
<1>4. TypeOK /\ NoLostChange /\ Baseline /\ Rested => NoMissedCrossing
    BY RestedCrossing
<1>5. QED
    BY <1>1, <1>2, <1>3, <1>4, TypeCorrect, NoChangeLost, PTL DEF SafeSpec
=============================================================================
