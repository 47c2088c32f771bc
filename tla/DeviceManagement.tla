-------------------------- MODULE DeviceManagement --------------------------
(***************************************************************************)
(* What a server's operator does to the instances of an object of a        *)
(* client: the requests of core/management.c, from the command of the      *)
(* operator (examples/server) through the object functions (core/objects.c *)
(* and examples/client/object_test.c, the object 31024) to what the        *)
(* operator is told, and the registration updates that tell the server     *)
(* which instances there are (core/registration.c).                        *)
(*                                                                         *)
(* Requests and updates are reliable (ReliableRequest): each is over once, *)
(* with an answer or given up.  Its copies may come late, after others     *)
(* that were sent after it, and are all handled: neither end recognizes    *)
(* them.  The server keeps the client; a client whose update failed        *)
(* registers anew (Client), and ignores requests until then.  The client's *)
(* loop calls lwm2m_step before each datagram and each command of its user.*)
(***************************************************************************)
EXTENDS Integers, Sequences, FiniteSets

CONSTANTS
    LWM2M_MAX_ID, \* in place of an id: it is not set
    Values,       \* contents of resources
    Zero,         \* of a new instance's resources
    Bad,          \* a value of the wrong type or out of range
    Initial,      \* the instances of get_test_object
    Commands,     \* what the operator may ask for
    MaxRequests,  \* bound: requests
    MaxCopies,    \* bound: copies of a request that are handled
    MaxUpdates,   \* bound: registration updates
    MaxEvents,    \* bound: both together
    MaxUpdateCopies \* bound: copies of an update that are handled

Ids == 0..(LWM2M_MAX_ID - 1)

\* The test object has two numbers and a string, and resource 2 is executed.
Writable == {1, 3, 5}
Executable == 2
Instance == [Writable -> Values]
Item == [id : Ids, value : Values \cup {Bad}]

Operations == {"read", "discover", "write", "update", "execute", "create", "delete"}

\* The command, its URI, and its data: no items are data that do not parse.
Command == [op : Operations, instance : Ids \cup {LWM2M_MAX_ID},
            resource : Ids \cup {LWM2M_MAX_ID}, items : Seq(Item)]

ASSUME ConstantsAssumption ==
    /\ LWM2M_MAX_ID \in Nat /\ Zero \in Values
    /\ DOMAIN Initial \subseteq Ids /\ IsFiniteSet(DOMAIN Initial)
    /\ Initial \in [DOMAIN Initial -> Instance]
    /\ Commands \subseteq Command
    /\ MaxRequests \in Nat /\ MaxCopies \in Nat /\ MaxUpdates \in Nat
    /\ MaxUpdateCopies \in Nat /\ MaxEvents \in Nat

VARIABLES
    instances,  \* the client's objectP->instanceList
    status,     \* the client's serverP->status
    objectList, \* the server's clientP->objectList: the instances it knows of
    source,     \* the update it has them from, 0 for the registration
    requests,   \* the requests sent
    updates,    \* the registration updates sent
    torn        \* an instance was lost to a write since the last full update

vars == <<instances, status, objectList, source, requests, updates, torn>>

Codes == {"2.01", "2.02", "2.04", "2.05", "4.00", "4.04", "4.05", "4.06"}
Only(code) == [code |-> code, id |-> LWM2M_MAX_ID]
Answer == [code : Codes, id : Nat]
Request == [command : Commands, copies : Nat, answers : SUBSET Answer,
            told : [code : Codes \cup {"none", "5.03"}, id : Nat]]
Update == [full : BOOLEAN, list : SUBSET Nat, copies : Nat,
           over : {"no", "answered", "given up"}]

Statuses == {"REGISTERED", "REG_UPDATE_NEEDED", "REG_FULL_UPDATE_NEEDED",
             "REG_UPDATE_PENDING", "REG_FAILED"}
MoreEvents == Len(requests) + Len(updates) < MaxEvents
Due == status \in {"REG_UPDATE_NEEDED", "REG_FULL_UPDATE_NEEDED"}

-----------------------------------------------------------------------------
(* The object functions: what they make of the instances, and the code. *)

Result(I, code) == [instances |-> I, code |-> code, id |-> LWM2M_MAX_ID]
Without(I, i) == [j \in DOMAIN I \ {i} |-> I[j]]
With(I, i, content) == [j \in DOMAIN I \cup {i} |-> IF j = i THEN content ELSE I[j]]

\* lwm2m_list_newId
NewId(I) ==
    CHOOSE i \in 0..Cardinality(DOMAIN I) : i \notin DOMAIN I /\ 0..(i - 1) \subseteq DOMAIN I

\* prv_write's loop: the items before the first it refuses are written.
Refusal(item) ==
    IF item.id = Executable THEN "4.05"
    ELSE IF item.id \notin Writable THEN "4.04"
    ELSE IF item.value = Bad THEN "4.00" ELSE "none"

Accepted(items) == {k \in DOMAIN items : \A j \in 1..k : Refusal(items[j]) = "none"}
WriteCode(items) ==
    IF Accepted(items) = DOMAIN items THEN "2.04"
    ELSE Refusal(items[Cardinality(Accepted(items)) + 1])
Written(old, items) ==
    [x \in Writable |->
        LET last == {k \in Accepted(items) :
                        items[k].id = x /\ \A j \in Accepted(items) : j > k => items[j].id # x}
        IN  IF last = {} THEN old[x] ELSE items[CHOOSE k \in last : TRUE].value]

\* Mutant: an instance that could not be written stays.
MutCreate(I, i, items) ==
    Result(With(I, i, Written([x \in Writable |-> Zero], items)),
           IF WriteCode(items) = "2.04" THEN "2.01" ELSE WriteCode(items))

\* prv_create
Create(I, i, items) ==
    IF WriteCode(items) = "2.04"
    THEN Result(With(I, i, Written([x \in Writable |-> Zero], items)), "2.01")
    ELSE Result(Without(I, i), WriteCode(items))

\* prv_delete
Delete(I, i) ==
    IF i \in DOMAIN I THEN Result(Without(I, i), "2.02") ELSE Result(I, "4.04")

\* prv_write with LWM2M_WRITE_REPLACE_INSTANCE
Replace(I, i, items) ==
    LET created == Create(Without(I, i), i, items)
    IN  [created EXCEPT !.code = IF @ = "2.01" THEN "2.04" ELSE @]

-----------------------------------------------------------------------------
(* A request: object_* and dm_handleRequest. *)

\* object_write; a text or data on an instance do not parse.
ObjectWrite(I, c, partial) ==
    IF c.items = <<>> THEN Result(I, "4.06")
    ELSE IF c.instance \notin DOMAIN I THEN Result(I, "4.04")
    ELSE IF ~partial /\ c.resource = LWM2M_MAX_ID THEN Replace(I, c.instance, c.items)
    ELSE Result(With(I, c.instance, Written(I[c.instance], c.items)), WriteCode(c.items))

\* object_create, which gives an id where the operator gave none.
ObjectCreate(I, c) ==
    LET i == IF c.instance = LWM2M_MAX_ID THEN NewId(I) ELSE c.instance
    IN  IF c.instance \in DOMAIN I THEN Result(I, "4.06")
        ELSE [Create(I, i, c.items) EXCEPT !.id = i]

\* object_execute and prv_exec
ObjectExecute(I, c) ==
    Result(I, IF c.instance \notin DOMAIN I \/ c.resource \notin Writable \cup {Executable} THEN "4.04"
              ELSE IF c.resource = Executable THEN "2.04" ELSE "4.05")

\* object_read and prv_read, object_discover and prv_discover
ObjectRead(I, c) ==
    Result(I, IF c.instance = LWM2M_MAX_ID THEN "2.05"
              ELSE IF \/ c.instance \notin DOMAIN I
                      \/ c.resource \notin Writable \cup {Executable, LWM2M_MAX_ID} THEN "4.04"
              ELSE IF c.op = "read" /\ c.resource = Executable THEN "4.05" ELSE "2.05")

Perform(I, c) ==
    CASE c.op \in {"read", "discover"} -> ObjectRead(I, c)
      [] c.op = "write"   -> ObjectWrite(I, c, FALSE)
      [] c.op = "update"  -> ObjectWrite(I, c, TRUE)
      [] c.op = "execute" -> ObjectExecute(I, c)
      [] c.op = "create"  -> ObjectCreate(I, c)
      [] c.op = "delete"  -> Delete(I, c.instance)

\* Mutant: an update that is under way will do.
MutUpdateRegistration(s, withObjects) ==
    IF s = "REGISTERED"
    THEN IF withObjects THEN "REG_FULL_UPDATE_NEEDED" ELSE "REG_UPDATE_NEEDED"
    ELSE s

\* lwm2m_update_registration for all servers; for one, without objects, too.
UpdateRegistration(s, withObjects) ==
    IF s \in {"REGISTERED", "REG_UPDATE_PENDING"}
    THEN IF withObjects THEN "REG_FULL_UPDATE_NEEDED" ELSE "REG_UPDATE_NEEDED"
    ELSE s

\* dm_handleRequest on a copy of request r.
HandleRequest(r) ==
    LET c == requests[r].command
        result == Perform(instances, c)
        answer == [code |-> result.code, id |-> IF result.code = "2.01" THEN result.id ELSE LWM2M_MAX_ID]
    IN  /\ ~Due /\ status # "REG_FAILED"
        /\ requests[r].copies < MaxCopies
        /\ instances' = result.instances
        /\ requests' = [requests EXCEPT ![r].copies = @ + 1, ![r].answers = @ \cup {answer}]
        /\ status' = IF answer.code \in {"2.01", "2.02"} THEN UpdateRegistration(status, TRUE) ELSE status
        /\ torn' = (torn \/ (c.op = "write" /\ DOMAIN result.instances # DOMAIN instances))
        /\ UNCHANGED <<objectList, source, updates>>

-----------------------------------------------------------------------------
(* The server's side of a request. *)

\* The checks of the operator's commands and of lwm2m_dm_*, before anything is sent.
Allowed(c) ==
    /\ c.resource # LWM2M_MAX_ID => c.instance # LWM2M_MAX_ID
    /\ c.op \in {"write", "update", "delete"} => c.instance # LWM2M_MAX_ID
    /\ c.op = "execute" => c.resource # LWM2M_MAX_ID
    /\ c.op \in {"create", "delete"} => c.resource = LWM2M_MAX_ID
    /\ c.op \in {"create", "update"} => c.items # <<>>

\* prv_makeOperation: prv_read_client, prv_discover_client, prv_do_write_client,
\* prv_exec_client, prv_create_client, prv_delete_client.
Ask(c) ==
    /\ Len(requests) < MaxRequests /\ MoreEvents /\ Allowed(c)
    /\ requests' = Append(requests, [command |-> c, copies |-> 0, answers |-> {}, told |-> Only("none")])
    /\ UNCHANGED <<instances, status, objectList, source, updates, torn>>

\* prv_resultCallback; the URI told is that of the Location-Path.
ResultCallback(r, what) ==
    /\ requests[r].told.code = "none"
    /\ requests' = [requests EXCEPT ![r].told = what]
    /\ UNCHANGED <<instances, status, objectList, source, updates, torn>>

Answered(r) == \E answer \in requests[r].answers : ResultCallback(r, answer)
GivenUp(r) == ResultCallback(r, Only("5.03"))

-----------------------------------------------------------------------------
(* Registration updates. *)

\* prv_updateRegistration
SendUpdate(withObjects) ==
    /\ Len(updates) < MaxUpdates /\ MoreEvents
    /\ updates' = Append(updates, [full |-> withObjects, list |-> IF withObjects THEN DOMAIN instances ELSE {},
                                   copies |-> 0, over |-> "no"])
    /\ status' = "REG_UPDATE_PENDING"
    /\ torn' = (torn /\ ~withObjects)
    /\ UNCHANGED <<instances, objectList, source, requests>>

\* registration_step: what was asked for, or before the lifetime ends.
Step == Due /\ SendUpdate(status = "REG_FULL_UPDATE_NEEDED")
Periodic == status = "REGISTERED" /\ SendUpdate(FALSE)

\* prv_update, the client's user.
UserUpdate ==
    /\ ~Due /\ Len(updates) < MaxUpdates /\ MoreEvents
    /\ status' = UpdateRegistration(status, FALSE)
    /\ UNCHANGED <<instances, objectList, source, requests, updates, torn>>

\* registration_handleRequest on a copy of update u.
HandleUpdate(u) ==
    /\ updates[u].copies < MaxUpdateCopies
    /\ updates' = [updates EXCEPT ![u].copies = @ + 1]
    /\ IF updates[u].full
       THEN /\ objectList' = updates[u].list
            /\ source' = u
       ELSE UNCHANGED <<objectList, source>>
    /\ UNCHANGED <<instances, status, requests, torn>>

\* prv_handleRegistrationUpdateReply; nothing, unless an update is pending.
\* Requests are given up in lwm2m_step, before registration_step.
UpdateOver(u, how) ==
    /\ updates[u].over = "no"
    /\ updates' = [updates EXCEPT ![u].over = how]
    /\ status' = IF status # "REG_UPDATE_PENDING" THEN status
                 ELSE IF how = "answered" THEN "REGISTERED" ELSE "REG_FAILED"
    /\ UNCHANGED <<instances, objectList, source, requests, torn>>

UpdateAnswered(u) == ~Due /\ updates[u].copies > 0 /\ UpdateOver(u, "answered")
UpdateGivenUp(u) == UpdateOver(u, "given up")

-----------------------------------------------------------------------------
Init ==
    /\ instances = Initial
    /\ status = "REGISTERED"
    /\ objectList = DOMAIN Initial /\ source = 0
    /\ requests = <<>> /\ updates = <<>>
    /\ torn = FALSE

Next ==
    \/ \E c \in Commands : Ask(c)
    \/ \E r \in DOMAIN requests : HandleRequest(r) \/ Answered(r) \/ GivenUp(r)
    \/ Step \/ Periodic \/ UserUpdate
    \/ \E u \in DOMAIN updates : HandleUpdate(u) \/ UpdateAnswered(u) \/ UpdateGivenUp(u)

Spec == Init /\ [][Next]_vars

-----------------------------------------------------------------------------
\* Types of the variables.
TypeOK ==
    /\ DOMAIN instances \subseteq Nat /\ IsFiniteSet(DOMAIN instances)
    /\ instances \in [DOMAIN instances -> Instance]
    /\ status \in Statuses
    /\ objectList \subseteq Nat /\ source \in 0..Len(updates)
    /\ requests \in Seq(Request) /\ updates \in Seq(Update)
    /\ torn \in BOOLEAN

\* Every list the client has sent was answered, or one sent after it.
NewestAnswered ==
    \A u \in DOMAIN updates : updates[u].full =>
        \E v \in u..Len(updates) : updates[v].full /\ updates[v].over = "answered"

\* The server took its list from an old copy, after a newer one.
Overtaken == \E u \in (source + 1)..Len(updates) : updates[u].full /\ updates[u].copies > 0

\* Creations and deletions reach the server: when the client is registered, its
\* newest list was answered and the network put no older one in its place, the
\* server knows the instances there are, whatever was created and deleted while
\* updates were on their way (lwm2m_update_registration, registration.c).  The
\* exception is an instance lost to a write that was refused half way.
ListsAgree ==
    (status = "REGISTERED" /\ NewestAnswered /\ ~Overtaken /\ ~torn)
        => objectList = DOMAIN instances

\* What the operator is told of creations is so: an instance that was not there
\* from the start was created as a whole and its creation answered with its id,
\* so no refused creation leaves one behind (prv_create, object_test.c); and one
\* the operator was told of is there until a request that names it.
CreatedAsTold ==
    /\ \A i \in DOMAIN instances \ DOMAIN Initial :
          \E r \in DOMAIN requests : [code |-> "2.01", id |-> i] \in requests[r].answers
    /\ \A r \in DOMAIN requests :
          (requests[r].told.code = "2.01" /\ requests[r].told.id \notin DOMAIN instances)
              => \E q \in DOMAIN requests : /\ requests[q].command.op \in {"delete", "write"}
                                            /\ requests[q].command.instance = requests[r].told.id
                                            /\ requests[q].copies > 0

\* A request changes and removes no instance but the one it names, the creations
\* that name none included (object_create and lwm2m_list_newId).
OthersUntouched ==
    [][\A i \in DOMAIN instances :
            (i \notin DOMAIN instances' \/ instances'[i] # instances[i])
                => \E r \in DOMAIN requests : /\ requests[r].command.instance = i
                                              /\ requests'[r].copies # requests[r].copies]_vars
=============================================================================
