----------------------- MODULE DeviceManagementProofs -----------------------
(***************************************************************************)
(* What holds of DeviceManagement for any instances, commands and bounds.  *)
(***************************************************************************)
EXTENDS DeviceManagement, FiniteSetTheorems, WellFoundedInduction, TLAPS

\* lwm2m_list_newId gives an id no instance has (list.c).
LEMMA NewIdIsNew ==
    ASSUME NEW I, DOMAIN I \subseteq Nat, IsFiniteSet(DOMAIN I)
    PROVE  NewId(I) \in Nat /\ NewId(I) \notin DOMAIN I
<1> DEFINE D == DOMAIN I
           n == Cardinality(D)
<1>1. n \in Nat
    BY FS_CardinalityType
<1>2. ~ (0..n \subseteq D)
    <2> SUFFICES ASSUME 0..n \subseteq D PROVE FALSE
        OBVIOUS
    <2>1. Cardinality(0..n) <= n
        BY FS_Subset
    <2>2. Cardinality(0..n) = n + 1
        BY <1>1, FS_Interval
    <2> QED
        BY <1>1, <2>1, <2>2
<1>3. \E i \in Nat \ D : \A j \in Nat \ D : ~ (<<j, i>> \in OpToRel(<, Nat))
    <2>1. Nat \ D # {} /\ Nat \ D \subseteq Nat
        BY <1>1, <1>2
    <2> QED
        BY <2>1, NatLessThanWellFounded, WFMin, Zenon
<1>4. PICK i \in Nat \ D : \A j \in Nat \ D : ~ (<<j, i>> \in OpToRel(<, Nat))
    BY <1>3
<1>5. \A j \in Nat \ D : ~ (j < i)
    BY <1>4 DEF OpToRel
<1>6. i \in 0..n
    BY <1>1, <1>2, <1>5
<1>7. 0..(i - 1) \subseteq D
    BY <1>5
<1> QED
    BY <1>1, <1>6, <1>7 DEF NewId

-----------------------------------------------------------------------------
(* The object functions. *)

\* The instances an object may have.
Object(I) == /\ DOMAIN I \subseteq Nat /\ IsFiniteSet(DOMAIN I)
             /\ I \in [DOMAIN I -> Instance]

\* An instance is taken out, or put in.
LEMMA WithoutIt ==
    ASSUME NEW I, Object(I), NEW i
    PROVE  /\ Object(Without(I, i)) /\ DOMAIN Without(I, i) = DOMAIN I \ {i}
           /\ \A j \in DOMAIN I \ {i} : Without(I, i)[j] = I[j]
<1>1. IsFiniteSet(DOMAIN I \ {i})
    BY FS_RemoveElement DEF Object
<1> QED
    BY <1>1 DEF Object, Without

LEMMA WithIt ==
    ASSUME NEW I, Object(I), NEW i \in Nat, NEW content \in Instance
    PROVE  /\ Object(With(I, i, content)) /\ DOMAIN With(I, i, content) = DOMAIN I \cup {i}
           /\ \A j \in DOMAIN I \ {i} : With(I, i, content)[j] = I[j]
<1>1. IsFiniteSet(DOMAIN I \cup {i})
    BY FS_AddElement DEF Object
<1> QED
    BY <1>1 DEF Object, With

\* What prv_write writes are values of their resources.
LEMMA WrittenType ==
    ASSUME NEW old \in Instance, NEW items \in Seq(Item)
    PROVE  Written(old, items) \in Instance
<1> SUFFICES ASSUME NEW x \in Writable PROVE Written(old, items)[x] \in Values
    BY DEF Written, Instance
<1> DEFINE last == {k \in Accepted(items) :
                        items[k].id = x /\ \A j \in Accepted(items) : j > k => items[j].id # x}
<1>1. CASE last = {}
    BY <1>1 DEF Written, Instance
<1>2. CASE last # {}
    <2>1. PICK k \in last : k = CHOOSE j \in last : TRUE
        BY <1>2
    <2>2. k \in DOMAIN items /\ items[k].id = x /\ Refusal(items[k]) = "none"
        BY <2>1 DEF Accepted
    <2>3. items[k] \in Item
        BY <2>2
    <2>4. items[k].value \in Values
        BY <2>2, <2>3 DEF Refusal, Item
    <2>5. Written(old, items)[x] = items[k].value
        BY <1>2, <2>1 DEF Written
    <2> QED
        BY <2>4, <2>5
<1> QED
    BY <1>1, <1>2

\* A write that is refused is refused for its first bad item.
LEMMA WriteCodeType ==
    ASSUME NEW items \in Seq(Item)
    PROVE  WriteCode(items) \in {"2.04", "4.00", "4.04", "4.05"}
<1> DEFINE bad == {k \in DOMAIN items : Refusal(items[k]) # "none"}
<1>1. CASE bad = {}
    <2>1. \A k \in DOMAIN items : 1..k \subseteq DOMAIN items
        OBVIOUS
    <2>2. Accepted(items) = DOMAIN items
        BY <1>1, <2>1 DEF Accepted
    <2> QED
        BY <2>2 DEF WriteCode
<1>2. CASE bad # {}
    <2>1. bad \in SUBSET Nat
        OBVIOUS
    <2>2. \E k \in bad : \A j \in bad : ~ (<<j, k>> \in OpToRel(<, Nat))
        BY <1>2, <2>1, NatLessThanWellFounded, WFMin, Zenon
    <2>3. PICK b \in bad : \A j \in bad : ~ (j < b)
        BY <2>1, <2>2 DEF OpToRel
    <2>4. Accepted(items) = 1..(b - 1)
        BY <2>3 DEF Accepted
    <2>5. Cardinality(Accepted(items)) + 1 = b
        <3>1. b \in Nat \ {0}
            OBVIOUS
        <3>2. PICK m \in Int : m = b - 1
            BY <3>1
        <3>3. Cardinality(1..m) = m
            BY <3>1, <3>2, FS_Interval
        <3> QED
            BY <2>4, <3>1, <3>2, <3>3
    <2>6. Accepted(items) # DOMAIN items
        BY <2>3, <2>4
    <2>7. WriteCode(items) = Refusal(items[b])
        BY <2>5, <2>6 DEF WriteCode
    <2> QED
        BY <2>3, <2>7 DEF Refusal
<1> QED
    BY <1>1, <1>2

LEMMA ZeroType == [x \in Writable |-> Zero] \in Instance
    BY ConstantsAssumption DEF Instance

\* What a request makes of the instances I: what there is of them is of the right
\* type; only the instance the request names is changed or removed, and removed
\* only by a write, or with 2.02; and only one that is answered with its id is new.
Faithful(I, c, result) ==
    /\ Object(result.instances) /\ result.code \in Codes /\ result.id \in Nat
    /\ \A j \in DOMAIN I :
          (j \notin DOMAIN result.instances \/ result.instances[j] # I[j]) => c.instance = j
    /\ DOMAIN I \subseteq DOMAIN result.instances \/ c.op = "write"
          \/ (c.op = "delete" /\ result.code = "2.02")
    /\ \A j \in DOMAIN result.instances \ DOMAIN I : result.code = "2.01" /\ result.id = j
    /\ result.code = "2.01" => result.id \in DOMAIN result.instances

LEMMA MaxId == LWM2M_MAX_ID \in Nat /\ Ids \subseteq Nat /\ LWM2M_MAX_ID \notin Ids
    BY ConstantsAssumption DEF Ids

\* prv_create on an id that is not in use.
LEMMA CreateIsFaithful ==
    ASSUME NEW I, Object(I), NEW i \in Nat, i \notin DOMAIN I, NEW items \in Seq(Item)
    PROVE  LET made == Create(I, i, items)
           IN  /\ Object(made.instances) /\ made.code \in Codes \ {"2.02"}
               /\ \A j \in DOMAIN I : j \in DOMAIN made.instances /\ made.instances[j] = I[j]
               /\ DOMAIN made.instances \subseteq DOMAIN I \cup {i}
               /\ i \in DOMAIN made.instances <=> made.code = "2.01"
               /\ DOMAIN made = {"instances", "code", "id"}
<1> DEFINE content == Written([x \in Writable |-> Zero], items)
<1>1. content \in Instance
    BY ZeroType, WrittenType
<1>2. WriteCode(items) \in {"2.04", "4.00", "4.04", "4.05"}
    BY WriteCodeType
<1>3. CASE WriteCode(items) = "2.04"
    <2>1. Create(I, i, items) = Result(With(I, i, content), "2.01")
        BY <1>3 DEF Create
    <2> HIDE DEF content
    <2>2. /\ Object(With(I, i, content)) /\ DOMAIN With(I, i, content) = DOMAIN I \cup {i}
          /\ \A j \in DOMAIN I \ {i} : With(I, i, content)[j] = I[j]
        BY <1>1, WithIt
    <2> QED
        BY <2>1, <2>2 DEF Result, Codes
<1>4. CASE WriteCode(items) # "2.04"
    <2>1. Create(I, i, items) = Result(Without(I, i), WriteCode(items))
        BY <1>4 DEF Create
    <2>2. /\ Object(Without(I, i)) /\ DOMAIN Without(I, i) = DOMAIN I \ {i}
          /\ \A j \in DOMAIN I \ {i} : Without(I, i)[j] = I[j]
        BY WithoutIt
    <2> QED
        BY <1>2, <1>4, <2>1, <2>2 DEF Result, Codes
<1> QED
    BY <1>3, <1>4

LEMMA ReadOnlyIsFaithful ==
    ASSUME NEW I, Object(I), NEW c \in Command, NEW code \in Codes \ {"2.01"}
    PROVE  Faithful(I, c, Result(I, code))
    BY MaxId DEF Faithful, Result

LEMMA WriteIsFaithful ==
    ASSUME NEW I, Object(I), NEW c \in Command, NEW partial \in BOOLEAN,
           partial \/ c.op = "write"
    PROVE  Faithful(I, c, ObjectWrite(I, c, partial))
<1>0. c.items \in Seq(Item) /\ c.instance \in Nat
    BY MaxId DEF Command
<1>1. CASE c.items = <<>> \/ c.instance \notin DOMAIN I
    BY <1>1, ReadOnlyIsFaithful DEF ObjectWrite, Codes
<1>2. CASE c.items # <<>> /\ c.instance \in DOMAIN I /\ ~partial /\ c.resource = LWM2M_MAX_ID
    <2> DEFINE i == c.instance
               J == Without(I, i)
               made == Create(J, i, c.items)
    <2>1. /\ Object(J) /\ DOMAIN J = DOMAIN I \ {i}
          /\ \A j \in DOMAIN I \ {i} : J[j] = I[j]
        BY WithoutIt
    <2>2. ObjectWrite(I, c, partial) = [made EXCEPT !.code = IF @ = "2.01" THEN "2.04" ELSE @]
        BY <1>2 DEF ObjectWrite, Replace
    <2>3. /\ Object(made.instances) /\ made.code \in Codes \ {"2.02"}
          /\ \A j \in DOMAIN J : j \in DOMAIN made.instances /\ made.instances[j] = J[j]
          /\ DOMAIN made.instances \subseteq DOMAIN J \cup {i}
        BY <1>0, <2>1, CreateIsFaithful
    <2>4. made.id = LWM2M_MAX_ID /\ made = [instances |-> made.instances, code |-> made.code, id |-> made.id]
        BY DEF Create, Result
    <2> HIDE DEF made, J
    <2> QED
        BY <1>2, <2>1, <2>2, <2>3, <2>4, MaxId DEF Faithful, Codes
<1>3. CASE c.items # <<>> /\ c.instance \in DOMAIN I /\ ~(~partial /\ c.resource = LWM2M_MAX_ID)
    <2> DEFINE content == Written(I[c.instance], c.items)
    <2>1. I[c.instance] \in Instance
        BY <1>3 DEF Object
    <2>2. content \in Instance
        BY <1>0, <2>1, WrittenType
    <2>3. ObjectWrite(I, c, partial) = Result(With(I, c.instance, content), WriteCode(c.items))
        BY <1>3 DEF ObjectWrite
    <2> HIDE DEF content
    <2>6. PICK i \in Nat, v \in Instance : i = c.instance /\ v = content
        BY <1>0, <2>2
    <2>7. /\ Object(With(I, i, v)) /\ DOMAIN With(I, i, v) = DOMAIN I \cup {i}
          /\ \A j \in DOMAIN I \ {i} : With(I, i, v)[j] = I[j]
        BY WithIt
    <2>4. /\ Object(With(I, c.instance, content))
          /\ DOMAIN With(I, c.instance, content) = DOMAIN I \cup {c.instance}
          /\ \A j \in DOMAIN I \ {c.instance} : With(I, c.instance, content)[j] = I[j]
        BY <2>6, <2>7
    <2>5. WriteCode(c.items) \in {"2.04", "4.00", "4.04", "4.05"}
        BY <1>0, WriteCodeType
    <2> QED
        BY <1>3, <2>3, <2>4, <2>5, MaxId DEF Faithful, Result, Codes
<1> QED
    BY <1>1, <1>2, <1>3

LEMMA ObjectCreateIsFaithful ==
    ASSUME NEW I, Object(I), NEW c \in Command
    PROVE  Faithful(I, c, ObjectCreate(I, c))
<1>0. c.items \in Seq(Item) /\ c.instance \in Nat
    BY MaxId DEF Command
<1>1. CASE c.instance \in DOMAIN I
    BY <1>1, ReadOnlyIsFaithful DEF ObjectCreate, Codes
<1>2. CASE c.instance \notin DOMAIN I
    <2> DEFINE i == IF c.instance = LWM2M_MAX_ID THEN NewId(I) ELSE c.instance
               made == Create(I, i, c.items)
    <2>1. i \in Nat /\ i \notin DOMAIN I
        BY <1>0, <1>2, NewIdIsNew DEF Object
    <2>2. PICK k \in Nat : k = i
        BY <2>1
    <2>3. ObjectCreate(I, c) = [Create(I, k, c.items) EXCEPT !.id = k]
        BY <1>2, <2>2 DEF ObjectCreate
    <2>4. /\ Object(Create(I, k, c.items).instances) /\ Create(I, k, c.items).code \in Codes
          /\ \A j \in DOMAIN I : /\ j \in DOMAIN Create(I, k, c.items).instances
                                 /\ Create(I, k, c.items).instances[j] = I[j]
          /\ DOMAIN Create(I, k, c.items).instances \subseteq DOMAIN I \cup {k}
          /\ k \in DOMAIN Create(I, k, c.items).instances <=> Create(I, k, c.items).code = "2.01"
        BY <1>0, <2>1, <2>2, CreateIsFaithful
    <2>5. Create(I, k, c.items) = [instances |-> Create(I, k, c.items).instances,
                                   code |-> Create(I, k, c.items).code,
                                   id |-> Create(I, k, c.items).id]
        BY DEF Create, Result
    <2> QED
        BY <2>1, <2>2, <2>3, <2>4, <2>5 DEF Faithful
<1> QED
    BY <1>1, <1>2

LEMMA DeleteIsFaithful ==
    ASSUME NEW I, Object(I), NEW c \in Command, c.op = "delete"
    PROVE  Faithful(I, c, Delete(I, c.instance))
<1>1. CASE c.instance \notin DOMAIN I
    BY <1>1, ReadOnlyIsFaithful DEF Delete, Codes
<1>2. CASE c.instance \in DOMAIN I
    <2>1. /\ Object(Without(I, c.instance)) /\ DOMAIN Without(I, c.instance) = DOMAIN I \ {c.instance}
          /\ \A j \in DOMAIN I \ {c.instance} : Without(I, c.instance)[j] = I[j]
        BY WithoutIt
    <2> QED
        BY <1>2, <2>1, MaxId DEF Delete, Result, Faithful, Codes
<1> QED
    BY <1>1, <1>2

\* dm_handleRequest, whatever is asked.
LEMMA PerformIsFaithful ==
    ASSUME NEW I, Object(I), NEW c \in Command
    PROVE  Faithful(I, c, Perform(I, c))
<1>1. CASE c.op \in {"read", "discover"}
    BY <1>1, ReadOnlyIsFaithful DEF Perform, ObjectRead, Codes
<1>2. CASE c.op = "write"
    BY <1>2, WriteIsFaithful DEF Perform
<1>3. CASE c.op = "update"
    BY <1>3, WriteIsFaithful DEF Perform
<1>4. CASE c.op = "execute"
    BY <1>4, ReadOnlyIsFaithful DEF Perform, ObjectExecute, Codes
<1>5. CASE c.op = "create"
    BY <1>5, ObjectCreateIsFaithful DEF Perform
<1>6. CASE c.op = "delete"
    BY <1>6, DeleteIsFaithful DEF Perform
<1> QED
    BY <1>1, <1>2, <1>3, <1>4, <1>5, <1>6 DEF Command, Operations

-----------------------------------------------------------------------------
(* Types. *)

LEMMA InitialObject == Object(Initial)
    BY ConstantsAssumption, MaxId DEF Object

LEMMA Facts ==
    ASSUME TypeOK, NEW r \in DOMAIN requests
    PROVE  /\ Object(instances) /\ requests[r] \in Request
           /\ Faithful(instances, requests[r].command, Perform(instances, requests[r].command))
<1>1. Object(instances)
    BY DEF TypeOK, Object
<1>2. requests[r] \in Request
    BY DEF TypeOK
<1>3. requests[r].command \in Command
    BY <1>2, ConstantsAssumption DEF Request
<1> QED
    BY <1>1, <1>2, <1>3, PerformIsFaithful

LEMMA RequestHandled ==
    ASSUME NEW q \in Request, NEW a \in Answer
    PROVE  [q EXCEPT !.copies = @ + 1, !.answers = @ \cup {a}] \in Request
<1>1. PICK n \in Nat, s \in SUBSET Answer : n = q.copies /\ s = q.answers
    BY Zenon DEF Request
<1>2. PICK m \in Nat : m = n + 1
    OBVIOUS
<1>4. PICK t \in SUBSET Answer : t = s \cup {a}
    OBVIOUS
<1>3. [q EXCEPT !.copies = m, !.answers = t] \in Request
    BY DEF Request
<1> QED
    BY <1>1, <1>2, <1>3, <1>4

LEMMA OneReplaced ==
    ASSUME NEW s \in Seq(Update), NEW u \in DOMAIN s, NEW q \in Update
    PROVE  /\ [s EXCEPT ![u] = q] \in Seq(Update) /\ Len([s EXCEPT ![u] = q]) = Len(s)
           /\ DOMAIN [s EXCEPT ![u] = q] = DOMAIN s
    OBVIOUS

LEMMA UpdateType ==
    ASSUME TypeOK, NEW u \in DOMAIN updates
    PROVE  updates[u] \in Update
    BY DEF TypeOK

LEMMA UpdateHandled ==
    ASSUME NEW q \in Update
    PROVE  /\ [q EXCEPT !.copies = @ + 1] \in Update
           /\ \A how \in {"answered", "given up"} : [q EXCEPT !.over = how] \in Update
<1>1. [q EXCEPT !.copies = @ + 1] \in Update
    <2>1. PICK n \in Nat : n = q.copies
        BY Zenon DEF Update
    <2>2. PICK m \in Nat : m = n + 1
        OBVIOUS
    <2>3. [q EXCEPT !.copies = m] \in Update
        BY DEF Update
    <2> QED
        BY <2>1, <2>2, <2>3
<1>2. ASSUME NEW how \in {"answered", "given up"} PROVE [q EXCEPT !.over = how] \in Update
    BY DEF Update
<1> QED
    BY <1>1, <1>2

LEMMA TypeInductive == TypeOK /\ [Next]_vars => TypeOK'
<1> SUFFICES ASSUME TypeOK, [Next]_vars PROVE TypeOK'
    OBVIOUS
<1> USE DEF Statuses
<1>1. ASSUME NEW c \in Commands, Ask(c) PROVE TypeOK'
    <2>1. [command |-> c, copies |-> 0, answers |-> {}, told |-> Only("none")] \in Request
        BY MaxId DEF Request, Only
    <2> QED
        BY <1>1, <2>1 DEF Ask, TypeOK
<1>2. ASSUME NEW r \in DOMAIN requests, HandleRequest(r) PROVE TypeOK'
    <2> DEFINE c == requests[r].command
               result == Perform(instances, c)
               answer == [code |-> result.code,
                          id |-> IF result.code = "2.01" THEN result.id ELSE LWM2M_MAX_ID]
    <2>1. Faithful(instances, c, result) /\ requests[r] \in Request
        BY Facts
    <2>2. answer \in Answer /\ Object(result.instances)
        BY <2>1, MaxId DEF Faithful, Answer
    <2>3. [requests[r] EXCEPT !.copies = @ + 1, !.answers = @ \cup {answer}] \in Request
        <3>1. PICK a \in Answer : a = answer
            BY <2>2
        <3>2. [requests[r] EXCEPT !.copies = @ + 1, !.answers = @ \cup {a}] \in Request
            BY <2>1, RequestHandled
        <3> QED
            BY <3>1, <3>2
    <2>4. requests' \in Seq(Request)
        <3>1. requests' = [requests EXCEPT ![r] =
                    [requests[r] EXCEPT !.copies = @ + 1, !.answers = @ \cup {answer}]]
            BY <1>2 DEF HandleRequest
        <3> HIDE DEF answer
        <3> QED
            BY <2>3, <3>1 DEF TypeOK
    <2>5. Object(instances')
        BY <1>2, <2>2 DEF HandleRequest
    <2>6. status' \in Statuses /\ torn' \in BOOLEAN
        BY <1>2 DEF HandleRequest, UpdateRegistration, TypeOK
    <2> QED
        BY <1>2, <2>4, <2>5, <2>6 DEF HandleRequest, TypeOK, Object
<1>3. ASSUME NEW r \in DOMAIN requests, Answered(r) \/ GivenUp(r) PROVE TypeOK'
    <2>1. requests[r] \in Request
        BY Facts
    <2>2. PICK what \in requests[r].answers \cup {Only("5.03")} : ResultCallback(r, what)
        BY <1>3 DEF Answered, GivenUp
    <2>3. what \in [code : Codes \cup {"none", "5.03"}, id : Nat]
        BY <2>1, <2>2, MaxId DEF Request, Answer, Only
    <2>4. [requests[r] EXCEPT !.told = what] \in Request
        BY <2>1, <2>3 DEF Request
    <2> QED
        BY <2>2, <2>4 DEF ResultCallback, TypeOK
<1>4. ASSUME NEW full \in BOOLEAN, SendUpdate(full) PROVE TypeOK'
    <2>1. [full |-> full, list |-> IF full THEN DOMAIN instances ELSE {},
           copies |-> 0, over |-> "no"] \in Update
        BY DEF Update, TypeOK
    <2> QED
        BY <1>4, <2>1 DEF SendUpdate, TypeOK
<1>5. CASE UserUpdate
    BY <1>5 DEF UserUpdate, UpdateRegistration, TypeOK
<1>6. ASSUME NEW u \in DOMAIN updates, HandleUpdate(u) PROVE TypeOK'
    <2>1. updates[u] \in Update /\ [updates[u] EXCEPT !.copies = @ + 1] \in Update
        BY UpdateType, UpdateHandled
    <2>2. updates' = [updates EXCEPT ![u] = [updates[u] EXCEPT !.copies = @ + 1]]
        BY <1>6 DEF HandleUpdate
    <2>3. updates' \in Seq(Update) /\ Len(updates') = Len(updates)
        BY <2>1, <2>2 DEF TypeOK
    <2>4. updates[u].list \subseteq Nat
        BY <2>1 DEF Update
    <2>5. objectList' \subseteq Nat /\ source' \in 0..Len(updates')
        BY <1>6, <2>3, <2>4 DEF HandleUpdate, TypeOK
    <2> QED
        BY <1>6, <2>3, <2>5 DEF HandleUpdate, TypeOK
<1>7. ASSUME NEW u \in DOMAIN updates, NEW how \in {"answered", "given up"}, UpdateOver(u, how)
      PROVE  TypeOK'
    <2>1. [updates[u] EXCEPT !.over = how] \in Update
        BY UpdateType, UpdateHandled
    <2>2. updates' = [updates EXCEPT ![u] = [updates[u] EXCEPT !.over = how]]
        BY <1>7 DEF UpdateOver
    <2>5. PICK q \in Update : q = [updates[u] EXCEPT !.over = how]
        BY <2>1
    <2>6. updates \in Seq(Update) /\ updates' = [updates EXCEPT ![u] = q]
        BY <2>2, <2>5 DEF TypeOK
    <2>3. updates' \in Seq(Update) /\ Len(updates') = Len(updates)
        BY <2>6, OneReplaced
    <2>4. status' \in Statuses
        BY <1>7 DEF UpdateOver, TypeOK
    <2> QED
        BY <1>7, <2>3, <2>4 DEF UpdateOver, TypeOK
<1>8. CASE UNCHANGED vars
    BY <1>8 DEF vars, TypeOK
<1> QED
    BY <1>1, <1>2, <1>3, <1>4, <1>5, <1>6, <1>7, <1>8
       DEF Next, Step, Periodic, UpdateAnswered, UpdateGivenUp

LEMMA TypeAtFirst == Init => TypeOK
<1> SUFFICES ASSUME Init PROVE TypeOK
    OBVIOUS
<1>1. Object(instances) /\ objectList \subseteq Nat
    BY InitialObject DEF Init, Object
<1>2. requests \in Seq(Request) /\ updates \in Seq(Update) /\ source \in 0..Len(updates)
    BY DEF Init
<1> QED
    BY <1>1, <1>2 DEF Init, TypeOK, Object, Statuses

\* The variables keep their types.
THEOREM TypeCorrect == Spec => []TypeOK
    BY TypeAtFirst, TypeInductive, PTL DEF Spec

-----------------------------------------------------------------------------
(* The server's list. *)

\* What the client would tell the server next is what it told it last, unless
\* it is about to tell.
UpToDate ==
    (status \in {"REGISTERED", "REG_UPDATE_PENDING", "REG_UPDATE_NEEDED"} /\ ~torn) =>
        /\ \A u \in DOMAIN updates :
              (updates[u].full /\ \A v \in (u + 1)..Len(updates) : ~updates[v].full)
                  => updates[u].list = DOMAIN instances
        /\ (\A u \in DOMAIN updates : ~updates[u].full) => DOMAIN Initial = DOMAIN instances

Lists ==
    /\ source = 0 => objectList = DOMAIN Initial
    /\ source > 0 => updates[source].full /\ objectList = updates[source].list
    /\ \A u \in DOMAIN updates : updates[u].over = "answered" => updates[u].copies > 0
    /\ UpToDate

\* A step that leaves the updates' lists, and the instances, as they are.
LEMMA SameUpToDate ==
    ASSUME UpToDate, updates \in Seq(Update), UNCHANGED <<torn, instances>>,
           status' \in {"REGISTERED", "REG_UPDATE_PENDING", "REG_UPDATE_NEEDED"}
               => status \in {"REGISTERED", "REG_UPDATE_PENDING", "REG_UPDATE_NEEDED"},
           DOMAIN updates' = DOMAIN updates, Len(updates') = Len(updates),
           \A u \in DOMAIN updates : /\ updates'[u].full = updates[u].full
                                     /\ updates'[u].list = updates[u].list
    PROVE  UpToDate'
<1>1. \A u \in DOMAIN updates : \A v \in (u + 1)..Len(updates) : v \in DOMAIN updates
    OBVIOUS
<1> QED
    BY <1>1 DEF UpToDate

\* A copy is counted.
LEMMA CopyCounted ==
    ASSUME NEW q \in Update
    PROVE  LET p == [q EXCEPT !.copies = @ + 1]
           IN  p.full = q.full /\ p.list = q.list /\ p.over = q.over /\ p.copies > 0
<1>1. PICK n \in Nat : n = q.copies
    BY Zenon DEF Update
<1>2. PICK m \in Nat : m = n + 1 /\ m > 0
    OBVIOUS
<1>3. LET p == [q EXCEPT !.copies = m]
      IN  p.full = q.full /\ p.list = q.list /\ p.over = q.over /\ p.copies = m
    BY DEF Update
<1> QED
    BY <1>1, <1>2, <1>3

\* A step that leaves the updates' lists, and the source, as they are.
LEMMA SameLists ==
    ASSUME TypeOK, Lists, UNCHANGED <<source, objectList>>,
           DOMAIN updates' = DOMAIN updates,
           \A u \in DOMAIN updates : /\ updates'[u].full = updates[u].full
                                     /\ updates'[u].list = updates[u].list
                                     /\ updates'[u].over = "answered" => updates'[u].copies > 0,
           UpToDate'
    PROVE  Lists'
    BY DEF Lists, TypeOK

LEMMA ListsInductive == TypeOK /\ Lists /\ [Next]_vars => Lists'
<1> SUFFICES ASSUME TypeOK, Lists, [Next]_vars PROVE Lists'
    OBVIOUS
<1>0. updates \in Seq(Update)
    BY DEF TypeOK
<1>1. ASSUME NEW r \in DOMAIN requests, HandleRequest(r) PROVE Lists'
    <2> DEFINE c == requests[r].command
               result == Perform(instances, c)
    <2>1. Faithful(instances, c, result)
        BY Facts
    <2>2. UNCHANGED <<source, objectList, updates>> /\ instances' = result.instances
        BY <1>1 DEF HandleRequest
    <2>3. CASE result.code \in {"2.01", "2.02"}
        <3>1. status' \notin {"REGISTERED", "REG_UPDATE_PENDING", "REG_UPDATE_NEEDED"}
            BY <1>1, <2>3 DEF HandleRequest, UpdateRegistration, Due, TypeOK, Statuses
        <3> QED
            BY <2>2, <3>1 DEF Lists, UpToDate
    <2>4. CASE result.code \notin {"2.01", "2.02"}
        <3>1. status' = status
            BY <1>1, <2>4 DEF HandleRequest
        <3>2. ~torn' => ~torn /\ DOMAIN instances' = DOMAIN instances
            <4> SUFFICES ASSUME ~torn' PROVE ~torn /\ DOMAIN instances' = DOMAIN instances
                OBVIOUS
            <4>1. ~torn /\ (c.op = "write" => DOMAIN result.instances = DOMAIN instances)
                BY <1>1 DEF HandleRequest
            <4>2. c.op # "write" => DOMAIN result.instances = DOMAIN instances
                BY <2>1, <2>4 DEF Faithful
            <4> QED
                BY <2>2, <4>1, <4>2
        <3>3. UpToDate'
            BY <2>2, <3>1, <3>2 DEF Lists, UpToDate
        <3> QED
            BY <2>2, <3>3 DEF Lists
    <2> QED
        BY <2>3, <2>4
<1>2. ASSUME NEW full \in BOOLEAN, SendUpdate(full),
             ~full => status \in {"REGISTERED", "REG_UPDATE_NEEDED"}
      PROVE  Lists'
    <2> DEFINE n == Len(updates) + 1
    <2>1. /\ n \in Nat \ {0} /\ DOMAIN updates' = 1..n /\ Len(updates') = n
          /\ \A u \in DOMAIN updates : updates'[u] = updates[u]
          /\ updates'[n].full = full /\ updates'[n].over = "no"
          /\ full => updates'[n].list = DOMAIN instances
        BY <1>0, <1>2 DEF SendUpdate
    <2>2. DOMAIN updates = 1..(n - 1)
        BY <1>0
    <2>3. UNCHANGED <<source, objectList, instances>>
        BY <1>2 DEF SendUpdate
    <2>4. source \in 0..(n - 1)
        BY <1>0 DEF TypeOK
    <2> HIDE DEF n
    <2>5. CASE full
        <3>1. UpToDate'
            <4>1. ASSUME NEW u \in DOMAIN updates', \A v \in (u + 1)..n : ~updates'[v].full
                  PROVE  updates'[u].list = DOMAIN instances'
                <5>2. u \in 1..n /\ (u # n => n \in (u + 1)..n)
                    BY <2>1
                <5>3. ~(n \in (u + 1)..n)
                    BY <2>1, <2>5, <4>1
                <5>1. u = n
                    BY <5>2, <5>3
                <5> QED
                    BY <2>1, <2>3, <2>5, <5>1
            <4>2. \E u \in DOMAIN updates' : updates'[u].full
                <5>1. n \in DOMAIN updates'
                    BY <2>1, <2>2
                <5> QED
                    BY <2>1, <2>5, <5>1
            <4> QED
                BY <2>1, <4>1, <4>2 DEF UpToDate
        <3> QED
            BY <2>1, <2>2, <2>3, <2>4, <3>1 DEF Lists
    <2>6. CASE ~full
        <3>1. torn' = torn /\ status \in {"REGISTERED", "REG_UPDATE_NEEDED"}
            BY <1>2, <2>6 DEF SendUpdate, TypeOK
        <3>2. UpToDate'
            <4> SUFFICES ASSUME ~torn PROVE UpToDate'
                BY <3>1 DEF UpToDate
            <4>1. ASSUME NEW u \in DOMAIN updates', updates'[u].full,
                         \A v \in (u + 1)..n : ~updates'[v].full
                  PROVE  updates'[u].list = DOMAIN instances'
                <5>1. u \in DOMAIN updates
                    BY <2>1, <2>2, <2>6, <4>1
                <5>2. \A v \in (u + 1)..(n - 1) : ~updates[v].full
                    BY <2>1, <2>2, <4>1, <5>1
                <5>3. n - 1 = Len(updates)
                    BY <1>0, <2>1, <2>2
                <5> QED
                    BY <2>1, <2>3, <3>1, <4>1, <5>1, <5>2, <5>3 DEF Lists, UpToDate
            <4>2. (\A u \in DOMAIN updates' : ~updates'[u].full) => DOMAIN Initial = DOMAIN instances'
                BY <2>1, <2>2, <2>3, <3>1 DEF Lists, UpToDate
            <4> QED
                BY <2>1, <4>1, <4>2 DEF UpToDate
        <3> QED
            BY <2>1, <2>2, <2>3, <2>4, <3>2 DEF Lists
    <2> QED
        BY <2>5, <2>6
<1>3. CASE UserUpdate
    <2>1. UpToDate'
        BY <1>3 DEF UserUpdate, UpdateRegistration, Lists, UpToDate, TypeOK, Statuses
    <2> QED
        BY <1>3, <2>1 DEF UserUpdate, Lists
<1>4. ASSUME NEW u \in DOMAIN updates, HandleUpdate(u) PROVE Lists'
    <2>0. updates' = [updates EXCEPT ![u] = [updates[u] EXCEPT !.copies = @ + 1]]
        BY <1>4 DEF HandleUpdate
    <2>1. /\ DOMAIN updates' = DOMAIN updates /\ Len(updates') = Len(updates)
          /\ \A v \in DOMAIN updates : /\ updates'[v].full = updates[v].full
                                       /\ updates'[v].list = updates[v].list
                                       /\ updates'[v].over = updates[v].over
                                       /\ v # u => updates'[v] = updates[v]
          /\ updates'[u].copies > 0
        <3>1. updates[u] \in Update /\ [updates[u] EXCEPT !.copies = @ + 1] \in Update
            BY UpdateType, UpdateHandled
        <3>2. PICK q \in Update : q = [updates[u] EXCEPT !.copies = @ + 1]
            BY <3>1
        <3>3. /\ q.full = updates[u].full /\ q.list = updates[u].list
              /\ q.over = updates[u].over /\ q.copies > 0
            BY <3>1, <3>2, CopyCounted
        <3>4. updates' = [updates EXCEPT ![u] = q]
            BY <2>0, <3>2
        <3>5. DOMAIN updates' = DOMAIN updates /\ Len(updates') = Len(updates)
            BY <1>0, <3>4, OneReplaced
        <3> QED
            BY <1>0, <3>3, <3>4, <3>5
    <2>2. UpToDate'
        <3>1. UNCHANGED <<status, torn, instances>>
            BY <1>4 DEF HandleUpdate
        <3> QED
            BY <1>0, <2>1, <3>1, SameUpToDate DEF Lists
    <2>3. \A v \in DOMAIN updates : updates'[v].over = "answered" => updates'[v].copies > 0
        BY <2>1 DEF Lists
    <2>4. CASE updates[u].full
        <3>1. objectList' = updates[u].list /\ source' = u
            BY <1>4, <2>4 DEF HandleUpdate
        <3> QED
            BY <1>0, <2>1, <2>2, <2>3, <2>4, <3>1 DEF Lists
    <2>5. CASE ~updates[u].full
        <3>1. UNCHANGED <<source, objectList>>
            BY <1>4, <2>5 DEF HandleUpdate
        <3> QED
            BY <2>1, <2>2, <2>3, <3>1, SameLists
    <2> QED
        BY <2>4, <2>5
<1>5. ASSUME NEW u \in DOMAIN updates, NEW how \in {"answered", "given up"}, UpdateOver(u, how),
             how = "answered" => updates[u].copies > 0
      PROVE  Lists'
    <2>1. /\ DOMAIN updates' = DOMAIN updates /\ Len(updates') = Len(updates)
          /\ \A v \in DOMAIN updates : /\ updates'[v].full = updates[v].full
                                       /\ updates'[v].list = updates[v].list
                                       /\ updates'[v].over = "answered" => updates'[v].copies > 0
        <3>1. updates' = [updates EXCEPT ![u] = [updates[u] EXCEPT !.over = how]]
            BY <1>5 DEF UpdateOver
        <3>2. \A v \in DOMAIN updates : v # u => updates'[v] = updates[v]
            BY <1>0, <3>1
        <3>3. updates[u] \in Update /\ updates'[u] = [updates[u] EXCEPT !.over = how]
            BY <1>0, <3>1, UpdateType
        <3>4. /\ updates'[u].full = updates[u].full /\ updates'[u].list = updates[u].list
              /\ updates'[u].copies = updates[u].copies /\ updates'[u].over = how
            BY <3>3 DEF Update
        <3>5. DOMAIN updates' = DOMAIN updates /\ Len(updates') = Len(updates)
            <4>1. [updates[u] EXCEPT !.over = how] \in Update
                BY <3>3, UpdateHandled
            <4>2. PICK q \in Update : q = [updates[u] EXCEPT !.over = how]
                BY <4>1
            <4>3. updates' = [updates EXCEPT ![u] = q]
                BY <3>1, <4>2
            <4> QED
                BY <1>0, <4>3, OneReplaced
        <3> QED
            BY <1>5, <3>2, <3>4, <3>5 DEF Lists
    <2>2. UpToDate'
        <3>1. UNCHANGED <<torn, instances>>
            BY <1>5 DEF UpdateOver
        <3>2. status' \in {"REGISTERED", "REG_UPDATE_PENDING", "REG_UPDATE_NEEDED"}
                => status \in {"REGISTERED", "REG_UPDATE_PENDING", "REG_UPDATE_NEEDED"}
            BY <1>5 DEF UpdateOver
        <3> QED
            BY <1>0, <2>1, <3>1, <3>2, SameUpToDate DEF Lists
    <2>3. UNCHANGED <<source, objectList>>
        BY <1>5 DEF UpdateOver
    <2> QED
        BY <2>1, <2>2, <2>3, SameLists
<1>6. ASSUME UNCHANGED <<instances, status, objectList, source, updates, torn>> PROVE Lists'
    BY <1>6 DEF Lists, UpToDate
<1> QED
    BY <1>1, <1>2, <1>3, <1>4, <1>5, <1>6
       DEF Next, Step, Periodic, Due, UpdateAnswered, UpdateGivenUp, Ask, Answered, GivenUp,
           ResultCallback, vars

\* For any number of requests, updates and copies, the server ends up with the
\* instances there are.
THEOREM ServerKnows == Spec => []ListsAgree
<1>1. Init => Lists
    BY DEF Init, Lists, UpToDate
<1>2. Init => TypeOK
    BY TypeAtFirst
<1>3. TypeOK /\ Lists => ListsAgree
    <2> SUFFICES ASSUME TypeOK, Lists, status = "REGISTERED", NewestAnswered, ~Overtaken, ~torn
                 PROVE  objectList = DOMAIN instances
        BY DEF ListsAgree
    <2>0. updates \in Seq(Update) /\ source \in 0..Len(updates)
        BY DEF TypeOK
    <2>1. \A u \in (source + 1)..Len(updates) : ~updates[u].full
        <3> SUFFICES ASSUME NEW u \in (source + 1)..Len(updates), updates[u].full PROVE FALSE
            OBVIOUS
        <3>1. PICK v \in u..Len(updates) : updates[v].full /\ updates[v].over = "answered"
            BY <2>0 DEF NewestAnswered
        <3>2. v \in (source + 1)..Len(updates) /\ updates[v].copies > 0
            BY <2>0, <3>1 DEF Lists
        <3> QED
            BY <3>1, <3>2 DEF Overtaken
    <2>2. CASE source = 0
        BY <2>0, <2>1, <2>2 DEF Lists, UpToDate
    <2>3. CASE source > 0
        BY <2>0, <2>1, <2>3 DEF Lists, UpToDate
    <2> QED
        BY <2>0, <2>2, <2>3
<1> QED
    BY <1>1, <1>2, <1>3, TypeInductive, ListsInductive, PTL DEF Spec

-----------------------------------------------------------------------------
(* What a request does, and what is told of it. *)

\* A copy is counted, and its answer kept.
LEMMA RequestCounted ==
    ASSUME NEW q \in Request, NEW a \in Answer
    PROVE  LET p == [q EXCEPT !.copies = @ + 1, !.answers = @ \cup {a}]
           IN  /\ p.command = q.command /\ p.told = q.told /\ p.answers = q.answers \cup {a}
               /\ p.copies > 0 /\ p.copies # q.copies
<1>1. PICK n \in Nat : n = q.copies
    BY Zenon DEF Request
<1>2. PICK m \in Nat : m = n + 1 /\ m > 0 /\ m # n
    OBVIOUS
<1>3. LET p == [q EXCEPT !.copies = m, !.answers = @ \cup {a}]
      IN  /\ p.command = q.command /\ p.told = q.told /\ p.answers = q.answers \cup {a}
          /\ p.copies = m
    BY DEF Request
<1> QED
    BY <1>1, <1>2, <1>3

\* HandleRequest, field by field.
LEMMA Handled ==
    ASSUME TypeOK, NEW r \in DOMAIN requests, HandleRequest(r)
    PROVE  \E a \in Answer :
             LET c == requests[r].command
                 result == Perform(instances, c)
             IN  /\ Faithful(instances, c, result) /\ instances' = result.instances
                 /\ a.code = result.code /\ (a.code = "2.01" => a = [code |-> "2.01", id |-> result.id])
                 /\ DOMAIN requests' = DOMAIN requests
                 /\ \A q \in DOMAIN requests : /\ requests'[q].command = requests[q].command
                                               /\ requests'[q].told = requests[q].told
                                               /\ q # r => requests'[q] = requests[q]
                 /\ requests'[r].answers = requests[r].answers \cup {a}
                 /\ requests'[r].copies > 0 /\ requests'[r].copies # requests[r].copies
<1> DEFINE c == requests[r].command
           result == Perform(instances, c)
           answer == [code |-> result.code,
                      id |-> IF result.code = "2.01" THEN result.id ELSE LWM2M_MAX_ID]
<1>1. Faithful(instances, c, result) /\ requests[r] \in Request
    BY Facts
<1>2. answer \in Answer
    BY <1>1, MaxId DEF Faithful, Answer
<1>3. PICK a \in Answer : a = answer
    BY <1>2
<1>4. requests' = [requests EXCEPT ![r] =
                    [requests[r] EXCEPT !.copies = @ + 1, !.answers = @ \cup {a}]]
    BY <1>3 DEF HandleRequest
<1>5. LET p == [requests[r] EXCEPT !.copies = @ + 1, !.answers = @ \cup {a}]
      IN  /\ p.command = requests[r].command /\ p.told = requests[r].told
          /\ p.answers = requests[r].answers \cup {a}
          /\ p.copies > 0 /\ p.copies # requests[r].copies
    BY <1>1, RequestCounted
<1>6. instances' = result.instances
    BY DEF HandleRequest
<1>7. a.code = result.code /\ (a.code = "2.01" => a = [code |-> "2.01", id |-> result.id])
    BY <1>3
<1>8. requests \in Seq(Request)
    BY DEF TypeOK
<1> HIDE DEF result, answer
<1>9. /\ DOMAIN requests' = DOMAIN requests
      /\ requests'[r] = [requests[r] EXCEPT !.copies = @ + 1, !.answers = @ \cup {a}]
      /\ \A q \in DOMAIN requests : q # r => requests'[q] = requests[q]
    <2>1. [requests[r] EXCEPT !.copies = @ + 1, !.answers = @ \cup {a}] \in Request
        BY <1>1, RequestHandled
    <2>2. PICK p \in Request : p = [requests[r] EXCEPT !.copies = @ + 1, !.answers = @ \cup {a}]
        BY <2>1
    <2>3. requests' = [requests EXCEPT ![r] = p]
        BY <1>4, <2>2
    <2> QED
        BY <1>8, <2>2, <2>3
<1> QED
    BY <1>1, <1>5, <1>6, <1>7, <1>9 DEF result

\* For any object and commands, a request leaves the other instances alone.
THEOREM RequestsKeepApart == Spec => OthersUntouched
<1>1. ASSUME TypeOK, [Next]_vars
      PROVE  [\A i \in DOMAIN instances :
                (i \notin DOMAIN instances' \/ instances'[i] # instances[i])
                    => \E r \in DOMAIN requests : /\ requests[r].command.instance = i
                                                  /\ requests'[r].copies # requests[r].copies]_vars
    <2>1. ASSUME NEW r \in DOMAIN requests, HandleRequest(r),
                 NEW i \in DOMAIN instances, i \notin DOMAIN instances' \/ instances'[i] # instances[i]
          PROVE  requests[r].command.instance = i /\ requests'[r].copies # requests[r].copies
        BY <1>1, <2>1, Handled DEF Faithful
    <2>2. (\A r \in DOMAIN requests : ~HandleRequest(r)) => UNCHANGED instances
        BY <1>1 DEF Next, Ask, Answered, GivenUp, ResultCallback, Step, Periodic, SendUpdate,
                    UserUpdate, HandleUpdate, UpdateAnswered, UpdateGivenUp, UpdateOver, vars
    <2> QED
        BY <2>1, <2>2
<1> QED
    BY <1>1, TypeCorrect, PTL DEF OthersUntouched, Spec

Removed(i) == \E q \in DOMAIN requests : /\ requests[q].command.op \in {"delete", "write"}
                                         /\ requests[q].command.instance = i
                                         /\ requests[q].copies > 0

\* CreatedAsTold, and the same of the answers that are still on their way.
Creations ==
    /\ \A i \in DOMAIN instances \ DOMAIN Initial :
          \E r \in DOMAIN requests : [code |-> "2.01", id |-> i] \in requests[r].answers
    /\ \A r \in DOMAIN requests : \A a \in requests[r].answers :
          a.code = "2.01" => a.id \in DOMAIN instances \/ Removed(a.id)
    /\ \A r \in DOMAIN requests :
          requests[r].told.code = "2.01" => requests[r].told \in requests[r].answers

LEMMA CreationsInductive == TypeOK /\ Creations /\ [Next]_vars => Creations'
<1> SUFFICES ASSUME TypeOK, Creations, [Next]_vars PROVE Creations'
    OBVIOUS
<1>0. requests \in Seq(Request)
    BY DEF TypeOK
<1>1. ASSUME NEW c \in Commands, Ask(c) PROVE Creations'
    <2> DEFINE n == Len(requests) + 1
    <2>1. /\ n \in Nat /\ DOMAIN requests' = DOMAIN requests \cup {n}
          /\ \A r \in DOMAIN requests : r # n /\ requests'[r] = requests[r]
          /\ requests'[n].answers = {} /\ requests'[n].told.code = "none"
          /\ UNCHANGED instances
        BY <1>0, <1>1 DEF Ask, Only
    <2> HIDE DEF n
    <2>2. \A i : Removed(i) => Removed(i)'
        BY <2>1 DEF Removed
    <2> QED
        BY <2>1, <2>2 DEF Creations
<1>2. ASSUME NEW r \in DOMAIN requests, HandleRequest(r) PROVE Creations'
    <2> DEFINE c == requests[r].command
               result == Perform(instances, c)
    <2>1. PICK a \in Answer :
            /\ Faithful(instances, c, result) /\ instances' = result.instances
            /\ a.code = result.code /\ (a.code = "2.01" => a = [code |-> "2.01", id |-> result.id])
            /\ DOMAIN requests' = DOMAIN requests
            /\ \A q \in DOMAIN requests : /\ requests'[q].command = requests[q].command
                                          /\ requests'[q].told = requests[q].told
                                          /\ q # r => requests'[q] = requests[q]
            /\ requests'[r].answers = requests[r].answers \cup {a}
            /\ requests'[r].copies > 0
        BY <1>2, Handled
    <2> HIDE DEF result
    <2>2. \A q \in DOMAIN requests : requests[q].answers \subseteq requests'[q].answers
        BY <2>1
    <2>3. \A i : Removed(i) => Removed(i)'
        BY <2>1 DEF Removed
    <2>4. \A i \in DOMAIN instances : i \in DOMAIN instances' \/ Removed(i)'
        <3> SUFFICES ASSUME NEW i \in DOMAIN instances, i \notin DOMAIN instances' PROVE Removed(i)'
            OBVIOUS
        <3>1. c.instance = i /\ c.op \in {"delete", "write"}
            BY <2>1 DEF Faithful
        <3> QED
            BY <2>1, <3>1 DEF Removed
    <2>5. ASSUME NEW i \in DOMAIN instances' \ DOMAIN Initial
          PROVE  \E q \in DOMAIN requests' : [code |-> "2.01", id |-> i] \in requests'[q].answers
        <3>1. CASE i \in DOMAIN instances
            BY <2>1, <2>2, <2>5, <3>1 DEF Creations
        <3>2. CASE i \notin DOMAIN instances
            BY <2>1, <2>5, <3>2 DEF Faithful
        <3> QED
            BY <3>1, <3>2
    <2>6. ASSUME NEW q \in DOMAIN requests', NEW b \in requests'[q].answers, b.code = "2.01"
          PROVE  b.id \in DOMAIN instances' \/ Removed(b.id)'
        <3>1. CASE b \in requests[q].answers
            BY <2>1, <2>3, <2>4, <2>6, <3>1 DEF Creations
        <3>2. CASE b \notin requests[q].answers
            BY <2>1, <2>6, <3>2 DEF Faithful
        <3> QED
            BY <3>1, <3>2
    <2>7. \A q \in DOMAIN requests' :
             requests'[q].told.code = "2.01" => requests'[q].told \in requests'[q].answers
        BY <2>1, <2>2 DEF Creations
    <2> QED
        BY <2>5, <2>6, <2>7 DEF Creations
<1>3. ASSUME NEW r \in DOMAIN requests, NEW what, ResultCallback(r, what),
             what \in requests[r].answers \/ what.code # "2.01"
      PROVE  Creations'
    <2>1. requests' = [requests EXCEPT ![r] = [requests[r] EXCEPT !.told = what]] /\ UNCHANGED instances
        BY <1>3 DEF ResultCallback
    <2>2. requests[r] \in Request
        BY <1>0
    <2>3. LET p == [requests[r] EXCEPT !.told = what]
          IN  /\ p.command = requests[r].command /\ p.copies = requests[r].copies
              /\ p.answers = requests[r].answers /\ p.told = what
        BY <2>2 DEF Request
    <2>4. /\ DOMAIN requests' = DOMAIN requests
          /\ \A q \in DOMAIN requests : /\ requests'[q].command = requests[q].command
                                        /\ requests'[q].copies = requests[q].copies
                                        /\ requests'[q].answers = requests[q].answers
                                        /\ q # r => requests'[q].told = requests[q].told
          /\ requests'[r].told = what
        BY <1>0, <2>1, <2>3
    <2>5. \A i : Removed(i) => Removed(i)'
        BY <2>4 DEF Removed
    <2> QED
        BY <1>3, <2>1, <2>4, <2>5 DEF Creations
<1>4. ASSUME UNCHANGED <<instances, requests>> PROVE Creations'
    BY <1>4 DEF Creations, Removed
<1>5. Only("5.03").code # "2.01"
    BY DEF Only
<1> QED
    BY <1>1, <1>2, <1>3, <1>4, <1>5
       DEF Next, Answered, GivenUp, Step, Periodic, SendUpdate, UserUpdate, HandleUpdate,
           UpdateAnswered, UpdateGivenUp, UpdateOver, vars

\* Creations leave an instance or none, and the operator is told which.
THEOREM ToldWhatIs == Spec => []CreatedAsTold
<1>1. Init => Creations
    BY DEF Init, Creations
<1>2. Creations => CreatedAsTold
    BY DEF Creations, CreatedAsTold, Removed
<1> QED
    BY <1>1, <1>2, TypeAtFirst, TypeInductive, CreationsInductive, PTL DEF Spec
=============================================================================
