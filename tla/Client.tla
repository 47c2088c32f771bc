------------------------------- MODULE Client -------------------------------
(***************************************************************************)
(* The life of a client: lwm2m_step and what it drives, registrations      *)
(* (the client half of core/registration.c) and bootstrap                  *)
(* (core/bootstrap.c), with the application's loop around them             *)
(* (examples/client/lwm2mclient.c).                                        *)
(*                                                                         *)
(* The handlers call one another, so each is an operator from a context    *)
(* (the lwm2m_context_t) to a context, and an action is what one pass of   *)
(* the loop does: a step, or one packet, or one command of the user, which *)
(* a step follows.                                                         *)
(*                                                                         *)
(* Time is counted from now: "left" is what is left until a date of the    *)
(* code, and 0 when the date has come.  A request is one of Transaction:   *)
(* it ends once, with an answer or, after COAP_MAX_TRANSMIT_WAIT, without. *)
(* An answer that comes at all comes within Latency.  Memory is never      *)
(* short.  The Server Object is read anew whenever the code asks for a     *)
(* resource of it: a bootstrap may have written or deleted it since.       *)
(***************************************************************************)
EXTENDS Naturals, Sequences, FiniteSets, SequencesExt

CONSTANTS
    Servers,                 \* secObjInstID of the LWM2M servers
    Bootstrap,               \* secObjInstID of the bootstrap server
    Accounts,                \* what a Server Object instance may hold
    Default,                 \* what the code takes when the instance is gone
    HoldOff,                 \* ClientHoldOffTime of the bootstrap server
    Touched,                 \* instances the bootstrap server handles one by one
    COAP_MAX_TRANSMIT_WAIT,  \* 93 seconds
    COAP_EXCHANGE_LIFETIME,  \* 247 seconds
    Latency,                 \* an answer comes within that, or never
    Provisioned,             \* the objects a client may be started with
    MaxSleep,                \* the longest select() of the loop: 60 seconds
    MaxCalls,                \* bound: calls of the user
    MaxCommands,             \* bound: commands of the bootstrap server
    MaxEvents                \* bound: both together

Instances == Servers \cup {Bootstrap}

Configs == [ordered : BOOLEAN, order : Nat, blocking : BOOLEAN, bootstrap : BOOLEAN,
            attempts : Nat \ {0}, attemptDelay : Nat, sequences : Nat \ {0},
            sequenceDelay : Nat, initialDelay : Nat, lifetime : Nat \ {0}]

\* The Security Object's instances, those of them object_getServers cannot
\* use, the servers that have a Server Object instance, and what reading it
\* gives.  One field is for the properties: how often an instance of the
\* Security Object has been written or deleted.
Objects == {o \in [security : SUBSET Instances, bad : SUBSET Instances,
                   server : SUBSET Servers, account : [Servers -> Configs],
                   written : [Instances -> Nat]] :
                \A s \in Servers : IF s \in o.server THEN o.account[s] \in Accounts
                                                   ELSE o.account[s] = Default}

ASSUME ConstantsAssumption ==
    /\ Servers \subseteq Nat /\ IsFiniteSet(Servers)
    /\ Bootstrap \in Nat \ Servers
    /\ Accounts \subseteq Configs /\ Default \in Configs
    /\ ~Default.ordered /\ ~Default.blocking /\ Default.bootstrap
    /\ Default.sequences = 1 /\ Default.initialDelay = 0
    /\ Touched \subseteq Instances
    /\ Provisioned \subseteq Objects
    /\ HoldOff \in Nat /\ Latency \in Nat
    /\ COAP_MAX_TRANSMIT_WAIT \in Nat \ {0}
    /\ COAP_EXCHANGE_LIFETIME \in Nat \ {0}
    /\ MaxSleep \in Nat \ {0}
    /\ MaxCalls \in Nat /\ MaxCommands \in Nat /\ MaxEvents \in Nat

VARIABLES
    context,        \* the lwm2m_context_t
    objects,        \* instances of the Security and Server Objects
    awake,          \* the loop is about to call lwm2m_step
    sleep,          \* what is left of its select()
    previousState,  \* lwm2mclient.c: the state after the last step
    backup,         \* lwm2mclient.c: backupObjectArray
    over,           \* why the program has ended
    calls,          \* calls of the user so far
    commands        \* commands of the bootstrap server so far

application == <<previousState, backup, over>>
bounds == <<calls, commands>>
clientVars == <<context, objects, awake, sleep, application, bounds>>

States == {"INITIAL", "BOOTSTRAP_REQUIRED", "BOOTSTRAPPING", "REGISTER_REQUIRED",
           "REGISTERING", "READY"}

\* lwm2m_status_t, with "none" for a server that is not on its list.
Registered == {"REGISTERED", "REG_UPDATE_NEEDED", "REG_FULL_UPDATE_NEEDED",
               "REG_UPDATE_PENDING", "DEREG_PENDING"}
Registering == {"REG_HOLD_OFF", "REG_PENDING"}
ServerStatuses == {"none", "DEREGISTERED", "REG_FAILED"} \cup Registered \cup Registering

BsPending == {"BS_HOLD_OFF", "BS_INITIATED", "BS_PENDING", "BS_FINISHING", "BS_FAILING"}
BsStatuses == {"none", "DEREGISTERED", "BS_FINISHED", "BS_FAILED"} \cup BsPending

RequestKinds == {"register", "update", "deregister", "bootstrap"}

\* An outstanding request: its transaction.  The connection it was sent on may
\* be closed since, and the server its userData points to freed.
NewRequest(i, kind) ==
    [server |-> i, kind |-> kind, left |-> COAP_MAX_TRANSMIT_WAIT, link |-> "open"]

\* Six fields are for the properties: the register requests since
\* registration_start, whether the Server Object instance has changed since,
\* whether the lifetime has changed since the last of them, the seconds since the
\* request the server has last accepted was sent, the writes of the Security
\* Object instance the server was made from, and whether the application has
\* taken that instance back.
NoServer == [status |-> "none", left |-> 0, attempt |-> 0, sequence |-> 0, lifetime |-> 0,
             dirty |-> FALSE, sessionH |-> FALSE, location |-> FALSE,
             tries |-> 0, rewritten |-> FALSE, changed |-> FALSE, age |-> 0, made |-> 0,
             astray |-> FALSE]
\* object_getServers on an instance it does not know yet: of the Server Object,
\* it keeps the lifetime.
NewServer(s, o) == [NoServer EXCEPT !.status = "DEREGISTERED", !.made = o.written[s],
                                    !.lifetime = o.account[s].lifetime]
NewBootstrap == [status |-> "DEREGISTERED", left |-> 0, dirty |-> FALSE, sessionH |-> FALSE]
NoBootstrap == [NewBootstrap EXCEPT !.status = "none"]

\* lwm2m_transaction_t, lwm2m_server_t and lwm2m_context_t
Requests == {r \in [server : Instances, kind : RequestKinds, left : 0..COAP_MAX_TRANSMIT_WAIT,
                    link : {"open", "closed", "freed"}] :
                r.server = Bootstrap <=> r.kind = "bootstrap"}
ServerRecords == [status : ServerStatuses, left : Nat, attempt : Nat, sequence : Nat,
                  lifetime : Nat, dirty : BOOLEAN, sessionH : BOOLEAN, location : BOOLEAN,
                  tries : Nat, rewritten : BOOLEAN, changed : BOOLEAN, age : Nat, made : Nat,
                  astray : BOOLEAN]
BootstrapRecords == [status : BsStatuses, left : Nat, dirty : BOOLEAN, sessionH : BOOLEAN]
Contexts == [state : States, server : [Servers -> ServerRecords],
             bootstrap : BootstrapRecords, transactionList : Seq(Requests),
             timeout : 0..MaxSleep, corrupt : BOOLEAN]

Least(S) == CHOOSE n \in S : \A m \in S : n <= m
Listed(c) == {s \in Servers : c.server[s].status # "none"}
SetStatus(c, s, status) == [c EXCEPT !.server[s].status = status]
Within(c, d) == [c EXCEPT !.timeout = Least({@, d})]
Send(c, i, kind) == [c EXCEPT !.transactionList = Append(@, NewRequest(i, kind))]

\* A connection is closed, or a server freed: its requests stay.
Cut(c, I, link) ==
    [c EXCEPT !.transactionList =
        [k \in DOMAIN @ |-> IF @[k].server \in I /\ @[k].link # "freed"
                            THEN [@[k] EXCEPT !.link = link] ELSE @[k]]]

-----------------------------------------------------------------------------
(* registration.c *)

\* The Server Object as the code finds it when it reads it.
Config == objects.account

\* prv_startRegistration
StartRegistration(x, s) ==
    [x EXCEPT !.status = "REG_HOLD_OFF", !.left = Config[s].initialDelay]

\* registration_start: all unordered servers, and the first ordered one.
RegistrationStart(c, restartFailed) ==
    LET due == {s \in Servers : \/ c.server[s].status = "DEREGISTERED"
                                \/ restartFailed /\ c.server[s].status = "REG_FAILED"}
        ordered == {s \in due : Config[s].ordered}
        before(s, t) == \/ Config[s].order < Config[t].order
                        \/ Config[s].order = Config[t].order /\ s <= t
        started == {s \in due : s \in ordered => \A t \in ordered : before(s, t)}
        reset(s) == [c.server[s] EXCEPT !.attempt = 0, !.sequence = 0, !.tries = 0,
                                        !.rewritten = FALSE]
    IN  [c EXCEPT !.server =
            [s \in Servers |-> CASE s \in started -> StartRegistration(reset(s), s)
                                 [] s \in due \ started -> reset(s)
                                 [] OTHER -> @[s]]]

\* A sequence is over: another one after a while, or none.
HandleSequenceFailure(c, s) ==
    LET f == Config[s]
        goOn == f.ordered /\ ~f.blocking /\ c.server[s].sequence = 1
        d == IF goOn THEN RegistrationStart(c, FALSE) ELSE c
        failed == SetStatus(d, s, "REG_FAILED")
        others == {t \in Servers : Config[t].ordered /\ failed.server[t].status = "DEREGISTERED"}
    IN  IF d.server[s].sequence < f.sequences
        THEN [d EXCEPT !.server[s] = [@ EXCEPT !.status = "REG_HOLD_OFF", !.attempt = 0,
                                               !.left = f.sequenceDelay]]
        ELSE IF f.bootstrap
        THEN [failed EXCEPT !.state = "BOOTSTRAP_REQUIRED"]
        ELSE IF f.ordered /\ f.blocking
        THEN [failed EXCEPT !.server =
                [t \in Servers |-> IF t \in others THEN [@[t] EXCEPT !.status = "REG_FAILED"]
                                                   ELSE @[t]]]
        ELSE failed

\* Mutant: one attempt more.
MutHandleAttemptFailure(c, s) ==
    IF c.server[s].attempt > Config[s].attempts
    THEN HandleSequenceFailure(c, s)
    ELSE [c EXCEPT !.server[s] = [@ EXCEPT !.status = "REG_HOLD_OFF",
                                           !.left = Config[s].attemptDelay]]

\* An attempt has failed: another one after a growing delay.
HandleAttemptFailure(c, s) ==
    IF c.server[s].attempt >= Config[s].attempts
    THEN HandleSequenceFailure(c, s)
    ELSE [c EXCEPT !.server[s] =
            [@ EXCEPT !.status = "REG_HOLD_OFF",
                      !.left = Config[s].attemptDelay * 2 ^ (c.server[s].attempt - 1)]]

\* The update goes out COAP_MAX_TRANSMIT_WAIT before the lifetime is over, or
\* in the middle of a short one.  The code adds this to registration, the date
\* of the answer, when it looks.
NextUpdate(lifetime) ==
    IF COAP_MAX_TRANSMIT_WAIT < lifetime THEN lifetime - COAP_MAX_TRANSMIT_WAIT
                                         ELSE lifetime \div 2

\* Mutant: the update goes out when the lifetime is over.
MutAccepted(c, r) ==
    [c EXCEPT !.server[r.server] =
        [@ EXCEPT !.status = "REGISTERED", !.left = c.server[r.server].lifetime,
                  !.age = COAP_MAX_TRANSMIT_WAIT - r.left]]

Accepted(c, r) ==
    [c EXCEPT !.server[r.server] =
        [@ EXCEPT !.status = "REGISTERED", !.left = NextUpdate(c.server[r.server].lifetime),
                  !.age = COAP_MAX_TRANSMIT_WAIT - r.left]]

\* prv_handleRegistrationReply.  Answers are "ok", "error", and "none" for a
\* request that was given up.
HandleRegistrationReply(c, r, answer) ==
    LET s == r.server
        d == [Accepted(c, r) EXCEPT !.server[s].location = TRUE]
        goOn == Config[s].ordered /\ (c.server[s].sequence = 1 \/ ~Config[s].blocking)
    IN  IF c.server[s].status # "REG_PENDING" THEN c
        ELSE IF answer # "ok" THEN HandleAttemptFailure(c, s)
        ELSE IF goOn THEN RegistrationStart(d, FALSE)
        ELSE d

\* prv_handleRegistrationUpdateReply: an update that fails is not tried again.
HandleUpdateReply(c, r, answer) ==
    IF c.server[r.server].status # "REG_UPDATE_PENDING" THEN c
    ELSE IF answer = "ok" THEN Accepted(c, r)
    ELSE SetStatus(c, r.server, "REG_FAILED")

\* prv_handleDeregistrationReply: any answer will do.
HandleDeregistrationReply(c, r) ==
    IF c.server[r.server].status = "DEREG_PENDING"
    THEN SetStatus(c, r.server, "DEREGISTERED") ELSE c

\* prv_register; reach are the servers lwm2m_connect_server can connect now.
Register(c, s, reach) ==
    LET x == c.server[s]
        y == [x EXCEPT !.sessionH = TRUE, !.status = "REG_PENDING",
                       !.sequence = IF x.attempt = 0 THEN @ + 1 ELSE @,
                       !.attempt = @ + 1, !.tries = @ + 1, !.changed = FALSE]
    IN  IF x.sessionH \/ s \in reach
        THEN [Send(c, s, "register") EXCEPT !.server[s] = y]
        ELSE c

\* prv_updateRegistration
UpdateRegistration(c, s) == SetStatus(Send(c, s, "update"), s, "REG_UPDATE_PENDING")

\* What registration_step does for one server.
StepServer(c, s, reach) ==
    LET x == c.server[s]
    IN  CASE x.status = "REG_HOLD_OFF" ->
                IF x.left = 0 THEN Register(c, s, reach) ELSE Within(c, x.left)
          [] x.status = "REGISTERED" ->
                IF x.left = 0 THEN UpdateRegistration(c, s) ELSE Within(c, x.left)
          [] x.status \in {"REG_UPDATE_NEEDED", "REG_FULL_UPDATE_NEEDED"} ->
                UpdateRegistration(c, s)
          [] x.status = "REG_FAILED" ->
                Cut([c EXCEPT !.server[s].sessionH = FALSE], {s}, "closed")
          [] OTHER -> c

\* The servers as lwm2m_list_add keeps them, by secObjInstID
ServerList ==
    LET n == Cardinality(Servers)
    IN  CHOOSE q \in [1..n -> Servers] : \A i, j \in 1..n : i < j => q[i] < q[j]

RegistrationStep(c, reach) ==
    FoldLeft(LAMBDA d, s : StepServer(d, s, reach), c, ServerList)

\* What registration_getStatus returns.
RegistrationStatus(c) ==
    LET statuses == {c.server[s].status : s \in Servers}
    IN  CASE statuses \cap Registering # {} -> "REG_PENDING"
          [] statuses \cap (Registering \cup Registered) = {} -> "REG_FAILED"
          [] OTHER -> "REGISTERED"

-----------------------------------------------------------------------------
(* bootstrap.c: there is one bootstrap server *)

\* Mutant: a request that nobody answers is not noticed.
MutHandleBootstrapReply(c, answer) ==
    IF c.bootstrap.status = "BS_INITIATED" /\ answer = "ok"
    THEN [c EXCEPT !.bootstrap = [@ EXCEPT !.status = "BS_PENDING",
                                           !.left = COAP_EXCHANGE_LIFETIME]]
    ELSE c

\* prv_handleBootstrapReply
HandleBootstrapReply(c, answer) ==
    IF c.bootstrap.status # "BS_INITIATED" THEN c
    ELSE IF answer = "ok"
    THEN [c EXCEPT !.bootstrap = [@ EXCEPT !.status = "BS_PENDING",
                                           !.left = COAP_EXCHANGE_LIFETIME]]
    ELSE [c EXCEPT !.bootstrap.status = "BS_FAILING"]

\* prv_requestBootstrap
RequestBootstrap(c, reach) ==
    IF c.bootstrap.sessionH \/ Bootstrap \in reach
    THEN [Send(c, Bootstrap, "bootstrap") EXCEPT
            !.bootstrap = [@ EXCEPT !.status = "BS_INITIATED", !.sessionH = TRUE]]
    ELSE [c EXCEPT !.bootstrap.status = "BS_FAILED"]

\* bootstrap_start: a bootstrap that was under way starts again.
BootstrapStart(c, reach) ==
    [c EXCEPT !.bootstrap.status = "DEREGISTERED",
              !.bootstrap.sessionH = @ \/ Bootstrap \in reach]

\* The connection is closed and the bootstrap over.
EndBootstrap(c, status) ==
    Cut(Within([c EXCEPT !.bootstrap = [@ EXCEPT !.status = status, !.sessionH = FALSE]], 0),
        {Bootstrap}, "closed")

BootstrapStep(c, reach) ==
    LET b == c.bootstrap
    IN  CASE b.status = "DEREGISTERED" ->
                Within([c EXCEPT !.bootstrap = [@ EXCEPT !.status = "BS_HOLD_OFF",
                                                         !.left = HoldOff]], HoldOff)
          [] b.status = "BS_HOLD_OFF" ->
                IF b.left = 0 THEN RequestBootstrap(c, reach) ELSE Within(c, b.left)
          [] b.status = "BS_PENDING" ->
                IF b.left = 0 THEN Within([c EXCEPT !.bootstrap.status = "BS_FAILING"], 0)
                              ELSE Within(c, b.left)
          [] b.status = "BS_FINISHING" -> EndBootstrap(c, "BS_FINISHED")
          [] b.status = "BS_FAILING" -> EndBootstrap(c, "BS_FAILED")
          [] OTHER -> c

\* prv_checkServerStatus: a command counts as the ACK that was lost, and only
\* one that finds the bootstrap pending moves its deadline.
TakesCommands(c) ==
    /\ c.bootstrap.sessionH
    /\ c.bootstrap.status \in {"DEREGISTERED", "BS_HOLD_OFF", "BS_INITIATED", "BS_PENDING"}

CheckServerStatus(c) ==
    IF c.bootstrap.status \in {"BS_HOLD_OFF", "BS_INITIATED"}
    THEN [c EXCEPT !.bootstrap.status = "BS_PENDING"]
    ELSE [c EXCEPT !.bootstrap.left = COAP_EXCHANGE_LIFETIME]

\* The end of bootstrap_handleCommand, after a write or a delete that worked.
Commanded(c) ==
    IF c.bootstrap.status # "BS_PENDING"
    THEN [c EXCEPT !.bootstrap.status = "BS_PENDING", !.state = "BOOTSTRAPPING"]
    ELSE c

\* prv_tagServer for each of I, prv_tagAllServer for all.
Tag(c, I) ==
    LET tagged(i, x) == IF i \in I /\ x.status # "none" THEN [x EXCEPT !.dirty = TRUE] ELSE x
    IN  [c EXCEPT !.bootstrap = tagged(Bootstrap, @),
                  !.server = [s \in Servers |-> tagged(s, @[s])]]

\* A write of a security instance: one that is new, or one that some server of
\* the lists was made from.  The values may be ones object_getServers refuses.
WriteSecurity(c, i) == IF i \in objects.security THEN Tag(c, {i}) ELSE c

Written(i, good) ==
    [objects EXCEPT !.security = @ \cup {i}, !.written[i] = @ + 1,
                    !.bad = IF good THEN @ \ {i} ELSE @ \cup {i}]

\* What is left when the instances of I are deleted.
Without(I) ==
    [objects EXCEPT !.security = @ \ I, !.bad = @ \ I,
                    !.written = [i \in Instances |-> IF i \in I THEN @[i] + 1 ELSE @[i]]]

\* The Server Object with that instance, and without those of I.
WithAccount(s, f) == [objects EXCEPT !.server = @ \cup {s}, !.account[s] = f]
WithoutAccounts(o, I) ==
    [o EXCEPT !.server = @ \ I,
              !.account = [s \in Servers |-> IF s \in I THEN Default ELSE @[s]]]

\* prv_updateServerInfo: a server of the list has another lifetime, and if it is
\* registered, its update another date.
UpdateServerInfo(c, s, lifetime) ==
    LET x == c.server[s]
        due == x.left + NextUpdate(lifetime)
        left == IF due > NextUpdate(x.lifetime) THEN due - NextUpdate(x.lifetime) ELSE 0
    IN  IF x.status = "none" THEN c
        ELSE [c EXCEPT !.server[s] =
                [x EXCEPT !.lifetime = lifetime, !.changed = x.changed \/ lifetime # x.lifetime,
                          !.left = IF x.status = "REGISTERED" THEN left ELSE x.left]]

\* No server is tagged when the objects become o, but the properties are to know
\* whose account is no longer what it was.
Reread(c, o) ==
    [c EXCEPT !.server =
        [s \in Servers |-> [c.server[s] EXCEPT !.rewritten = @ \/ o.account[s] # Config[s]]]]

-----------------------------------------------------------------------------
(* objects.c and liblwm2m.c *)

\* object_getServers: security instances without a server in the lists, up to
\* the first it cannot read.  One without its server instance is passed over.
Unknown(c, o) ==
    {i \in o.security : IF i = Bootstrap THEN c.bootstrap.status = "none"
                                         ELSE c.server[i].status = "none"}

CanGetServers(c, o) == Unknown(c, o) \cap o.bad = {}

GetServers(c, o) ==
    LET new == {i \in Unknown(c, o) : \A b \in Unknown(c, o) \cap o.bad : i < b}
    IN  [c EXCEPT !.bootstrap = IF Bootstrap \in new THEN NewBootstrap ELSE @,
                  !.server = [s \in Servers |-> IF s \in new \cap o.server
                                                THEN NewServer(s, o) ELSE @[s]]]

\* Mutant: the servers that were tagged are kept.
MutRefresh(c, o) ==
    GetServers([c EXCEPT !.bootstrap.status = IF @ = "none" THEN @ ELSE "DEREGISTERED"], o)

\* prv_refreshServerList: the servers that were tagged are freed.
Refresh(c, o) ==
    LET dirty == {s \in Servers : c.server[s].dirty}
        freed == dirty \cup IF c.bootstrap.dirty THEN {Bootstrap} ELSE {}
        b == IF c.bootstrap.dirty \/ c.bootstrap.status = "none" THEN NoBootstrap
             ELSE [c.bootstrap EXCEPT !.status = "DEREGISTERED"]
        kept == [Cut(c, freed, "freed") EXCEPT
                    !.bootstrap = b,
                    !.server = [s \in Servers |-> IF s \in dirty THEN NoServer ELSE @[s]]]
    IN  GetServers(kept, o)

\* The callback of a request that ends; it may find its server freed.
HandleReply(c, r, answer) ==
    IF r.link = "freed" THEN [c EXCEPT !.corrupt = TRUE]
    ELSE CASE r.kind = "register" -> HandleRegistrationReply(c, r, answer)
           [] r.kind = "update" -> HandleUpdateReply(c, r, answer)
           [] r.kind = "deregister" -> HandleDeregistrationReply(c, r)
           [] r.kind = "bootstrap" -> HandleBootstrapReply(c, answer)

\* transaction_step: in the order they were made, requests that have waited long
\* enough are given up, and the loop looks again in a second; the others want to
\* be woken for.
TransactionStep(c) ==
    LET Turn(d, r) ==
            IF r.left = 0 THEN [HandleReply(d, r, "none") EXCEPT !.timeout = 1]
            ELSE Within([d EXCEPT !.transactionList = Append(@, r)], r.left)
    IN  FoldLeft(Turn, [c EXCEPT !.transactionList = <<>>], c.transactionList)

Exhausted(c) == RegistrationStatus(c) = "REG_FAILED"

\* The states lwm2m_step leaves with "goto next_step".
Settle(c, o) ==
    LET finished == c.state = "BOOTSTRAPPING" /\ c.bootstrap.status = "BS_FINISHED"
        d == IF finished \/ c.state = "INITIAL"
             THEN [Refresh(c, o) EXCEPT !.state = "INITIAL"] ELSE c
    IN  CASE d.state = "INITIAL" /\ CanGetServers(d, o) ->
                [d EXCEPT !.state = IF Listed(d) # {} THEN "REGISTER_REQUIRED"
                                                      ELSE "BOOTSTRAP_REQUIRED"]
          [] d.state \in {"REGISTERING", "READY"} /\ Exhausted(d) ->
                [d EXCEPT !.state = "BOOTSTRAP_REQUIRED"]
          [] OTHER -> d

\* lwm2m_step returns an error before it has done anything else.
Fails(c) ==
    \/ c.state = "INITIAL"
    \/ c.state = "BOOTSTRAP_REQUIRED" /\ c.bootstrap.status = "none"
    \/ c.state = "BOOTSTRAPPING" /\ c.bootstrap.status \notin BsPending

\* The rest of lwm2m_step.
Advance(c, reach) ==
    CASE c.state = "BOOTSTRAP_REQUIRED" ->
            BootstrapStep([BootstrapStart(c, reach) EXCEPT !.state = "BOOTSTRAPPING"], reach)
      [] c.state = "BOOTSTRAPPING" -> BootstrapStep(c, reach)
      [] c.state = "REGISTER_REQUIRED" ->
            [RegistrationStart(c, TRUE) EXCEPT !.state = "REGISTERING"]
      [] c.state = "REGISTERING" ->
            IF RegistrationStatus(c) = "REGISTERED" THEN [c EXCEPT !.state = "READY"] ELSE c
      [] OTHER -> c

-----------------------------------------------------------------------------
(* lwm2mclient.c *)

ClientInit ==
    /\ context = [state |-> "INITIAL", server |-> [s \in Servers |-> NoServer],
                  bootstrap |-> NoBootstrap, transactionList |-> <<>>,
                  timeout |-> 0, corrupt |-> FALSE]
    /\ objects \in Provisioned
    /\ awake = TRUE
    /\ sleep = 0
    /\ previousState = "INITIAL"
    /\ backup = objects
    /\ over = "no"
    /\ calls = 0
    /\ commands = 0

Running == over = "no" /\ ~context.corrupt

\* The step after c begins with the application's restore of the objects.
Restores(c) == Fails(c) /\ previousState = "BOOTSTRAPPING"

\* prv_restore_objects, and the state set after it: the servers are left as
\* they are, those too that were made from what it takes back.
Restored(c) ==
    LET d == Reread(c, backup)
    IN  [d EXCEPT !.state = "INITIAL",
                  !.server = [s \in Servers |->
                    [d.server[s] EXCEPT !.astray = @ \/ c.server[s].made > backup.written[s]]]]

\* A pass of the loop up to its select().  While a request is outstanding,
\* transaction_step may want to be woken earlier than its end, to send it again.
StepReaching(reach) ==
    /\ Running /\ awake
    /\ LET c == Settle([context EXCEPT !.timeout = MaxSleep], objects)
            d == IF Restores(c) THEN Restored(c)
                 ELSE IF Fails(c) THEN c
                 ELSE TransactionStep(RegistrationStep(Advance(c, reach), reach))
        IN  /\ context' = [d EXCEPT !.timeout = 0]
            /\ objects' = IF Restores(c) THEN backup ELSE objects
            /\ over' = IF Fails(c) /\ ~Restores(c) THEN "exit" ELSE "no"
            /\ previousState' = d.state
            /\ backup' = IF d.state = "BOOTSTRAPPING" /\ previousState # "BOOTSTRAPPING"
                         THEN objects ELSE backup
            /\ \E t \in IF Fails(c) \/ d.transactionList = <<>> THEN {d.timeout} ELSE 0..d.timeout :
                /\ t = 0 => d.timeout = 0
                /\ sleep' = t
                /\ awake' = (t = 0)
    /\ UNCHANGED bounds

Step == \E reach \in SUBSET Instances : StepReaching(reach)

Less(n) == IF n = 0 THEN 0 ELSE n - 1

\* A server's count of the lifetime, while it tells anything.
Older(x) ==
    IF x.status \notin Registered THEN 0
    ELSE IF x.age > x.lifetime THEN x.age ELSE x.age + 1

Aged(x) == [x EXCEPT !.left = Less(@), !.age = Older(x)]
Waited(r) == [r EXCEPT !.left = Less(@)]

\* A second passes in select().
Tick ==
    /\ Running /\ ~awake
    /\ sleep' = sleep - 1
    /\ awake' = (sleep' = 0)
    /\ context' = [context EXCEPT
            !.bootstrap.left = Less(@),
            !.server = [s \in Servers |-> Aged(@[s])],
            !.transactionList = [k \in DOMAIN @ |-> Waited(@[k])]]
    /\ UNCHANGED <<objects, application, bounds>>

\* select() returns with a packet or a command; a step follows.
Handled(c) ==
    /\ Running /\ ~awake
    /\ context' = c
    /\ awake' = TRUE
    /\ sleep' = 0

\* A request is answered.
Answer ==
    /\ \E k \in DOMAIN context.transactionList, answer \in {"ok", "error"} :
        LET r == context.transactionList[k]
        IN  /\ r.link # "closed"
            /\ r.left >= COAP_MAX_TRANSMIT_WAIT - Latency
            /\ Handled(HandleReply([context EXCEPT !.transactionList = RemoveAt(@, k)], r, answer))
    /\ UNCHANGED <<objects, application, bounds>>

\* A command of the bootstrap server, by bootstrap_handleCommand.
Command(c) ==
    /\ TakesCommands(context)
    /\ commands < MaxCommands /\ calls + commands < MaxEvents
    /\ commands' = commands + 1
    /\ Handled(c)
    /\ UNCHANGED <<application, calls>>

\* PUT /0/<i>, and PUT /0 with that instance.
PutSecurity ==
    \E i \in Touched, good \in BOOLEAN :
        /\ Command(Commanded(WriteSecurity(CheckServerStatus(context), i)))
        /\ objects' = Written(i, good)

\* A command that leaves the context c, and the Server Object another: nobody is
\* tagged for it.
Rewrite(c, o) ==
    /\ Command(Reread(c, o))
    /\ objects' = o

\* PUT /1/<s>, and PUT /1 with that instance.  Only a write of what is there, by
\* its own URI, gives the server on the list its new lifetime.
PutServer ==
    \E s \in Touched \cap Servers, f \in Accounts :
        LET c == Commanded(CheckServerStatus(context))
        IN  \/ Rewrite(c, WithAccount(s, f))
            \/ s \in objects.server /\ Rewrite(UpdateServerInfo(c, s, f.lifetime), WithAccount(s, f))

\* The same of an instance that is there, with a value that is refused: it has
\* been deleted first, and what is created in its place is deleted again.
LoseServer ==
    \E s \in Touched \cap objects.server :
        Rewrite(CheckServerStatus(context), WithoutAccounts(objects, {s}))

\* DELETE /1/<s>, and DELETE /1
DeleteServer ==
    \E I \in {{s} : s \in Touched \cap objects.server} \cup {Servers} :
        Rewrite(Commanded(CheckServerStatus(context)), WithoutAccounts(objects, I))

\* DELETE /0/<i>
DeleteSecurity ==
    \E i \in Touched \cap objects.security :
        /\ Command(Commanded(Tag(CheckServerStatus(context), {i})))
        /\ objects' = Without({i})

\* DELETE /0: all but the bootstrap server's own.
DeleteSecurityObject ==
    /\ Command(Commanded(Tag(CheckServerStatus(context), Servers)))
    /\ objects' = Without(Servers)

\* bootstrap_handleDeleteAll: DELETE /
HandleDeleteAll ==
    /\ LET o == WithoutAccounts(Without(Servers), Servers)
       IN  /\ Command(Reread(Tag(CheckServerStatus(context), Servers), o))
           /\ objects' = o

\* A read, a discover, or a command that fails.
OtherCommand ==
    /\ Command(CheckServerStatus(context))
    /\ UNCHANGED objects

\* bootstrap_handleFinish: the servers of the lists are not looked at again.
HandleFinish ==
    /\ context.bootstrap.status = "BS_PENDING" /\ context.bootstrap.sessionH
    /\ CanGetServers(context, objects)
    /\ Handled([context EXCEPT !.bootstrap.status = "BS_FINISHING"])
    /\ UNCHANGED <<objects, application, bounds>>

\* A call of the user.
Call(c) ==
    /\ calls < MaxCalls /\ calls + commands < MaxEvents
    /\ calls' = calls + 1
    /\ Handled(c)
    /\ UNCHANGED <<objects, application, commands>>

\* What lwm2m_update_registration makes of a status.
UpdateNeeded(status, withObjects) ==
    CASE status \in {"REGISTERED", "REG_UPDATE_PENDING"} ->
            IF withObjects THEN "REG_FULL_UPDATE_NEEDED" ELSE "REG_UPDATE_NEEDED"
      [] status = "REG_UPDATE_NEEDED" /\ withObjects -> "REG_FULL_UPDATE_NEEDED"
      [] OTHER -> status

\* lwm2m_update_registration of one server.
UpdateOne ==
    \E s \in Listed(context), withObjects \in BOOLEAN :
        Call(SetStatus(context, s, UpdateNeeded(context.server[s].status, withObjects)))

\* lwm2m_update_registration of all, which lwm2m_add_object and
\* lwm2m_remove_object call when READY; with no server, they are looked for.
UpdateAll ==
    \E withObjects \in BOOLEAN :
        LET x(s) == context.server[s]
            new(s) == IF x(s).status \in {"REGISTERED", "REG_UPDATE_PENDING"}
                      THEN UpdateNeeded(x(s).status, withObjects) ELSE x(s).status
        IN  Call(IF Listed(context) = {} THEN GetServers(context, objects)
                 ELSE [context EXCEPT !.server =
                        [s \in Servers |-> [@[s] EXCEPT !.status = new(s)]]])

\* registration_deregister; a server in hold-off may have no connection.
DeregisterServer(c, s) ==
    LET x == c.server[s]
        r == [NewRequest(s, "deregister") EXCEPT !.link = IF x.sessionH THEN "open" ELSE "closed"]
    IN  IF x.location /\ x.status \notin {"DEREGISTERED", "REG_PENDING", "DEREG_PENDING", "REG_FAILED"}
        THEN [c EXCEPT !.transactionList = Append(@, r), !.server[s].status = "DEREG_PENDING"]
        ELSE c

\* lwm2m_deregister
DeregisterAll(c) == FoldLeft(DeregisterServer, c, ServerList)

Deregister == Call(DeregisterAll(context))

\* The user quits: lwm2m_close.
Close ==
    /\ Running /\ ~awake
    /\ over' = "closed"
    /\ UNCHANGED <<context, objects, awake, sleep, previousState, backup, bounds>>

ClientNext ==
    \/ Step \/ Tick \/ Answer
    \/ PutSecurity \/ PutServer \/ LoseServer \/ DeleteServer
    \/ DeleteSecurity \/ DeleteSecurityObject \/ HandleDeleteAll \/ OtherCommand \/ HandleFinish
    \/ UpdateOne \/ UpdateAll \/ Deregister \/ Close

SafeSpec == ClientInit /\ [][ClientNext]_clientVars

\* The loop goes on, time passes, and the servers can be connected now and then.
\* These are WF_clientVars(Step) and SF_clientVars(StepReaching(Instances)), with what
\* ENABLED comes to written out, and WF_clientVars(Tick).
ClientSpec ==
    /\ SafeSpec
    /\ WF_clientVars(Tick)
    /\ []<>(~awake \/ ~Running) \/ []<><<Step>>_clientVars
    /\ <>[](~awake \/ ~Running) \/ []<><<StepReaching(Instances)>>_clientVars

-----------------------------------------------------------------------------
(* Properties *)

\* The context, the objects and the loop have their types, and the loop sleeps
\* when it is not awake.
ClientTypeOK ==
    /\ context \in Contexts /\ context.timeout = 0
    /\ objects \in Objects /\ backup \in Objects
    /\ awake \in BOOLEAN /\ sleep \in 0..MaxSleep /\ awake = (sleep = 0)
    /\ previousState \in States
    /\ over \in {"no", "exit", "closed"}
    /\ calls \in 0..MaxCalls /\ commands \in 0..MaxCommands

\* A registration is given up after as many requests as the Server Object asks
\* for, attempts in sequences, whatever other servers, timeouts, a bootstrap or
\* the user do in between: prv_register counts both, the failure handlers reset
\* and compare them.  They compare with what they read then, and a bootstrap may
\* have rewritten or deleted the instance on the way: the count may be another
\* one, but a sequence has been made for each the instance asks for now, and an
\* attempt for each in the last.  A server that a bootstrap has tagged is freed
\* with its counts, and the one made in its place may fail before it is tried,
\* when it comes after a blocking one.
FailsWhenSpent ==
    [][\A s \in Servers :
        /\ context.server[s].status = "REG_PENDING" /\ ~context.server[s].dirty
        /\ context'.server[s].status = "REG_FAILED"
        => LET f == objects.account[s]
               x == context'.server[s]
           IN  /\ x.tries + 1 >= f.attempts + f.sequences
               /\ ~context.server[s].rewritten => x.tries = f.attempts * f.sequences]_clientVars

\* The update and the answer before it have the time they need, and so has the
\* sleep after a bootstrap that fails: the loop restores the objects and sleeps as
\* long as it ever does before it steps again.
InTime == \A f \in Accounts :
    NextUpdate(f.lifetime) + 2 * Latency + MaxSleep < f.lifetime

\* While the client takes itself for registered, the server's count of the
\* lifetime is not over, and an update sent now arrives before it is:
\* registration_step wakes the loop in time, also when other servers' requests
\* time out or lwm2m_step has returned early.  But for a bootstrap that has given
\* the server another lifetime since it was told one: no update says so.
KnownToServer ==
    \A s \in Servers : context.server[s].status = "REGISTERED" /\ ~context.server[s].changed =>
        context.server[s].age + Latency < context.server[s].lifetime

\* Once a bootstrap is over, the servers to register with, and those the client is
\* registered with, are what the Security Object says now: each was made from its
\* instance as last written, and whoever a bootstrap has rewritten or deleted has
\* been tagged (prv_tagServer) and freed (prv_refreshServerList).  But for those
\* made while a bootstrap was under way that has failed: the application takes
\* their instances back, and leaves them.
NoStaleServer ==
    Running /\ context.state \in {"REGISTER_REQUIRED", "REGISTERING", "READY"} =>
        \A s \in Listed(context) :
            \/ s \in objects.security /\ context.server[s].made = objects.written[s]
            \/ context.server[s].astray

\* Registering comes to an end, with a server or with a bootstrap, and so does a
\* bootstrap, whatever its server leaves out: every stage has a timeout, and the
\* attempts and sequences are counted to their end.
StagesEnd ==
    /\ context.state = "REGISTERING" ~> context.state # "REGISTERING" \/ ~Running
    /\ context.bootstrap.status \in BsPending ~>
            context.bootstrap.status \notin BsPending \/ ~Running
=============================================================================
