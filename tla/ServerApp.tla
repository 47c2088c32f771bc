----------------------------- MODULE ServerApp -----------------------------
(***************************************************************************)
(* The server application, examples/server/lwm2mserver.c: what it asks of  *)
(* a client that registers when it runs with -C (the commercial sequence), *)
(* and the firmware update the operator starts with "dfota".               *)
(*                                                                         *)
(* Both are driven by callbacks of the library, which run one at a time:   *)
(* every request's callback runs once (ReliableRequest), or once more for  *)
(* the first block of an answer in blocks; answers come in any order, and  *)
(* after the client is gone or its internalID is another's.  Requests wait *)
(* for no other: two of them reach a device in any order.                  *)
(*                                                                         *)
(* Sessions stay with their device here (ServerClients has the updates     *)
(* that move one).  Memory does not run out.                               *)
(***************************************************************************)
EXTENDS Naturals, Sequences, FiniteSets

CONSTANTS
    Devices,     \* endpoint names
    MaxClients,  \* bound: internalIDs
    MaxRegistrations, \* bound: registrations
    MaxCommands, \* bound: the operator's commands
    MaxInBlocks, \* bound: answers that come in blocks at a time
    Nobody       \* the device of an internalID that is free

Ids == 0..(MaxClients - 1)
Commands == 1..MaxCommands

ASSUME BoundsAssumption ==
    /\ MaxClients \in Nat \ {0}
    /\ MaxRegistrations \in Nat /\ MaxCommands \in Nat
    /\ MaxInBlocks \in Nat
ASSUME NobodyAssumption == Nobody \notin Devices

VARIABLES
    commercial,  \* g_commercialRegistrationMode: the server runs with -C
    client,      \* the device registered under each internalID
    registrations, \* registrations so far
    commands,    \* commands so far
    sequences,   \* g_commercialSequences, the newest last
    steps,       \* <<s, k>>: the request of step k of sequence s is not over
    inBlocks,    \* those of which the first block has been answered
    watched,     \* <<s, k>>: the observation of step k of sequence s is stored
    dfota,       \* g_dfotaState, g_dfotaClientId, the command and its device
    operations,  \* requests about /5/0 that are not over
    stored,      \* the command whose observation of /5/0/3 each client has
    notes,       \* notifications of "downloaded" on their way
    firmware,    \* the devices
    downloaded,  \* commands whose package a device has downloaded
    executed     \* the devices on which each command has executed /5/0/2

sequencing == <<sequences, steps, inBlocks, watched>>
updating == <<dfota, operations, stored, notes, executed>>
devices == <<firmware, downloaded>>
vars == <<commercial, client, registrations, commands, sequencing, updating, devices>>

\* prv_commercial_step_t: the steps, two of which observe, and the end.
READ_4_0_8 == 1
OBSERVES == {3, 4}
READ_3_0_3 == 5
COMPLETE == 6
Steps == READ_4_0_8..READ_3_0_3

Sequence == [client : Ids, device : Devices, step : Steps \cup {COMPLETE}, active : BOOLEAN]
Operation == [kind : {"observe", "write", "read", "execute"}, client : Ids, device : Devices,
              command : Commands, answer : {"none", "ok", "downloaded", "zero", "other"}]
Dfota == [state : {"IDLE", "WAIT_DOWNLOAD", "WAIT_RESULT", "WAIT_EXECUTE"},
          client : Ids, device : Devices \cup {Nobody},
          command : Commands \cup {0}, reused : BOOLEAN]
Note == [client : Ids, command : Commands]
Firmware == [state : {"idle", "downloading", "downloaded"},
             package : Commands \cup {0}, watchers : SUBSET Note]

-----------------------------------------------------------------------------
Init ==
    /\ commercial \in BOOLEAN
    /\ client = [i \in Ids |-> Nobody]
    /\ registrations = 0 /\ commands = 0
    /\ sequences = <<>> /\ steps = {} /\ inBlocks = {} /\ watched = {}
    /\ dfota = [state |-> "IDLE", client |-> 0, device |-> Nobody, command |-> 0, reused |-> FALSE]
    /\ operations = {} /\ notes = {}
    /\ executed = [c \in Commands |-> <<>>]
    /\ stored = [i \in Ids |-> 0]
    /\ firmware = [d \in Devices |-> [state |-> "idle", package |-> 0, watchers |-> {}]]
    /\ downloaded = {}

-----------------------------------------------------------------------------
(* The commercial sequence. *)

\* Mutant: the oldest sequence of the client is stopped, not the newest.
MutStop(i) ==
    LET oldest == {s \in DOMAIN sequences :
                      /\ sequences[s].client = i
                      /\ \A t \in DOMAIN sequences : sequences[t].client = i => s <= t}
    IN  [s \in DOMAIN sequences |->
            IF s \in oldest THEN [sequences[s] EXCEPT !.active = FALSE] ELSE sequences[s]]

\* prv_find_commercial_sequence, then active = false.
Stop(i) ==
    LET newest == {s \in DOMAIN sequences :
                      /\ sequences[s].client = i
                      /\ \A t \in DOMAIN sequences : sequences[t].client = i => t <= s}
    IN  [s \in DOMAIN sequences |->
            IF s \in newest THEN [sequences[s] EXCEPT !.active = FALSE] ELSE sequences[s]]

\* prv_dispatch_commercial_step: the first step from k on whose request can
\* be sent becomes the current one; there may be none.
Dispatch(table, s, k, outstanding) ==
    \E n \in k..COMPLETE :
        /\ sequences' = [table EXCEPT ![s].step = n, ![s].active = n # COMPLETE]
        /\ steps' = outstanding \cup ({<<s, n>>} \ {<<s, COMPLETE>>})

\* Mutants: any answer of a sequence ends its step; the last is never ended.
MutMatches(s, k) == sequences[s].active
MutMatchesNoLast(s, k) == sequences[s].active /\ sequences[s].step = k /\ k # READ_3_0_3

\* prv_commercial_step_matches
Matches(s, k) == sequences[s].active /\ sequences[s].step = k

\* prv_advance_commercial_step
Advance(s, k, outstanding) ==
    IF Matches(s, k)
    THEN Dispatch(sequences, s, k + 1, outstanding)
    ELSE steps' = outstanding /\ UNCHANGED sequences

\* prv_start_commercial_sequence on the monitor's 201, and the dispatch that
\* the loop does as soon as the registration is handled.
Start(i, d) ==
    Dispatch(Append(Stop(i), [client |-> i, device |-> d, step |-> READ_4_0_8, active |-> TRUE]),
             Len(sequences) + 1, READ_4_0_8, steps)

\* A device registers: under the id it has, or the least that is free.
Register(d) ==
    /\ registrations < MaxRegistrations
    /\ \E i \in Ids :
          /\ \/ client[i] = d
             \/ /\ \A j \in Ids : client[j] # d
                /\ client[i] = Nobody /\ \A j \in 0..(i - 1) : client[j] # Nobody
          /\ client' = [client EXCEPT ![i] = d]
          /\ IF commercial THEN Start(i, d) ELSE UNCHANGED <<sequences, steps>>
          /\ dfota' = [dfota EXCEPT !.reused = @ \/ (dfota.client = i /\ client[i] # d)]
    /\ registrations' = registrations + 1
    /\ UNCHANGED <<commercial, commands, inBlocks, watched, operations, stored, notes,
                   executed, devices>>

\* It deregisters or its lifetime ends: the monitor is told 202, and the
\* client's observations go.
Leave(i) ==
    /\ client[i] # Nobody
    /\ client' = [client EXCEPT ![i] = Nobody]
    /\ sequences' = Stop(i)  \* without -C there are none
    /\ watched' = {w \in watched : sequences[w[1]].client # i}
    /\ stored' = [stored EXCEPT ![i] = 0]
    /\ UNCHANGED <<commercial, registrations, commands, steps, inBlocks, dfota, operations, notes,
                   executed, devices>>

\* The answer of step k of sequence s has come, or will not come
\* (prv_commercial_read_callback, prv_commercial_observe_callback).  An observe
\* that succeeds takes the place of the client's earlier one.
StepEnds(s, k, ok) ==
    LET i == sequences[s].client
    IN  /\ <<s, k>> \in steps
        /\ Advance(s, k, steps \ {<<s, k>>})
        /\ inBlocks' = inBlocks \ {<<s, k>>}
        /\ watched' = IF ok /\ k \in OBSERVES /\ client[i] # Nobody
                      THEN {w \in watched : ~(w[2] = k /\ sequences[w[1]].client = i)} \cup {<<s, k>>}
                      ELSE watched
        /\ UNCHANGED <<commercial, client, registrations, commands, updating, devices>>

\* The first of several blocks: the callback runs, and the request goes on.
\* It runs for the blocks after that too, which changes nothing.
FirstBlock(s, k) ==
    /\ <<s, k>> \in steps \ inBlocks /\ Cardinality(inBlocks) < MaxInBlocks
    /\ Advance(s, k, steps)
    /\ inBlocks' = inBlocks \cup {<<s, k>>}
    /\ UNCHANGED <<commercial, client, registrations, commands, watched, updating, devices>>

\* A notification for what sequence s observed in step k.
Notified(s, k) ==
    /\ <<s, k>> \in watched
    /\ Advance(s, k, steps)
    /\ UNCHANGED <<commercial, client, registrations, commands, inBlocks, watched, updating, devices>>

-----------------------------------------------------------------------------
(* The firmware update. *)

\* The operator gives a command about client i.  With -C it gives none here:
\* the sequence and the update share only the clients.
Command(i) ==
    /\ client[i] # Nobody /\ ~commercial
    /\ commands < MaxCommands
    /\ commands' = commands + 1

Request(kind, i, c) ==
    [kind |-> kind, client |-> i, device |-> client[i], command |-> c, answer |-> "none"]

\* prv_dfota_client: observes /5/0/3, and sends the package URI, unless that
\* cannot be sent.
DfotaClient(i, writes) ==
    LET c == commands + 1
    IN  /\ Command(i)
        /\ dfota' = [state |-> "WAIT_DOWNLOAD", client |-> i, device |-> client[i],
                     command |-> c, reused |-> FALSE]
        /\ operations' = operations \cup {Request("observe", i, c)}
                                    \cup (IF writes THEN {Request("write", i, c)} ELSE {})
        /\ UNCHANGED <<commercial, client, registrations, sequencing, stored, notes, executed, devices>>

\* The operator reads /5/0/5: prv_read_client, with the same callback.
ReadClient(i) ==
    /\ Command(i)
    /\ operations' = operations \cup {Request("read", i, commands + 1)}
    /\ UNCHANGED <<commercial, client, registrations, sequencing, dfota, stored, notes, executed, devices>>

\* Mutant: any state will do.
MutNotifyCallback(i, value, sends, ops) ==
    IF dfota.state = "WAIT_DOWNLOAD" /\ dfota.client = i
    THEN /\ dfota' = [dfota EXCEPT !.state = IF sends THEN "WAIT_RESULT" ELSE "IDLE"]
         /\ operations' = ops \cup (IF sends THEN {Request("read", i, dfota.command)} ELSE {})
    ELSE UNCHANGED dfota /\ operations' = ops

\* prv_notify_callback on the value of /5/0/3 of client i.
NotifyCallback(i, value, sends, ops) ==
    IF dfota.state = "WAIT_DOWNLOAD" /\ dfota.client = i /\ value = "downloaded"
    THEN /\ dfota' = [dfota EXCEPT !.state = IF sends THEN "WAIT_RESULT" ELSE "IDLE"]
         /\ operations' = ops \cup (IF sends THEN {Request("read", i, dfota.command)} ELSE {})
    ELSE UNCHANGED dfota /\ operations' = ops

\* Mutants: an answer of any client will do; the state stays.
MutAwaits(i, value) == dfota.state = "WAIT_RESULT" /\ value # "failed"
MutAfter(executes) == "WAIT_RESULT"

\* prv_result_callback: the answer on /5/0/5 that it awaits, and where it goes.
Awaits(i, value) == dfota.state = "WAIT_RESULT" /\ dfota.client = i /\ value # "failed"
After(executes) == IF executes THEN "WAIT_EXECUTE" ELSE "IDLE"

\* prv_result_callback on the value of /5/0/5 of client i.
ResultCallback(i, value, sends, ops) ==
    LET executes == Awaits(i, value) /\ value = "zero" /\ sends /\ client[i] # Nobody
        c == dfota.command
    IN  /\ dfota' = IF Awaits(i, value) THEN [dfota EXCEPT !.state = After(executes)] ELSE dfota
        /\ operations' = ops \cup (IF executes THEN {Request("execute", i, c)} ELSE {})
        /\ executed' = IF executes THEN [executed EXCEPT ![c] = Append(@, client[i])] ELSE executed

\* An operation is over: its callback runs with the device's answer, or with
\* none; sends tells whether the request the callback makes, if any, is sent.
OperationEnds(op, answered, sends) ==
    LET i == op.client
        ops == operations \ {op}
        value == IF answered THEN op.answer ELSE "failed"
    IN  /\ answered => op.answer # "none"
        /\ \/ /\ op.kind = "observe" /\ answered /\ client[i] # Nobody
              /\ stored' = [stored EXCEPT ![i] = op.command]
              /\ NotifyCallback(i, value, sends, ops)
              /\ UNCHANGED executed
           \/ /\ op.kind = "write" \/ (op.kind = "observe" /\ (~answered \/ client[i] = Nobody))
              /\ operations' = ops
              /\ UNCHANGED <<dfota, stored, executed>>
           \/ /\ op.kind = "read"
              /\ ResultCallback(i, value, sends, ops)
              /\ UNCHANGED stored
           \/ /\ op.kind = "execute"
              /\ operations' = ops
              /\ dfota' = IF dfota.state = "WAIT_EXECUTE" /\ dfota.client = i
                          THEN [dfota EXCEPT !.state = "IDLE"] ELSE dfota
              /\ UNCHANGED <<stored, executed>>
        /\ UNCHANGED <<commercial, client, registrations, commands, sequencing, notes, devices>>

\* observe_handleNotify on a notification of "downloaded"; without its
\* observation it is rejected.
HandleNotify(note, sends) ==
    /\ notes' = notes \ {note}
    /\ IF stored[note.client] = note.command
       THEN NotifyCallback(note.client, "downloaded", sends, operations)
       ELSE UNCHANGED <<dfota, operations>>
    /\ UNCHANGED <<commercial, client, registrations, commands, sequencing, stored, executed, devices>>

-----------------------------------------------------------------------------
(* The devices' firmware objects, as the server uses them. *)

\* A device handles a request of the server, and answers it.
Handle(op) ==
    LET d == op.device
        fw == firmware[d]
        answers(a) == operations' = (operations \ {op}) \cup {[op EXCEPT !.answer = a]}
    IN  /\ op.answer = "none"
        /\ \/ /\ op.kind = "observe"
              /\ answers(IF fw.state = "downloaded" THEN "downloaded" ELSE "other")
              /\ firmware' = [firmware EXCEPT ![d].watchers =
                                 {[client |-> op.client, command |-> op.command]}]
           \/ /\ op.kind = "write"
              /\ answers("ok")
              /\ firmware' = [firmware EXCEPT ![d].state = "downloading", ![d].package = op.command]
           \/ /\ op.kind = "read"
              /\ answers("zero") \/ answers("other")
              /\ UNCHANGED firmware
           \/ /\ op.kind = "execute"
              /\ answers("ok")
              /\ firmware' = [firmware EXCEPT ![d].state = "idle"]
        /\ UNCHANGED <<commercial, client, registrations, commands, sequencing, dfota, stored, notes, executed, downloaded>>

\* A device ends a download, which prv_handle_dfota_request has served, and
\* notifies whoever observes its state.  One whose download fails is as one
\* that still downloads.
Download(d) ==
    LET fw == firmware[d]
    IN  /\ fw.state = "downloading"
        /\ firmware' = [firmware EXCEPT ![d].state = "downloaded"]
        /\ downloaded' = downloaded \cup {fw.package}
        /\ notes' = notes \cup fw.watchers
        /\ UNCHANGED <<commercial, client, registrations, commands, sequencing, dfota, operations, stored, executed>>

-----------------------------------------------------------------------------
Ends(s, k) == \E ok \in BOOLEAN : StepEnds(s, k, ok)

Next ==
    \/ \E d \in Devices : Register(d) \/ Download(d)
    \/ \E i \in Ids : Leave(i) \/ ReadClient(i)
    \/ \E i \in Ids, writes \in BOOLEAN : DfotaClient(i, writes)
    \/ \E s \in 1..MaxRegistrations, k \in Steps : Ends(s, k) \/ FirstBlock(s, k) \/ Notified(s, k)
    \/ \E op \in operations : Handle(op)
    \/ \E op \in operations, answered, sends \in BOOLEAN : OperationEnds(op, answered, sends)
    \/ \E note \in notes, sends \in BOOLEAN : HandleNotify(note, sends)

\* Requests end (ReliableRequest); nothing is assumed of the devices and of the
\* operator.
Spec ==
    /\ Init /\ [][Next]_vars
    /\ \A s \in 1..MaxRegistrations : WF_vars(\E k \in Steps : Ends(s, k))

-----------------------------------------------------------------------------
(* Properties *)

\* The commercial sequence sends a request after the answer or the final
\* timeout of the one before (readme_howtouse.md): one that goes on waits for
\* the request of its current step, and for no other, save one whose answer
\* still comes in blocks; an older sequence's late answers do not hurry it.
OneStepAtATime ==
    \A s \in DOMAIN sequences :
        sequences[s].active =>
            /\ <<s, sequences[s].step>> \in steps
            /\ \A k \in Steps : <<s, k>> \in steps =>
                  k = sequences[s].step \/ (k < sequences[s].step /\ <<s, k>> \in inBlocks)

\* Only the sequence of a client's present registration goes on: the monitor's
\* 201 and 202 stop every other, whichever of several under one internalID.
OnlyTheRegistered ==
    \A s \in DOMAIN sequences :
        sequences[s].active =>
            /\ client[sequences[s].client] = sequences[s].device
            /\ \A t \in DOMAIN sequences : sequences[t].client = sequences[s].client => t <= s

\* Whatever answers are lost, a sequence gets to its end, unless its client
\* leaves or registers again.
SequenceEnds ==
    \A s \in 1..MaxRegistrations :
        (s \in DOMAIN sequences /\ sequences[s].active)
            ~> ~(s \in DOMAIN sequences /\ sequences[s].active)

\* A "dfota" executes /5/0/2 at most once, however often the device reports
\* and the operator reads.
OneExecution == \A c \in Commands : Len(executed[c]) <= 1

\* It executes on the device that was registered under the CLIENT# the
\* operator gave, unless that internalID has been given to another since.
ExecutesWhereAsked ==
    \A op \in operations :
        op.kind = "execute" /\ op.command = dfota.command =>
            op.device = dfota.device \/ dfota.reused

\* It executes only when a device has downloaded a package for it or for a
\* command before it (README.md, the steps of "dfota": the device downloads,
\* /5/0/3 becomes "downloaded", the server reads /5/0/5 and executes /5/0/2).
\* That it is the package of this command does not hold.
DownloadedFirst == \A c \in Commands : executed[c] # <<>> => \E b \in downloaded : b <= c
=============================================================================
