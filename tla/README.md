# A TLA+ model of Wakaama and its applications

The repository is a fork of Eclipse Wakaama, an implementation of LwM2M (client,
server and bootstrap server over CoAP/UDP) in C, with a server application of its own,
a command-line sender and a dashboard. This directory models the parts that carry
state between two datagrams, checks them with TLC and proves theorems about them with
TLAPS. `PROJECT.json` lists components, runs, mutants, the map from definitions
to source lines, findings, hazards and theorems. Paths below are relative to
`src/wakaama/`.

## 1. Inventory

The library is single-threaded. An application's loop calls `lwm2m_step`, which runs
timers and says how long the loop may sleep, and then `lwm2m_handle_packet` on a
datagram. All interleaving is between handlers: a request's answer comes any number
of other handlers later, in a callback with a `userData` that names things by number.

| Component | State | Operations | What is hard | Correct when |
|---|---|---|---|---|
| reliable requests, `coap/transaction.c`, `core/packet.c` | `transactionList`, `nextMID` | new, send, handleResponse, step, close | loss, duplicates, reordering, restarts; deadlines against the loop's sleep; callbacks that make requests | callbacks run once, are told the truth, and in time |
| server clients, `core/registration.c` | `clientList` | POST /rd (also in blocks), POST and DELETE /rd/id, lifetime | internalIDs given anew; a nameless entry between blocks | one entry per name; nothing freed is used |
| server observations, `core/observe.c` | each client's `observationList`, `observationId` | observe, cancel, their callbacks, notifications | answers that overtake cancellations, updates and departures | one observation per URI, of a live call; notifications reach their call |
| server requests, `core/management.c` | `userData` of transactions, `objectList` of a client | read, write, execute, create, delete, discover | copies of a request handled twice, answers out of order, updates that cross | the operator is told what is so, and the server knows the instances |
| server application, `examples/server/lwm2mserver.c` | `g_commercialSequences`, `g_dfotaState` | the `-C` sequence, `dfota`, commands, firmware in blocks | stale answers drive state machines | one step at a time, only for the registered; firmware executed once, where asked, after a download |
| block-wise transfer, `coap/block.c`, `core/packet.c` | `blockData` lists, cloned transactions | block1 and block2 handlers, next block, retry with smaller ones | gaps, repeats, changed sizes, data left from a transfer before | the payload delivered is the payload sent |
| client registration, `core/registration.c` | `serverList`: status, registration, attempts, sequences | register, update, deregister, timers | retries, deadlines, lost answers | registered before the lifetime ends, or reported failed |
| client bootstrap, `core/bootstrap.c` | status of bootstrap servers | hold off, request, write, delete, finish | deadlines, lost finish, fallback | ends in finished or failed |
| client life cycle, `core/liblwm2m.c` | `contextP->state`, lists | `lwm2m_step`, refresh of the server list, close | dangling pointers between lists | reaches READY or reports failure |
| client notifications, `core/observe.c` | `observedList`, watchers | observe requests, `observe_step`, value changed | pmin and pmax timers, thresholds against the last value, one failing watcher | no reported change or crossing is lost, no period overslept |
| client objects, `core/objects.c`, `core/management.c`, `examples/client/object_*.c` | the instances | read, write, replace, create, delete, execute | payloads refused half way, instances that go and come back | a request touches the instance it names, as a whole |
| bootstrap server, `examples/bootstrap_server` | endpoints with their command lists | requests, answers, the operator's `boot` | commands under way when the client asks again | operations in the file's order, Finish last, nobody left waiting |
| DTLS connections, `examples/shared/dtlsconnection.c`, `tinydtls` | peers with two epochs, handshake, replay windows, send queue, `lastSend` | handshake, write, read, alert, retransmit, rehandshake, close | losses and copies in the middle of a handshake, sessions one end has dropped, failing writes | connected with a key both have, payloads handed up once, a client that goes on is heard |
| CoAP messages, URIs, registration texts, data formats (`er-coap-13`, `core/uri.c`, `core/utils.c`, `data/`) | none but the messages under way | write and read, each with a length computed apart from it | widths, boundaries, formats that differ from what was asked for, blocks | what one end writes the other reads |
| light client, sender, dashboard, connections | sockets | I/O around the library | | |

They interact by calls and callbacks: `lwm2m_handle_packet` hands an answer to
`transaction_handleResponse`, whose callback (`prv_resultCallback`,
`prv_obsRequestCallback`, ...) looks the client up by `internalID` and calls the
application's callback, which may make the next request. Registrations reach the
application through the monitor callback (201, 204, 202). `PROJECT.json` lists the
hazards of each at the line where it bites.

## 2. Modules

| Module | Models | State and code |
|---|---|---|
| `ReliableRequest` | what a caller is promised: a request waits, ends once, and says "ok" or "401" only if its peer did | abstract; no code |
| `Transaction` | `coap/transaction.c`, the answers of `lwm2m_handle_packet`, `lwm2m_close`, the loop's sleep; a network that loses, delays, duplicates and reorders | `transactionList`, `transaction` (the fields of `lwm2m_transaction_t`), `now`, `wake` (end of `select`), `net` |
| `ServerClients` | server halves of `registration.c` and `observe.c`, and the entry `packet.c` makes for registrations in blocks | `registered`, `client`, `location`, `observations`; `request`, `pending`, `told` for calls on the way; `down` when memory that was freed would be used |
| `ServerApp` | the `-C` sequence and `dfota` of `lwm2mserver.c` | `sequences`, `steps`, `dfota`, `operations`, the devices' firmware objects |
| `BlockTransfer` | writes in blocks: the sender's half of `packet.c`, the receiver's `coap/block.c` | `transactionList` (one request per block), `requests`, `answers`, `blockData`, `delivered` |
| `Client` | the client's `lwm2m_step`, registration and bootstrap, and the loop of `lwm2mclient.c` | `context` (status, dates and counters of each server, `transactionList`), `objects` (the accounts), `backup`, `awake`, `sleep` |
| `ClientObserve` | the client half of `observe.c`, the requests that reach it, `observe_step` and the loop's sleep | `instances`, `value`, `watcher` (the fields of `lwm2m_watcher_t`), `awake`, `sleep`, `unread`, `lost` (instances a refused PUT took away) |
| `DeviceManagement` | the operator's requests through `management.c`, `objects.c` and the test object, and the registration updates that tell the server of instances | `instances`, `status`, `objectList`, `requests`, `updates` |
| `BootstrapInfo` | `bootstrap_info.c`: from the sections of the file to lists of commands | operators |
| `BootstrapServer` | `bootstrap_server.c` with the server half of `bootstrap.c` | `endpointList`, `endpoints`, `transactions`, `copies` (commands that are over, of which a copy may come), `performed` |
| `Dtls` with `ReplayWindow` | `dtlsconnection.c` over `tinydtls` with a pre-shared key, and a server on the same library | `peer` (`dtls_peer_t` with both security parameters and the handshake), `queue` (`sendqueue`), `net`, `nat` (`lastSend` is old), `tries` |
| `CoapMessage`, `Uri` | the Erbium engine's messages and `core/uri.c` | operators, from records to bytes and back |
| `Values`, `Items`, `Tlv`, `Cbor`, `SenMl`, `DataFormat` | `core/utils.c`, `data/`: 64-bit integers and floats as bytes, the formats, and the choice between them | operators |
| `Registration` | the texts of a registration: query and links | operators |
| `Formats` | a device and a server that exchange the bytes those operators make | `stage`, the message under way, `payload`, `client` (what the server read) |
| `...Proofs` | theorems about the module they extend | |
| `MC...` | constants for TLC | |

`ReliableRequest` is what joins them. `Transaction` implements it
(`KeepsPromise`, `EndsAsPromised`), and the others rely on it: a request they send
ends exactly once, at any later time, with an answer or without. So time and datagrams
of requests are in one module, and identities, stale answers and states in the others.
`ServerApp` repeats of the clients only their internalIDs; sessions that move are in
`ServerClients`. `Transaction` takes a network that loses and
copies; `Dtls` is what lies under it when the connection is secured, and says what it adds: payloads come once. `Formats` has no
losses: it is about what is in the datagrams of which the others have the kind. The client's side is three modules, because its registration state,
its watchers and its instances meet in few places: `Client` has the status a request
finds, `DeviceManagement` has the part of it that instances change, and
`ClientObserve` starts where the client is registered. `BootstrapServer` and `Client`
are the two ends of a bootstrap; each has of the other what datagrams show.

`Transaction`, action by action: `Request`/`RequestRefused` are
`prv_makeOperation`, `lwm2m_observe` and their like with `transaction_send`; `Receive` is the response half of
`lwm2m_handle_packet` with all of `transaction_handleResponse` (`HandleResponse`: the
denial that is tried again, the end, the ACK that moves the deadline, nothing);
`StepBegins`, `PassBy`, `SendAgain`, `GiveUp` and `StepEnds` are `transaction_step`, which walks the list with the successor it
saved (`transacP`) and the timeout it has found so far (`timeoutP`): a callback that `GiveUp` runs may make requests before the walk
goes on; `Tick` is the sleep; `Close` is `lwm2m_close`; `Handle` is a peer, external. Message ids stand for
`nextMID` far from its wrap-around, and the list is the set of ids since it is sorted.

`ServerClients`: `Register`, `RegisterFirstBlock`, `RegisterLastBlock`, `Update`,
`Deregister` and `Expire` are whole handlers; `Observe`, `Cancel`, `ObserveReply`,
`CancelReply` and `HandleNotify` are the functions they are named after. `told` is the last a
call's callback heard of its request; `over` and `dropped` are the observations that went, with and
without a word to the call that made them. Blocks
between the first and the last change only the payload. The code reads
freed memory or a null pointer in three places; there the model stops with
`down` naming which, and the runs show whether it is reached. Time is left out: a lifetime
may end at any moment. Memory never runs out.

`ServerApp`: `Start`, `Advance`, `Dispatch`, `Matches` and `Stop` are the
`prv_..._commercial_...` functions; `StepEnds`, `FirstBlock` and `Notified` are the ways
their callbacks run; `DfotaClient`, `NotifyCallback` and `ResultCallback` are
`prv_dfota_client`, `prv_notify_callback`, `prv_result_callback`; `Handle` and
`Download` are the firmware object as the server uses it, external. `Start` includes
`prv_dispatch_pending_commercial_sequences`, which the loop runs right after the handler.

`BlockTransfer`: `Write` is `lwm2m_dm_write` with `transaction_set_payload`; `Again` and
`GiveUp` stand for `transaction_step`; `ReceiveAnswer` is the Block1 branch of
`lwm2m_handle_packet`, with `NextBlock1`, `RetryBlock1` and `NewBlock1` for
`prv_send_next_block1`, `prv_retry_block1` and `prv_send_new_block1`; `ReceiveRequest` is
the request half, with `prv_coap_block_handler` in `Handle`. A payload is a sequence of
units of 16 bytes that say where they come from, so that a mixed, short or repeated payload can be told.
`orderly`, chosen at the start, is the environment in which `Intact` is promised: writes to the URI
one after the other, and requests that do not overtake. In the other one the code does
not keep it (§5).

`Client`: the handlers call one another, so each is an operator from a context to a
context (`Register`, `HandleRegistrationReply`, `HandleAttemptFailure`,
`BootstrapStep`, `Refresh`, ...), and an action is one turn of the loop: `Step` is
`lwm2m_step` with its `goto`s, the backup around a bootstrap and the sleep; `Answer`
one answer; `PutSecurity` to `HandleFinish` are the bootstrap server's commands;
`UpdateOne` to `Close` the user's. The Server Object (`account`, `Default` for an instance that is gone) is read anew
wherever the code reads it: order, attempts, sequences and delays at each failure. Only the lifetime is kept with the server, from
`object_getServers` or, on a write of an instance that is there, from `prv_updateServerInfo` (`UpdateServerInfo`). `LoseServer` is such a write with a
value that is refused: `prv_server_write` has deleted the instance by then. Time counts down: `left` is what is left until a date of
the code. `age`, how long the server has held the registration, `tries`, `rewritten`, `changed`, `made` and `astray` are read by properties only.

`ClientObserve`: `Observe`, `Cancel` and `WriteAttributes` are `observe_handleRequest`,
`observe_cancel` and `observe_setParameters`; an Observe is entered at its watcher before the data is serialized, so the answer
may yet be 5.00 (`Observed`). `Write`, `Replace`, `Create` and `Delete` are what
`dm_handleRequest` makes of them for the watchers; `Replace` is the PUT of a whole instance, done or refused half way. `Change` and `Report` are the application's
change of a value and its `lwm2m_resource_value_changed`; `Step` is `observe_step` over all
watchers. `told` is what a server was last told; it, `silent` and `apart` (nobody reports what it was not told; `lastValue` is not what it was told), and `lost` are read by properties only.

`DeviceManagement`: `Ask` is a command of the operator down to `prv_makeOperation`;
`HandleRequest` is `dm_handleRequest` on one copy of it, with the object functions as
operators on the instances (`Perform`, `ObjectWrite`, `Create`, ...); `Answered` and
`GivenUp` are `prv_resultCallback`. `Step` and `Periodic` are the cases of
`registration_step`, `HandleUpdate` is the server's handler, `UpdateOver` the reply's. `torn` and
`source` are history that only properties read: an instance was lost to a refused write, and
which update the server's list came in.

`BootstrapServer`: `Request` is `prv_bootstrap_callback` on a client's POST, or the
operator's `boot`; `Answered` is its other half; `Idle` is a turn of the loop in which
nothing comes; each turn ends with `prv_endpoint_clean` and `prv_send_command` for every
endpoint (`EndTurn`). `Perform` is a device, and `PerformLate` a device that gets a copy when the command is over: `transaction_send` resends
what is only slow, and later commands, Finish too, may have been done by then.

`Dtls`: `ConnectionSend` is `connection_send` with `connection_rehandshake` and `dtls_write`; `Pause` is `DTLS_NAT_TIMEOUT`
without a send; `Quit` is `connection_free`; `CheckRetransmit` is one node of `dtls_check_retransmit`; `Deliver` and `Repeat` are
`connection_handle_packet` with the whole of `dtls_handle_message`, whose handlers are operators on the peer, the queue, the
records to send and the error they return (`HandleMessage`, `HandleCcs`, `HandleAlert`, `Send` with the write that fails). A record
opens under the key that closed it; a hash is the sequence of what was hashed. Messages that came ahead are taken
by at most three turns (`Drain`), because no handshake has more; a run shows that none is left due. `ReplayWindow` is `seqnum.h`.

`Formats`: `Register`, `DeviceUpdates`, `ServerUpdates` carry a registration and the location it gets; `AskRead`, `DeviceServes`,
`ServerHears` a read block by block; `AskCreate` and `ServerHears` a creation, in blocks too; `PostLetter` and `ServerReads` a message
with options no program here sets. Every step writes the bytes with one end's operators and reads them with the other's.

## 3. Runs

| Run | Cfg | Bounds | Shows |
|---|---|---|---|
| pair | `TransactionPair` | 3 requests, 2 peers, 1 retransmission, 1 duplicate, a late datagram, piggybacked answers | callbacks once, no missed deadline, refinement of `ReliableRequest` (genuine answers, one end each) |
| live | `TransactionLive` | 1 request, 3 retransmissions, clock to 21 | exhaustion, the margin, everything ends |
| clients | `ServerClients` | 2 devices, 2 URIs, 2 internalIDs, 3 registrations, 3 calls | one of each, live observations, notifications reach their call |
| blocks | `ServerClientsBlocks` | the same | finding: a registration in blocks frees its own client |
| app | `ServerApp` | 2 devices, 2 internalIDs, 2 registrations, 2 commands, 1 answer in blocks | the sequence and the update |
| block | `BlockTransfer` | 2 writes of 2 to 4 units, blocks of 1 or 2, 3 copies in order or 1 overtaking | one block at a time, whole payloads, true outcomes |
| dtls | `Dtls` | window of 2, 1 retransmission, 2 tries, 3 payloads up and 1 down, 2 faults, 10 random numbers | agreed keys, payloads once, sound copies, the client is heard |
| client | `Client` | 2 ordered servers, a bootstrap server, 1 event: a call or a command | tried as configured, kept alive, nobody stale, every stage ends |
| observe | `ClientObserve` | 1 server, 2 URIs, 3 requests, 2 changes, 4 of both, periods to 2 | nothing reported is lost, no period overslept, nobody strays |
| bootstrap | `BootstrapServer` | 2 devices, 3 files, 2 requests, 4 operations, late copies among them | order, nobody waits for nothing, an end with everybody |
| manage | `DeviceManagement` | 9 commands, 2 requests of 2 copies, 3 updates, 4 events | lists agree, creations are as told |
| formats | `Formats` | 4 devices, 32 URIs, 6 lists of formats, 4 creations, 10 messages, blocks of 64 bytes | messages, requests, data and answers come as they were made, but for the last digits of floats as text |

Why the bounds are enough: a transaction touches others only by the sleep and by the
callback that makes a new one, so three are what matters: one that is given up, one the walk has before or behind
it, and one its callback makes (in pair callers make theirs in the first second, and what follows are those of callbacks). One retransmission has both
branches of `transaction_send`, and three let a denial be retried and then time out
(the code's 4 and 2 seconds only stretch that). Peers of pair answer in the ACK; live has every kind of answer. One stale datagram has
every id conflict, since ids are compared for equality. Three calls are an observe, a
cancellation and a second observe with all their answers out of order; two
internalIDs let a device come back under its own or the other's. Two sequences or two
commands are an old and a new one. `commercial` is chosen at the start; with it the
operator gives no commands, because the sequence and the update share nothing but the
clients. Payloads of two and three units with blocks of one and two
are one that fits, one that fits only the sender's block, and ones whose last block is full or not; the second write meets what the
first left. `Client`'s servers differ in every setting that is compared (attempts, sequences, blocking, bootstrap on
failure); its seconds are scaled, with the order of the constants kept (a delay is shorter than a request takes,
a request than a lifetime), and an account that is gone is tried three times where the code does five. One event is a command that rewrites, loses or deletes the
account of a server that is being tried or is registered, or a call of the user; the proofs hold for any number. In `ClientObserve` two values lie on the two sides of every threshold, and periods of
one and two are a minimum before a maximum; watchers of different servers share only the sleep, and the proofs hold for any
number of servers. `BootstrapServer`'s three files have every kind of command, the default section first and last, and a command that cannot
be sent. In `DeviceManagement` two requests are an old and a new one whose copies interleave, and three updates are a pending one,
one that crosses it and one after both. In live `MaxTime` lies behind the last deadline any behaviour can have; in pair it is the second in which requests are given up and followed by others.

In `Dtls` two faults are a loss with a copy, two losses, or a write that fails and a copy that comes in between; a window of two
bits has a record inside it, one behind it and one that moves it. The client may write three payloads and so more than the faults
can lose, or `Heard` would say nothing. Ten random numbers are those of five handshakes: two faults spoil two, a pause adds one, and
`Heard` would fail if that were too few. The run has 524,478 states. In `Formats` the items have every type at the
boundaries of every width, and 64 bytes is a block that cuts most of them; the sizes 16 to 1024 differ in no branch.

Runs with `CHECK_DEADLOCK FALSE` are those in which the system may stop: the endpoint
is closed, the server crashes, or the bounds are used up.

Each property has a mutant, `Mut...` beside the definition it replaces, that breaks it:
one copy more, an ACK forgotten, the token ignored, a list put back over what a
callback added, a stale observation kept, a counter that stands still, an answer of the wrong step or client taken, an update
under way taken for enough, a last value stored that was not sent.

### Fairness

`Transaction!Spec`: weak fairness of `Tick` and of `Walk`. The loop in
`main` calls `lwm2m_step` and `select` with the timeout it got, forever. Nothing is
assumed of peers, of the network or of the user. `ServerApp!Spec`: weak fairness of the
end of a request of each sequence, which is what `EndsAsPromised` establishes.
`Client!ClientSpec` and `ClientObserve!Spec`: the loop goes on and time passes (weak fairness of `Step` and `Tick`), and a
connection can be made, or an object read, now and then (strong fairness of the step in which it can): without it
a client whose network never works again has no end to promise. `BootstrapServer!Spec`: the loop turns, and each
device's requests end. In `Client` and `BootstrapServer` the fairness is written with what enables the action spelt out,
because the actions are too large for TLC's ENABLED. `Dtls!Spec` writes it the same way, `[]<>~CanX \/ []<><<X>>_vars` (weak
fairness, with the guard of `X` spelt out): both programs sit in `select()` and read a record that is there (`Deliver`), the client's
application sends again until it is answered (`ConnectionSend`), and after it gave up it comes back (`Pause`). The other specifications state safety only.

## 4. Proofs

All hold for every value of the constants that the `ASSUME`s of their module allow. Each proof module states an inductive
invariant in named parts, and proves one step per action. TLC checked each invariant on the module's run before it was proved.

`TransactionProofs` (about `SafeSpec`, from bounds that are naturals, a positive timeout, powers of two that double and
stale datagrams without a token of this run):

- `TypeCorrect`: `[]TypeOK`. The conjunct "what is listed was sent" (`retrans_counter >= 2`) is
  what makes it inductive: `Send` raises 2 to `retrans_counter - 1`.
- `CallbackRunsOnce`: `[]CallbackOnce`. Lemmas say which ids each handler takes off the list (`ReceiveEffect`, `WalkEffect`),
  and that the callbacks run are those of the same ids.
- `NeverSleepsPast`: `[]NeverOverdue`. `wake` is at most every deadline, which needs that no listed deadline lies
  before `now`; `now <= wake <= deadline` gives that. While the list is walked, `WalkOK` adds that `timeoutP` suits every transaction the walk has
  passed, and is one second after a callback, which suits those the callback adds.
- `GivesUpLast`: `[]GivenUpWhenExhausted`, by `AccountOK`: for each request, the copies that were sent are those its counter says, its result
  fits whether it is listed, and what was given up had all its copies; and every answer under way is one its peer gave.
- `ImplementsPromise`: `KeepsPromise`, the refinement of `ReliableRequest` under the mapping `State`, step by step: a step of the code ends some
  requests and begins others (`Progress`), or changes nothing that the promise sees. That a result is "ok" only if the peer answered is `AnswersGenuine`.
- `EndsInTime`: `[]OverInTime`, by `OnSchedule`: the n-th wait ends at `start + timeout * (2^(n-1) - 1)`, or, after an ACK, one last wait later.
  The attempt showed that the property has to except requests denied by a datagram of an earlier run too: an untokened request takes a late 4.01 for its own,
  and starts again.

`ServerClientsProofs` (any devices, URIs, registrations, calls): `ListedOnce` (`OneOfEach`), `StoredCallsLive` (`StoredAreLive`) and
`NotificationsReachTheirCall` (`NotifyReachesItsCall`), by `ListsOK`: what is stored is what a call asked, calls under way have numbers that differ, and
a list has one entry of a name and of a URI. `StoredAreLive` has two halves, and the second, that an observation leaves the list only in the ways
named, needs of each step that it confirms no call without storing its observation (`NoneConfirmed`, `EndsAndStores`).

`ServerAppProofs` (any devices, internalIDs, commands): the five safety properties of the run. `SequencesOK` adds that nobody who waits for an old step can hurry
the new one; `UpdatesOK` adds who was asked by which command, what was downloaded and executed.

`BlockTransferProofs` (any lengths, block sizes, writes, losses and copies): `OneBlock`, `ArrivesIntact` (`Intact`), `OutcomeTrue` (`WriteOutcome`), by
`BlocksOK`. Each request and each answer carries the part of the payload its numbers say; in the orderly environment, moreover, the requests on the way are in order, and the
receiver has exactly what is before the first of them (`QueueOK`, `ReceiverOK`): a block that arrives continues what is there or repeats its end.

`ClientObserveProofs` (any instances, URIs, servers, attributes and periods):

- `TypeCorrect`; `NobodyStrays` (`NoStrayWatcher`); `NoChangeLost` (`NoLostChange`); `WakesOnTime` (`WakesInTime`), each by
  what a step may do to one watcher (`StepWatchers`, `ObserveWatchers`, `WriteAttributesWatchers`).
- `NobodyStrays` excepts the instances that a refused PUT took away (`lost`), and says that nothing else leaves a watcher behind: a delete clears those too.
- `CrossingsAreTold`: `[]NoMissedCrossing`, for overlapping URIs as for others. The invariant adds `Baseline` (lastValue is what the server was told, unless an
  Observe has set them `apart`) and `Rested` (after a step, lastValue and value are on the same side). The two ways to set them apart are in §5.

`ClientAndBootstrapProofs`, the two ends of a bootstrap.

About `BootstrapServer` (any devices, files, number of requests): `TypeCorrect`; `NeverLeftWaiting`
(`AwaitsAnswer`), which needs that who waits is not past the last command, since the answer to Finish ends the endpoint; and `OrderOfTheFile`
(`DoneInOrder`), by `OrderOK`: of a request that crossed none one command is under way; what is done or over (`Passed`) is not past it; the deletes and writes before it are done, and
so are those before any command that is over, so that a copy of it may come at any time (`CompleteOK`). The order of the file itself is promised of what is not a late copy.

About `Client` (any servers, Server Object instances, timings, accounts and packets; its specification is split into `SafeSpec` and the fairness):

- A turn of the loop goes over the servers and the transactions with `FoldLeft`. SequencesExt computes that over sets of indices, so
  `IterationExists` and `PassesOf` show, by induction on numbers alone, that it passes through one context after the other
  (`RegistrationPasses`, `TransactionPasses`, `DeregisterPasses`); no theorem of the library with an operator parameter is needed.
- Each handler has a lemma from a `Sound` context to a sound one. `Sound` says: the bootstrap has a connection only while it is under way (without it, a
  command could find the client registered: `SessionOK`); nobody is tagged once registering begins (`Cleaned`); the requests made are those that `attempt` and `sequence`
  say, exactly so while the account is what it was at `registration_start` (`Counted`); and a server that is neither tagged nor `astray` was made from its Security Object
  instance as that is now (`Made`), which needs that the instances grow apart from their backup in one direction only (`Held`).
- `ClientTypeCorrect` and `ClientNoStaleServer` (`NoStaleServer`) are `Inv`, `ClientTypeOK` with `Sound`. `ClientFailsWhenSpent` (`FailsWhenSpent`) adds what
  each step leaves alone (`Steady`, `Follows`, `Accepts`): who is registering stays so, waits for another attempt, or has failed with
  `attempts * sequences` requests. When a bootstrap has changed the account in between, the code compares its counts with other numbers than they were made for; what remains is
  that there was a sequence for each the instance asks for now, and an attempt for each in the last.
- `ClientKnownToServer` (`KnownToServer`), under `InTime`: by `Alive`, what the server has counted and what is left until the update sum up to no more than
  `NextUpdate + Latency`, and the loop does not sleep past the update, because `registration_step` has seen to every server (`Tended`)
  and `transaction_step` only lowers the timeout, or sets it to a second while the update is further away than that. `InTime` asks of every account's lifetime that it leaves room for the update's delay, two
  messages and the longest sleep: the first proof attempt, without that, failed on the step after a failed bootstrap, and the
  code does what it failed on (§5). A server whose lifetime a bootstrap has changed is excepted until it registers again (`changed`, §5). The client's default lifetime, 300 seconds, meets it while an answer takes less than 16 seconds; TLC evaluates it for the run's constants.

`DeviceManagementProofs` (any instances, commands, copies and updates):

- `PerformIsFaithful`, a lemma on all object functions: what there is stays of its type, only the instance that is named changes,
  it is removed only by a write or with 2.02, and only one that is answered 2.01 with its id is new. It rests on
  `NewIdIsNew` for `lwm2m_list_newId`, by the well-founded order of the naturals.
- `TypeCorrect`; `RequestsKeepApart` (`OthersUntouched`, an action property that no run repeats) and `ToldWhatIs` (`CreatedAsTold`) from that lemma.
- `ServerKnows` (`ListsAgree`): the invariant `Lists` says where the server's list comes from and that what was answered was handled;
  `UpToDate`, that while no full update is due the newest list sent is that of the instances there are.

`DtlsProofs` (any window, number of faults, copies, tries, payloads and random numbers; either end may resend):

- `MarkedIsDropped` and `OnlyMarkedIsDropped`: what `Mark` does to `Dropped`, for any width of the field.
- `Invariance`: `[]DtlsOK`. The handlers work on one end and what it is about to send, so the invariant is stated of an end (`Core`, `StateOK`) over
  a world: records on the way, payloads handed up, random numbers made, keys agreed. Its parts: every transcript has its end's own random number, and while an end has no
  key (`Unkeyed`) nothing is closed or was opened under one with that number (`Fresh`); next numbers are beyond what was sent under
  their key, and windows drop what was handed up under it (`SecurityOK`); a client that waits for the server's Finished has the transcript of its key
  (`Agreeing`); and a server's Finished, on the way or kept for its turn, closes a transcript whose key is agreed (`BodyOK`).
  One lemma per handler says that it keeps `Core` and leaves a state that is right (`Handled`, `Settled`, `Left`). `MarkedKeeps` is the window's part;
  `CommitKeeps` carries a handler's result over to the other end and `NextOK` has one case per action.
- `Agreement` (`ConnectedIsAgreed`), `AtMostOnce` (`HandedUpOnce`) and `SoundCopies` (`CopiesAreSound`) follow from `DtlsOK`.

Only model-checked:

- The four properties of `Formats`: the operators it uses read and write bytes recursively.
- The liveness properties (`EndsAsPromised`, `SequenceEnds`, `StagesEnd`, `EventuallyTold`, `BootstrapEnds`, `Heard`), since TLAPS does not reason
  about fairness and ENABLED.

## 5. Findings and divergences

With a run: a registration in blocks from the session of the registered client frees that client's entry
and writes to it (run blocks, `registration.c:1858`).

Without one, in the protocol (the models have the steps):

- `transaction.c:99-103` promises that a separate response ends a request even if the ACK is
  lost; `prv_checkFinished` (`transaction.c:125`) compares message ids, so none does.
- A block that skips some is acknowledged, not stored and not refused (`block.c:238`, against "don't receive block in right order" at
  `block.c:244`); one late copy of a first block makes a truncated payload pass for whole. `Intact` is therefore promised in the orderly environment only.
- "Fail it if the latest user intention is cancellation" (`observe.c:1057`) is not done
  when the first confirmation is still awaited: `Cancel` finds nothing stored, and the late `ObserveReply` stores what was cancelled.
- The 202 "to free previous observation userData" (`observe.c:1105-1113`) goes, when a confirmation replaces an observation, to the callback of the
  new call with the new call's `userData`, before its success; the earlier call hears nothing more, and its `userData` is lost. An observation
  also goes without a word when the last block of a registration frees the client's entry (`registration.c:1858-1860`, no monitor callback).
  `StoredAreLive` names these two as the ways in which a confirmed observation ends unannounced, and says that there is no other.
- A second `dfota` may execute what an earlier one downloaded, before its own package has come (`lwm2mserver.c:649`, against
  steps 3 to 5 in the repository's README.md:523-527): the first answer on `/5/0/3` still says downloaded. `DownloadedFirst` therefore
  says only that something was downloaded for this command or an earlier one.
- A default `[Endpoint]` section that is last in the bootstrap server's file hides the named ones (`bootstrap_server.c:352`, against
  `bootstrap_server.ini:31`); both writes of an account go to instance 0 ("young change").
- `lwm2m_update_registration(0, true)` does not turn an update that is due into a full one (against `liblwm2m.h:842`);
  the loop sends a due update before the next request is handled, so a lost list does not follow.
- A write that replaces an instance and is refused half way loses the instance and asks for no update: the
  exception in `ListsAgree`. Its watchers stay, unread, until the instance is created again with the same id, which revives them, or deleted: the
  exception in `NoStrayWatcher`. A copy of a create without an id makes a second instance.
- An Observe that cannot be serialized is answered 5.00, but leaves an active watcher with `lastValue` and `lastTime` set to what was not sent
  (`management.c:224-237`). An Observe of a URI that contains one already observed joins the narrower watcher (`prv_findObserved` compares only the parts that are set)
  and stores no value, though the server is told one. In both cases a crossing may be missed until the next notification: the exception in `NoMissedCrossing`.
- `observe_setParameters` on a watcher that has attributes stores new ones without their flags (`observe.c:404`).
- POST and DELETE /rd/id name a client by the id alone, so a device that expired reaches the one that has its id now.
- After a bootstrap that fails, `lwm2m_step` has returned before `registration_step` (`liblwm2m.c:426-434`), and the client restores its accounts and then sleeps the
  whole 60 seconds (`lwm2mclient.c:1376-1400`), although a server that is still registered may want an update earlier. With a lifetime of
  93 seconds or less the update comes too late. `InTime` excludes such lifetimes.
- `registration_step` runs in `STATE_BOOTSTRAPPING` too (`liblwm2m.c:488`), so a server in hold-off sends its registration, to the address it had, although the bootstrap
  has tagged it. `NoStaleServer` therefore speaks of the states after the bootstrap.
- Writes and deletes of `/1/s` tag nobody (`bootstrap.c:786-791`, `898-911`): a registration under way goes on with other attempts, sequences and delays, or with
  the defaults of an instance that is gone; `FailsWhenSpent` says what is left of the promise. A PUT of `/1/s` that is refused deletes the instance (`object_server.c:641-672`).
- A bootstrap that writes another lifetime gives it to a registered server, and moves its update, but the update does not carry it
  (`registration.c:867-931`): the server goes on with the one it was told. The exception in `KnownToServer`.
- A bootstrap that fails restores the objects but not the list: a server found meanwhile, by `lwm2m_update_registration` with an empty list or by a refresh that then
  meets an instance it cannot read, stays with what the backup does not have (`astray` in `NoStaleServer`). The run's one event does not reach it; the proof covers it. The backup
  itself is taken when `STATE_BOOTSTRAPPING` is first seen, so a bootstrap that starts anew because a registration was given up in it is backed up with what the first has written.
- A server that a bootstrap has tagged is freed with its counters; the one made in its place is in state DEREGISTERED and may be marked as failed before it is tried, when it comes after a
  blocking one. `FailsWhenSpent` therefore speaks of servers that are not tagged.
- A copy of a bootstrap command that comes late, after later ones or after Finish while the client still takes commands, is done again: a DELETE or a WRITE undoes what came
  later, and nothing in the protocol lets the device know. `DoneInOrder` says what holds in spite of it.
- An answer of the bootstrap's client in blocks (an ACK with Block2) ends nothing at the bootstrap server.

In DTLS:

- Neither the client nor `tests/dtls-server.c` calls `dtls_check_retransmit` (`dtls.c:4667`), so what is lost is never sent again and a client recovers only by
  the new handshake after `DTLS_NAT_TIMEOUT` (`dtlsconnection.c:574`). `Resending` says which ends do.
- `connection_rehandshake` (`dtlsconnection.c:608-632`) takes `dtls_connect`'s positive result ("> 0", `dtls.h:255`) for an error: the payload that caused a handshake is not sent.
- A repeated ClientHello with a valid cookie ends an established session of the server (`dtls.c:3835`).
- Copies of the server's last flight are not sent when the client's are repeated (against the comment at `dtls.c:3534-3537`), and the branch of `handle_handshake_msg` for a
  ClientHello is not reached. A failed write leaves the peer closing, with a node that waits for a timeout.

In messages and formats:

- A device whose alternative path has more than one letter cannot be reached: registration keeps the path without its slash (`registration.c:1390`), while
  `transaction_new` (`transaction.c:184`) sends `altPath + 1`. (`Reachable` in `Formats`.)
- A device with an OSCORE object never registers: the function that computes the length of the list skips it, the one that writes it does not.
- Options 2048 and 2049 are meant to be treated alike (`er-coap-13.c:936`), but a map of 40 bits never shows them. A segment's length is kept in 8 bits, though a
  Uri-Query may have 270 bytes (`er-coap-13.h:162`).
- A link of an object is sent as text with its ':' always at index 5 (`data.c:102`); half precision drops two bits; the text of 2^64 is read as 0.
- `utils_floatToText` scales in doubles and cuts the digits at an estimate of its error (`utils.c:447`), so that `strtod` gives back a double that may be a hundred units in the last place away. Only short ones, multiples of
  2^-15 from 1/8 to 8, come back as they were (compiled, all 516,096 of them do); `Values` has these exactly, and of others only that a near one comes. From about 10^63 on and below about
  2^-200 the text does not fit the buffer of 64 bytes, and the value cannot be written as text at all.
- A TLV read of a resource instance is 5.00 unless its id is that of the resource (`data.c:790`); a single value for which the first of several accepted formats is unknown is 5.00;
  an instance with nothing in it makes the TLV of the whole object unreadable, and cannot be read as SenML.
- A SenML record with only a base name loses its last byte; the clone of a request in blocks gets its message type as its content format (`packet.c:250`).

`down = "null"` (two cancellations of one observation) and `down = "list"` (two
observations with one id after an internalID was given anew) are reached too. No property
that passes holds only because of these stops: they end behaviours that the code would
continue with undefined behaviour, and the same behaviours without the stopping step are explored.

## 6. Not modelled

- Losses and copies of Block2, and the block service of `/dfota_fw`; raw Block1 handlers; smaller blocks asked for
  after the first one.
- JSON and SenML JSON; SenML's base values, times and units, which no writer here makes; the decimal digits of floats that are not short, and how near the value is that is read (`convert_numbers_test.c:115` compares to a tolerance); floats whose text does not fit its buffer; doubles that
  are neither zero nor of a float's range of exponents; a value longer than `PRV_CBOR_BUFFER_SIZE`; datagrams and payloads that no end of this library makes.
- Writes of registered servers to the client's Security and Server Objects.
- `nextMID`'s wrap-around: the models' ids stay far below it.
- Quotes and blanks in links, an alternative path that is a number, and the list of an update (the functions are those of a registration).
- `lwm2m_send`, composite reads.
- Resources of the client's other objects; commands of the applications that print or forward one request.
- Cryptography but for what it does, certificates, renegotiation and fragments of DTLS; sockets; memory that runs out; the light client, the dashboard and the sender; build
  files and `src/.svn`, a copy of the repository.
