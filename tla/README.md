# Verification of app-NCKH, a LoRa-mesh flood-alarm system

This directory is the formal model of the repository's own program: TLA+ modules translated
from the source, TLC configurations that check them on small instances, and theorems that
TLAPS proves for every value of the constants. Paths are relative to the repository's `src/`.

## 1. Inventory

The repository holds the team's own program, small, and four large trees it was built upon
(`firmware-develop (3)`, `meshtastic-master`, `web-main`, `Meshtastic-Android-main`). The firmware
tree is what runs on the nodes, with the team's hook in it, and every alarm goes through its router,
its radio and its phone API, so those three are part of the system here:

| Component | State | Operations | Talks to |
|---|---|---|---|
| **Command delivery** `engine/gateway.py` (`handle_command`, `_on_receive_packet`, `keep_alive_loop`) | `pending_commands`, `lock`, the local variables of the coroutines | send to a node / all nodes / a channel, match answers, sweep what timed out, retry, report | operators' pages (WebSocket), serial library (worker and reader threads), mesh |
| **Connection** `engine/gateway.py` (`connect_port`, `disconnect_if_missing`, `auto_connect_loop`, connection callbacks) | `conn.iface`, `conn.port_name`, `_subscribed`, `last_connect_error` | open, close, detect loss, choose a port | command delivery (shares `lock` and `conn`), pages |
| **Client registry and broadcast** `engine/gateway.py` (`websocket_handler`, `broadcast_json`, `send_json`) | `clients` | join, leave, send to one, send to all | every other part of the gateway calls it across an `await` |
| **Node cache** `engine/gateway.py` (`_normalize_node`, `_refresh_nodes_from_interface`, `_record_node_activity`, `_recompute_node_statuses`, `_on_node_updated`) | `nodes`, `node_activity` | merge the library's database, age nodes to offline | reader thread and event loop both write it |
| **Settings and fixed locations** `engine/gateway.py` (`apply_settings`, `set_node_fixed_location`, ...) | `settings`, `node_locations`, two JSON files | merge, sanitise, save, write to the radio | exclusion list read by delivery and node cache |
| **Port ranking** `engine/gateway.py` (`_port_score`, `best_port`, `_match_board`) | none | pure | connection |
| **Alert page** `app/src/components/AlertControl.js` | `deliveryByNode`, current request and packet id, send timer | send a command, fold gateway messages into the board | gateway |
| **Connect button** `app/src/components/ConnectButton.js` | status, ports, timers | scan, auto-connect, follow KEEP_ALIVE | gateway |
| **Map page** `app/src/components/MapDashboard.js` | nodes, delivery states, selected node | same messages as the alert page, map drawing | gateway |
| **Settings drawer** `app/src/components/SettingsDrawer.js` | form | get / set / reset settings | gateway |
| **Alarm switch** `firmware-develop (3)/.../src/mesh/MeshService.cpp` (the hook added to `handleFromRadio` and `loop`) | output pin, `switchPulseActive`, `switchPulseEndMs` | BAODONG on, DUNGBAODONG off, TEST pulse of 5 s | mesh packets |
| **Mesh routing** `firmware-develop (3)/.../src/mesh/` (`FloodingRouter`, `NextHopRouter`, `ReliableRouter`, `PacketHistory`, `Router`) | packet history, retransmission records, next hops | send, relay, cancel, acknowledge, retransmit | radio, modules, phone API |
| **Radio transmit path** (`MeshPacketQueue`, `RadioLibInterface`, `SX126xInterface`, `NotifiedWorkerThread`) | transmit queue, packet on the air, the one notification, chip state | enqueue, evict, cancel, send, listen, reconfigure, reset, sleep | router, chip interrupts |
| **Phone API** (`PhoneAPI`, `MeshService`, `NodeDB::sortMeshDB`) | per client: state, `config_state`, read index, prefetched nodes; the queue to the phone; one heartbeat flag | request, read on, close, heartbeat, deliver packets | the gateway's serial library, other clients, node database |
| **Launchers** `app/scripts/start-with-gateway.js`, `app/electron/main.js`, `windows/Launch-HeThongCanhBao.ps1`, `app/scripts/build-gateway.js` | child processes | start the gateway if its port is closed, start the UI | operating system |

### What is hard

* *Three kinds of concurrency in one process.* The asyncio loop switches coroutines at every
  `await`; `sendText` runs in a worker thread; `_on_receive_packet` runs in the library's reader
  thread and changes `pending_commands` and `nodes` without a lock while the loop iterates over
  them.
* *State checked before an await and used after it.* The exclusion list is read before the lock is
  waited for; `connected` is computed before a broadcast; an entry is popped from
  `pending_commands` before its retry sleeps and waits for the lock.
* *Answers that race their own registration.* The packet is on the air when `sendText` returns in
  the worker thread, and is registered only when the event loop resumes the coroutine.
* *Guessing.* An answer whose packet id is unknown is credited to the oldest fresh command to its
  sender.
* *Timeouts and retries.* A sweep every 2 s, a timeout, one retry (two in some runs) under a new
  packet id, and late answers to the old id.
* *Failures.* `sendText` raises for some destinations of a fan-out, the link breaks between two
  steps, a broadcast raises because a client came or left while it was suspended, a loop over a
  dictionary raises because the reader thread wrote it: in a handler, whose client then gets no reply, or
  in the sweep, with a packet out of the dictionary or on the air.

* *Tables rebuilt while they are written.* The reader thread and the loop both replace `nodes`, and
  each computes the status of a node in its own way.
* *A broadcast over a mesh.* Copies come over several paths, in any order, and are cancelled, upgraded
  or acknowledged by what is overheard; receptions fail; a node restarts without its history.
* *One notification for many events.* The radio thread has a single slot for its timer and the chip's
  interrupts, whose edges can be missed.
* *A state machine that is restarted under way.* A client may ask for its configuration again at any
  moment, while the database it reads by index is being sorted.

PROJECT.json lists each hazard at its line with the properties that would catch it.

What makes each component correct:

* *Command delivery*: no send without the lock; a bounded number of transmissions; one outcome per
  destination and nothing sent after it; nothing that was sent forgotten; an error reply only if
  nothing was sent; "delivered" only if received; every command ended and its messages settled in the end.
* *Connection*: the interface in use is the one the lock protects; a lost one is closed and replaced.
* *Client registry*: a page that joins, leaves or hangs does not stop the others or the loops.
* *Node cache*: never shows an excluded node; survives the race of its two writers.
* *Settings*: what is stored, saved and on the radio agree, or the operator is told.
* *Alert page*: the board is about the command sent last and agrees with what the gateway reported.
* *Mesh routing*: a text is delivered once; the effort is bounded and ends; the sender learns the end.
* *Radio transmit path*: no packet in two places or forgotten; the thread never sleeps on work.
* *Phone API*: the download is in order, complete, and ends.
* *Alarm switch*: the siren sounds from BAODONG to DUNGBAODONG; a TEST pulse has its length and ends.

## 2. Modules

| Module | What it is |
|---|---|
| `CommandTicket` | the abstract promise for one request and one destination: at most `MaxSends` sends, then at most one verdict, then nothing |
| `CommandDelivery` | the gateway's handlers, keep-alive loop, reader thread, lock, link, radio and clock |
| `MCCommandDelivery` | its instances for TLC |
| `CommandDeliveryProofs` | the inductive invariant and the theorems about it |
| `AlertControl`, `MCAlertControl`, `AlertControlProofs` | the alert page's delivery board, fed by the message order of `handle_command`; its instances; theorems |
| `AlarmSwitch`, `MCAlarmSwitch`, `AlarmSwitchProofs` | the firmware hook, its instance, its theorems |
| `NodeBoard`, `MCNodeBoard`, `NodeBoardProofs` | the gateway's node table, its broadcasts, and what the pages show of it; its instance; its theorem |
| `MeshRouting`, `MCMeshRouting`, `MeshRoutingProofs` | the firmware's routers and packet history in a mesh; the meshes looked at; theorems |
| `MeshDirectProofs` | theorems about messages to one node, on the lemmas of `MeshRoutingProofs` |
| `RadioTx`, `MCRadioTx`, `RadioTxProofs` | the transmit queue and the radio thread of one node; its instance; theorems |
| `PhoneApi`, `MCPhoneApi`, `PhoneApiProofs` | the configuration download of several clients; its instance; theorems |

### 2.1 CommandDelivery and `engine/gateway.py`

*Threads of control.* `hpc[r]` is the point at which `handle_command` of request `r` is suspended,
`kpc` that of `keep_alive_loop` (with `_retry_pending_command` inlined), `rxSel` that of the reader
thread between the two halves of `_consume_pending_by_destination`. An action runs from one `await`
(or thread switch) to the next:

| Actions | Code |
|---|---|
| `Submit`, `RefuseUnconnected`, `AcquireLock` | up to and into `async with self.lock` |
| `SendTo`, `Transmit`, `SendRaises`, `RegisterPendingCommand` | the loop over destinations and attempts; `Transmit` is the worker thread, `RegisterPendingCommand` the resumed coroutine |
| `BroadcastTargetsRaises`, `NodeNameRaises`, `SentWithoutId` | its exceptional exits: the loops over `nodesByNum` and `self.nodes` in `_broadcast_targets` and `_node_name_by_id` raise, before or after the packet is registered; `sendText` returns no packet id |
| `Finish` | the lock is released; the acks or the error are written |
| `KeepAliveCheck`, `KeepAliveBeat`, `KeepAliveDies` | `disconnect_if_missing`, and the broadcast outside the `try` |
| `SweepScan`, `SweepPop`, `SweepDone`, `SweepAbandoned` | the sweep inside the `try` |
| `RetryAcquire`, `RetryTransmit`, `RetrySendRaises`, `RetryRegister` | `_retry_pending_command` and the reports that follow it |
| `MarkOfflineRaises`, `RetryNameRaises`, `RetryWithoutId` | the exceptional exits between the pop and the report: the `KeyError` of `self.nodes[...]`, the loop in `_node_name_by_id` before or after the retry is registered, a retry without an id |
| `OnRouting`, `OnOtherPacket`, `ConsumePendingByDestination` | `_on_receive_packet` |
| `ConnectStart`, `ConnectFinish`, `ApplySettings` | `connect_port`, `apply_settings` |
| `NodeReceives`, `LinkBreaks`, `Tick` | radio, USB cable, clock (external) |

*State.* `pending` is `pending_commands`, an entry reduced to its age; what else it holds (request,
destination, retry count, channel) is read off the transmission `sent[p]` that it is about.
`fate` and `outcome` are history: what became of a transmission on the air, and which
`command:delivery` statuses were broadcast for it ("retried" is the status "pending" of a retry).
So is `lost`, the transmissions that a failure took out of every hand: popped and not reported, or
sent and not registered. `faults` counts these failures and the broken links (`Fails`).

*External behaviour.* The Meshtastic library and the radio are modelled from how the gateway uses
them. A routing packet may come from the destination once it has received the packet, or from the
gateway's own node at any time (implicit ACK when it hears a relay, NAK when it gives up:
`ReliableRouter.cpp`). Whether the request id is found where `_on_receive_packet` looks for it is left
open (`given`), since `mesh.pb.h` puts it elsewhere. Packets may be lost and answers repeated.

*Abstractions.* Text is no data: only its destination matters. The order of destinations in a fan-out
is left open. Waiting times are interleavings; only the age of a pending entry is counted, in
`Tick`s, up to one beyond `AckTimeout`. The node database that a fan-out reads is an arbitrary set of
nodes. That a dictionary or set changes while it is iterated, and that a key goes between a test and
its use, is nondeterminism: the actions named `...Raises`, `SweepAbandoned` and `KeepAliveDies` may be taken
wherever such a loop or lookup runs. A handler that raises closes its client's connection (`reply` is
"closed"); one that raises while the acks are written leaves the client answered, which is `Finish`. A
loop over `pending_commands` that raises in the reader thread changes nothing. Clients that leave
before their reply are not modelled. A report and its broadcast are one step: the
verdict counts when the gateway decides it. The first transmission is on channel index 0 and the
channel of a channel message is not told from it, as no property looks at it (only what is sent to a
node is retried).

### 2.2 AlertControl and `AlertControl.js`

One page and the WebSocket to it, a FIFO `inbox`. `Accept` .. `Retry` are what the gateway does,
reduced to when it writes which message; `HandleSend`, `SendTimeout` and one action per message type
are the page. `deliveryByNode` is `board`; `currentRequestIdRef` and `currentPacketIdRef` are `current`
and `packet`; a packet id is named by its request and destination. `ack` and the `command:ack` that
follows it are one message. A page's commands may be taken up in any order, one at a time. Not
modelled: the connection banner and node list, `STATUS` errors that have nothing to do with a
command, messages lost when a broadcast is cut short (`NodeBoard` has those).

### 2.3 AlarmSwitch and `MeshService.cpp`

`BaoDong`, `DungBaoDong` and `Test` are the three branches of the hook in `handleFromRadio`, `Loop` the
first statement of `loop()`. `millis()` is a counter modulo `ClockMod`, with the unsigned subtraction
and the `int32_t` reading of its result spelled out (`Plus`, `Minus`, `NonNegative`). `last` and `age`
are history. `Tick` lets the main loop be up to `MaxLag` late.

### 2.4 NodeBoard and `engine/gateway.py`, `MapDashboard.js`

`nodes` is `self.nodes`, `activity` is `node_activity`, `db` the library's `nodesByNum`. The reader
thread is `OnNodeUpdated` and `OnReceivePacket`, `ReaderSwap`, `EnterSender`, `MarkOnline`: for an unknown sender it
builds a table as the loop's refresh does (`rtable`) and puts it in place, looks again, enters the sender if it is
still missing, and changes what it found in the table last; what it schedules in the loop waits in `calls`. `keep_alive_loop` is
`Check` (`disconnect_if_missing` and `_recompute_node_statuses`), `Refresh` and `Swap` (the new table is
built, then takes the place of the old one; the reader thread may act between the two, coroutines
may not: `LoopFree`), `SweepMiss`, and the broadcasts it awaits. `RefreshRaises` and `SweepRaises` are what its `try`
swallows: the loops over the library's dictionaries and over `nodes` raise when the reader thread has put a node
into them, and the status broadcast that was due is never sent. In the recomputation, outside the `try`, that ends the
loop (`CheckRaises`). A broadcast is a record in `tasks` that
remembers the size of the client set it began with, as CPython's set iterator does: `EndBroadcast` raises
when the size has changed, and kills the loop where the code does not catch it. `NODE_UPDATE` carries
the object that is in the table, so its message is read when it is sent, unless the table has
been replaced meanwhile (`Detached`).

Times are told apart by the online window only. One step stands for the statements between two
accesses to a table that the threads share; finer interleavings show as the exceptions above. Left out: excluded nodes, the gateway's own
node, names, positions, battery, requests for the list. That one client receives its messages in
the order of the broadcasts, and that a page reads on, is taken from the websockets library. Which
command is missed, and when, is open (`SweepMiss`); `CommandDelivery` has the rest of the sweep.

### 2.5 MeshRouting and `src/mesh/` of the firmware

The handlers of one node are operators on its record (`hist`, `queue`, `pend`, `rx`, `route`, `ids`),
composed as the classes call each other: `ReliableSend` > `NextHopSend` > `FloodSend` > `RouterSend`, and
`Duplicate` (`shouldFilterReceived` of the three classes), `Sniff`, `Rebroadcast`. `HandleReceived` is a
received packet from the filter to the last module, `DoRetransmission` one due record, `Transmit` a
transmission that any subset of the neighbours receives, `Reboot` a restart. The mesh (`Meshes`) is a
parameter chosen in `Init`; the next hops in its nodes' databases may be nodes that have left (`Gone`).

Left out: encryption and keys, modules other than the text and routing modules, MQTT, the duty
cycle (sending is always allowed), roles beyond router and client with the favourites of `CLIENT_BASE`,
eviction from a full packet history, a full transmit queue (`RadioTx` has it), the second table
`recentlySeen`. The relayers of a packet are a set that only grows; in `PacketHistory` they are an array of six
(`NUM_RELAYERS`) whose copying shifts and drops entries, so the model may know a relayer that the code has forgotten. A packet received with
`hop_start` 0 has its `next_hop` and `relay_node` cleared by the radio; the model does that where it is read, in what a
route is learnt from (`RelayOf`, `IsDirect`). Delays are interleavings: with `patient` the retransmission timers wait until nothing is
under way, without it they may fire at any moment.

### 2.6 RadioTx

`MeshPacketQueue` and the methods of `RadioLibInterface` and `SX126xInterface` that run in the main loop
(`RunOnce`, `Send`, `CancelSending`, `PollMissedIrqs`, `Reconfigure`, `ResetAGC`, `DeepSleep`), over
one record `radio`: queue, the two meanings of `tx_after` (`late`, `wait`), the packet being sent, the notification
and its timer, pending interrupts, the chip. `fate` is history. The chip raises interrupts
(external), which set the single notification or, if the edge is missed, do not. Airtime and random
delays are interleavings. Where the upkeep starts the next packet (`Reconfigure`, `ResetAGC`), the start may fail;
`DeepSleep` empties the queue first and starts nothing. A transmission that does not end within 60 s restarts the
node at one of the polls that find it so (`Broken`).

### 2.7 PhoneApi

One record per client for an instance of `PhoneAPI`; `WantConfig`, `Close`, `Heartbeat` are messages of the
client, `SendConfig`, `AnswerHeartbeat`, `SendPacket` one `getFromRadio` each, `SendToPhone` a packet of the
mesh, `SortMeshDB` the database. The variants of `config_nonce` (`all`, `config`, `nodes`) are distinguished.
Left out: the duplicate and rate checks of `handleToRadioPacket`, proxied MQTT, file transfer, client
notifications, the bytes of the stream.

## 3. What the runs check

| Run | Instance | Shows |
|---|---|---|
| `delivery_kinds` | 1 node, 1 request to a node, `^all`, local or a channel; 2 retries, timeout 1, 1 fault, the node may be excluded | `TypeOK`, `BoundedTransmissions`, `InterfaceStable`, `NoSendAfterOutcome`; the refinement `ImplementsTicket` |
| `delivery_two` | 2 nodes, 1 retry: 1 request to all, with 1 fault, 1 request to a node, or 2 requests to one node | `NothingForgotten` whichever exit the fault takes, `ErrorReplyMeansSilent` for a fan-out that is partly refused, `ExclusiveSend`, and `OneOutcomePerTarget` although answers are credited to the wrong command |
| `delivery_live` | 1 node, 1 request of any kind, 1 fault, fairness | `CommandsEnd`, `TargetsSettle` |
| `alert_pages` | 1 node, 2 requests of the page, 1 of another; or a fan-out to 2 nodes with an unrelated packet; 3 messages under way | `TypeOK`, `BoardIsOfCurrent`, `LateVerdictShown`, `TimeoutOnlyInSilence` |
| `alarm_switch` | clock of 16, pulse of 4, lag of 3, 3 commands, restarts, fairness | `TypeOK`, `AlarmHolds`, `TestPulseFull`, `TestPulseEnds` |
| `routing_meshes` | hop limit 2, 2 tries; four meshes: a broadcast among 4 nodes with two paths, a router and favourites, and one loss or one restart; a direct message down a line of 3 with one loss and timers that fire at any time; a direct message over a known next hop amid 4 nodes with two losses and a restart | `TypeOK`, `DeliveredOnce`, `RelayBudget`, `EffortBounded`, `FailedForgetsHop`, `DiesOut`, `SenderTold` |
| `radio_queue` | 3 packets of different priority, queue of 2, one each of failure, missed edge, busy channel, reconfiguration | `TypeOK`, `OnePlace`, `Sorted`, `Awake`, `Listens`, `QueueDrains` |
| `phone_download` | 2 clients, 3 nodes, 2 channels, 1 each of configuration, module and file, 2 requests, 1 sort, 1 heartbeat | `TypeOK`, `InSequence`, `CompleteOnce`, `ManifestInRange`, `RequestEnds` |
| `node_board` | 1 alarm node: 3 events (packets, updates, ageing, misses, visits, lost links) without a page, 2 with two pages; 2 alarm nodes: 2 events with one page | `TypeOK`, `HeardIsOnline`, `PagesCatchUp` |

*Bounds.* One retry more than the code's one (`delivery_kinds`) tells a limit that is carried along from
one that is lost; two nodes make a fan-out with a first and a second destination; two requests to one
node are what the fallback can confuse; an age of one tick tells "fresh" from "timed out", and a
timeout of 0 keeps that distinction with fewer states. `MaxFaults` bounds what `Fails` counts, broken links,
exceptions in handlers, sweep and retry, packets without an id; a refused send, a reconnection, a lost or repeated
packet are free. One fault is enough for each exit at each of its places, and the count of lost messages
in `NothingForgotten` is proved for every number. In the alert page two messages under way are enough for a
report to be overtaken by a new command, three for a verdict between two acknowledgements.
`MaxChatter` counts unrelated packets. A clock of 16 with all starting values has the wrap-around
before, in and after the pulse. Four nodes are the least mesh with two paths and one node behind
them; a hop limit of 2 is decremented once and used up once. With the two tries of the run the sender sends once along
its next hop and falls back to a flood; the code's third try, a repetition along the same hop in between
(`NextHopRouter.cpp:321`), is not in the run. `EffortBounded` and `FailedForgetsHop` are proved for any number of tries of
the sender from two on. A queue of two has a full, a
late and an urgent packet. Two requests are what it takes to interrupt a download. In the node board one
page is enough for what it shows to be overtaken, two for an iteration that one of them disturbs; two
nodes for a table that gets one more while it is iterated.

*Scenarios.* Where a run stands for several situations, a `CONSTRAINT Scenario` of its MC module leaves out
their combinations (several requests, a fan-out *and* a failure; three events, two pages *and* two nodes). It cuts off only what
operators, pages and nodes do of their own accord, so what is left is closed under the system's
own steps, and fairness means the same (in `delivery_two` it cuts off failures and reconnections too, but only invariants are
checked there). `QuickFairSpec` of `MCMeshRouting` is `FairSpec` with the weak fairness
of `System` written as "again and again it cannot move, or it moves", which TLC checks faster than the
disjunction of all its actions; `CanMove` states when it is enabled.

*Longer instances*, of several minutes, for whoever changes these two modules: `MCCommandDelivery_fanout.cfg` (the fan-out with
reconnections after the failure, which `delivery_two` leaves out) and `MCNodeBoard_pages.cfg` (three events with a page,
packets of both nodes) pass as well.

*Stopping.* The runs of the alert page, the mesh, the radio, the phone API and the board switch the deadlock
check off: a page whose commands are used up, a mesh that has fallen silent, a node asleep and a
client that has read everything stop.

*Disagreements.* Three runs look for what the program, by its own words, should not do, and find it
(`findings` in PROJECT.json): `NoFalseMiss` (an acknowledgement that is faster than the registration of
its packet is dropped and the command reported missed), `RetryKeepsChannel` (the retry's arguments are
shifted by one) and `AllChannels` (a second request while the channels are sent does not set
`config_state` back: the client is told the download is complete without the first channels). Further
configurations reproduce others; each states one property next to its definition, and
`tlc -config <file> <module>` shows the trace:

| Configuration | What it shows |
|---|---|
| `MCCommandDelivery_DeliveredMeansReceived` | an implicit ACK, or any packet of the node, counts as delivery |
| `MCAlertControl_PendingIsPending` | a verdict that comes early in a fan-out is overwritten on the board |
| `MCAlertControl_DeliveredIsReported` | any packet of a node shows as delivery |
| `MCNodeBoard_PagesInStep` | a page stays behind the table for good, for instance when the client set changes during the KEEP_ALIVE broadcast, which ends the loop |
| `MCMeshRouting_FloodReachesAll` | a node cancels its own rebroadcast when it hears another's, and a third node never gets the broadcast although nothing is lost (`FloodingRouter.h:20`) |
| `MCMeshRouting_NoNakAfterAck` | an implicit ACK is passed on and, when the tries run out, a NAK as well (`ReliableRouter.cpp:15`) |
| `MCMeshRouting_StaleHopHealed` | a relay's only repetition is not taken up by those who saw the packet before (`NextHopRouter.h:59`) |
| `MCMeshRouting_TwoWayHop` | a next hop is learnt towards a node that does not hear the one that learns (`NextHopRouter.h:56`) |
| `MCRadioTx_FailureHoldsNothingUp` | after a `startTransmit` that fails nobody sets the timer for the packets behind it (`RadioLibInterface.h:182`) |
| `MCRadioTx_MissedEdgesCaught` | polling does not notice a missed TX_DONE (`RadioLibInterface.h:118`) |
| `MCRadioTx_AgcSafe` | the AGC reset starts a transmission inside `setStandby` and cuts it off (`RadioLibInterface.h:125`) |
| `MCRadioTx_SleepSafe` | deep sleep with a packet on the air (`RadioLibInterface.h:142`) |
| `MCPhoneApi_AllNodes` | the database is sorted between two records: one node is sent twice, another never (`mesh.pb.h:1279`) |
| `MCPhoneApi_HeartbeatPending` | one heartbeat flag for all clients: another client's read takes the answer (`PhoneAPI.cpp:35`) |

*What a page may miss.* `PagesCatchUp` names what it excuses in the history variable `spoilt`. Apart from
the lost link and the death of the loop these are narrow windows of one kind: the refresh computes
statuses too, does not compare them with what was shown, and so hides a change from
`status_changed`; and a broadcast that is aborted, or not reached because the refresh or the sweep before it raised, is
not repeated, while the next recomputation sees no change.

## 4. Fairness

`CommandDelivery!FairSpec` assumes what asyncio, the threads and the clock give: a coroutine that can
run is run (weak fairness); `asyncio.Lock` serves its waiters in order, so whoever waits for a lock
that is released again and again gets it (strong fairness of the steps that acquire it); `sendText`
and opening the port return or raise; the reader thread finishes a match it began; time passes.
Nothing is assumed of operators, radio, link, settings, nor that a lost link comes back, nor that anything
raises or does not.
`TargetsSettle` states its own premises: the link is up for good from some time on, and the
keep-alive loop has not died. `AlarmSwitch!FairSpec` assumes that the clock runs and the firmware's
main loop calls `loop()`, which main.cpp does in every round. The alert page has no liveness
property: nothing makes an operator or a node do anything.

`NodeBoard!FairSpec`: ready coroutines and the reader thread run (strongly fair, since none runs in the
moment the table is replaced), and pages read. `MeshRouting!Fairness`: while something is queued, received
or due, the mesh goes on; the number of losses and restarts is the mesh's. `RadioTx!Fairness`: the main
loop calls the thread and the polling, transmissions and receptions end, `tx_after` passes, and the
channel is not busy for ever. `QueueDrains` names its premises: no failed transmission, no upkeep that
disturbs, no lost edge of a TX_DONE. `PhoneApi!FairSpec`: a client that has asked reads on; the rest of the
system moves or not.

## 5. What is proved

For all values of the constants, under the named assumptions next to them: the special addresses are
not node ids, the lock's other holders are not request ids, limits are natural numbers; for the
node board, that "no node" is none; for the page, that no request has the name for "no request"; for the switch, that a pulse and the lag of the
main loop take less than half a turn of the clock, which 2^32 and 5000 ms leave ample room for; for
the mesh, that the nodes are finitely many, a relay has one or two tries (the code has two) and the sender
two at least (the code has three, and the last is a flood); for the phone API, that the nodes are finitely
many. The longest proofs are those in which data structures move: the
queues are sequences, and what the operators on them do is stated in lemmas about positions.

*CommandDelivery.* `TypeOK` is inductive together with `PhaseInv`, what the program counters say about
the local variables (a retry works on a packet that may be retried). `ExclusiveSend` is inductive
given types: `SendsExclude`, and from it `InterfaceIsStable`. The rest follows from

    IInv == TypeOK /\ ExclusiveSend /\ PhaseInv /\ FreshInv /\ HolderInv /\ ChainInv /\ LostInv

`OneOutcomePerTarget` alone is not inductive: it does not say why an entry that is found in
`pending_commands` may still be reported. `HolderInv` does: a packet is registered, held by its
handler, or held by the retry, by one of them only, and has no report as long as it is. `ChainInv`
orders the packets of one request and destination: each is reported at most once, and one that
has a successor was reported as retried, or is being so by the retry that holds both. `FreshInv`
says that a handler does not send to a destination twice, so that chains grow by retries only.
Exclusion is needed since two senders could both hold "the newest packet". From `IInv`:
`OneOutcome`, `TransmissionsAreBounded`, `SilentAfterOutcome`. With `ReplyInv` (a reply is a handler's
last step) `ErrorsAreSilent`; with `KeptInv`, the other direction of `HolderInv`, `AllInHand`: a message without a
report is in somebody's hands, or lost, and no more requests and destinations have a lost one than failures have
happened. `LostInv` keeps the lost ones apart from the rest: nobody holds them and nothing is reported for them any
more. That count needs that a failure takes at most one message's packets, which `HolderInv` gives for
a retry: the popped packet and the one on the air serve one request and destination.

The refinement, `GatewayImplementsTicket`, takes the same invariant. In `CommandTicket` a ticket counts its
sends and is open until its one verdict; in the gateway the count is the cardinality of the packets
of one request and destination, which `ChainSize` finds to be one more than the retry count of the newest of
them, so that a retry the code allows is a send the ticket has left. `OutcomeIsOne` gives the single verdict,
`SilentStep` that no send follows it; `WhoTransmits` and `WhoReports` reduce the other steps to stutters.

*AlarmSwitch.* `PulseInv` says that while a pulse is active the difference of the two wrapping counters
is the real time that is left, or has passed since; `ExpiredInTime` concludes that the signed test in
`loop()` holds exactly from `TEST_PULSE_MS` on. `AlarmIsHeld` and `PulseIsFull` follow.

*AlertControl.* `BoardIsOfCurrent` needs `InboxInv`, every message under way is true of the gateway
(it was when it was written, and what the gateway has sent and decided only grows), and
`PacketInv`, the packet the page waits for belongs to the current request, so that a report matched
by packet is also one of that request. `BoardSound` follows. `TimeoutMeansSilence` adds `HeardInv`, that the
timer does not run for a command the page has heard of and no such command is issued again. `LateVerdictsReachBoard` needs to know where a
verdict written after the summary is: in the inbox with no message about its destination behind
it, or on the board with none to come (`LateInv`). The order of `handle_command` gives the first, since
nothing about a destination is written after its verdict once the request is done.

*RadioTx.* Each operator of the module maps an interface that satisfies `RadioInv` to one that does, and
the actions compose them. `RadioInv` says that the queue holds no packet twice, is in the order of
`Before`, and that `fate` says where a packet is. That insertion keeps the order is not obvious from its
definition, which counts the packets that are not behind the new one: `CountingFindsPlace` shows that in
a sorted queue these are the first ones, because `Before` is a strict weak order (`BeforeAsymmetric`,
`NotBeforeTransitive`; the move to the late window changes that order for the packet it takes out only).
For `Awake`, a waiting packet has a notification (`Woken`), and the handler of
each leaves another or starts to send, since until the first upkeep the interface is on and receiving when it does not send
(`Hearing`, which is `Listens`).

*MeshRouting.* The record of a router goes through up to ten operators in one step, so all is stated per
operator. `Keeps`: the record stays well formed and the history forgets nothing; with it `NodesInv` is
inductive and `SeenOnce` follows, as a packet goes to the modules only if it is not in the history.
`Sends` counts: what an operator adds to `Load`, the copies of the text in the queue and the tries that
its record still allows. `TextOK` says what the copies are (own packets are numbered from one and
none is taken for the text). Then `TextInv` bounds two things. Of the sender: what it sent and `Load`
together are no more than its tries (`TriesLimited`). Of every other node in a flood, `Budget`: what it sent, its
`Load` and the copies it received from the sender itself and has not handled yet are no more than the sender's
transmissions. A relayed copy never makes a node that has the text send again, so only those copies
count. A node that does not have the text relays the first copy that it handles, whoever sent that one;
so either this one is the sender's (`FirstDirect`), or one of the sender's copies was missed.
`FloodLimited` follows, whatever is lost and whoever restarts.

*Direct messages* (`MeshDirectProofs`). `FailedHopForgotten` needs to know what is under way in a mesh whose sender
has heard no acknowledgement (`Quiet`). `HopInv` says it: the queues and records hold only the text, answers of
its destination and packets of a node to itself (`Only`); a sender whose record has no try left or whose NAK is on its way to the
phone (`Doomed`), or that has passed it on, has no next hop for the destination. What it does from then on cancels and removes but
learns no route (`Stays`), since handling an answer would end the case.

`EffortLimited` counts what may still be brought to a node. A relay named as the next hop sends a copy, may repeat it once
as a flood, and the name goes with its copy; so there are never more directed copies than the sender made, but each
may cost the node it reaches two transmissions. `Tokens(node, h)` counts the directed copies in all queues and receive
queues that a node whose history has hop limit `h` would still take up. `Reserve` is what the sender's tries
may add, two for each but the last and one for the flood. `Account` says of every other node that what it sent, its
`Effort` (copies queued, tries, and one relay more where its history knows relayers but not the node itself, which is when
`WasFallback` lets it relay again), the full floods it received, twice its tokens and the sender's reserve are no more than twice the sender's tries.
The first copy a node handles is free: for it the account starts at one, not zero (`Spent`), which the restart of a node needs as well and
`Paid` provides. Each operator either adds nothing (`Lightens`), or takes a copy of the text (`Takes`);
`Eases` and `Backs` are what a step of a relay and of the sender does to the account, `AccountHeard` a transmission,
`AccountReboot` a restart. The theorem is for two tries of a relay, the value in `NextHopRouter.h:91`.

*PhoneApi.* What a client has got is related to where its instance is: the records are those of
the states passed, in order (`SentInOrder`, `RecordsInSequence`); for a request that neither a sort nor a
second request disturbed they are `Sent`, which is computed from `state`, `config_state`, the read index
and the prefetched nodes, each once (`Downloads`, `DownloadComplete`). A read is shown to add one
record (`Emits`), and to add the next one due if the instance is on track (`Advances`). `config_state` is not reset by
a request, so `ApiOK` and `OnTrack` say where it is 0 again: every way into `OTHER_NODEINFOS` resets it.
`SpecManifestInRange` is a part of that: `filesManifest.at(config_state)` does not throw. `ToFrontDb` shows that a sort is a
permutation of the database, whose places are as many as the nodes.

*NodeBoard.* `TypeCorrect`: whatever the reader thread and the clients do, the keep-alive loop is never in two
broadcasts. The list of broadcasts alone does not say so; `TasksOK` adds that the loop is at one of the
places where it awaits (`Busy`) whenever one of the broadcasts is its own. A broadcast that dies with the
client set is taken out (`RestOK`), and the loop with it.

*Model-checked only.* Liveness and everything that needs ENABLED (`CommandsEnd`, `TargetsSettle`,
`TestPulseEnds`, `HeardIsOnline`, `PagesCatchUp`, `DiesOut`, `SenderTold`, `QueueDrains`, `RequestEnds`): out of
the prover's reach. Every safety property of the passing runs is a theorem.

## 6. Not modelled

Of the firmware: everything but routing, transmit path, phone API and hook (display, GPS, sensors,
Bluetooth, MQTT, encryption, other modules, file system, hardware support). The other three trees
are not part of what runs. The drawing of the map, styles, icons and texts; the settings drawer and the connect
button, which hold little state beyond what the gateway tells them; the command line of the launchers,
which race for a port of the operating system; the favicon script. Of the gateway: port ranking (pure
scoring of names), the JSON files of settings and locations, where no text promises what must hold after a
failure between file and radio; clients that stop reading, whose buffers belong to the websockets
library. The exclusion list is read where the code reads it; that it may be stale when the send happens is in
the model, but nothing in the repository says that it must not be, so no property judges it.

## 7. Plan

Done: the life of a command in the gateway, since everything else serves it; its two ends, what the
operator sees and what the siren does; the way between them, phone API, routing and radio; and
the node table that pages choose their targets from. What is left, in this order:

1. `AlarmSystem`: `CommandDelivery` with one `AlarmSwitch` per node; a stale BAODONG repeated after a
   DUNGBAODONG or a reconnection; a TEST that ends an alarm.
2. Exclusions and ghosts of a closed port in `NodeBoard`.
3. `Settings` with fixed locations: concurrent merges, failing writes, crash between file and radio.
4. `ConnectUI`: timers and status of the connect button.
5. Eviction from a full packet history in `MeshRouting`, composed with the full queue of `RadioTx`.

Proofs: with each of these its type invariant first. `EffortBounded` with one try of a relay, which the code does not
use, would need another account, since its bound is then half as large.
