# A verification project for the Microchip SAM-IoT WINC firmware

The firmware (`src/firmware/src`) connects a SAM D21 board with a WINC1500
module to Azure IoT: it joins a WiFi network, resolves a host, makes one TLS
connection, runs an MQTT session on it (first with the Device Provisioning
Service, then with the assigned IoT Hub) and publishes telemetry.  It has no
operating system.  One super-loop calls everything, interrupts of the hardware
timer set flags, and the WINC driver's events arrive as callbacks of the same
loop.  This directory holds TLA+ models of the part in which ordering, failure
and time matter, the runs that check them with TLC, and proofs that TLAPS
checks for every value of the constants.

## 1. Inventory

| Component | State it keeps | Operations | Talks to |
|---|---|---|---|
| MQTT engine (`mqtt_core.c`, `mqtt_comm_layer.c`) | `mqttState`, tx and rx flag bits, the PUBLISH list and the pending packet, RX buffer, five timeouts with their handles and flags | create CONNECT / PUBLISH / SUBSCRIBE / UNSUBSCRIBE, transmission and reception handler, disconnect, `MQTT_sched` | called by the cloud service, calls `BSD_send`, `BSD_close`, `SYS_TIME`, and the client's callbacks |
| Exchange buffer (`mqtt_exchange_buffer.c`) | one circular byte buffer each for TX and RX | init, write, peek, read | engine |
| Cloud service (`cloud_service.c`) | `cloudInitialized`, `shared_networking_params`, host address, `sendSubscribe`, three timeouts | `CLOUD_task` every 500 ms, `CLOUD_sched`, `reInit`, `CLOUD_reset`, `dnsHandler` | engine, sockets, WiFi |
| WiFi service (`wifi_service.c`) | the association, `checkBackTask`'s timer | join, connection-state callback, soft-AP provisioning, NTP | `shared_networking_params`, app callback |
| BSD adapter (`bsdWINC.c`) | `socketState_t` of each socket | socket, connect, send, recv, close, event handler | WINC socket driver |
| WINC socket driver (`socket.c`) | per-socket buffers, session ids, `bIsRecvPending` | HIF requests and their replies | the radio module |
| SYS_TIME (`sys_time.c`) | 25 timer objects in a list of relative times | register, stop, destroy; the TC3 interrupt | everybody |
| IoT Hub client (`mqtt_iothub_packetPopulate.c`) | packet identifier, topic buffers | connect, subscribe, publish, receive callbacks | engine, azutil |
| DPS client (`mqtt_iotprovisioning_packetPopulate.c`) | operation id, retry and polling timers (callbacks run in the interrupt) | register, poll, retry, completed | engine, cloud service |
| Application (`app.c`) | state of `APP_Tasks`, telemetry interval, switch flags | main loop, DHCP / WiFi / time callbacks | all |
| Azure utilities (`azutil.c`) | static topic and payload buffers, twin request ids, LED state | telemetry, twin, commands | IoT Hub client |
| Command line (`iot_cli.c`) | configuration strings | `reconnect`, `wifi -set` (which runs `reInit`), `telemetry`, ... | engine, WiFi, sockets |
| LED, debug console, credentials, crypto client | indicators, log level, ssid strings, keys | no influence on the connection's control | |

What is hard here, and hard to test: a send may fail at any of the handler's
turns, a connection may end at any moment, and most of the engine's state is
not reset when it does (flags, list, pending packet and timeouts all outlive
the connection); answers are late, combined in one segment, or never come;
timers fire between any two statements, and a handle may name a timer long
gone; each layer (`WiFi`, `DHCP`, `DNS`, `TCP`, `TLS`, `MQTT`) may fail once and
the others must notice.  `PROJECT.json` lists these hazards line by line with
the properties that cover them, and says of the others why none does yet.

What makes each component correct:

- engine: PUBLISH packets in order, at most once, one unacknowledged at a time;
  one SUBSCRIBE at a time; no wait without a timeout; the keep-alive exchange
  never lost; a timeout closes the connection it is about; no assertion fails;
- cloud service: a requested reset is on its way until it runs, and never runs on
  a socket in use; no socket without an address; no stale timeout resets a
  session; after a failure a session comes up again; it uses the engine within
  its rules (sections 3 and 4 say where the code does not keep all of this);
- exchange buffer: a bounded FIFO that takes no byte more than fits;
- SYS_TIME: each registered object fires once, when its time is up and never
  before; the compare register is never set where the counter has passed;
- sockets: the engine is given one connection's bytes, all and in order, however
  late the module's replies; no slot leaks; a lost connection is noticed;
- DPS client: a retry comes when nothing came of a registration, and nothing of
  the client runs on when the hub is named;
- publishers: a packet carries its own publisher's bytes, as many as it was created
  with (the contents may by then be a newer message's); none is lost, freed twice
  or used after it was freed, whatever the interrupt does.

## 2. Modules

| Module | What it is |
|---|---|
| `PublishChannel` | abstract specification: what the engine promises of PUBLISH packets |
| `MqttCore` | the engine under its most general caller, with a conforming broker on one TCP connection at a time |
| `MqttCoreProofs` | theorems about `MqttCore`, for every value of its constants |
| `ExchangeBuffer` | the circular byte buffer, byte by byte |
| `ByteFifo` | abstract specification: a bounded queue of bytes |
| `ExchangeBufferProofs` | theorems about `ExchangeBuffer`, for a buffer of every size |
| `CloudService` | `CLOUD_task`, `CLOUD_sched`, WiFi, DNS and socket events, composed with `MqttCore` (EXTENDS; the engine's handlers are conjoined into the task's steps) |
| `CloudServiceProofs` | theorems about `CloudService`, among them that it implements `MqttCore` |
| `Provisioning` | the DPS client: registration, polling, retry, hand-over to the hub |
| `ProvisioningProofs` | theorems about `Provisioning` |
| `Publishers` | the main loop and an interrupt publishing on one list, one byte of flags and shared buffers, access by access |
| `PublishersProofs` | theorems about `Publishers`, for any number of blocks and messages |
| `MqttCodec` | remaining length, topic matching and the choice of the callback, as functions |
| `MqttCodecProofs` | theorems about `MqttCodec`, for all words, filters and topics |
| `TcpLink` | abstract specification: what the engine may expect of its socket |
| `Sockets` | the socket driver under the BSD adapter, with the module's late and refused answers |
| `SocketsProofs` | theorems about `Sockets`, for any number of slots, sockets and items |
| `TimerService` | abstract specification: timers that count down with the clock |
| `SysTime` | the SYS_TIME service on the 16-bit counter TC3 |
| `SysTimeProofs` | theorems about `SysTime`, for any number of timers and any counter |
| `MCMqttCore`, `MCCloudService`, `MCExchangeBuffer`, `MCSysTime`, `MCPublishers` | sets and constraints the configurations use; `MCExchangeBuffer` also runs `MqttCodec` beside the buffer |

How they fit together.  `CloudService` EXTENDS `MqttCore` and implements it, so
the engine's theorems hold under the cloud service.  The engine's abstractions
are the other modules' promises: its sequence of packets is `ByteFifo`, which
`ExchangeBuffer` implements; its connection with data in order is `TcpLink`, which
`Sockets` implements; its timeouts are `TimerService`, which `SysTime` implements.
`Publishers` cuts the engine's operations on the PUBLISH list, one step each in
`MqttCore`, into single accesses.  `Provisioning` takes sessions as `CloudService`
gives them and uses what `SysTime` shows of callbacks that wait.

### MqttCore

One action per handler case.  `mqttState`, `txFlags`, `rxFlags` are the code's
variables, a bit field being the set of its set bits (`TxBit` keeps their
values, because `MQTT_TransmissionHandler` serves the lowest set bit by
`flags & -flags`).  `publishList` is the linked list; `pending` is
`txPublishPacketPending`.  A PUBLISH packet is its number in order of creation
and its QoS; the number stands for topic, payload and packet identifier.
`rxbuff` is the packets the RX exchange buffer still holds: a segment may carry
several, and each `mqttProcess...` function either reads its packet and leaves
the rest (CONNACK, PUBACK) or re-initialises the buffer and drops the rest
(PINGRESP, SUBACK, UNSUBACK, PUBLISH), as in the code.

Timers: the code keeps one handle per timeout and overwrites it on each
registration, passes it to `stopDestroyTimer` by value, and gets
`SYS_TIME_HANDLE_INVALID` when the pool is empty.  `timers[k]` therefore is the
handle ("none": invalid or of an object already freed, "live", "failed": the
pool's refusal) with the number of *strays*, objects that run without a handle
naming them.  An interrupt (`TimerCallback`) sets the `...TmrExpired` flag
(`expired`); `Sched` is `MQTT_sched`, which turns these into `...TimeoutOccured`
(`occured`).  The PINGRESP timer is periodic, the others single-shot.

The environment is the TCP connection (`sock`) and the broker's end of it
(`broker`: whether the CONNECT's session is active, and what it has sent).
`awaited`, `created` and `lastSent` are history variables: no guard reads
them except the bound on `created`.

Environment and program meet only in `MQTT_Send`'s result: `ok` may be FALSE at
any time (no socket, no buffer in the WINC) and TRUE only on a connected socket.

### CloudService

`CLOUD_task` is one action per branch of its `switch`; on a connected socket it
is three steps (`pc`): `MQTT_ReceptionHandler`, `MQTT_TransmissionHandler`,
`BSD_recv` with the actions of a connected session.  Interrupts (`EngineTimer`,
`TimeoutCallback`) fall between them, events of the WINC do not, because the
driver is served by the same loop.  `params` is the bit field
`shared_networking_params`.  `running`, `strays`, `fired` are the one-shot
timeouts of `CLOUD_sched` and `wifi_sched`; a stray is a timer whose handle was
overwritten.  No caller looks at the handle SYS_TIME returns: `refused` is the
timeouts whose last registration found the pool empty, with whatever flag the
caller had already set (`cloudInitPending`, `cloud_service.c:364-367`).  `Failures`
says what may fail and `MaxFailures` how often: the code has no other limit.

`ReInit` runs from the reset timer (`ResetTask`) and from the command `wifi -set`
(`WifiSetCommand`), the latter in any state of the socket, with its result ignored
and `cloudInitialized` as it was.  The WINC tells later that it left the access
point (`leaving`).  `overtaken` is history: the command came while a reset was on
its way, whose timer then runs beside that of the next.  `orphan` is the reply to
the CONNECT of a socket `reInit` forgot: a good one makes the adapter's entry
`SOCKET_CONNECTED` although no socket is there ("taken"; a *phantom*).  `sock` stays
false then, so every send fails; what is left behind ends with the next socket.

### ExchangeBuffer

A machine of its own: `MqttCore` uses the buffer as a sequence of packets, which
is what this module justifies.  Every call is a step that begins it, one step
per iteration of its loop, and a step that returns; pointers are offsets from
`start`, and `dend`, `data`, `left`, `out` are the calls' locals and their result.
`BufferInit`, `Write`, `Read` and `Peek` come in any order and with any lengths,
with one restriction taken from the callers and kept by `use`: a buffer that was
written again after a read is not peeked, and only a buffer that was never read
is sent.  `MQTT_Send` and `MQTT_ExchangeBufferPeek` do not wrap; the engine
re-initialises the TX buffer for each packet and the RX buffer for each segment
(`MQTT_GetReceivedData`), so that they need not.  A start of NULL (no memory at
boot) is left out: nothing can be connected then.

### Sockets

Requests to the WINC are answered by events in one queue (`events`); the host may
have closed the socket, and given its slot to another, before the answer is
handled.  `sockets`, `nextTcpSock`, `sessionId` are `socket.c`'s variables,
`tcpClientSocket` and `socketState` the adapter's entry for the engine; `winc` is
the module's side.  CONNECT replies carry no session, the others do.  The module
may refuse a request (`Refused`: no buffer in its HIF), which the driver only
partly undoes; `deaf` names the one refusal nothing undoes, of a RECV.
`HandlerOf` reads the byte at address 0 as the code does: the table's second
entry has a NULL socket pointer, and on this microcontroller address 0 is the
vector table.  The engine is reduced to the calls it makes: create, connect, send,
recv on each turn, close at any time, and `ReInit` in any state, because `wifi -set`
does not look at the socket.

`reInit` zeroes the driver's table and says nothing to the module.  If a connection
was being made its reply still comes, carries no session, finds the adapter's
entry by number and makes a socket connected that the driver does not have.
`orphan` follows that reply, `Phantom` is the socket it makes, and the properties name
it as the one exception; `TcpLink` has the same two steps, `Reset` and `OldReply`.  It
lasts until the next socket is made, which has another number.

About the module's firmware, which is not in the repository, one assumption is
made: SSL_CREATE makes it forget what it knew under that number.  That matters
for a slot whose CLOSE was refused or which `reInit` forgot.

`MaxLate` is an assumption about the host: an event is handled before so many
more sockets are made.  The main loop handles an event on each turn, `CLOUD_task`
makes a socket every 500 ms at most.  Without it the answers of a socket made
`TcpSlots` sockets ago could be taken for the present one's, because CONNECT
replies carry no session and `socketInit` restarts the session counter.

### SysTime

`timers` and `tmrActive` are the timer objects and the list of relative times,
`counter`, `compare`, `irq` the hardware: the interrupt is raised when the counter
meets the compare register and entered within `Latency` ticks.  Calls from the
main loop are one step with the interrupt disabled (`InThread`) that takes the
ticks its reads of the counter take; the interrupt is cut where it makes a
callback, which may itself register, stop, reload and destroy timers.  Reading
TC3's counter waits for its synchronisation, so a read takes at least one tick
(`ReadTime`); that is why the `>` in `SYS_TIME_GetElapsedCount`, which would take an
unchanged counter for a full turn, is harmless.  The compare margin of the code is
6 ticks at 1 MHz and must exceed the time to write the register by two
(`WriteTime <= Margin - 2`, as `sys_time.c:645` provides; at `Margin - 1` the
off-by-one of `sys_time.c:188` would bite).  `TimingAssumption` says this, and that
the compare register is met, and the longest interrupt over, before the counter has
gone round: half a period, the latency and the margin are a few ticks beside the
65 ms of a round, and a callback that took as long as that would make
`SYS_TIME_GetElapsedCount` lose the round.  `since`, the time that really passed, is
counted up to `SinceMax`, which is at least as long as the longest timer.  Registering
is creating and starting in one step, as all callers do.

### Publishers

The main loop's `Build`, `Create`, `Add`..., `Mark`, `Get`..., `Send` are cut at
each access to the list, the flag byte and the payload buffers' halves; `Frame` is
the DTI link's interrupt, which builds and queues a telemetry message in one step
between any two of them.  `dps_assigning_task` queues its packet from TC3's
interrupt in the same way.  All interrupts have priority 3 (`plib_nvic.c:55-72`),
so none interrupts another.  `main` is the main loop's program counter and locals;
`Load` and `Store` are the read and the write of the flag byte, a bit-field.  A
packet has a pointer to its publisher's buffer and the length of the message it
was created for, `payloadLength`; the send copies that many bytes of what the
buffer holds by then.  Lengths are counted in halves of the buffer (`Lengths`): a
message of one half leaves behind it the zeros its buffer was cleared with or, in
the button's, which is not cleared, the end of an older event.  The history
variables `doomed` and `raced` name the two windows in which the code loses a
packet or its flag, and the properties say that nothing is lost outside them: the
code's race is stated exactly, not excused.

### Provisioning

A session is what `CloudService` makes of it: open at CONNACK, subscribed at
SUBACK, lost at any time.  The registration of a session registers a periodic
half-second timer and overwrites the handle of the last session's, which runs on
(`strayRetries`); an answer ASSIGNING starts a single-shot timer in the same way
(`strayPolls`).  All packets point to one topic buffer, so a queued question is
sent with what the buffer says by then.  The operation's name is a span into a
local array of `mqttProcessPublish`: when the timer reads it, it may name the
operation or nothing (`PollTask`).  A retry reads the secure element in the timer's
interrupt, which never returns (`SysTime`, `CallbackDelayHangs`): `hung` ends the
behaviour.

### MqttCodec

`mqttEncodeLength`, `mqttDecodeLength`, `matchTopicSubscribe` and the loop of
`mqttProcessPublish` that chooses the callback, as (recursive) functions, and
`PassLength`, `MatchTopic`, `Deliver` that run them on inputs of their choice.  Topics
are sequences of words; the subscription tables are those of the two clients.  Its
constants are the words and how many of them a filter and a topic have, and the
bytes that may follow a length field.

### Constants

The constants of `MqttCore` are `Requests` (which request packets the program
uses), `Elapsing` (which timeouts may elapse), `TimerSlots` (free SYS_TIME
objects), `MaxPublish`, `MaxWire` (bounds).  The last two are the only bounds
on the state; every other variable is finite by itself, except `strays` of a
periodic PINGRESP timer, which `TimerSlots` limits as the pool does.  The other
modules say at each constant whether it is the code's or a bound.

## 3. Runs

| Run | Bounds | Checked | Shows |
|---|---|---|---|
| `mqtt_engine` | keep-alive timeouts, 2 timer objects, 2 packets of either QoS, 1 packet on the wire | `TypeOK`, `PubackHasPacket`, `ConnectNotQueued`, `KeepAliveArmed`, `LinkSupervised`, `ImplementsPublishChannel` | order, at-most-once and one-in-flight over failed sends, lost connections, reconnects; the keep-alive exchange survives every race of interrupt and restart (a timer the pool refuses counts as running) |
| `mqtt_requests` | SUBSCRIBE and UNSUBSCRIBE, their timeouts and CONNACK's, 2 timer objects | `OneRequestAtATime`, `WaitsAreTimed` | one request at a time, no wait without a timeout |
| `mqtt_assert` | 1 packet | `AssertHolds` (violated) | finding 1 |
| `mqtt_timeout` | SUBSCRIBE and its timeout | `TimeoutMeansUnanswered` (violated) | finding 2 |
| `exchange_buffer` | 3 bytes of memory, calls of at most 4 bytes, 2 byte values; every length 0..65535, topics of up to 6 words | `BufferTypeOK`, `WriteStopsWhenFull`, `ImplementsFifo`, `LengthSurvives`, `MatchingCorrect`, `MessageDispatched` | the circular buffer is a bounded queue of bytes; a length read is the length written; a topic gets the callback of the first filter that matches it |
| `cloud_safety` | every kind of failure, refused timers and the two commands among them; 2 disturbances at a time (constraint `Calm`); 1 packet, 1 message on the wire; no timeouts of the engine | `CloudTypeOK`, `ResetScheduled`, `ResetOnClosedSocket`, `SocketHasAddress`, `SessionReported`, `ImplementsEngine` | the reset path: when a reset is lost, and when it hits a socket in use; composition: `CloudService` implies `MqttCore!Spec` |
| `cloud_recovery` | one failure of any kind but "ap", "command" and "wifiset"; a timeout of SUBACK, 1 timer object; nothing from the broker but CONNACKs (`MaxWire` 0); fairness | `Recovers` | a session comes up again, unless a response timeout's flag or a refused timer stands in the way |
| `cloud_wifi_loss` | one loss of the access point, fairness | `WifiLossResets` (violated) | finding 3 |
| `provisioning` | retries after 6 half seconds instead of 240, 3 lost sessions | `OnlyStraysRetryEarly`, `OnlyLostSessionsLeave` | what timers and questions outlive their session, and what they can disturb |
| `publishers` | 3 heap blocks given out in order (constraint `FirstFit`), telemetry, button and command line, messages of one and two halves, 3 messages; fairness | `PublishersTypeOK`, `HeapSound`, `OnlyRacedLost`, `OnlyRacedStranded`, `SentOwn`, `Drains` | no use after free; packets and flags are lost only in the named windows; what each PUBLISH carries when its buffer has been rebuilt, with a message of another length too; the list drains |
| `timers` | 2 timers of every kind, a counter of 12 ticks, times of 2 and 7 ticks | `ListSound`, `ArmedInTime`, `ImplementsService`, `CallbackDelayHangs` | the list and the compare register keep every timer's time; a delay in a callback never ends |
| `sockets` | 2 slots, 4 sockets, 2 items, 1 send, 1 refusal of any kind; fairness | `TypeOK`, `SocketOwned`, `ConnectedIsReal`, `RecvServed`, `SpareUnused`, `ImplementsLink`, `LossNoticed` | late and refused answers mix no connections up, leak no slot and hide no loss |

Why the bounds are enough to see the cases that matter.  Two PUBLISH packets are
needed for an order, for a packet left behind by a failed send, and for one
waiting behind another's PUBACK.  Three bytes of memory have a first, a middle and
a last cell, and four bytes in a call are one more than fit; two byte values tell
a byte from its neighbour.  Two timer objects against two or three timeouts make
the pool run out and make strays.  The engine's instances are split by concern
because each timeout multiplies the states by its handle, its stray objects and
its two flags; the proofs of section 5 cover the combinations.  One packet on the
wire means that no two answers share a segment in any run; the theorems hold for
any number.  Two failures are enough for one to hit the recovery from another.
The constraint `Calm` keeps `cloud_safety` to two of them, or to one packet or one
message of the broker's without any; while a refused timer or the traces of a
`wifi -set` are left, to that one.  The exceptions `ResetScheduled` and
`ResetOnClosedSocket` name are reached: without either TLC finds the property
violated.  The engine's timeouts occur in `cloud_recovery`, and the theorems about
`CloudService` cover all of these together.

Two timers in `timers` are a head and a successor, a time of 2 ticks is within the
margin and 7 is beyond half of the counter's period, where the interrupt is armed
in between; the state space of three single-shot timers was explored as well.
Four sockets on two slots use each slot twice, with one event late; one refusal is
enough for every case, as a refused request is not repeated on the same socket.
Three heap blocks are the packet the main loop works on, its neighbour in the list
and one more, and run out; two main-loop publishers with four messages were
explored as well, for safety.  Three messages of two lengths let a long one follow
a short one and the reverse in one buffer, with a packet of another publisher
between them; two blocks with four such messages were explored as well.  The
blocks are given out in order of their numbers (`FirstFit`), because a free block
is like any other: nobody reads what it still holds (`HeapSound`), and every
behaviour is one of these with the blocks renamed.  Three lost sessions leave
timers of two earlier sessions beside the one the handle names.  Remaining lengths
are checked in full for the 16 bits of a packet's length, each followed in memory
by 0 or by the largest byte without a continuation bit, so that reading on would
show; topics of up to six words are longer than every filter by two.

`CHECK_DEADLOCK` is off where the system really may stop: in the engine's and the
cloud service's configurations and in `publishers` a failed `assert()` halts the
program, and with the bounds of packets and failures used up a run without further
events is one the program can have; in `provisioning` a retry hangs in its
interrupt.  It is on in `exchange_buffer`, `timers` and `sockets`.

For every property of a passing run `PROJECT.json` names a fault, an operator
in the module marked "Fault", that puts a plausible bug in one action; with it
TLC finds the property violated.

### Fairness

Safety runs assume none.  `FairCloudSpec` assumes:

- weak fairness of `CLOUD_task` and of the tasks of `CLOUD_sched` and
  `wifi_sched`: the super-loop never blocks and serves them in every pass, and
  started SYS_TIME objects elapse, those no handle names included (they are
  finitely many: `LastStray("mqttTimeout")`);
- strong fairness of the events and tasks that only run between two runs of
  `CLOUD_task` (`MqttTimeoutTask`, `DataReceived \/ BrokerCloses`): on a connected
  socket `pc` disables them over and over, while in the firmware `CLOUD_task` runs
  every 500 ms and the loop passes thousands of times in between;
- of the network: a DHCP lease and answers to DNS queries and TCP connects come,
  an access point tried again and again is joined before the five-second
  timeout at some time (strong fairness of `ApJoined` while `cloudInitialized`),
  a broker to which CONNECT is sent again and again accepts one at some time
  (strong fairness of `ConnectHeard`, which takes in that a send succeeds), and it
  closes a connection that carries no session.

Nothing is assumed of the failures themselves: they are bounded, not fair.

`Publishers`' `FairSpec` assumes weak fairness of the main loop's steps (it never
blocks), strong fairness of `Get` (the transmission handler serves the flag again
and again between other packets) and of the broker's PUBACK.  `Sockets`' `FairSpec`
assumes weak fairness of `Recv` (called on every turn of `CLOUD_task`), of
`HandleEvent` (the main loop) and of the module's report of a lost connection
(`AnswerGone`).  `SysTime` states no liveness: that a timer expires in time is
`ArmedInTime` with the refinement, which bound the lateness instead of promising
an end.

`Recovers` promises a session *or* `Stranded`, and leaves three disturbances out,
because the code does not come back from them:

- `Stranded`: a flag of a response timeout is set and closes every later connection
  (finding 2), or SYS_TIME had no object for `mqttTimeout`, `cloudReset` or
  `wifiTimeout`, the timers that would try again.  In the run the SUBACK
  timeout can elapse, at any moment and left over from an earlier connection, and
  any one registration can be refused, so both cases occur.  `MaxWire` is 0: no
  SUBACK, PUBLISH or assignment arrives, so that a request always stays
  unanswered; with them liveness is too large to check.
- "ap": the loss of an established association (finding 3).
- "command": the `reconnect` command, after which a CONNACK still on the wire can be
  taken for the next session's.
- "wifiset": after `wifi -set` an orphaned good CONNECT reply makes a phantom.  Its
  sends fail, `CLOUD_reset` does not close it and `StartReset` waits for a socket
  that is closed, so that the service stays where it is.

## 4. Findings

1. `AssertHolds`.  `mqttSendPublish` takes the packet from the list and then
   sends; if the send fails and the list is empty now, `newTxPublishPacket` stays
   set, and the next turn reaches "this should not happen" and `assert(false)`
   (`mqtt_core.c:875-877`).
2. `TimeoutMeansUnanswered`.  The flags of response timeouts outlive their
   connection (`pingrespTimeoutOccured` is never cleared), so a later connection
   is closed for an answer it does not owe.
3. `WifiLossResets`.  `WiFi_ConStateCb` sets `amDisconnecting` and then calls the
   application only if it is 0 (`wifi_service.c:233-236`): losing the access point
   is never followed by the restart `app.c:225` describes.

## 5. Proofs

`MqttCoreProofs` proves, from the named assumptions of `MqttCore` alone
(`RequestsAssumption`, `ElapsingAssumption`, `SlotsAssumption`, `BoundsAssumption`), so
for every size of the timer pool, every number of packets and every choice of
timeouts together:

| Theorem | States |
|---|---|
| `TypeCorrect` | `Spec => []TypeOK` |
| `PubackCorrect` | `Spec => []PubackHasPacket` |
| `OneRequestCorrect` | `Spec => []OneRequestAtATime` |
| `ConnectCorrect` | `Spec => []ConnectNotQueued` |
| `KeepAliveCorrect` | `Spec => []KeepAliveArmed` |
| `WaitsCorrect` | `Spec => []WaitsAreTimed` |
| `LinkCorrect` | `Spec => []LinkSupervised` |
| `ChannelCorrect` | `Spec => ImplementsPublishChannel` |

The argument.  `TypeOK` is inductive.  `KeepAliveArmed`, `PubackHasPacket`,
`ConnectNotQueued` and `OneRequestAtATime` are inductive relative to it.
`WaitsAreTimed` and `LinkSupervised` are two readings of one fact, stated once for
the four waits a timeout bounds (`Waiting(k)`: CONNACK, SUBACK, UNSUBACK,
PINGRESP): a wait that starts registers its timer in the same step, and a step
in which a wait goes on neither stops that timer nor clears its flags
(`WaitStep`).  `LinkSupervised` adds `PingOwed`, the half of it that does not speak
of timers, because the answer owed is a matter of the connection and the timer
is not.  For the refinement the strengthening is `ListOrdered`: the list holds
packets in ascending order, all created and all later than the last one sent.
Without it the step that sends the head of the list could not be shown to send
a later packet than the last, as `PublishChannel` demands.  Each step then maps
to `Accept`, `Transmit`, `Acknowledge` or a stutter, and only three actions touch
the list at all (`ListSteps`).  About timers everything rests on three lemmas:
what registering, stopping and restarting one timeout does to it, and that it
leaves the others alone (`RegisterEffect`, `StopDestroyEffect`, `RestartEffect`).

`ExchangeBufferProofs` proves, from `SizeAssumption` and `LengthAssumption`, so for
every size of the buffer, every length of a call and every order of calls:

| Theorem | States |
|---|---|
| `BufferTypeCorrect` | `Spec => []BufferTypeOK` |
| `WriteStopsWhenFullHolds` | `Spec => WriteStopsWhenFull` |
| `BufferImplementsFifo` | `Spec => ImplementsFifo` |

The invariant is `IInv`: besides the types, a running write goes on at the slot
behind the last byte (`WriteAtEnd`), and the bytes do not wrap before the buffer
is refilled (`StraightUntilRefilled`).  `BufferTypeOK` alone is not inductive: that
`dataLength` does not exceed `Size` rests on the full buffer being recognised,
which is a matter of where `dend` is (`FullMeansSize`).  `ModSize` evaluates the
modulus of the write, `SlotInjective` says that the bytes lie in different cells,
so that a byte written disturbs no other (`WriteByteAppends`).

`CloudServiceProofs` adds `SubscribeAssumption` and `FailuresAssumption`: for every
set and number of failures, every pool and every engine timeout at once.

| Theorem | States |
|---|---|
| `ServiceImplementsEngine` | `CloudSpec => ImplementsEngine` |
| `ResetScheduledCorrect` | `CloudSpec => []ResetScheduled` |
| `ResetOnClosedSocketCorrect` | `CloudSpec => []ResetOnClosedSocket` |
| `SocketHasAddressCorrect` | `CloudSpec => []SocketHasAddress` |
| `SessionReportedCorrect` | `CloudSpec => []SessionReported` |
| `CloudTypeCorrect` | `CloudSpec => []CloudTypeOK` |

The first maps each step of the service to a step of the engine or a stutter, so
all theorems about `MqttCore` hold in the firmware.  The others rest on `Linked`
(the socket's state follows the engine's connection, but for a phantom, on which
the engine gets no further than a CONNECT it cannot send; lemma `LinkedCorrect`);
`ResetScheduled` and `ResetOnClosedSocket` follow from `OneReset` (what
`cloudInitPending` stands for is on its way or refused, and while it is no socket is
made; unless `wifi -set` overtook it there is no other reset), `SocketHasAddress` from
`Addressed` (a host
address counted as known while the service runs is one),
`SessionReported` is inductive, and `CloudTypeOK` is
strengthened to `ServiceTypes`.

`SocketsProofs` proves, from `SizesAssumption`, `PromptAssumption`,
`RefusalsAssumption` and `BoundsAssumption`, for any number of slots, sockets,
items and refusals and any byte at address 0:

| Theorem | States |
|---|---|
| `SocketsTypeCorrect` | `Spec => []TypeOK` |
| `SocketOwnedCorrect` | `Spec => []SocketOwned` |
| `ConnectedIsRealCorrect` | `Spec => []ConnectedIsReal` |
| `SpareUnusedCorrect` | `Spec => []SpareUnused` |
| `RecvServedCorrect` | `Spec => []RecvServed` |
| `SocketsImplementLink` | `Spec => ImplementsLink` |

All six follow from one inductive invariant, `IInv`.  None of them is inductive by
itself, because what a late reply does depends on which socket it was for: slots
are given in turn (`Turns`), so a slot is given again only `TcpSlots` sockets later,
and what the module knows and tells is about one of the last `TcpSlots` sockets
(`WincRecent`, `EventsRecent`, where `PromptAssumption` is needed).  `Opening` says
that one answer is to come for the CONNECT of a socket in progress, `Known` that
the module knows the engine's socket under its slot's session, `Quiet` that nothing
is sent or received on a socket before it is connected, and `Served` that one RECV
at a time is answered, with the data that come next.  `reInit` in any state is why
`Known` and `Served` speak of sockets connected by a reply of their own (`Connected`),
why `Opening` counts the reply of a socket `reInit` forgot, and why `Orphaned` is
needed: that reply finds no socket, or has made a phantom, and nothing was asked of
the module on its connection.

`ProvisioningProofs` proves, from `RetryAssumption` and `LostAssumption`, for any
retry interval and any number of lost sessions:

| Theorem | States |
|---|---|
| `RetryCorrect` | `Spec => []OnlyStraysRetryEarly` |
| `LeftoversCorrect` | `Spec => []OnlyLostSessionsLeave` |

`Chains` is the invariant: each registration is the beginning of one chain of
questions (asked, or to be asked by a timer or a queued packet) and of one retry
timer, and there is one registration for each lost session and the present one.
`Counting` says that a timer without strays counts the half seconds since its
registration.

`PublishersProofs` proves, from `NodesAssumption`, `PublishersAssumption`,
`LengthsAssumption` and `MaxAssumption`, for any heap, any publishers of the main
loop and any number of messages:

| Theorem | States |
|---|---|
| `PublishersTypeCorrect` | `Spec => []PublishersTypeOK` |
| `HeapSoundCorrect` | `Spec => []HeapSound` |
| `OnlyRacedLostCorrect` | `Spec => []OnlyRacedLost` |
| `OnlyRacedStrandedCorrect` | `Spec => []OnlyRacedStranded` |
| `SentOwnCorrect` | `Spec => []SentOwn` |

What a list leads to would ask for induction along its links.  `Leads` avoids it:
it is the least set closed under the links, and the lemmas `LeadsAppend`,
`LeadsReplace` and `LeadsDrop` say what each of the three ways of changing a link
makes of it, by exhibiting the closed set that is the new list.  The invariant
`Inv` has three independent parts.  `ListInv` says that the list is a path (`Path`:
no two packets lead to the same one, none to the head), where the packets off it
are (`OffList`) and what is behind a link the main loop has read as NULL
(`Doomed`): in the middle of a walk the interrupt's packets are still on the list,
behind the last link, and become lost only when that link is written.  `HeapSound`
and `OnlyRacedLost` are not inductive without it.  `FlagInv` follows the flag from
the main loop's look at the list to its store.  `BufferInv` says that what a packet
was created for, or a newer message, is in its publisher's buffer (`Holds`), and
that a long message is there whole unless it is being built (`WholeIn`).

`MqttCodecProofs` proves, from `WordsAssumption`, `WordCountsAssumption` and
`NextBytesAssumption`, for any words and any number of them in a filter and a topic:

| Theorem | States |
|---|---|
| `LengthSurvivesCorrect` | `CodecSpec => []LengthSurvives` |
| `MatchingIsMqtts` | `CodecSpec => []MatchingCorrect` |
| `MessageDispatchedCorrect` | `CodecSpec => []MessageDispatched` |

The functions are recursive definitions, which are CHOOSEs: each proof writes down
a function that solves the equation, so that what is chosen satisfies it, and
unfolds it from there.  A length has at most three groups (`EncodeLemma`,
`DecodeLemma`).  The loop over a filter has no bound, so `MatchingLemma` needs
induction.  The library's induction theorems take an operator as a parameter, which
the installed provers cannot instantiate; `Induction` states the principle for a
set of numbers instead, and is proved from the pigeonhole principle for finite sets.

`SysTimeProofs` proves, from the named assumptions of `SysTime` (`TimingAssumption`
among them), for any number of timers, any times and any counter:

| Theorem | States |
|---|---|
| `ListSoundCorrect` | `Spec => []ListSound` |
| `CallbackDelayHangsCorrect` | `Spec => CallbackDelayHangs` |
| `ArmedInTimeCorrect` | `Spec => []ArmedInTime` |
| `ImplementsServiceCorrect` | `Spec => ImplementsService` |

The times of the list are relative, so everything said of one timer is a sum over
those before it.  `Due` is that sum, and three lemmas say of it all that is needed of
an operation: putting a timer in gives it its time and moves nobody else
(`AddToListSound`), taking one out moves nobody else (`RemoveFromListSound`), and
bringing the list up to date makes each timer due earlier by what has elapsed, but
not before now (`UpdateTimerListSound`).  `Sums` is the equation a sum must solve, and
`PrefixSums` that it has a solution, by induction on a set of numbers.

`ListInv` is inductive by itself.  It strengthens `ListSound` by what a timer object
holds when it is free, stopped, running or marked by the interrupt (`ObjectOK`), and
by whose timer a busy-wait is for (`DelaysSound`): without the first, a timer started
by a callback while it waits to be put back would be in the list twice.  `FullInv`
adds the clock.  `ClockInv` says that the counter is `since` ticks past the last
reading and has not gone round, which is what makes `SYS_TIME_GetElapsedCount` right;
that it has not gone round needs that the compare register will be met in time, and
that in turn needs the readings to be right, so neither is inductive without the
other.  `ArmedInv` is `ArmedInTime` for every timer of the list instead of the first,
so that it survives the first one's leaving.  In the refinement each step either
ages all timers by the same number of ticks, setting one anew (`Passes`), or takes
one away and leaves the others' time alone (`LeavesOnly`).

TLC has checked the conjuncts of `FullInv` on the instance of the run `timers`.

Only model-checked: liveness (`Recovers`, `LossNoticed`, `Drains`), which the
prover does not reach.  Every safety invariant, action property and refinement that
a passing run checks is a theorem.

## 6. What is abstracted, and what is not modelled

- The bytes of packets, topics and payloads.  A packet's contents may change
  while it is queued (static buffers in `azutil.c`): `Publishers` models that.
- The keep-alive interval is not zero and the RTC is set, so `MQTT_CLIENT_connect`
  creates its packet; `malloc` failing is the packet not being created.
- A timer the pool refuses ("failed") counts as running in `WaitsAreTimed` and
  `KeepAliveArmed`: the code only logs the refusal, and these properties are
  about the engine's flags and handles.  In `CloudService` a refusal is told apart
  (`refused`).
- `MQTT_Close` in `wifi -set` is `BSD_close` only; its effects are within those of the
  `reInit` that follows in the same command.
- `strays` of `CloudService` is a set: it does not count how many objects of one
  timeout run without a handle, only that they end.
- `wifiTimeout` and `checkBack` are never stopped, so their interrupt and their
  task are one step.
- A join takes longer than the 50 ms of `checkBackTask` (`Settled`).
- `MqttCore` allows a CONNECT to be created in any state.  The code's only caller
  that would do so in a session is `dps_retry_task`, which never gets there: it waits
  for a delay inside the timer's interrupt (`CallbackDelayHangs`).  In `CloudService`
  the DPS client is an assignment that ends the session; its timers are in
  `Provisioning`, where the engine and the service are reduced to sessions that
  come and go.  There, answers come in the order of the requests, an answer before
  the SUBACK is lost, a packet may not be created (`malloc` fails; then no retry
  timer is registered either), and the pool of timers does not run out.
- `Sockets` leaves out failed reads of the SPI bus, sends that were made although
  an error was reported, refusals of SSL_CREATE and of the SNI option (the code
  ignores both), and how `Socket_ReadSocketData` cuts an item into chunks.  UDP,
  bind, listen, accept, recvfrom and ping are not used by the firmware.
- `SysTime` leaves out the 64-bit counter, the tokens in handles, and
  `TimerCounterGet`.  The callbacks of one interrupt end within `IsrTime` ticks,
  unless one waits for a delay.
- `Publishers` takes `malloc` and `free` as atomic (newlib's heap has no lock: an
  assumption the code does not secure), keeps the session connected, and lets all
  telemetry be QoS 1.  Property and command answers have buffers of their own used
  like the telemetry's.  Lengths are halves of a buffer, so where exactly a message
  is cut is left out; so are packet identifiers.
- `MqttCodec` leaves undefined what the code leaves undefined: a length field whose
  fourth byte continues, and a filter that does not end in `#` or a topic shorter
  than its filter (the code's pointer then moves on from NULL).  The filters are
  the Azure SDK's, which is not part of `src/firmware/src`.
- The DNS answer is taken as an address, not as one host's: that a late answer for
  the provisioning host is taken for the hub's (`cloud_service.c:526`) is listed as
  a hazard and not modelled.  `CloudService` with two hosts, late answers and the
  engine is too large to explore; the address would have to be part of a smaller
  model of DNS alone.
- The timers of `app.c` (the telemetry task registered again in each session,
  `app.c:875`, and the LED's), the JSON of twin, telemetry and commands, soft-AP
  provisioning and NTP are not modelled: they do not influence the connection's
  control, except that each session takes one timer object more from the pool,
  whose running out `MqttCore` allows at any time.
- LED, console, credentials, secure element and the HIF transport are left out.
- Most of the repository's lines are generated drivers and vendored libraries (the
  Harmony drivers, CMSIS, the Azure SDK, cryptoauthlib), which are not the
  program's own logic.  Of these only the socket driver, SYS_TIME and what they need
  of TC3 and the HIF are modelled.

## 7. Plan

Done, in this order: `MqttCore` with `PublishChannel` and `CloudService`, and the
proofs about the engine; `ExchangeBuffer` against `ByteFifo`, with its proofs;
`SysTime` against `TimerService`, with its proofs; `Sockets` against `TcpLink`,
with its proofs; the proofs about `CloudService`; `MqttCodec`, with its proofs;
`Provisioning`, with its proofs; `Publishers`, with its proofs.

What would come next: DNS with two hosts, in a module of its own; the timers of
`app.c`.
