# A TLA+ model of eufy-security-hm

`eufy-security-hm` connects a HomeMatic CCU to eufy cameras, locks and
sensors.  This directory holds TLA+ modules that model the parts of it in which
order, timing and failure decide whether it works, the TLC configurations that
check them on small instances, and TLAPS proofs that hold for every instance.

All line numbers refer to the TypeScript source under
`src/src/eufySecurityApi` (the JavaScript under `addon/` and `build/` is compiled
from it).  The program is one Node.js process: every handler runs to its next
`await` without being interrupted, so a handler - or the part of it between two
`await`s - is one step of a model, and what has to be explored is the order of
the steps: datagrams, timers, answers of the cloud and calls of the application.

## 1. Inventory

| part (source) | state | operations | interaction | hard behaviour |
|---|---|---|---|---|
| **P2P session** `p2p/session.ts` (`P2PClientProtocol`), one per station | `connected`, `connecting`, `terminating`, a dozen timers, `sendQueue`, `messageStates`, `p2pSeqMapping`, sequence numbers, per data type `expectedSeqNo`, `queuedData`, stream state | `connect`, `close`, `sendCommandWith*`, datagrams (`handleMsg`), timers | called by `http/station.ts`, calls `http/api.ts` (`getCipher`, DSK keys), UDP to station and cloud, emits events | UDP loss, repetition and reordering, wrap of sequence numbers, retries, acknowledgements and results racing timers, connections that close while requests are under way, streams |
| **Station** `http/station.ts` | `p2pSession`, properties, `currentDelay`, `reconnectTimeout`, pin, guard mode | one method per station or device command, `connect`, `scheduleReconnect`, handlers of the session's events | owns a session, updates devices | reconnection with back-off, results of commands matched to property updates, `terminating` |
| **Device** `http/device.ts` | properties, raw properties, event timers | `update`, `processPushNotification`, property conversion | updated by station and push | motion and ring events end by timer; timers restarted by repeated events |
| **Stations / Devices / Houses** `stations.ts`, `devices.ts`, `houses.ts` | maps of objects, load gates, livestream timers, snapshot state | `handleHubs`, `handleDevices`, `updateDeviceData`, start and stop of livestreams, event handlers | between the cloud data and the sessions | asynchronous creation of objects while further cloud data arrives |
| **EufySecurityApi** `eufySecurityApi.ts` | connection state of the service, refresh and retry timers | `connect`, `close`, `onAPIConnect`, `onAPIClose`, `refreshCloudData`, `reconnectStation` | composes everything | retries of login, timers re-armed after `close`, values read before an await |
| **HTTP API** `http/api.ts` | token, `connected`, renew job, request queue with throttling | `login`, `request`, `getCipher`, `refreshAllData` | used by all | 401 inside a request logs out and in again; captcha and 2FA |
| **Push client** `push/client.ts`, `push/parser.ts` | socket, `loggedIn`, stream id, persistent ids, heart-beat and back-off timers; parser state, buffer, sizes | `connect`, `close`, socket events; `handleData` | TLS to the push server | frames cut into arbitrary chunks, reconnection with back-off, heart-beats |
| **Push service** `push/service.ts`, `pushService.ts` | credentials, `connecting`, `connected`, retry delays | `open`, `close`, registration, renewal | owns the push client | `open` and `close` racing registration |
| **MQTT service** `mqtt/service.ts`, `mqttService.ts` | `connected`, `connecting`, queue of locks to subscribe | `connect`, `close`, `subscribeLock`, client events | MQTT broker | subscriptions made before the connection exists |
| **Configuration** `config.ts` | in-memory configuration, `hasChanged` | getters and setters, `writeConfig` | file on the CCU, written when asked | a crash between change and write |
| **CCU API** `openCcuApi.ts`, **Event interactions** `eventInteractions.ts`, **API server** `apiServer/apiServer.ts` | little | requests | HTTP to and from the CCU | none beyond request order |
| codecs `p2p/utils.ts`, `p2p/ble.ts`, `p2p/talkback.ts`, `utils/`, `http/utils.ts`, `http/parameter.ts`, `http/types.ts` | none | encodings, encryption, tables | | widths and boundaries of numbers |

How the parts interact:

- `EufySecurityApi` logs in through the HTTP API; on every login it creates
  `Stations`, `Devices` and `Houses` anew and opens the push and MQTT services.
  `Stations` creates one `Station` per station of the account, each with one
  P2P session.
- Calls go down (`EufySecurityApi` - `Stations` - `Station` - session), events
  come up (`connect`, `close`, `timeout`, `command` of the session; `connect`,
  `close`, `message` of a push client).  Events are emitted synchronously: the
  handler of the listener belongs to the step that emits.
- Everything shared is shared by the event loop: there are no threads.  State is
  stale only after an `await` or in a timer, and that is where the hazards are:
  `connect()` (two awaits), `close()` and `sendPing()` of the session, `getCipher`
  in the key exchange, `reconnectStation`, `_open` of the push service.
- An exception that leaves a handler ends the process: there is no handler for
  uncaught exceptions.

What makes each part correct:

| part | properties |
|---|---|
| data channel | packets are parsed in order, each once, and none is given up while the station repeats it |
| commands | one outcome per command, a result goes to its own command, the queue moves |
| connection of a session | the events tell the truth, one heart-beat per connection, an attempt ends, a lost station is noticed |
| station | a wanted station is connected or about to be, a closed one stays closed, a session not in use is quiet |
| streams | a stream is reported as started once and as ended once, no stream stays open without data, no camera films for nobody, a battery station is not cut off at work |
| push parser | exactly the messages that arrived, however TCP cuts them |
| push service and clients | notifications that are wanted come back, each message once, from one client |
| device | nothing is shown as detected for ever, any event gets a picture, a lock's status is its own last report |
| registry of stations | all stations of the house become known, and who asks for one is answered |
| API | polling goes on, the token in use survives a restart, a dead token is noticed |
| MQTT | with a connection, every lock is heard |

## 2. Modules

```
OrderedDelivery <--refined by-- P2PDataChannel <--- P2PDataChannelProofs
P2PCommandQueue <-------------- P2PCommandQueueProofs
P2PConnection <---------------- StationConnection <--- StationConnectionProofs
MediaStream <-----refined by--- Livestream <-------- LivestreamProofs
PushConnection <--------------- PushConnectionProofs
PushClientParser <------------- PushConnectionProofs
MqttService <------------------ ApiLifecycle <------ ApiLifecycleProofs
DeviceEvents <----------------- DeviceEventsProofs
StationRegistry <-------------- StationRegistryProofs
```

Every component has a module `MC...` and a `.cfg` for TLC; `P2PCommandQueue` and
`StationRegistry` have two configurations.  A proof module only adds lemmas.

**OrderedDelivery** is what the data channel promises, without sequence numbers:
a sender that sends, a receiver that is given the next packets in order.  It knows the
numbers only by the one exception the code makes: of a packet with the largest number
(`HasLastNumber`) a second, stale copy may be handed on in the place of the next packet
with that number (line 180).

**P2PDataChannel** (`handleMsg`, branch DATA; lines 164-184 and 1103-1162 of
`p2p/session.ts`) is the receiving side of one data type.  A packet is its
position in the station's stream, its number is the position modulo
`MAX_SEQUENCE_NUMBER + 1`.  `ReceiveExpected` works off the queue in the same
step, as the code's loop does; `ReceiveProcessed` and `ReceiveUnexpected` are the
other two branches; `SeqNoTimeout` is the gap timer, whose `endStream` does nothing
for a data type that never streams.  External: `Send`, `AckArrives` and the loss
and repetition of packets.  Two assumptions about the station, which is not in the
repository, bound the reordering (see the head of the module).

**P2PCommandQueue** (`sendCommand`, `sendQueuedMessage`, `_sendCommand`, branch ACK
of `handleMsg`, `handleData`, `handleDataControl`, `_disconnected`) has the fields a
command goes through in the record `client`; an operation of the code is an
operator on that record (`SendFirst`, `SendAgain`, `SendQueuedMessage` ...) and an
action is a handler, with every call of `sendQueuedMessage` at its end.  The
`station` record is external: it executes in the order of arrival, numbers its
results and answers the key exchange.  `Faults` says what it may fail to do.

**P2PConnection** (`connect` to `_disconnected` of the session, and the datagrams
that concern it) keeps the flags and timers in the record `session`.  Three
operations that go on after an `await` are counted: `preparing` (`connect`),
`closing` (`close`), `failing` (`sendPing`).  A timer whose handle is overwritten
while it runs (`lookupRetryTimeout`) is kept as an orphan.  `asked` is what the
network may still answer; with the fault "late" it keeps the requests of earlier
attempts, with "lost" a request has to be sent again.  The bind of the socket may fail
(`PreparedInVain`): the code logs that and leaves `connecting` set.  `stranded` notes
whether the attempt lost its time limit to that or to the answer of a foreign device.

**StationConnection** EXTENDS it with `Station` and its callers: the handlers of
`connect`, `close` and `timeout` (`StationReacts`) are conjoined to the step of the
session that emits them.  `await getStation` and `await isSoloDevice` inside
`connectStation`, `disconnectStation` and `reconnectStation` only yield to other
microtasks once loading is complete, so what stands around them is one step; the
wait for the `close` event and the sleep in `reconnectStation` are steps.

**MediaStream** is what a session promises the receiver of the livestream: a stream that
was asked for is reported as started at most once, and one that was is reported as
stopped or as broken once, for its own camera, before anything is said of another.  It
states the exception that the code makes: a download that breaks is a "livestream error",
too, for the camera its frame names (`Misreport`; `p2p/session.ts` 1514, 1520).

**Livestream** (`p2p/session.ts`: `_sendCommand`, `handleDataBinaryAndVideo`,
`waitForStreamData`, `endStream`, `_initialize`, the energy-saving timer;
`http/station.ts` and `stations.ts`: start and stop) has one state object per data
type.  `endStream` and `_initialize` put a new object in its place; the timers of
the old one that are not cleared go on as *strays* and act on the object that is
there when they fire (`StrayGapTimer`, `StrayAudioTimer`, `StrayWatchdog`).  What a
command does to the streams happens after `await sendMessage` (`MessageSent`), so a
connection can end, or another stream start, in between.  `maximum` has the timers of
`stations.ts` that limit a livestream; one that is overwritten in the map is a stray
as well.  A frame that cannot be decrypted breaks its stream, and whatever the data type the
add-on stops the livestream of the frame's camera, if it streams (`AfterFrames`,
`LivestreamError`).  The queue of commands is here in the form the streams see (queued,
unacknowledged, awaiting a result).  External: `station`, the camera that sends.

**PushClientParser** (`push/parser.ts`) has a step per pass through `waitForData`,
on real bytes: tag, varint size, body.  A byte of a size is `BASE` or more when
another follows; `BASE` is 128 in the code.

**PushConnection** (`push/service.ts`, `push/client.ts`) has the service and every
client it ever made, since a client that was replaced is not closed.  `_open()`
waits twice, for the credentials (`fetching`) and for the new client (`loading`),
for each of its two callers.  `server` is external: a message stays `pending` until
its id comes with a login.  Every registration is a new device, so every client has
its own.

**MqttService** (`mqtt/service.ts`) is a record and an operator per method and per
handler of the library's events.  `connect()` that finds the service neither connected
nor connecting makes a new client and forgets the old one, which goes on connecting by
itself: the model keeps all clients, the last one being the field `client`.

**ApiLifecycle** EXTENDS it with HTTPApi and EufySecurityApi (`http/api.ts`,
`eufySecurityApi.ts`, `config.ts`, `esOpenCcuAddOn.ts`).  A request that has not been
answered is a *task* in a bag, with what follows its answer (`Completed`).  A request
answered 401 makes the hook invalidate the token and log in inside the request
(`Answer401`, `AnswerHook`); it is then repeated once, and `Retry401` ends it.
`close()` is a task as well: it stops the timer and MQTT at once (`CloseStarts`), and only
when the stations are closed is the add-on not connected any more (`CloseEnds`), nor has
`stopAddOn` written the file before that.  The interval between two refreshes is chosen at
`Start`, 0 being none.  `disk`
is `config.json`; `Start` is also the restart after a crash, since it may happen in
any state.  `server` is external: the tokens the cloud accepts.

**DeviceEvents** (`http/device.ts`, `processPushNotification` of all classes the table
`MessagesOf` names; `http/utils.ts`, pictures) takes a message as what its handler
does: detections raised, timers started, whether the timer clears the name of the
person, and how often `loadEventImage` is called.  A detection and its timer can come
apart because each handler lists them by hand; the table is that list.  Classes inherit:
`Camera` handles a message before its subclass does, so `SECURITY` loads a picture in both,
and a message of a HomeBase 3, which most subclasses leave to `Camera`, loads a second one in
`WallLightCam` and `SmartDrop`.  Of pictures one event is watched, any one (`watched`, chosen when
its message comes): requests for it, for older and for newer events are counted apart, because
the one timer that asks the station instead is shared by all.  The third part is
the status of a lock, which push, MQTT and P2P report, and which an answer
of the cloud may report as it was when it was asked (`AskCloud`, `CloudAnswers`).  The lock's
reports share one queue: that they arrive in order by whatever way is an assumption, since
the code does not compare their `event_time`.

**StationRegistry** (`handleHubs`, `addStation`, `updateStation`, `getStation` of
`stations.ts`; `refreshStationData` of `http/api.ts`) has any number of calls of
`handleHubs()` in progress at once.  The loop of a call up to the next wait is one
step; a call waits for `stations loaded` inside `updateStation`, and at the end for
the stations it creates.  A station is its position in the cloud's list, because the
order in which the loop meets them decides who waits for whom.

## 3. Runs

| run | question | instance | result |
|---|---|---|---|
| `data_channel` | is a packet parsed once and in order, and all of them? | 8 numbers, boundary 3, 18 packets: two wraps | holds, implements `OrderedDelivery` |
| `command_queue` | does a result go to its own command? | 3 commands of 2 types, a ping, 1 retry, 2 sessions, sequence numbers to 6; commands may age out | holds |
| `command_queue_live` | does the queue move whatever the station does? | 2 commands, 1 retry, 1 session, sequence numbers to 3 (they wrap), all faults but ageing | holds |
| `p2p_connection` | events, heart-beat, end of an attempt, lost station | QUICKEST, 2 retries, all faults (late, stale, foreign, bind, lost), 2 pending calls, 1 orphan | holds |
| `station_connection` | does a station drop out, stay closed, come back? | ONLY_LOCAL, 1 retry, faults foreign, bind and lost | holds |
| `push_parser` | is every cut of the stream parsed alike? | `BASE` 2, 3 messages, sizes 0, 1 and 3 (two size bytes), 2 connections | holds |
| `push_connection` | do notifications come back, once, from one client? | 3 clients, 2 messages, faults rejected, renewal, leftover | holds |
| `livestream` | is a stream reported and ended as promised, and a battery station spared? | 2 cameras, VIDEO and BINARY, 2 commands, 2 packets, fault unanswered; about 530,000 states, two minutes | holds, implements `MediaStream` |
| `api_lifecycle` | does the add-on stay logged in, polling and listening? | 1 lock, 2 events from outside, 2 starts, 3 requests at once, with and without an interval, all faults but verifyAgain; about 240,000 states | holds |
| `device_events` | do detections end, pictures come, and locks tell the truth? | 9 classes, 9 detections, 3 images asked for, 3 reports on their way; about 170,000 states | holds |
| `station_registry` | do overlapping calls of `handleHubs` end, with all stations known? | 3 stations, 2 calls | holds |
| `station_registry_move` | and if a station moves into the house? | the same | **violated** (section 6) |

Why the bounds are enough.  Two wraps with a window of 4 numbers reach every
relation of expected and received number to the wrap and to the window before it.
Three commands of two types and a ping make a command in
flight, one queued and one submitted in between possible; the numbering can only
go wrong between neighbours.  A second session is the first that can see what the
first one left; the numbers of a session reach their end in some behaviours and not in
others.  Two pending continuations of each kind are the first that can act
in the wrong order; one orphan per kind of lookup shows that there are any.
In `push_parser` three messages are a complete one, one
that is being read and one that comes in the same chunk; the sizes take no byte of
body, one, and enough to need a second size byte.  In `push_connection` three
clients are the one in use, the one it replaced and the next.  In `livestream` two
cameras and two commands give a stream that takes the place of another, or a stop that
meets it, with the timers the first one leaves; the first command is for `FirstCamera`
because the cameras are alike; two packets are a first frame and one after it, or
one that opens a gap; the two data types run side by side.  In `api_lifecycle`
three requests are a refresh, the renewal of the token and a second login; a second
start finds what the first one wrote; two events are a cause and a second one while the
first is being dealt with.  Larger instances (5 events, 18 million states) were
explored without a violation for `LocksAreHeard`, where a third event matters: there
is a second client while the first is still alive.  That one and
`TokenIsStored`, `PollingGoesOn` are proved without bounds.  In `device_events` the
nine detections are one of each way in which a class treats a detection, and three images
are one of an older event, of the watched one and of a newer one.
`station_registry` was also checked with 3 calls over 2 stations; three stations are a
known one with a new one before and after it.

`MaxSent`, `MaxSessions`, `MaxPending`, `MaxOrphans`, `MaxMessages`, `MaxConnections`,
`MaxClients`, `MaxCommands`, `MaxFrames`, `MaxEvents`, `MaxBoots`, `MaxTasks`,
`MaxRequests`, `MaxReports` and `MaxStations` are the bounds; each is a guard of actions
from outside.  `Seen` and `FirstCamera` leave out what is alike.

Deadlock is checked except where the model does stop: when all commands are done
and all sessions used (`command_queue*`), the connections and messages are used up
or the parser threw (`push_parser`), the commands are used up (`livestream`), or the
process was stopped and is not started again (`api_lifecycle`).

### Which faults a property survives

A property that needs an assumption on what is outside the client is run without
the fault that breaks it, and the fault stays in the model:

- `ResultsAreOwnUntilWrap` needs a
  station that answers in time: the client counts the station's results instead
  of being told which command they answer, so a command executed twice or not at
  all, or the answer of `getCipher` after a disconnect (line 2334), shifts the count.
  It claims nothing once a session has come to the last of its 65536 numbers: the numbers
  wrap, the code takes a mapped number 0 for an absent one (line 1347), and the
  result goes to another command.
- `ConnectingEnds` and `NeverGivesUp` except the attempts that are `stranded`: by a bind that
  fails (lines 525-546; with a static UDP port it fails after `onClose`, 2411, which does not
  close the old socket), and by the answer of a foreign device, which clears the lookup's
  timer (877).  `ComesBack` of the station excepts only the first: the repeated lookup still
  finds a station that answers.  TLC refutes each of the three without its exception.
- `QueueDrains` does not hold when a queued message is dropped because of its age:
  `_sendCommand` reports it and returns without another `sendQueuedMessage` (line 766),
  so the next message waits for the next command, ping or datagram.
- `IdleIsQuiet` and `ClosedStaysClosed` (station) do not hold in QUICKEST, because
  neither `close()` nor `_disconnected()` clears `lookup2RetryTimeout` (line 493); nor
  when `connect()` is called while an earlier `close()` has not gone on ("stale"), nor
  when an answer to an earlier attempt comes late ("late").  TLC refutes both in
  each of the three cases; without all three they are theorems.
- `push_connection` leaves out "reopen" and "earlyClose".  `open()` after a login to
  the cloud while the client is reconnecting by itself makes a second client, both
  listened to; two `_open` calls at once can lose the credentials under the other's
  feet, which throws in the renewal and ends the process; `close()` before the login
  leaves `connecting` or `connected` as they are, and the next `open()` does nothing
  (`push/service.ts:777`).  `TypeOK` and `EachMessageOnce` hold with all faults.
- `LivestreamIsReported` does not hold with "badLater", a frame that cannot be
  decrypted after frames that could: the stream is reported as broken, and the timer
  for audio that still runs reports it as started (1567-1575); nor with "otherCamera", where
  the first frame after another camera was asked for is a bad one of the camera before, and
  the error names that one.  That a broken download is reported as well is in the run, as
  `Misreport` of `MediaStream`: TLC refutes the promise without it.
- `EnergySavingSparesWork` does not hold with "slowSend" (the effect of a command comes
  after its acknowledgement armed the timer) or "lateConvert" (`CMD_CONVERT_MP4_OK`
  after the download was ended makes it stream again without watchdog, 1680-1686);
  `StreamsEnd` not with "lateConvert" either.
- `NobodyIsFilmedForNothing` says nothing of two cameras, of a stop that is lost on a
  "deaf" station, or of a stream that starts later than the watchdog waits ("lateStart").
- `TokenIsStored` does not hold with "verifyAgain": a login of a client that is still
  connected and is asked for a code puts the code's token in the place of the
  valid one (`http/api.ts` 367-378) without storing it.
- `PollingGoesOn` and `StaleTokenIsNoticed` say nothing of an add-on whose config.json
  has no interval (`updateDeviceDataIntervall` 0): it sets no timer (815-818) and nobody asks
  the cloud again.  `PollingGoesOn` says nothing while `close()` waits for the stations,
  when the timer is stopped and `connected` still true (280-296).  TLC refutes them without
  these exceptions.
- `LocksAreHeard` needs that no older MQTT client is still trying (`OneMqttClient`).
- `PictureIsOnItsWay` says nothing of an event whose query was stopped by the image of an
  older one (`watched` is "lost"; `http/utils.ts` 799-803), nor of a station that cannot be
  asked (`HasQuery`).  TLC refutes it without the first exception.
- `StatusIsTheLocks` needs that the reports of a lock do not overtake each other: the status
  the code shows is the one that comes last by push, MQTT or P2P.
- `DetectionHasTimer` speaks of the classes of the table.  `GarageCamera`, which is not in it,
  shows the low battery of a door sensor without a timer (3185-3191).
- `NameIsCleared` leaves out the doorbell, `KnowsTheHouse` holds also when stations move,
  `HubsAreHandled` and `CallersAreAnswered` do not (section 6).

## 4. Fairness

Node.js runs every timer that is due and every promise that is settled, so timers
and continuations are weakly fair.  Nothing is asked of the network and the station
beyond that, with these exceptions, which are conditions of the promise itself:

- `EveryPacketIsDelivered`: a packet that is repeated until acknowledged arrives at
  some time, and so does an acknowledgement (weak fairness of `Receive`, `AckArrives`).
- `ComesBack` of the station: a lookup and a handshake asked for again and again meet a
  station that answers (strong fairness of its answers), and the property only says
  something of a station that is `alive`.  Datagrams get lost, so what is asked again rests
  on the retry timer of the lookup and on the attempts of the station.
- `ComesBack` of the push service: a registration and a login that are tried again
  and again succeed at some time (strong fairness of `Fetched`, `LoginResponse`).
- `StreamsEnd`: a command is acknowledged or given up, and the result of one that starts
  a stream arrives; the watchdog fires.  Once the bounds are used up no data comes, which
  is the case the property is about.
- `StaleTokenIsNoticed`: the cloud answers every request (HTTP requests have a
  timeout, which is an answer), the timer of the refresh fires, and `close()` waits for a
  station at most ten seconds.
- `HubsAreHandled`, `CallersAreAnswered`: a call that can go on does, and a request for
  the key of a station is answered.

`QueueDrains`, `InFlightEnds`, `ConnectingEnds`, `LostStationIsNoticed` rest on timers
and continuations alone: their point is that a timer ends what the station does not.

## 5. Proofs

All theorems hold for every value of the constants that satisfies the `ASSUME` of
the component's module; the assumptions only give the constants their types and, for
the data channel, `SEQUENCE_PROCESSING_BOUNDARY` a place inside the number space.
A theorem that needs more says so in its ASSUME.

**P2PDataChannelProofs.**  `TypeCorrect`, `InOrder`, `QueueIsNew`,
`MissingStaysMissing`, `Refinement`.  That packets come in order is not inductive: it
needs that `expectedSeqNo` is the number of the next packet (`ExpectsNext`), that a
queued packet is kept under its own number and is newer than the next (`QueueInv`),
that what is acknowledged has arrived (`AckedArrived`) and that the station's window
is open (`WindowInv`).  With these (`IInv`) the newest packet is less than a window
ahead, two packets within a window have different numbers (`ModInjective`), and the
number decides what a packet is.  For the packet with the largest number it does not: what
is queued or parsed in its place may be a stale copy, and `InOrder`, `QueueIsNew` and
`OrderedDelivery` say so.  `Refinement` maps a receive step to the delivery of
the run it completes, or to a stutter.

**P2PCommandQueueProofs.**  `QueueTypeCorrect` and `CommandsEndOnce` for all faults,
`ResultsAreOwn` for `Faults \subseteq {"aged"}` (the run's set; above), until the numbers
of a session wrap (`NumbersLast`; while they last, a number is a count).  A command is in
one place at a time, and its history says which: before it is submitted nowhere; then in
the queue, or in flight under its own number, or held by one timer; and nowhere again once
an outcome is reported (`QueueInv`).  That two places never hold the same command is what
makes the outcome the only one.  Whose result it is needs the numbering (`NumbersInv`): in a
connection the datagrams on the wire are in the order of their numbers, the station executes
them in that order, and the k-th number the client expects for a DATA result is the number
of the k-th command that is not a ping (`Numbered`).  The client counts, so the proof has to
count too: `WithoutPings` is a recursive function, and what it does to a longer sequence is
shown with the set of lengths for which it does (`CountingUp`), since an induction theorem
cannot be cited for an operator.

**StationConnectionProofs, the session.**  `ConnectionTypeCorrect`, `WhatIsReportedIsReal`,
`OneHeartbeat`, `ConnectAndCloseAlternate`, for every set of faults and both connection types.
The invariant is `TypeOK /\ ReportedIsReal /\ HeartbeatIffConnected`; no conjunct is
inductive alone (that a heart-beat is counted twice is excluded because a CAM_ID is
only accepted without connection, and then there is none).  The lookup helpers have
a lemma each, which says that they keep the type and leave connection and heart-beat
alone; every action is then a quiet step, a step that takes the session down, or
the connection (`QuietStep`, `DownStep`).  `AttemptsAreLimited`: every attempt has a timer that
ends it or is still being prepared, or was stranded by one of the two known causes; it is
inductive with the types, each helper keeping a limit or setting the next one
(`HelpersKeepLimits`).

**StationConnectionProofs, the station.**  `StationUsesSession` (the composition's steps are steps of
`P2PConnection`, so the above holds in it), `StationTypeCorrect`, `StationNeverGivesUp`.
The last one needs two more conjuncts, since there are two flags called
`terminating`, one of the session and one of the station, which the awaits can
bring apart: a terminating session is not connecting, and if the station does not
terminate with it there is a connection or a timer (`StationInv`).  That the attempt it
may be in is limited comes from the session.
`IdleSessionIsQuiet` and `ClosedForGood` hold under `Undisturbed`: ONLY_LOCAL, without
"stale" and "late".  Their invariant ties timers and requests to the attempt they belong
to (`QuietInv`): a session that is idle, or whose `connect()` still waits for its keys, has no
timer and is asked for nothing, so the lookup that begins then overwrites no timer; and while
an attempt is under way no `close()` or `sendPing()` has yet to go on.  After the shutdown
(`ShutInv`) the session is terminating as well as the station, so that the end of the
connection schedules nothing, neither as a close nor as a failed attempt.

**LivestreamProofs.**  `LivestreamTypes`; `LivestreamImplementsMediaStream` without
"badLater" and "otherCamera"; `TimerSparesWork` without "slowSend" and "lateConvert"; `NobodyFilmed` without
"slowSend", "deaf" and "lateStart".  The invariant says of
each stream that only one that runs has a camera, is started or broken or has had a frame
(`StreamInv`), that the energy-saving timer is armed only while nothing is under way and at
most one command is being sent, and of the livestream that it breaks before it starts or
not at all.  Each operation on a stream (`Replaced`, `WithStream`, ...) has a lemma saying
what MediaStream sees of it; each action maps to one step of MediaStream or to a stutter.
The frames are dealt with first (`ParsesFirst`), and what the receiver hears of a broken
stream after them: of the livestream itself it is `Break`, of the download `Misreport`.
That no camera films for nobody is an invariant of client and station together (`FilmInv`):
what the station films, or was told to film, the client has as a running livestream or is
about to stop (`Filmed`); and the watchdog that ends a livestream without telling the
station runs only until the start is answered (`Guarded`).  Each hypothesis closes one gap:
a command whose effect on the client comes after its acknowledgement, a stop the station
does not execute, a start it answers later than the watchdog waits.

**PushConnectionProofs.**  `PushTypeCorrect` and `MessagesComeOnce` for all faults,
`OneClientIsHeard` and `RenewalNeverThrows` without "reopen" and "earlyClose".  A message
that the application has may be pending still; it is not given to it again, because the
client that got it keeps its id until a login tells the server (`HeardIsKept`,
`KeptIsDelivered`), and it is pending for one client only (`PendingOnce`).  One client is
heard because at most one `_open()` is under way, and whatever may start another - two timers
and the application - has to wait for its end (`OneStart`); `TypeInv` adds that there is
room for the clients being made.

**PushConnectionProofs, the parser.**  `ParserTypeCorrect`, `EmittedIsArrived` and
`ThrownOverBadData`, for any tags, sizes, versions and any cuts; of the sizes it is assumed
that two bytes hold them (`ParserAssumption`), of the base that it is at least 2.  The
properties speak of counts of bytes, so the invariant says what these bytes are: behind what the parser has
consumed, the bytes it keeps and those on their way are the messages not yet read, each at the
place where the one before it ends (`Ahead`, `Facing`).  Each state adds where in a message the
parser stands (`AtVersion`, `AtTag`, `AtSize`, `AtBody`); the handlers call each other, so each
has a lemma about the state it is called in (`VersionIsGot`, `TagIsGot`, `SizeIsGot`,
`BodyIsRead`).  Bytes that arrive go from one part of this stream to the other (`StreamMoves`),
bytes that are sent do not disturb what lies before them (`StreamGrows`).  A parser that
waits misses something of the next message (`WaitsForMore`), so exactly the messages before
it have arrived (`ArrivedIs`).  `End` and `SizeValue` are recursive functions: that they exist, and
that messages end one after the other, is shown by counting (`CountingUp`, from the well-founded order
of the numbers); the value of a size is that of its one or two digits (`TwoDigits`).

**DeviceEventsProofs.**  `DeviceTypes`, `DetectionsEnd`, `NamesEnd`, `EventsGetPictures`,
`LockIsHeard`, for all classes and messages of the table and any number of images asked for.  `Sensible` is a lemma about the table: what a
message raises, it starts the timer of; a timer that clears a name belongs to one of four
detections, and no message without a name starts one of these (`KeepsName`), but for
the doorbell's.  That the event that is watched may be any one is what makes `EventsGetPictures` a
statement about every event; its messages and images have a lemma each (`LoadsStep`,
`ImageStep`).  For the lock the last report on its way says where the bolt is, and a
status that came from the cloud is as old as one of these reports or the last before them,
never older than what the client has heard of the lock itself (`LockInv`).

**StationRegistryProofs.**  `RegistryInvariant`, `RegistryTypes`, `HouseIsKnown`, for any
number of calls, also when stations move.  What a call has passed of its list it created,
has pending or found known (`NothingIsLost`); a call that waits, waits at a station that is
known (`WaitsForKnown`); an idle call has nothing pending (`IdleCreatesNothing`).
That the loop's first known station is there needs that a finite set of numbers has a least
element (`FirstStation`).

**ApiLifecycleProofs.**  `ApiTypeCorrect`, `ApiPollingGoesOn` and `ApiLocksAreHeard` for all faults,
`ApiTokenIsStored` without "verifyAgain", each for every interval.  The invariant `Good(s, kind)` is about a client
state and the kind of the request being dealt with: between `Done`, which takes a request
off the bag, and `Completed`, that request still counts as polling, or as the one that will
write the file.  Each method of the code has a lemma (`GoodLogin`, `GoodOnAPIClose`,
`GoodCompleted` ...); an action is then two or three of them in a row.  For MQTT: as long
as only the latest client is not ended, it has the topics of all locks or the queue has
them, and a connection is its own (`LatestHasLocks`).

Also proved, and in no configuration: `DeliveredInOrder`, `QueuedDataIsNew`,
`MissingIsNotProcessed` (data channel), `ReportedIsReal` (connection), the types of
the connection, station, device and registry.

Only model-checked:

- all liveness, which the proof system does not treat (fairness, ENABLED): `ComesBack`
  (twice), `QueueDrains`, `InFlightEnds`, `ConnectingEnds`, `LostStationIsNoticed`,
  `EveryPacketIsDelivered`, `StreamsEnd`, `StaleTokenIsNoticed`, `HubsAreHandled`,
  `CallersAreAnswered`.  Every other property of every run is a theorem, under the
  hypotheses named above.

## 6. Findings

`station_registry_move`: `handleHubs` (`stations.ts:76`) can wait for itself.  A station
that is new to the house comes before one that is known: `stationsLoaded` is set (79), the
update of the known one waits for the event "stations loaded" (219), and only the
end of the same call emits it.  From then on `getStation()` ("Returns the serial object
specified by the station serial", 567) and everybody behind it waits for ever.  It takes a
station that was listed by the cloud, but outside the configured house, when a later one was
created, and that is moved into the house in the app.

### Known divergences

Found while modelling, and kept in the models (as a fault, an exception in a property,
or a comment); none has a run of its own.

| where | what |
|---|---|
| `p2p/session.ts:180` | packet 65535 is not recognised as processed after the wrap (comment line 60); the exception `HasLastNumber` of `OrderedDelivery` |
| `p2p/session.ts:1347` | after the sequence numbers wrapped, a mapped number 0 counts as absent, and a result goes to another command |
| `p2p/session.ts:542`, `2421` | a bind that fails is only logged: `connecting` stays set with no timer, and every later `connect()` returns at once |
| `p2p/session.ts:877` | the answer of a foreign device clears the timer that limits the lookup, and no other is set |
| `p2p/session.ts:766` | the queue stands still after a message that was dropped for its age |
| `p2p/session.ts:493` | `lookup2RetryTimeout` is not cleared when an attempt ends |
| `p2p/session.ts:859` | a stop ends the livestream of another camera, and reports that camera's end (`stations.ts:472` speaks of the given camera) |
| `p2p/session.ts:375` | `endStream` inside `_disconnected` arms the energy-saving timer, which ends a later attempt to connect |
| `p2p/session.ts:1514`, `1520` | a download that breaks is reported as an error of the livestream, for the camera its frame names, and the add-on stops that camera's livestream; the exception `Misreport` of `MediaStream` |
| `p2p/session.ts:1567` | an error is followed by "started" from the audio timer |
| `p2p/session.ts:1680` | `CMD_CONVERT_MP4_OK` starts a stream without watchdog |
| `stations.ts:457` | the timer for a livestream's maximum is overwritten, not cleared |
| `stations.ts:273` | `closeP2PConnections` passes over stations that are connecting (comment line 267) |
| `eufySecurityApi.ts:2039` | `reconnectStation` leaves a connected station closed (comment line 2009) |
| `eufySecurityApi.ts:318`, `460` | after a new login, `close()` does not reach the connections of the old `Stations` objects |
| `eufySecurityApi.ts:797` | a refresh that is under way sets the timer again after `close()` or logout |
| `eufySecurityApi.ts:296` | a login while `close()` waits for the stations is forgotten: `connected` becomes false although the new login is connected and polls |
| `eufySecurityApi.ts:403` | nobody tries again after a login that failed inside `onAPIClose` |
| `http/api.ts:367` | a code asked of a connected client replaces its valid token |
| `http/api.ts:247` | the renewal is not scheduled again if its login fails |
| `http/api.ts` `hubs` | stations and devices that leave the account are never removed |
| `http/device.ts:2757`, `2787` | the doorbell's loitering and away timers leave the name of the person |
| `http/device.ts:3118` | the reset of the low battery of door sensor 2 clears that of sensor 1 |
| `GarageDoorPushEvent` | `CLOSED_DOOR_BY_APP` has the number of `SECURITY`, so closing the door reports motion |
| `http/utils.ts:799` | an image of an older event stops the timer that would ask the station for the picture of a newer one; the exception "lost" of `PictureIsOnItsWay` |
| `http/device.ts:3421` | `event_time` is not looked at: a report of a lock that was overtaken by push, MQTT or P2P puts the older status in the place of the newer |
| `http/device.ts:160` | an equal value keeps the older source |
| `mqtt/service.ts:79` | `connect()` after a lost connection makes a second client; whichever comes up, the latest gets the topics |
| `mqtt/service.ts:160` | `close()` while connecting does nothing |
| `push/client.ts:345` | `close()` leaves the heart-beat timer, which makes a closed client connect again |
| `push/service.ts:777` | `open()` and `close()` before the login, see "reopen" and "earlyClose" |

## 7. Not modelled

- **Parts of modelled components.**  Session: nested commands (1385), the commands sent at
  CAM_ID for special devices (939), TURN, DSK keys, RTSP, the bytes of frames, the pacing
  of talkback audio.  Push: stream ids, decoding of messages, the registration's single
  requests.  Stations and devices: the forwarding of events, `handleDevices` (like
  `handleHubs`, but it does not wait for itself).  Devices: garage doors, entry sensors,
  keypads, and `DoorbellLock` (4441-4525), a doorbell with the push messages of a lock, each
  of which also loads a picture.  Configuration: all values but the token.
- **Station methods.**  About 150 methods of `http/station.ts` (11,400 lines) check the
  device type, encode parameters and call `sendCommand`; what happens then is
  `P2PCommandQueue`.  They have no state of their own and no order to get wrong.
- **Tables and codecs.**  `http/types.ts`, `http/const.ts`, `http/parameter.ts`,
  `http/utils.ts`, `p2p/types.ts`, `p2p/utils.ts`, `p2p/ble.ts`, `utils/const.ts`, the
  generated protobuf code: properties, names, encodings and encryption.
- **Requests passed on.**  CCU API, event interactions, API server, add-on pages: HTTP
  requests one after the other.
- **`eufysecurity.ts`**, the class of the upstream project, which `tsconfig.json` leaves
  out, and everything under `addon/` and `build/`, which is compiled from the same
  TypeScript.

Together these are far more than nine tenths of the lines in the repository: the compiled copies
are half of all lines, and of the other half the tables and the station methods are two thirds.
The models stand for about 4,200 lines, which is most of the code that has state,
waits, or reacts to events.
