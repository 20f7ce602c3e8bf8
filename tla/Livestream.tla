----------------------------- MODULE Livestream -----------------------------
(***************************************************************************)
(* The streams of a P2P session: livestream (VIDEO) and download (BINARY), *)
(* talkback, the timer that disconnects an energy saving station, and the  *)
(* timers with which the add-on limits how long a camera streams           *)
(* (p2p/session.ts, http/station.ts, stations.ts).                         *)
(*                                                                         *)
(* A command is queued, sent, acknowledged and answered as P2PCommandQueue *)
(* describes; here it matters when its effect on the streams happens.      *)
(* _sendCommand has that effect after `await sendMessage`.                 *)
(*                                                                         *)
(* A timer belongs to the state object of its stream.  endStream and       *)
(* _initialize replace the object and leave the timers they do not stop    *)
(* running: strays.  A stray acts on the object that is current when it    *)
(* fires.                                                                  *)
(*                                                                         *)
(* External: the station, which does what it acknowledges and whose frames *)
(* may arrive at any time, also when the stream was stopped.               *)
(***************************************************************************)
EXTENDS Integers, Sequences

CONSTANTS
    Channels,      \* the cameras of the station
    DataTypes,     \* the streams that are looked at
    NoChannel,     \* no camera
    NoCommand,     \* no command
    FirstCamera,   \* bound: the camera of the first command (cameras are alike)
    MaxCommands,   \* bound: commands of the application
    MaxFrames,     \* bound: packets of the streams
    Faults         \* what may go wrong outside the client

FaultKinds ==
    { "slowSend",     \* a command's sendMessage returns after its acknowledgement
      "unanswered",   \* a command that starts a stream is never acknowledged by a
                      \* station that sends no stream
      "deaf",         \* any command may stay without an acknowledgement
      "lateStart",    \* neither result nor frame within MAX_STREAM_DATA_WAIT
      "badLater",     \* a frame cannot be decrypted, and frames before it could
      "otherCamera",  \* a frame is of a camera that was asked for before
      "lateConvert" } \* CMD_CONVERT_MP4_OK comes when the download was ended

ASSUME StreamAssumption ==
    /\ DataTypes \subseteq {"VIDEO", "BINARY"}
    /\ "VIDEO" \in DataTypes
    /\ NoChannel \notin Channels
    /\ FirstCamera \in Channels
    /\ MaxCommands \in Nat
    /\ MaxFrames \in Nat
    /\ Faults \subseteq FaultKinds

VARIABLES
    client,    \* the fields of the session that concern streams (ClientType)
    maximum,   \* the add-on's timers for the maximum duration of a camera's stream
    station,   \* the camera whose stream the station sends, for each data type
    commands,  \* number of commands the application has given
    cameras,   \* the cameras it has given commands for
    frames     \* number of packets of the streams that have arrived

vars == <<client, maximum, station, commands, cameras, frames>>

----------------------------------------------------------------------------
(* The state object of a stream, currentMessageState[datatype].            *)

Commands ==
    [type : {"start", "stop"}, datatype : DataTypes, channel : Channels]
        \cup [type : {"talk", "endTalk"}, datatype : {"VIDEO"}, channel : Channels]

ASSUME CommandAssumption == NoCommand \notin Commands

Report == [event : {"started", "stopped", "error"}, channel : Channels]

StrayKinds == {"gap", "audio", "watchdog"}

StreamState ==
    [p2pStreaming : BOOLEAN,
     p2pStreamChannel : Channels \cup {NoChannel},
     p2pStreamNotStarted : BOOLEAN,
     invalidStream : BOOLEAN,
     firstVideo : BOOLEAN,       \* p2pStreamFirstVideoDataReceived
     firstAudio : BOOLEAN,       \* p2pStreamFirstAudioDataReceived
     watchdog : {"none", "quiet", "stop"},   \* p2pStreamingTimeout, its sendStopCommand
     waitForAudioData : BOOLEAN,
     waitForSeqNo : BOOLEAN,     \* waitForSeqNoTimeout
     queuedData : BOOLEAN,       \* packets wait for a missing one
     talkback : Channels \cup {NoChannel},   \* p2pTalkbackChannel while p2pTalkback
     strays : [StrayKinds -> Nat],           \* timers of replaced state objects
     reports : Seq(Report)]      \* what was emitted of this stream

NewStream ==
    [p2pStreaming |-> FALSE, p2pStreamChannel |-> NoChannel,
     p2pStreamNotStarted |-> TRUE, invalidStream |-> FALSE,
     firstVideo |-> FALSE, firstAudio |-> FALSE, watchdog |-> "none",
     waitForAudioData |-> FALSE, waitForSeqNo |-> FALSE, queuedData |-> FALSE,
     talkback |-> NoChannel, strays |-> [k \in StrayKinds |-> 0], reports |-> << >>]

One(b) == IF b THEN 1 ELSE 0

(* The object is replaced: the timers that still run become strays.        *)
Replaced(s) ==
    [NewStream EXCEPT
        !.reports = s.reports,
        !.strays = [k \in StrayKinds |->
            s.strays[k] + One(CASE k = "gap"   -> s.waitForSeqNo
                                [] k = "audio" -> s.waitForAudioData
                                [] OTHER       -> s.watchdog # "none")]]

Emit(s, what) ==
    [s EXCEPT !.reports = Append(@, [event |-> what, channel |-> s.p2pStreamChannel])]

IsReportedAsOpen(s) == ~s.invalidStream /\ ~s.p2pStreamNotStarted

(* endStream(), as far as it concerns the stream itself.                   *)
Ended(s) ==
    IF ~s.p2pStreaming THEN s
    ELSE Replaced([(IF IsReportedAsOpen(s) THEN Emit(s, "stopped") ELSE s)
                        EXCEPT !.watchdog = "none"])

(* emitStreamStartEvent(), once there was video and audio.                 *)
StartIfReady(s) ==
    IF s.p2pStreamNotStarted /\ s.firstVideo /\ s.firstAudio
    THEN Emit([s EXCEPT !.p2pStreamNotStarted = FALSE], "started")
    ELSE s

(* Mutant: the watchdog is stopped and not started again. *)
VideoFrameUnwatched(s) ==
    StartIfReady([s EXCEPT
        !.watchdog = "none",
        !.firstVideo = TRUE,
        !.waitForAudioData = @ \/ (~s.firstVideo /\ ~s.firstAudio)])

(* handleDataBinaryAndVideo() for CMD_VIDEO_FRAME; a frame is bad when its *)
(* AES key cannot be decrypted.  Who is told of that is LivestreamError.   *)
VideoFrame(s) ==
    StartIfReady([s EXCEPT
        !.watchdog = "stop",
        !.firstVideo = TRUE,
        !.waitForAudioData = @ \/ (~s.firstVideo /\ ~s.firstAudio)])

BadFrame(s) == [s EXCEPT !.watchdog = "stop", !.invalidStream = TRUE]

(* ... and for CMD_AUDIO_FRAME.                                            *)
AudioFrame(s) ==
    StartIfReady([s EXCEPT
        !.watchdog = "stop", !.firstAudio = TRUE, !.waitForAudioData = FALSE])

(* parseDataMessage(): data of a stream that is not wanted is ignored.     *)
Parsed(s, frame) ==
    IF ~s.p2pStreaming \/ s.invalidStream THEN s
    ELSE CASE frame = "video" -> VideoFrame(s)
           [] frame = "audio" -> AudioFrame(s)
           [] frame = "bad"   -> BadFrame(s)

FrameKinds == {"video", "audio", "bad"}

(* The camera that a frame names in its header. *)
Senders(s) == IF "otherCamera" \in Faults THEN Channels ELSE {s.p2pStreamChannel}

NextFrames(s) ==
    IF s.firstVideo /\ "badLater" \notin Faults THEN FrameKinds \ {"bad"} ELSE FrameKinds

----------------------------------------------------------------------------
(* The session.                                                            *)

InitialClient ==
    [connection |-> "closed",     \* "closed", "connecting" or "connected"
     stream |-> [d \in DataTypes |-> NewStream],
     sendQueue |-> << >>,
     unacknowledged |-> NoCommand,
     sending |-> << >>,           \* the commands whose sendMessage is awaited
     awaiting |-> {},             \* acknowledged commands without a result
     esdDisconnect |-> FALSE,     \* esdDisconnectTimeout
     microphone |-> FALSE]        \* does the TalkbackStream pass audio on?

Init ==
    /\ client = InitialClient
    /\ maximum = [c \in Channels |-> [armed |-> FALSE, strays |-> 0]]
    /\ station = [d \in DataTypes |-> NoChannel]
    /\ commands = 0
    /\ cameras = {}
    /\ frames = 0

IsStreaming(cl, d, c) == cl.stream[d].p2pStreaming /\ cl.stream[d].p2pStreamChannel = c

IsCurrentlyStreaming(cl) ==
    \E d \in DataTypes : cl.stream[d].p2pStreaming \/ cl.stream[d].talkback # NoChannel

(* Mutant: running streams are forgotten. *)
CloseEnergySavingDeviceAnyway(cl) ==
    IF cl.sendQueue = << >> /\ cl.unacknowledged = NoCommand
    THEN [cl EXCEPT !.esdDisconnect = TRUE]
    ELSE cl

(* closeEnergySavingDevice() *)
CloseEnergySavingDevice(cl) ==
    IF cl.sendQueue = << >> /\ cl.unacknowledged = NoCommand /\ ~IsCurrentlyStreaming(cl)
    THEN [cl EXCEPT !.esdDisconnect = TRUE]
    ELSE cl

(* sendQueuedMessage() *)
SendQueuedMessage(cl) ==
    CloseEnergySavingDevice(
        IF cl.sendQueue = << >> THEN cl
        ELSE CASE cl.connection = "connected" /\ cl.unacknowledged = NoCommand ->
                    [cl EXCEPT !.sendQueue = Tail(@),
                               !.unacknowledged = Head(cl.sendQueue),
                               !.sending = Append(@, Head(cl.sendQueue))]
               [] cl.connection = "closed" -> [cl EXCEPT !.connection = "connecting"]
               [] OTHER -> cl)

SendCommand(cl, command) ==
    SendQueuedMessage([cl EXCEPT !.sendQueue = Append(@, command), !.esdDisconnect = FALSE])

(* Mutant: the station is not told. *)
EndStreamQuietly(cl, d, sendStopCommand) ==
    IF ~cl.stream[d].p2pStreaming THEN cl
    ELSE CloseEnergySavingDevice([cl EXCEPT !.stream[d] = Ended(@)])

(* endStream() *)
EndStream(cl, d, sendStopCommand) ==
    IF ~cl.stream[d].p2pStreaming THEN cl
    ELSE LET stop == [type |-> "stop", datatype |-> d,
                      channel |-> cl.stream[d].p2pStreamChannel]
             told == IF sendStopCommand THEN SendCommand(cl, stop) ELSE cl
         IN  CloseEnergySavingDevice([told EXCEPT !.stream[d] = Ended(@)])

(* Mutant: the stream that runs is not ended. *)
StartOver(cl, d, c) ==
    [cl EXCEPT !.stream[d].p2pStreaming = TRUE,
               !.stream[d].p2pStreamChannel = c,
               !.stream[d].watchdog = "quiet"]

(* Mutant: the camera is not noted. *)
StartWithoutChannel(cl, d, c) ==
    LET other == cl.stream[d].p2pStreaming /\ cl.stream[d].p2pStreamChannel # c
    IN  [(IF other THEN EndStream(cl, d, FALSE) ELSE cl)
            EXCEPT !.stream[d].p2pStreaming = TRUE, !.stream[d].watchdog = "quiet"]

(* What _sendCommand does after a command that starts a stream was sent.   *)
StartStream(cl, d, c) ==
    LET other == cl.stream[d].p2pStreaming /\ cl.stream[d].p2pStreamChannel # c
    IN  [(IF other THEN EndStream(cl, d, FALSE) ELSE cl)
            EXCEPT !.stream[d].p2pStreaming = TRUE,
                   !.stream[d].p2pStreamChannel = c,
                   !.stream[d].watchdog = "quiet"]

EffectOf(cl, command) ==
    CASE command.type = "start" -> StartStream(cl, command.datatype, command.channel)
      [] command.type = "stop"  -> EndStream(cl, command.datatype, FALSE)
      [] OTHER -> cl

EndAll(cl, ds) ==
    LET video == IF "VIDEO" \in ds THEN EndStream(cl, "VIDEO", FALSE) ELSE cl
    IN  IF "BINARY" \in ds THEN EndStream(video, "BINARY", FALSE) ELSE video

(* _disconnected(), with the _initialize() at its end.                     *)
Disconnected(cl) ==
    LET ended == EndAll([cl EXCEPT !.esdDisconnect = FALSE], DataTypes)
    IN  [ended EXCEPT !.connection = "closed",
                      !.stream = [d \in DataTypes |-> Replaced(@[d])],
                      !.unacknowledged = NoCommand,
                      !.awaiting = {}]

----------------------------------------------------------------------------
(* The application: Station and, above it, Stations of the add-on.         *)

Command(type, d, c) == [type |-> type, datatype |-> d, channel |-> c]

Asked(c) ==
    /\ commands < MaxCommands
    /\ commands = 0 => c = FirstCamera
    /\ commands' = commands + 1
    /\ cameras' = cameras \cup {c}

(* startStationLivestream(): the map of timers forgets the timer it held.  *)
StartLivestream(c) ==
    /\ ~IsStreaming(client, "VIDEO", c)
    /\ Asked(c)
    /\ client' = SendCommand(client, Command("start", "VIDEO", c))
    /\ maximum' = [maximum EXCEPT ![c] = [armed |-> TRUE,
                                          strays |-> @.strays + One(@.armed)]]
    /\ UNCHANGED <<station, frames>>

(* Station.stopLivestream(), if the camera streams.                        *)
Stopped(cl, c) ==
    IF cl.connection = "connected" /\ IsStreaming(cl, "VIDEO", c)
    THEN SendCommand(cl, Command("stop", "VIDEO", c))
    ELSE cl

(* stopStationLivestream() *)
StopLivestream(c) ==
    /\ Asked(c)
    /\ client' = Stopped(client, c)
    /\ maximum' = [maximum EXCEPT ![c].armed = FALSE]
    /\ UNCHANGED <<station, frames>>

(* The timer fires that the map of timers holds ... *)
MaximumReached(c) ==
    /\ maximum[c].armed
    /\ client' = Stopped(client, c)
    /\ maximum' = [maximum EXCEPT ![c].armed = FALSE]
    /\ UNCHANGED <<station, commands, cameras, frames>>

(* ... or one that it has forgotten; the one it holds is stopped.          *)
StrayMaximum(c) ==
    /\ maximum[c].strays > 0
    /\ client' = Stopped(client, c)
    /\ maximum' = [maximum EXCEPT ![c] = [armed |-> FALSE, strays |-> @.strays - 1]]
    /\ UNCHANGED <<station, commands, cameras, frames>>

(* startStationDownload() *)
StartDownload(c) ==
    /\ "BINARY" \in DataTypes
    /\ ~IsStreaming(client, "BINARY", c)
    /\ Asked(c)
    /\ client' = SendCommand(client, Command("start", "BINARY", c))
    /\ UNCHANGED <<maximum, station, frames>>

(* cancelStationDownload() *)
CancelDownload(c) ==
    /\ "BINARY" \in DataTypes
    /\ client.connection = "connected"
    /\ IsStreaming(client, "BINARY", c)
    /\ Asked(c)
    /\ client' = SendCommand(client, Command("stop", "BINARY", c))
    /\ UNCHANGED <<maximum, station, frames>>

(* Station.startTalkback() and stopTalkback(), for cameras that are asked  *)
(* with a command.                                                         *)
Talkback(type, c) ==
    /\ IsStreaming(client, "VIDEO", c)
    /\ Asked(c)
    /\ client' = SendCommand(client, Command(type, "VIDEO", c))
    /\ UNCHANGED <<maximum, station, frames>>

----------------------------------------------------------------------------
(* Commands on their way.                                                  *)

(* sendMessage() returns: the command has its effect.                      *)
MessageSent ==
    /\ client.sending # << >>
    /\ client' = EffectOf([client EXCEPT !.sending = Tail(@)], Head(client.sending))
    /\ UNCHANGED <<maximum, station, commands, cameras, frames>>

IsSent(command) == client.sending = << >> \/ "slowSend" \in Faults

(* The station does what the command says and acknowledges it.             *)
ReceiveAck ==
    LET command == client.unacknowledged
    IN  /\ command # NoCommand
        /\ IsSent(command)
        /\ client' = SendQueuedMessage([client EXCEPT
                        !.unacknowledged = NoCommand, !.awaiting = @ \cup {command}])
        /\ station' = CASE command.type = "start" ->
                                [station EXCEPT ![command.datatype] = command.channel]
                        [] command.type = "stop" ->
                                [station EXCEPT ![command.datatype] =
                                    IF @ = command.channel THEN NoChannel ELSE @]
                        [] OTHER -> station
        /\ UNCHANGED <<maximum, commands, cameras, frames>>

(* The retries of a command are used up.                                   *)
GiveUp ==
    LET command == client.unacknowledged
    IN  /\ command # NoCommand
        /\ IsSent(command)
        /\ \/ "deaf" \in Faults
           \/ /\ "unanswered" \in Faults
              /\ command.type = "start"
              /\ station[command.datatype] = NoChannel
        /\ LET ends == /\ command.type = "start"
                       /\ IsStreaming(client, command.datatype, command.channel)
               ended == IF ends THEN EndStream(client, command.datatype, FALSE) ELSE client
           IN  client' = SendQueuedMessage([ended EXCEPT !.unacknowledged = NoCommand])
        /\ UNCHANGED <<maximum, station, commands, cameras, frames>>

(* A result: waitForStreamData() for a command that starts a stream.       *)
Watched(cl, d) == [cl EXCEPT !.stream[d].watchdog = "stop"]

(* startTalkback() *)
TalkbackStarted(cl, c) == [cl EXCEPT !.stream["VIDEO"].talkback = c, !.microphone = TRUE]

(* stopTalkback() *)
TalkbackStopped(cl) ==
    CloseEnergySavingDevice([cl EXCEPT !.stream["VIDEO"].talkback = NoChannel,
                                       !.microphone = FALSE])

(* handleData() for the result of a command.                               *)
ReceiveResult(command, successful) ==
    /\ command \in client.awaiting
    /\ LET answered == SendQueuedMessage([client EXCEPT !.awaiting = @ \ {command},
                                                        !.esdDisconnect = FALSE])
       IN  client' =
             CASE command.type = "start"   -> Watched(answered, command.datatype)
               [] command.type = "talk"    -> IF successful
                                              THEN TalkbackStarted(answered, command.channel)
                                              ELSE answered
               [] command.type = "endTalk" -> TalkbackStopped(answered)
               [] OTHER -> answered
    /\ UNCHANGED <<maximum, station, commands, cameras, frames>>

----------------------------------------------------------------------------
(* Packets of the streams.  The numbering of packets is P2PDataChannel's;  *)
(* here a packet is the one that is expected, or comes early.              *)

(* "livestream error" for a camera: the add-on stops its livestream, if it *)
(* streams (onErrorStationLivestream).                                     *)
LivestreamError(cl, c) ==
    Stopped([cl EXCEPT !.stream["VIDEO"].reports =
                            Append(@, [event |-> "error", channel |-> c])], c)

(* A stream that breaks is reported as a livestream error of the camera    *)
(* its frame is of, also when it is the download.                          *)
AfterFrames(cl, d, s, c) ==
    LET after == [cl EXCEPT !.stream[d] = s]
    IN  IF s.invalidStream /\ ~cl.stream[d].invalidStream
        THEN LivestreamError(after, c)
        ELSE after

(* The expected packet arrives, and what waited for it is worked off, in   *)
(* part if a second packet is missing.                                     *)
ReceiveExpected(d, frame) ==
    /\ client.connection = "connected"
    /\ frame \in NextFrames(client.stream[d])
    /\ frames < MaxFrames
    /\ frames' = frames + 1
    /\ \E c \in Senders(client.stream[d]) :
        LET parsed == Parsed([client.stream[d] EXCEPT !.waitForSeqNo = FALSE], frame)
        IN  \/ /\ ~client.stream[d].queuedData
               /\ client' = AfterFrames(client, d, parsed, c)
            \/ /\ client.stream[d].queuedData
               /\ \E next \in NextFrames(parsed), more \in BOOLEAN :
                     client' = AfterFrames(client, d,
                                           [Parsed(parsed, next) EXCEPT !.queuedData = more], c)
    /\ UNCHANGED <<maximum, station, commands, cameras>>

(* A packet arrives before the one that is expected.                       *)
ReceiveEarly(d) ==
    /\ client.connection = "connected"
    /\ frames < MaxFrames
    /\ frames' = frames + 1
    /\ client' = [client EXCEPT !.stream[d].waitForSeqNo = TRUE,
                                !.stream[d].queuedData = TRUE]
    /\ UNCHANGED <<maximum, station, commands, cameras>>

(* handleDataControl() for CMD_CONVERT_MP4_OK ... *)
ReceiveConverted(c) ==
    /\ "BINARY" \in DataTypes
    /\ client.connection = "connected"
    /\ station["BINARY"] = c
    /\ IsStreaming(client, "BINARY", c) \/ "lateConvert" \in Faults
    /\ client' = [client EXCEPT !.stream["BINARY"].p2pStreaming = TRUE,
                                !.stream["BINARY"].p2pStreamChannel = c]
    /\ UNCHANGED <<maximum, station, commands, cameras, frames>>

(* ... and for CMD_DOWNLOAD_FINISH.                                        *)
ReceiveFinished ==
    /\ "BINARY" \in DataTypes
    /\ client.connection = "connected"
    /\ station["BINARY"] # NoChannel
    /\ station' = [station EXCEPT !["BINARY"] = NoChannel]
    /\ client' = EndStream(client, "BINARY", FALSE)
    /\ UNCHANGED <<maximum, commands, cameras, frames>>

----------------------------------------------------------------------------
(* Timers.                                                                 *)

StartIsOnItsWay(d) ==
    \E command \in client.awaiting \cup {client.unacknowledged} :
        command # NoCommand /\ command.type = "start" /\ command.datatype = d

(* No data for MAX_STREAM_DATA_WAIT.                                       *)
WatchdogFires(d) ==
    LET how == client.stream[d].watchdog
    IN  /\ how # "none"
        /\ how = "quiet" /\ StartIsOnItsWay(d) => "lateStart" \in Faults
        /\ client' = EndStream([client EXCEPT !.stream[d].watchdog = "none"], d, how = "stop")
        /\ UNCHANGED <<maximum, station, commands, cameras, frames>>

(* The missing packet did not come within MAX_EXPECTED_SEQNO_WAIT.         *)
GapTimerFires(d) ==
    /\ client.stream[d].waitForSeqNo
    /\ client' = EndStream([client EXCEPT !.stream[d].waitForSeqNo = FALSE], d, TRUE)
    /\ UNCHANGED <<maximum, station, commands, cameras, frames>>

(* No audio within AUDIO_CODEC_ANALYZE_TIMEOUT.                            *)
AudioTimerFires(d) ==
    /\ client.stream[d].waitForAudioData
    /\ client' = [client EXCEPT !.stream[d] =
                    StartIfReady([@ EXCEPT !.waitForAudioData = FALSE, !.firstAudio = TRUE])]
    /\ UNCHANGED <<maximum, station, commands, cameras, frames>>

(* A stray fires, on the state object of another stream.  A reference to   *)
(* that object's own timer is cleared, and the timer becomes a stray.      *)
Strayed(s, k, field) ==
    [s EXCEPT !.strays[k] = @ - 1 + One(s[field]), ![field] = FALSE]

StrayGapTimer(d) ==
    /\ client.stream[d].strays["gap"] > 0
    /\ LET ended == EndStream([client EXCEPT !.stream[d].strays["gap"] = @ - 1], d, TRUE)
           s     == ended.stream[d]
       IN  client' = [ended EXCEPT !.stream[d] =
                        [s EXCEPT !.strays["gap"] = @ + One(s.waitForSeqNo),
                                  !.waitForSeqNo = FALSE]]
    /\ UNCHANGED <<maximum, station, commands, cameras, frames>>

StrayAudioTimer(d) ==
    /\ client.stream[d].strays["audio"] > 0
    /\ client' = [client EXCEPT !.stream[d] =
            StartIfReady([Strayed(@, "audio", "waitForAudioData")
                            EXCEPT !.firstAudio = TRUE])]
    /\ UNCHANGED <<maximum, station, commands, cameras, frames>>

StrayWatchdog(d) ==
    /\ client.stream[d].strays["watchdog"] > 0
    /\ client' = EndStream([client EXCEPT !.stream[d].strays["watchdog"] = @ - 1], d, TRUE)
    /\ UNCHANGED <<maximum, station, commands, cameras, frames>>

----------------------------------------------------------------------------
(* The connection.                                                         *)

(* onStationClose(): the timers the add-on knows are stopped.              *)
MaximaStopped == [c \in Channels |-> [maximum[c] EXCEPT !.armed = FALSE]]

StationStops == station' = [d \in DataTypes |-> NoChannel]

(* The connection ends: END from the station, no heart-beat.               *)
Disconnect ==
    /\ client.connection = "connected"
    /\ client.sending = << >> \/ "slowSend" \in Faults
    /\ client' = Disconnected(client)
    /\ maximum' = MaximaStopped
    /\ StationStops
    /\ UNCHANGED <<commands, cameras, frames>>

(* An attempt to connect ends without a connection.                        *)
ConnectFails ==
    /\ client.connection = "connecting"
    /\ client' = Disconnected(client)
    /\ UNCHANGED <<maximum, station, commands, cameras, frames>>

(* connect() without a command, by Station or by the user.                 *)
Connect ==
    /\ client.connection = "closed"
    /\ client' = [client EXCEPT !.connection = "connecting"]
    /\ UNCHANGED <<maximum, station, commands, cameras, frames>>

(* CAM_ID: CMD_GATEWAYINFO is sent first, which stops the timer.           *)
Connected ==
    /\ client.connection = "connecting"
    /\ client' = SendQueuedMessage([client EXCEPT !.connection = "connected",
                                                  !.esdDisconnect = FALSE])
    /\ UNCHANGED <<maximum, station, commands, cameras, frames>>

(* The end of scheduleP2PKeepalive().                                      *)
Keepalive ==
    /\ client.connection = "connected"
    /\ client' = CloseEnergySavingDevice(client)
    /\ UNCHANGED <<maximum, station, commands, cameras, frames>>

(* ESD_DISCONNECT_TIMEOUT is over.                                         *)
EnergySavingDisconnect ==
    /\ client.esdDisconnect
    /\ client' = Disconnected(client)
    /\ IF client.connection = "connected"
       THEN maximum' = MaximaStopped /\ StationStops
       ELSE UNCHANGED <<maximum, station>>
    /\ UNCHANGED <<commands, cameras, frames>>

----------------------------------------------------------------------------
Next ==
    \/ \E c \in Channels :
        \/ StartLivestream(c)
        \/ StopLivestream(c)
        \/ MaximumReached(c)
        \/ StrayMaximum(c)
        \/ StartDownload(c)
        \/ CancelDownload(c)
        \/ ReceiveConverted(c)
        \/ \E type \in {"talk", "endTalk"} : Talkback(type, c)
    \/ MessageSent
    \/ ReceiveAck
    \/ GiveUp
    \/ \E command \in client.awaiting, successful \in BOOLEAN :
        ReceiveResult(command, successful)
    \/ ReceiveFinished
    \/ \E d \in DataTypes :
        \/ \E frame \in FrameKinds : ReceiveExpected(d, frame)
        \/ ReceiveEarly(d)
        \/ WatchdogFires(d)
        \/ GapTimerFires(d)
        \/ AudioTimerFires(d)
        \/ StrayGapTimer(d)
        \/ StrayAudioTimer(d)
        \/ StrayWatchdog(d)
    \/ Disconnect
    \/ ConnectFails
    \/ Connect
    \/ Connected
    \/ Keepalive
    \/ EnergySavingDisconnect

Spec == Init /\ [][Next]_vars

(* An awaited sendMessage returns, timers fire (a command is acknowledged  *)
(* or given up), and the result of a command that starts a stream comes    *)
(* within MAX_STREAM_DATA_WAIT, unless "lateStart" says otherwise.         *)
Fairness ==
    /\ WF_vars(\/ MessageSent
               \/ ReceiveAck
               \/ GiveUp
               \/ \E command \in client.awaiting :
                    command.type = "start" /\ ReceiveResult(command, TRUE))
    /\ \A d \in DataTypes : WF_vars(WatchdogFires(d))

FairSpec == Spec /\ Fairness

----------------------------------------------------------------------------
ClientType ==
    [connection : {"closed", "connecting", "connected"},
     stream : [DataTypes -> StreamState],
     sendQueue : Seq(Commands),
     unacknowledged : Commands \cup {NoCommand},
     sending : Seq(Commands),
     awaiting : SUBSET Commands,
     esdDisconnect : BOOLEAN,
     microphone : BOOLEAN]

TypeOK ==
    /\ client \in ClientType
    /\ maximum \in [Channels -> [armed : BOOLEAN, strays : Nat]]
    /\ station \in [DataTypes -> Channels \cup {NoChannel}]
    /\ commands \in 0..MaxCommands
    /\ cameras \subseteq Channels
    /\ frames \in 0..MaxFrames

Phase(s) ==
    CASE ~s.p2pStreaming -> "closed"
      [] s.p2pStreaming /\ s.invalidStream -> "broken"
      [] s.p2pStreaming /\ ~s.invalidStream /\ s.p2pStreamNotStarted -> "requested"
      [] OTHER -> "open"

DownloadIsBroken(cl) == \E d \in DataTypes \ {"VIDEO"} : cl.stream[d].invalidStream

Livestream == INSTANCE MediaStream WITH
    Cameras <- Channels,
    phase   <- Phase(client.stream["VIDEO"]),
    camera  <- client.stream["VIDEO"].p2pStreamChannel,
    reports <- client.stream["VIDEO"].reports,
    downloadIsBroken <- DownloadIsBroken(client)

(* The livestream keeps the promise of MediaStream (endStream,             *)
(* emitStreamStartEvent, the timers that call them, and the errors that    *)
(* handleDataBinaryAndVideo reports of both streams).                      *)
LivestreamIsReported == Livestream!Spec

(* The connection to an energy saving station is not cut while a stream    *)
(* runs, a command waits or is not acknowledged (closeEnergySavingDevice   *)
(* and the places that call _clearESDDisconnectTimeout).                   *)
EnergySavingSparesWork ==
    client.esdDisconnect =>
        /\ client.sendQueue = << >>
        /\ client.unacknowledged = NoCommand
        /\ \A d \in DataTypes : ~client.stream[d].p2pStreaming

(* A camera does not go on filming for nobody: when the client ends a      *)
(* stream of its own accord, because of missing data, a gap or a stray     *)
(* timer, the station is told (endStream with sendStopCommand).  With two  *)
(* cameras it may: a stop ends whatever stream runs (_sendCommand).        *)
Quiet ==
    /\ client.sendQueue = << >>
    /\ client.unacknowledged = NoCommand
    /\ client.sending = << >>
    /\ client.awaiting = {}

OneCamera == \A c, other \in cameras : c = other

NobodyIsFilmedForNothing ==
    Quiet /\ OneCamera /\ station["VIDEO"] # NoChannel =>
        IsStreaming(client, "VIDEO", station["VIDEO"])

(* When the application asks for nothing more and no data comes any more,  *)
(* no stream stays open (waitForStreamData), whoever forgot to end it.     *)
(* (The bounds make both so in the end.)                                   *)
StreamsEnd ==
    (\E d \in DataTypes : client.stream[d].p2pStreaming)
        ~> \A d \in DataTypes : ~client.stream[d].p2pStreaming
=============================================================================
