-------------------------- MODULE LivestreamProofs ---------------------------
(***************************************************************************)
(* Proofs about Livestream for any number of cameras, commands and         *)
(* packets: its types, that it implements MediaStream, that the timer      *)
(* which cuts the connection to a battery station spares work, and that    *)
(* no camera films for nobody.                                             *)
(***************************************************************************)
EXTENDS Livestream, SequenceTheorems, TLAPS

----------------------------------------------------------------------------
(* The state object of one stream.                                         *)

(* What is known of it: only a stream that runs has a camera, is started,  *)
(* broken or has had a frame.                                              *)
StreamInv(s) ==
    /\ s \in StreamState
    /\ s.p2pStreaming <=> s.p2pStreamChannel # NoChannel
    /\ ~s.p2pStreaming => ~s.firstVideo /\ s.p2pStreamNotStarted /\ ~s.invalidStream
    /\ ~s.p2pStreamNotStarted => s.firstVideo

(* What MediaStream is told of it, and the first frame, are the same.      *)
Alike(s, t) ==
    /\ t.p2pStreaming = s.p2pStreaming
    /\ t.p2pStreamChannel = s.p2pStreamChannel
    /\ t.p2pStreamNotStarted = s.p2pStreamNotStarted
    /\ t.invalidStream = s.invalidStream
    /\ t.firstVideo = s.firstVideo
    /\ t.reports = s.reports

LEMMA AlikeKeepsInv ==
    ASSUME NEW s, NEW t \in StreamState, StreamInv(s), Alike(s, t)
    PROVE  StreamInv(t)
BY DEF StreamInv, Alike

LEMMA NewStreamOK ==
    /\ NewStream \in StreamState
    /\ ~NewStream.p2pStreaming /\ NewStream.p2pStreamNotStarted
    /\ ~NewStream.invalidStream /\ ~NewStream.firstVideo
    /\ NewStream.talkback = NoChannel
    /\ NewStream.p2pStreamChannel = NoChannel
<1>1. [k \in StrayKinds |-> 0] \in [StrayKinds -> Nat]
  OBVIOUS
<1>2. << >> \in Seq(Report)
  OBVIOUS
<1> QED
  BY <1>1, <1>2 DEF NewStream, StreamState

LEMMA ReplacedOK ==
    ASSUME NEW s \in StreamState
    PROVE  /\ StreamInv(Replaced(s))
           /\ ~Replaced(s).p2pStreaming /\ Replaced(s).p2pStreamNotStarted
           /\ ~Replaced(s).invalidStream /\ ~Replaced(s).firstVideo
           /\ Replaced(s).talkback = NoChannel
           /\ Replaced(s).reports = s.reports
<1> DEFINE strays == [k \in StrayKinds |->
                s.strays[k] + One(CASE k = "gap"   -> s.waitForSeqNo
                                    [] k = "audio" -> s.waitForAudioData
                                    [] OTHER       -> s.watchdog # "none")]
<1>1. strays \in [StrayKinds -> Nat]
  <2>1. \A b : One(b) \in Nat
    BY DEF One
  <2>2. \A k \in StrayKinds : s.strays[k] \in Nat
    BY DEF StreamState
  <2> QED
    BY <2>1, <2>2
<1>2. Replaced(s) = [NewStream EXCEPT !.reports = s.reports, !.strays = strays]
  BY DEF Replaced
<1> HIDE DEF strays
<1>3. s.reports \in Seq(Report)
  BY DEF StreamState
<1>4. Replaced(s) \in StreamState
  BY <1>1, <1>2, <1>3, NewStreamOK DEF StreamState
<1>5. /\ ~Replaced(s).p2pStreaming /\ Replaced(s).p2pStreamNotStarted
      /\ ~Replaced(s).invalidStream /\ ~Replaced(s).firstVideo
      /\ Replaced(s).talkback = NoChannel /\ Replaced(s).p2pStreamChannel = NoChannel
      /\ Replaced(s).reports = s.reports
  BY <1>2, NewStreamOK DEF StreamState
<1> QED
  BY <1>4, <1>5 DEF StreamInv

(* What was told when this is told, too. *)
Told(s, what) == Append(s.reports, [event |-> what, channel |-> s.p2pStreamChannel])

LEMMA EmitOK ==
    ASSUME NEW s \in StreamState, s.p2pStreamChannel \in Channels,
           NEW what \in {"started", "stopped", "error"}
    PROVE  /\ Emit(s, what) \in StreamState
           /\ Emit(s, what) = [s EXCEPT !.reports = Told(s, what)]
           /\ Emit(s, what).reports = Told(s, what)
<1>1. [event |-> what, channel |-> s.p2pStreamChannel] \in Report
  BY DEF Report
<1>2. Told(s, what) \in Seq(Report)
  BY <1>1 DEF StreamState, Told
<1>3. Emit(s, what) = [s EXCEPT !.reports = Told(s, what)]
  BY DEF Emit, Told, StreamState
<1> QED
  BY <1>2, <1>3 DEF StreamState

(* Steps of one stream that MediaStream allows.                            *)
Goodbye(s) == IF Phase(s) = "open" THEN Told(s, "stopped") ELSE s.reports

Moves(s, t) ==
    \/ /\ Phase(t) = Phase(s)
       /\ t.p2pStreamChannel = s.p2pStreamChannel
       /\ t.reports = s.reports
    \/ /\ Phase(s) = "closed" /\ Phase(t) = "requested"
       /\ t.p2pStreamChannel \in Channels
       /\ t.reports = s.reports
    \/ /\ Phase(s) = "requested" /\ Phase(t) = "open"
       /\ t.p2pStreamChannel = s.p2pStreamChannel
       /\ t.reports = Told(s, "started")
    \/ /\ Phase(s) \in {"requested", "open"} /\ Phase(t) = "broken"
       /\ t.p2pStreamChannel = s.p2pStreamChannel
       /\ t.reports = Told(s, "error")
    \/ /\ Phase(s) # "closed" /\ Phase(t) = "closed"
       /\ t.reports = Goodbye(s)
    \/ /\ Phase(s) # "closed" /\ Phase(t) = "requested"
       /\ t.p2pStreamChannel \in Channels
       /\ t.reports = Goodbye(s)

LEMMA PhaseIs ==
    ASSUME NEW s \in StreamState
    PROVE  /\ Phase(s) = "closed" <=> ~s.p2pStreaming
           /\ Phase(s) = "broken" <=> s.p2pStreaming /\ s.invalidStream
           /\ Phase(s) = "requested" <=>
                s.p2pStreaming /\ ~s.invalidStream /\ s.p2pStreamNotStarted
           /\ Phase(s) = "open" <=>
                s.p2pStreaming /\ ~s.invalidStream /\ ~s.p2pStreamNotStarted
<1>1. CASE ~s.p2pStreaming
  BY <1>1 DEF Phase
<1>2. CASE s.p2pStreaming /\ s.invalidStream
  BY <1>2 DEF Phase
<1>3. CASE s.p2pStreaming /\ ~s.invalidStream /\ s.p2pStreamNotStarted
  BY <1>3 DEF Phase
<1>4. CASE s.p2pStreaming /\ ~s.invalidStream /\ ~s.p2pStreamNotStarted
  BY <1>4 DEF Phase
<1> QED
  BY <1>1, <1>2, <1>3, <1>4

LEMMA AlikeMoves ==
    ASSUME NEW s, NEW t, Alike(s, t)
    PROVE  Moves(s, t)
BY DEF Alike, Moves, Phase

LEMMA EndedOK ==
    ASSUME NEW s, StreamInv(s)
    PROVE  /\ StreamInv(Ended(s))
           /\ ~Ended(s).p2pStreaming
           /\ ~s.p2pStreaming => Ended(s) = s
           /\ s.p2pStreaming => /\ Ended(s).reports = Goodbye(s)
                                /\ Ended(s).talkback = NoChannel
<1>1. CASE ~s.p2pStreaming
  BY <1>1 DEF Ended
<1>2. CASE s.p2pStreaming
  <2> DEFINE e == IF IsReportedAsOpen(s) THEN Emit(s, "stopped") ELSE s
             f == [e EXCEPT !.watchdog = "none"]
  <2>1. s \in StreamState /\ s.p2pStreamChannel \in Channels
    BY <1>2 DEF StreamInv, StreamState
  <2>2. e \in StreamState
    BY <2>1, EmitOK
  <2>3. e.reports = Goodbye(s)
    <3>1. IsReportedAsOpen(s) <=> Phase(s) = "open"
      <4>1. CASE IsReportedAsOpen(s)
        BY <1>2, <4>1, PhaseIs, <2>1 DEF IsReportedAsOpen
      <4>2. CASE ~IsReportedAsOpen(s)
        BY <1>2, <4>2, PhaseIs, <2>1 DEF IsReportedAsOpen
      <4> QED
        BY <4>1, <4>2
    <3>2. CASE IsReportedAsOpen(s)
      <4>1. Emit(s, "stopped").reports = Told(s, "stopped")
        BY <2>1, EmitOK
      <4> QED
        BY <3>1, <3>2, <4>1 DEF Goodbye
    <3>3. CASE ~IsReportedAsOpen(s)
      BY <3>1, <3>3 DEF Goodbye
    <3> QED
      BY <3>2, <3>3
  <2> HIDE DEF e
  <2>4. f \in StreamState /\ f.reports = e.reports
    BY <2>2 DEF StreamState
  <2>5. Ended(s) = Replaced(f)
    BY <1>2 DEF Ended, e
  <2> HIDE DEF f
  <2> QED
    BY <1>2, <2>3, <2>4, <2>5, ReplacedOK
<1> QED
  BY <1>1, <1>2

LEMMA EndedMoves ==
    ASSUME NEW s, StreamInv(s)
    PROVE  Moves(s, Ended(s))
<1>1. CASE ~s.p2pStreaming
  BY <1>1, EndedOK DEF Moves
<1>2. CASE s.p2pStreaming
  <2>1. Phase(Ended(s)) = "closed"
    BY EndedOK DEF Phase
  <2>2. Phase(s) # "closed"
    BY <1>2 DEF Phase, StreamInv, StreamState
  <2> QED
    BY <1>2, <2>1, <2>2, EndedOK DEF Moves
<1> QED
  BY <1>1, <1>2

LEMMA DroppedMoves ==
    ASSUME NEW s, StreamInv(s)
    PROVE  /\ StreamInv(Replaced(Ended(s)))
           /\ Phase(Replaced(Ended(s))) = "closed"
           /\ Moves(s, Replaced(Ended(s)))
<1>1. Ended(s) \in StreamState
  BY EndedOK DEF StreamInv
<1>2. Phase(Replaced(Ended(s))) = "closed"
  BY <1>1, ReplacedOK DEF Phase
<1>3. CASE ~s.p2pStreaming
  <2>1. Ended(s) = s /\ Phase(s) = "closed" /\ s.p2pStreamChannel = NoChannel
    BY <1>3, EndedOK, PhaseIs DEF StreamInv
  <2>2. Replaced(Ended(s)).p2pStreamChannel = NoChannel
    BY <1>1, ReplacedOK DEF StreamInv
  <2> QED
    BY <1>1, <1>2, <2>1, <2>2, ReplacedOK DEF Moves
<1>4. CASE s.p2pStreaming
  <2>1. Phase(s) # "closed"
    BY <1>4, PhaseIs DEF StreamInv
  <2> QED
    BY <1>1, <1>2, <1>4, <2>1, EndedOK, ReplacedOK DEF Moves
<1> QED
  BY <1>1, <1>2, <1>3, <1>4, ReplacedOK

(* A stream is asked for: _sendCommand. *)
Started(s, c) ==
    [(IF s.p2pStreaming /\ s.p2pStreamChannel # c THEN Ended(s) ELSE s)
        EXCEPT !.p2pStreaming = TRUE, !.p2pStreamChannel = c, !.watchdog = "quiet"]

LEMMA StartedOK ==
    ASSUME NEW s, StreamInv(s), NEW c \in Channels
    PROVE  /\ StreamInv(Started(s, c))
           /\ Started(s, c).p2pStreaming
           /\ Moves(s, Started(s, c))
<1> USE StreamAssumption
<1>1. c # NoChannel
  OBVIOUS
<1>2. CASE s.p2pStreaming /\ s.p2pStreamChannel # c
  <2> DEFINE t == Started(s, c)
  <2>1. t = [Ended(s) EXCEPT !.p2pStreaming = TRUE, !.p2pStreamChannel = c, !.watchdog = "quiet"]
    BY <1>2 DEF Started
  <2>2. StreamInv(Ended(s)) /\ ~Ended(s).p2pStreaming /\ Ended(s).reports = Goodbye(s)
    BY <1>2, EndedOK
  <2>3. t \in StreamState /\ t.p2pStreaming /\ t.p2pStreamChannel = c
        /\ t.p2pStreamNotStarted /\ ~t.invalidStream /\ ~t.firstVideo
        /\ t.reports = Goodbye(s)
    BY <2>1, <2>2 DEF StreamInv, StreamState
  <2>4. Phase(t) = "requested" /\ Phase(s) # "closed"
    BY <1>2, <2>3, PhaseIs DEF StreamInv
  <2> HIDE DEF t
  <2>5. StreamInv(t) /\ Moves(s, t)
    BY <1>1, <2>3, <2>4 DEF StreamInv, Moves
  <2> QED
    BY <2>3, <2>5 DEF t
<1>3. CASE ~(s.p2pStreaming /\ s.p2pStreamChannel # c)
  <2> DEFINE t == Started(s, c)
  <2>1. t = [s EXCEPT !.p2pStreaming = TRUE, !.p2pStreamChannel = c, !.watchdog = "quiet"]
    BY <1>3 DEF Started
  <2>2. t \in StreamState /\ t.p2pStreaming /\ t.p2pStreamChannel = c
        /\ t.p2pStreamNotStarted = s.p2pStreamNotStarted /\ t.invalidStream = s.invalidStream
        /\ t.firstVideo = s.firstVideo /\ t.reports = s.reports
    BY <2>1 DEF StreamInv, StreamState
  <2> HIDE DEF t
  <2>3. StreamInv(t)
    BY <1>1, <2>2 DEF StreamInv
  <2>4. Moves(s, t)
    <3>1. CASE s.p2pStreaming
      <4>1. Alike(s, t)
        BY <1>3, <2>2, <3>1 DEF Alike, StreamInv, StreamState
      <4> QED
        BY <4>1, AlikeMoves
    <3>2. CASE ~s.p2pStreaming
      <4>1. Phase(s) = "closed" /\ Phase(t) = "requested"
        BY <2>2, <3>2, PhaseIs DEF StreamInv
      <4> QED
        BY <2>2, <4>1 DEF Moves
    <3> QED
      BY <3>1, <3>2
  <2> QED
    BY <2>2, <2>3, <2>4 DEF t
<1> QED
  BY <1>2, <1>3

----------------------------------------------------------------------------
(* Frames. *)

(* MediaStream is told nothing. *)
Still(s, t) ==
    /\ Phase(t) = Phase(s)
    /\ t.p2pStreamChannel = s.p2pStreamChannel
    /\ t.reports = s.reports

LEMMA StillAndMoves ==
    ASSUME NEW s, NEW t, NEW u
    PROVE  /\ Still(s, t) => Moves(s, t)
           /\ Still(s, t) /\ Moves(t, u) => Moves(s, u)
           /\ Moves(s, t) /\ Still(t, u) => Moves(s, u)
           /\ Still(s, t) /\ Still(t, u) => Still(s, u)
BY DEF Still, Moves, Goodbye, Told

(* A stream breaks with its first frame, if at all: "badLater" is excluded. *)
BreaksFirst(s) == s.invalidStream => ~s.firstVideo

LEMMA StartIfReadyOK ==
    ASSUME NEW s, StreamInv(s)
    PROVE  /\ StreamInv(StartIfReady(s))
           /\ StartIfReady(s).p2pStreaming = s.p2pStreaming
           /\ StartIfReady(s).talkback = s.talkback
           /\ StartIfReady(s).invalidStream = s.invalidStream
           /\ BreaksFirst(s) =>
                /\ BreaksFirst(StartIfReady(s))
                /\ Moves(s, StartIfReady(s))
                /\ ~s.firstVideo \/ Phase(s) # "requested" => Still(s, StartIfReady(s))
                /\ Phase(s) = "requested" => Phase(StartIfReady(s)) \in {"requested", "open"}
                /\ Phase(StartIfReady(s)) = "requested" => Still(s, StartIfReady(s))
<1>1. CASE ~(s.p2pStreamNotStarted /\ s.firstVideo /\ s.firstAudio)
  BY <1>1 DEF StartIfReady, Still, Moves
<1>2. CASE s.p2pStreamNotStarted /\ s.firstVideo /\ s.firstAudio
  <2> DEFINE r == [s EXCEPT !.p2pStreamNotStarted = FALSE]
             t == StartIfReady(s)
  <2>1. s \in StreamState /\ s.p2pStreaming /\ s.p2pStreamChannel \in Channels
    BY <1>2 DEF StreamInv, StreamState
  <2>2. r \in StreamState /\ r.p2pStreamChannel = s.p2pStreamChannel /\ r.reports = s.reports
    BY <2>1 DEF StreamState
  <2>3. t = [r EXCEPT !.reports = Told(r, "started")]
    BY <1>2, <2>1, <2>2, EmitOK DEF StartIfReady
  <2>4. Told(r, "started") = Told(s, "started")
    BY <2>2 DEF Told
  <2>5. t \in StreamState
    BY <1>2, <2>1, <2>2, EmitOK DEF StartIfReady
  <2>6. /\ t.p2pStreaming = s.p2pStreaming /\ t.p2pStreamChannel = s.p2pStreamChannel
        /\ ~t.p2pStreamNotStarted /\ t.invalidStream = s.invalidStream
        /\ t.firstVideo = s.firstVideo /\ t.talkback = s.talkback
        /\ t.reports = Told(s, "started")
    BY <2>1, <2>3, <2>4 DEF StreamState
  <2> HIDE DEF t
  <2>7. StreamInv(t)
    BY <1>2, <2>1, <2>5, <2>6 DEF StreamInv
  <2>8. ASSUME BreaksFirst(s)
        PROVE  BreaksFirst(t) /\ Phase(s) = "requested" /\ Phase(t) = "open" /\ Moves(s, t)
    <3>1. ~s.invalidStream
      BY <1>2, <2>8 DEF BreaksFirst
    <3>2. Phase(s) = "requested" /\ Phase(t) = "open"
      BY <1>2, <2>1, <2>5, <2>6, <3>1, PhaseIs
    <3> QED
      BY <2>6, <3>1, <3>2 DEF BreaksFirst, Moves
  <2> QED
    BY <1>2, <2>6, <2>7, <2>8 DEF t
<1> QED
  BY <1>1, <1>2

(* A frame breaks a stream that was asked for; the receiver is told later. *)
Breaks(s, t) ==
    /\ Phase(s) = "requested" /\ Phase(t) = "broken"
    /\ t.p2pStreamChannel = s.p2pStreamChannel
    /\ t.reports = s.reports

Parses(s, t) ==
    \/ Moves(s, t) /\ t.invalidStream = s.invalidStream
    \/ Breaks(s, t)

(* What the frames do before the stream may be reported as started.        *)
LEMMA ParsedOK ==
    ASSUME NEW s, StreamInv(s), NEW frame \in FrameKinds
    PROVE  /\ StreamInv(Parsed(s, frame))
           /\ Parsed(s, frame).p2pStreaming = s.p2pStreaming
           /\ Parsed(s, frame).talkback = s.talkback
           /\ Parsed(s, frame).p2pStreamChannel = s.p2pStreamChannel
           /\ BreaksFirst(s) /\ frame \in NextFrames(s) /\ "badLater" \notin Faults =>
                /\ BreaksFirst(Parsed(s, frame))
                /\ Parses(s, Parsed(s, frame))
                /\ Phase(s) # "requested" \/ Phase(Parsed(s, frame)) = "requested"
                        => Still(s, Parsed(s, frame))
<1> DEFINE p == Parsed(s, frame)
<1>1. CASE ~s.p2pStreaming \/ s.invalidStream
  BY <1>1 DEF Parsed, Still, Moves, Parses
<1>2. CASE s.p2pStreaming /\ ~s.invalidStream
  <2>1. s \in StreamState /\ s.p2pStreamChannel \in Channels
    BY <1>2 DEF StreamInv, StreamState
  <2>2. ASSUME NEW r, Alike([s EXCEPT !.firstVideo = r.firstVideo], r), r \in StreamState,
               s.firstVideo => r.firstVideo, r.talkback = s.talkback, p = StartIfReady(r)
        PROVE  /\ StreamInv(p) /\ p.p2pStreaming = s.p2pStreaming /\ p.talkback = s.talkback
               /\ p.p2pStreamChannel = s.p2pStreamChannel
               /\ BreaksFirst(p) /\ Parses(s, p)
               /\ Phase(s) # "requested" \/ Phase(p) = "requested" => Still(s, p)
    <3>1. /\ r.p2pStreaming = s.p2pStreaming
          /\ r.p2pStreamChannel = s.p2pStreamChannel
          /\ r.p2pStreamNotStarted = s.p2pStreamNotStarted
          /\ r.invalidStream = s.invalidStream
          /\ r.reports = s.reports
      BY <2>1, <2>2 DEF Alike, StreamState
    <3>2. StreamInv(r)
      BY <1>2, <2>2, <3>1 DEF StreamInv
    <3>3. Still(s, r) /\ BreaksFirst(r)
      BY <1>2, <3>1 DEF Still, Phase, BreaksFirst
    <3>4. /\ BreaksFirst(p) /\ Moves(r, p)
          /\ Phase(r) # "requested" \/ Phase(p) = "requested" => Still(r, p)
      BY <2>2, <3>2, <3>3, StartIfReadyOK
    <3>5. Moves(s, p) /\ (Phase(s) # "requested" \/ Phase(p) = "requested" => Still(s, p))
      <4>1. Phase(r) = Phase(s)
        BY <3>3 DEF Still
      <4>2. Moves(s, p)
        BY <3>3, <3>4, StillAndMoves
      <4>3. Still(r, p) => Still(s, p)
        BY <3>3, StillAndMoves
      <4> QED
        BY <3>4, <4>1, <4>2, <4>3
    <3>6. p.p2pStreamChannel = s.p2pStreamChannel
      <4>1. Phase(r) \in {"requested", "open"}
        BY <1>2, <2>2, <3>1, PhaseIs
      <4>2. Phase(p) \in {"requested", "open"}
        BY <2>2, <3>2, <3>3, <3>4, <4>1, StartIfReadyOK DEF Still
      <4> QED
        BY <3>1, <3>4, <4>1, <4>2 DEF Moves, Still
    <3>7. p.invalidStream = s.invalidStream
      BY <2>2, <3>1, <3>2, StartIfReadyOK
    <3> QED
      BY <2>2, <3>1, <3>2, <3>4, <3>5, <3>6, <3>7, StartIfReadyOK DEF Parses
  <2>3. CASE frame = "video"
    <3> DEFINE r == [s EXCEPT !.watchdog = "stop", !.firstVideo = TRUE,
                       !.waitForAudioData = @ \/ (~s.firstVideo /\ ~s.firstAudio)]
    <3>1. p = StartIfReady(r)
      BY <1>2, <2>3 DEF Parsed, VideoFrame
    <3>2. r \in StreamState /\ Alike([s EXCEPT !.firstVideo = r.firstVideo], r)
          /\ r.firstVideo /\ r.talkback = s.talkback
      BY <2>1 DEF StreamState, Alike
    <3> HIDE DEF r, p
    <3> QED
      BY <2>2, <3>1, <3>2 DEF p
  <2>4. CASE frame = "audio"
    <3> DEFINE r == [s EXCEPT !.watchdog = "stop", !.firstAudio = TRUE, !.waitForAudioData = FALSE]
    <3>1. p = StartIfReady(r)
      BY <1>2, <2>4 DEF Parsed, AudioFrame
    <3>2. r \in StreamState /\ Alike([s EXCEPT !.firstVideo = r.firstVideo], r)
          /\ r.firstVideo = s.firstVideo /\ r.talkback = s.talkback
      BY <2>1 DEF StreamState, Alike
    <3> HIDE DEF r, p
    <3> QED
      BY <2>2, <3>1, <3>2 DEF p
  <2>5. CASE frame = "bad"
    <3>1. p = [s EXCEPT !.watchdog = "stop", !.invalidStream = TRUE]
      BY <1>2, <2>5 DEF Parsed, BadFrame
    <3>3. p \in StreamState
      BY <2>1, <3>1 DEF StreamState
    <3>4. /\ p.p2pStreaming = s.p2pStreaming /\ p.p2pStreamChannel = s.p2pStreamChannel
          /\ p.p2pStreamNotStarted = s.p2pStreamNotStarted /\ p.invalidStream
          /\ p.firstVideo = s.firstVideo /\ p.talkback = s.talkback
          /\ p.reports = s.reports
      BY <2>1, <3>1 DEF StreamState
    <3> HIDE DEF p
    <3>5. StreamInv(p)
      BY <1>2, <3>3, <3>4 DEF StreamInv
    <3>6. ASSUME frame \in NextFrames(s), "badLater" \notin Faults
          PROVE  /\ BreaksFirst(p) /\ Breaks(s, p)
                 /\ Phase(s) = "requested" /\ Phase(p) # "requested"
      <4>1. ~s.firstVideo /\ s.p2pStreamNotStarted
        BY <2>5, <3>6 DEF NextFrames, StreamInv
      <4>2. Phase(s) = "requested" /\ Phase(p) = "broken"
        BY <1>2, <2>1, <3>3, <3>4, <4>1, PhaseIs
      <4> QED
        BY <3>4, <4>1, <4>2 DEF BreaksFirst, Breaks
    <3> QED
      BY <3>4, <3>5, <3>6 DEF p, Parses
  <2> QED
    BY <2>3, <2>4, <2>5 DEF FrameKinds
<1> QED
  BY <1>1, <1>2

----------------------------------------------------------------------------
(* The session. *)

ClientOK(cl) == cl \in ClientType /\ \A d \in DataTypes : StreamInv(cl.stream[d])

(* EnergySavingSparesWork of a session. *)
Spares(cl) ==
    cl.esdDisconnect =>
        /\ cl.sendQueue = << >>
        /\ cl.unacknowledged = NoCommand
        /\ \A d \in DataTypes : ~cl.stream[d].p2pStreaming

(* What is being sent was not acknowledged yet, and the connection is there. *)
SendsOne(cl) ==
    cl.sending # << >> => cl.unacknowledged # NoCommand /\ cl.connection = "connected"

(* The fields that have to do with sending are the same.                   *)
SameWork(cl, r) ==
    /\ r.connection = cl.connection
    /\ r.sendQueue = cl.sendQueue
    /\ r.unacknowledged = cl.unacknowledged
    /\ r.sending = cl.sending

LEMMA OneFieldChanges ==
    ASSUME NEW cl \in ClientType
    PROVE  /\ \A b \in BOOLEAN :
                LET r == [cl EXCEPT !.esdDisconnect = b]
                IN  r \in ClientType /\ r.stream = cl.stream /\ SameWork(cl, r)
                    /\ r.esdDisconnect = b /\ r.awaiting = cl.awaiting
           /\ \A f \in [DataTypes -> StreamState] :
                LET r == [cl EXCEPT !.stream = f]
                IN  r \in ClientType /\ r.stream = f /\ SameWork(cl, r)
                    /\ r.esdDisconnect = cl.esdDisconnect /\ r.awaiting = cl.awaiting
BY DEF ClientType, SameWork

(* One stream changes. *)
WithStream(cl, d, s) == [cl EXCEPT !.stream[d] = s]

LEMMA OneStreamChanges ==
    ASSUME NEW cl, ClientOK(cl), NEW d \in DataTypes, NEW s, StreamInv(s)
    PROVE  LET r == WithStream(cl, d, s)
           IN  /\ ClientOK(r)
               /\ r.stream = [cl.stream EXCEPT ![d] = s]
               /\ r.stream[d] = s
               /\ \A e \in DataTypes \ {d} : r.stream[e] = cl.stream[e]
               /\ SameWork(cl, r)
               /\ r.esdDisconnect = cl.esdDisconnect
               /\ r.awaiting = cl.awaiting
<1> DEFINE r == WithStream(cl, d, s)
           f == [cl.stream EXCEPT ![d] = s]
<1>1. cl \in ClientType /\ cl.stream \in [DataTypes -> StreamState]
  BY DEF ClientOK, ClientType
<1>2. f \in [DataTypes -> StreamState] /\ f[d] = s
      /\ \A e \in DataTypes \ {d} : f[e] = cl.stream[e]
  BY <1>1 DEF StreamInv
<1>3. r = [cl EXCEPT !.stream = f]
  BY <1>1 DEF ClientType, WithStream
<1> HIDE DEF f, r
<1>4. r \in ClientType /\ r.stream = f /\ SameWork(cl, r)
      /\ r.esdDisconnect = cl.esdDisconnect /\ r.awaiting = cl.awaiting
  BY <1>1, <1>2, <1>3, OneFieldChanges
<1>5. ClientOK(r)
  BY <1>2, <1>4 DEF ClientOK
<1> QED
  BY <1>2, <1>4, <1>5 DEF f, r

LEMMA CloseEnergySavingDeviceOK ==
    ASSUME NEW cl, ClientOK(cl)
    PROVE  LET r == CloseEnergySavingDevice(cl)
           IN  /\ ClientOK(r) /\ r.stream = cl.stream /\ SameWork(cl, r)
               /\ r.awaiting = cl.awaiting
               /\ Spares(cl) => Spares(r)
<1> DEFINE r == CloseEnergySavingDevice(cl)
<1>1. CASE ~(cl.sendQueue = << >> /\ cl.unacknowledged = NoCommand /\ ~IsCurrentlyStreaming(cl))
  BY <1>1 DEF CloseEnergySavingDevice, SameWork
<1>2. CASE cl.sendQueue = << >> /\ cl.unacknowledged = NoCommand /\ ~IsCurrentlyStreaming(cl)
  <2>1. r = [cl EXCEPT !.esdDisconnect = TRUE]
    BY <1>2 DEF CloseEnergySavingDevice
  <2> HIDE DEF r
  <2>2. r \in ClientType /\ r.stream = cl.stream /\ SameWork(cl, r) /\ r.awaiting = cl.awaiting
    BY <2>1 DEF ClientOK, ClientType, SameWork
  <2>3. ClientOK(r)
    BY <2>2 DEF ClientOK
  <2>4. \A d \in DataTypes : ~cl.stream[d].p2pStreaming
    BY <1>2 DEF IsCurrentlyStreaming
  <2>5. Spares(r)
    BY <1>2, <2>2, <2>4 DEF Spares, SameWork
  <2> QED
    BY <2>2, <2>3, <2>5 DEF r
<1> QED
  BY <1>1, <1>2

LEMMA SendQueuedMessageOK ==
    ASSUME NEW cl, ClientOK(cl)
    PROVE  LET r == SendQueuedMessage(cl)
           IN  /\ ClientOK(r) /\ r.stream = cl.stream
               /\ r.awaiting = cl.awaiting
               /\ Spares(cl) => Spares(r)
               /\ SendsOne(cl) => SendsOne(r)
<1>1. ASSUME NEW r, ClientOK(r), r.stream = cl.stream, r.awaiting = cl.awaiting,
             Spares(cl) => Spares(r), SendsOne(cl) => SendsOne(r),
             SendQueuedMessage(cl) = CloseEnergySavingDevice(r)
      PROVE  LET q == SendQueuedMessage(cl)
             IN  /\ ClientOK(q) /\ q.stream = cl.stream
                 /\ q.awaiting = cl.awaiting
                 /\ Spares(cl) => Spares(q)
                 /\ SendsOne(cl) => SendsOne(q)
  BY <1>1, CloseEnergySavingDeviceOK DEF SendsOne, SameWork
<1>2. CASE cl.sendQueue = << >>
  BY <1>1, <1>2 DEF SendQueuedMessage
<1>3. CASE cl.sendQueue # << >> /\ cl.connection = "connected" /\ cl.unacknowledged = NoCommand
  <2> DEFINE h == Head(cl.sendQueue)
             r == [cl EXCEPT !.sendQueue = Tail(@), !.unacknowledged = h,
                             !.sending = Append(@, h)]
  <2>1. cl.sendQueue \in Seq(Commands) /\ cl.sending \in Seq(Commands) /\ cl \in ClientType
    BY DEF ClientOK, ClientType
  <2>2. h \in Commands /\ Tail(cl.sendQueue) \in Seq(Commands)
    BY <1>3, <2>1, HeadTailProperties
  <2>3. Append(cl.sending, h) \in Seq(Commands)
    BY <2>1, <2>2
  <2>4. r = [cl EXCEPT !.sendQueue = Tail(cl.sendQueue), !.unacknowledged = h,
                       !.sending = Append(cl.sending, h)]
    BY <2>1 DEF ClientType
  <2> HIDE DEF h
  <2>5. /\ r \in ClientType /\ r.stream = cl.stream /\ r.awaiting = cl.awaiting
        /\ r.unacknowledged = h /\ r.connection = cl.connection
        /\ r.esdDisconnect = cl.esdDisconnect
    BY <2>1, <2>2, <2>3, <2>4 DEF ClientType
  <2>6. SendQueuedMessage(cl) = CloseEnergySavingDevice(r)
    BY <1>3 DEF SendQueuedMessage, h
  <2> HIDE DEF r
  <2>7. ClientOK(r)
    BY <2>5 DEF ClientOK
  <2>8. h # NoCommand
    BY <2>2, CommandAssumption
  <2>9. SendsOne(r) /\ (Spares(cl) => Spares(r))
    BY <1>3, <2>5, <2>8 DEF SendsOne, Spares
  <2> QED
    BY <1>1, <2>5, <2>6, <2>7, <2>9
<1>4. CASE cl.sendQueue # << >> /\ cl.connection = "closed"
  <2> DEFINE r == [cl EXCEPT !.connection = "connecting"]
  <2>1. /\ r \in ClientType /\ r.stream = cl.stream /\ r.awaiting = cl.awaiting
        /\ r.sending = cl.sending /\ r.unacknowledged = cl.unacknowledged
        /\ r.sendQueue = cl.sendQueue /\ r.esdDisconnect = cl.esdDisconnect
    BY DEF ClientOK, ClientType
  <2>2. SendQueuedMessage(cl) = CloseEnergySavingDevice(r)
    BY <1>4 DEF SendQueuedMessage
  <2> HIDE DEF r
  <2>3. ClientOK(r)
    BY <2>1 DEF ClientOK
  <2>4. (SendsOne(cl) => SendsOne(r)) /\ (Spares(cl) => Spares(r))
    BY <1>4, <2>1 DEF SendsOne, Spares
  <2> QED
    BY <1>1, <2>1, <2>2, <2>3, <2>4
<1>5. CASE /\ cl.sendQueue # << >> /\ cl.connection # "closed"
           /\ ~(cl.connection = "connected" /\ cl.unacknowledged = NoCommand)
  <2>1. SendQueuedMessage(cl) = CloseEnergySavingDevice(cl)
    BY <1>5 DEF SendQueuedMessage
  <2> QED
    BY <1>1, <2>1
<1> QED
  BY <1>2, <1>3, <1>4, <1>5

LEMMA SendCommandOK ==
    ASSUME NEW cl, ClientOK(cl), NEW command \in Commands
    PROVE  LET r == SendCommand(cl, command)
           IN  /\ ClientOK(r) /\ r.stream = cl.stream /\ r.awaiting = cl.awaiting
               /\ Spares(r)
               /\ SendsOne(cl) => SendsOne(r)
<1> DEFINE q == [cl EXCEPT !.sendQueue = Append(@, command), !.esdDisconnect = FALSE]
<1>1. cl \in ClientType /\ Append(cl.sendQueue, command) \in Seq(Commands)
  BY DEF ClientOK, ClientType
<1>2. /\ q \in ClientType /\ q.stream = cl.stream /\ q.awaiting = cl.awaiting
      /\ q.sending = cl.sending /\ q.unacknowledged = cl.unacknowledged
      /\ q.connection = cl.connection /\ ~q.esdDisconnect
  BY <1>1 DEF ClientType
<1>3. SendCommand(cl, command) = SendQueuedMessage(q)
  BY DEF SendCommand
<1> HIDE DEF q
<1>4. ClientOK(q) /\ Spares(q) /\ (SendsOne(cl) => SendsOne(q))
  BY <1>2 DEF ClientOK, Spares, SendsOne
<1> QED
  BY <1>2, <1>3, <1>4, SendQueuedMessageOK

LEMMA EndStreamOK ==
    ASSUME NEW cl, ClientOK(cl), NEW d \in DataTypes, NEW stop \in BOOLEAN
    PROVE  LET r == EndStream(cl, d, stop)
           IN  /\ ClientOK(r)
               /\ r.stream = [cl.stream EXCEPT ![d] = Ended(cl.stream[d])]
               /\ r.awaiting = cl.awaiting
               /\ Spares(cl) => Spares(r)
               /\ SendsOne(cl) => SendsOne(r)
               /\ ~stop => SameWork(cl, r)
<1> DEFINE s == cl.stream[d]
           r == EndStream(cl, d, stop)
<1>1. StreamInv(s) /\ cl.stream \in [DataTypes -> StreamState]
  BY DEF ClientOK, ClientType
<1>2. CASE ~s.p2pStreaming
  <2>1. Ended(s) = s
    BY <1>1, <1>2, EndedOK
  <2> QED
    BY <1>1, <1>2, <2>1 DEF EndStream, SameWork
<1>3. CASE s.p2pStreaming
  <2> DEFINE command == [type |-> "stop", datatype |-> d, channel |-> s.p2pStreamChannel]
             told == IF stop THEN SendCommand(cl, command) ELSE cl
             ended == [told EXCEPT !.stream[d] = Ended(@)]
  <2>1. command \in Commands
    BY <1>1, <1>3 DEF StreamInv, StreamState, Commands
  <2>2. /\ ClientOK(told) /\ told.stream = cl.stream /\ told.awaiting = cl.awaiting
        /\ Spares(cl) => Spares(told)
        /\ SendsOne(cl) => SendsOne(told)
        /\ ~stop => SameWork(cl, told)
    BY <2>1, SendCommandOK DEF SameWork
  <2>3. r = CloseEnergySavingDevice(ended)
    BY <1>3 DEF EndStream
  <2> HIDE DEF told, command
  <2>4. StreamInv(Ended(s)) /\ ~Ended(s).p2pStreaming
    BY <1>1, EndedOK
  <2>5. ended = [told EXCEPT !.stream[d] = Ended(s)]
    BY <2>2 DEF ClientOK, ClientType
  <2> HIDE DEF ended
  <2>6. /\ ClientOK(ended) /\ ended.stream = [cl.stream EXCEPT ![d] = Ended(s)]
        /\ ended.stream[d] = Ended(s)
        /\ \A e \in DataTypes \ {d} : ended.stream[e] = cl.stream[e]
        /\ SameWork(told, ended)
        /\ ended.esdDisconnect = told.esdDisconnect
        /\ ended.awaiting = told.awaiting
    <3> DEFINE t == Ended(s)
    <3>1. StreamInv(t) /\ ended = WithStream(told, d, t)
      BY <2>4, <2>5 DEF WithStream
    <3> HIDE DEF t, s
    <3>2. /\ ClientOK(ended) /\ ended.stream = [told.stream EXCEPT ![d] = t]
          /\ ended.stream[d] = t
          /\ \A e \in DataTypes \ {d} : ended.stream[e] = told.stream[e]
          /\ SameWork(told, ended)
          /\ ended.esdDisconnect = told.esdDisconnect
          /\ ended.awaiting = told.awaiting
      BY <2>2, <3>1, OneStreamChanges
    <3> QED
      BY <2>2, <3>2 DEF t
  <2>7. /\ Spares(told) => Spares(ended)
        /\ SendsOne(told) => SendsOne(ended)
    BY <2>2, <2>4, <2>6 DEF Spares, SendsOne, SameWork
  <2>8. /\ ClientOK(r) /\ r.stream = ended.stream /\ SameWork(ended, r)
        /\ r.awaiting = ended.awaiting
        /\ Spares(ended) => Spares(r)
    BY <2>3, <2>6, CloseEnergySavingDeviceOK
  <2> HIDE DEF r
  <2>9. (SendsOne(ended) => SendsOne(r)) /\ (~stop => SameWork(cl, r))
    BY <2>2, <2>6, <2>8 DEF SendsOne, SameWork
  <2> QED
    BY <2>2, <2>6, <2>7, <2>8, <2>9 DEF r
<1> QED
  BY <1>2, <1>3

LEMMA StartStreamOK ==
    ASSUME NEW cl, ClientOK(cl), NEW d \in DataTypes, NEW c \in Channels
    PROVE  LET r == StartStream(cl, d, c)
           IN  /\ ClientOK(r)
               /\ r.stream = [cl.stream EXCEPT ![d] = Started(cl.stream[d], c)]
               /\ SameWork(cl, r)
               /\ r.awaiting = cl.awaiting
               /\ Spares(cl) /\ cl.unacknowledged # NoCommand => Spares(r)
<1> DEFINE s == cl.stream[d]
           other == s.p2pStreaming /\ s.p2pStreamChannel # c
           e == IF other THEN EndStream(cl, d, FALSE) ELSE cl
           t == IF other THEN Ended(s) ELSE s
           r == StartStream(cl, d, c)
<1>1. StreamInv(s) /\ cl.stream \in [DataTypes -> StreamState]
  BY DEF ClientOK, ClientType
<1>2. /\ ClientOK(e) /\ e.stream = [cl.stream EXCEPT ![d] = t]
      /\ SameWork(cl, e) /\ (Spares(cl) => Spares(e)) /\ e.awaiting = cl.awaiting
  <2>1. CASE other
    BY <2>1, EndStreamOK
  <2>2. CASE ~other
    BY <1>1, <2>2 DEF SameWork
  <2> QED
    BY <2>1, <2>2
<1>3. r = [e EXCEPT !.stream[d].p2pStreaming = TRUE, !.stream[d].p2pStreamChannel = c,
                    !.stream[d].watchdog = "quiet"]
  BY DEF StartStream
<1>4. StreamInv(Started(s, c))
  BY <1>1, StartedOK
<1>5. e.stream[d] = t
  BY <1>1, <1>2
<1>6. Started(s, c) = [t EXCEPT !.p2pStreaming = TRUE, !.p2pStreamChannel = c, !.watchdog = "quiet"]
  BY DEF Started
<1> HIDE DEF e, t, other
<1>7. r = WithStream(e, d, Started(s, c))
  <2>1. e \in ClientType
    BY <1>2 DEF ClientOK
  <2>2. e.stream \in [DataTypes -> StreamState] /\ t \in StreamState
    BY <1>5, <2>1 DEF ClientType
  <2> DEFINE f == [e.stream EXCEPT ![d].p2pStreaming = TRUE, ![d].p2pStreamChannel = c,
                                   ![d].watchdog = "quiet"]
  <2>3. r = [e EXCEPT !.stream = f]
    BY <1>3, <2>1 DEF ClientType
  <2>4. f = [e.stream EXCEPT ![d] = Started(s, c)]
    BY <1>5, <1>6, <2>2
  <2> HIDE DEF f
  <2> QED
    BY <2>1, <2>2, <2>3, <2>4 DEF ClientType, WithStream
<1> HIDE DEF r
<1>8. /\ ClientOK(r) /\ r.stream = [e.stream EXCEPT ![d] = Started(s, c)]
      /\ SameWork(e, r) /\ r.esdDisconnect = e.esdDisconnect /\ r.awaiting = e.awaiting
  BY <1>2, <1>4, <1>7, OneStreamChanges
<1>9. r.stream = [cl.stream EXCEPT ![d] = Started(s, c)]
  BY <1>1, <1>2, <1>8
<1>10. SameWork(cl, r) /\ r.awaiting = cl.awaiting
  BY <1>2, <1>8 DEF SameWork
<1>11. Spares(cl) /\ cl.unacknowledged # NoCommand => Spares(r)
  BY <1>2, <1>8 DEF Spares, SameWork
<1> QED
  BY <1>8, <1>9, <1>10, <1>11 DEF r

LEMMA StartedBreaksFirst ==
    ASSUME NEW s, StreamInv(s), NEW c \in Channels, BreaksFirst(s)
    PROVE  BreaksFirst(Started(s, c))
<1>1. CASE s.p2pStreaming /\ s.p2pStreamChannel # c
  <2>1. StreamInv(Ended(s)) /\ ~Ended(s).p2pStreaming
    BY EndedOK
  <2>2. ~Ended(s).invalidStream
    BY <2>1 DEF StreamInv
  <2>3. Started(s, c) = [Ended(s) EXCEPT !.p2pStreaming = TRUE, !.p2pStreamChannel = c,
                                         !.watchdog = "quiet"]
    BY <1>1 DEF Started
  <2>4. Started(s, c).invalidStream = Ended(s).invalidStream
    BY <2>1, <2>3 DEF StreamInv, StreamState
  <2> QED
    BY <2>2, <2>4 DEF BreaksFirst
<1>2. CASE ~(s.p2pStreaming /\ s.p2pStreamChannel # c)
  <2>1. Started(s, c) = [s EXCEPT !.p2pStreaming = TRUE, !.p2pStreamChannel = c,
                                  !.watchdog = "quiet"]
    BY <1>2 DEF Started
  <2>2. /\ Started(s, c).invalidStream = s.invalidStream
        /\ Started(s, c).firstVideo = s.firstVideo
    BY <2>1 DEF StreamInv, StreamState
  <2> QED
    BY <2>2 DEF BreaksFirst
<1> QED
  BY <1>1, <1>2

(* What a step does to a stream. *)
Step(s, t) == BreaksFirst(s) => BreaksFirst(t) /\ Moves(s, t)

LEMMA Steps ==
    ASSUME NEW s, NEW t, NEW u
    PROVE  /\ Step(s, s)
           /\ Alike(s, t) => Step(s, t)
           /\ Alike(s, t) /\ Step(t, u) => Step(s, u)
           /\ Step(s, t) /\ Alike(t, u) => Step(s, u)
<1>1. /\ Alike(s, t) => Still(s, t) /\ Moves(s, t) /\ (BreaksFirst(s) <=> BreaksFirst(t))
      /\ Alike(t, u) => Still(t, u) /\ (BreaksFirst(t) <=> BreaksFirst(u))
      /\ Moves(s, s)
  BY DEF Alike, Still, Moves, Phase, BreaksFirst
<1>2. /\ Still(s, t) /\ Moves(t, u) => Moves(s, u)
      /\ Moves(s, t) /\ Still(t, u) => Moves(s, u)
  BY StillAndMoves
<1> QED
  BY <1>1, <1>2 DEF Step

LEMMA StreamSteps ==
    ASSUME NEW s, StreamInv(s)
    PROVE  /\ Step(s, Ended(s))
           /\ Step(s, Replaced(Ended(s)))
           /\ \A c \in Channels : Step(s, Started(s, c))
<1>1. BreaksFirst(Ended(s))
  BY EndedOK DEF StreamInv, BreaksFirst
<1>2. BreaksFirst(Replaced(Ended(s)))
  BY EndedOK, ReplacedOK DEF StreamInv, BreaksFirst
<1> QED
  BY <1>1, <1>2, EndedMoves, DroppedMoves, StartedOK, StartedBreaksFirst DEF Step

Video(cl) == cl.stream["VIDEO"]

(* Timers, marks and talkback of one stream. *)
LEMMA AlikeOK ==
    ASSUME NEW cl, ClientOK(cl), NEW d \in DataTypes,
           NEW t, t \in StreamState, Alike(cl.stream[d], t)
    PROVE  LET r == WithStream(cl, d, t)
           IN  /\ ClientOK(r)
               /\ r.stream[d] = t
               /\ \A e \in DataTypes : Alike(cl.stream[e], r.stream[e])
               /\ SameWork(cl, r)
               /\ r.esdDisconnect = cl.esdDisconnect
               /\ r.awaiting = cl.awaiting
               /\ Spares(cl) => Spares(r)
               /\ SendsOne(cl) => SendsOne(r)
<1> DEFINE r == WithStream(cl, d, t)
<1>1. StreamInv(t)
  BY AlikeKeepsInv DEF ClientOK
<1>2. /\ ClientOK(r)
      /\ r.stream = [cl.stream EXCEPT ![d] = t]
      /\ r.stream[d] = t
      /\ \A e \in DataTypes \ {d} : r.stream[e] = cl.stream[e]
      /\ SameWork(cl, r)
      /\ r.esdDisconnect = cl.esdDisconnect
      /\ r.awaiting = cl.awaiting
  BY <1>1, OneStreamChanges
<1> HIDE DEF r
<1>3. \A e \in DataTypes : Alike(cl.stream[e], r.stream[e])
  <2> TAKE e \in DataTypes
  <2>1. CASE e = d
    BY <1>2, <2>1
  <2>2. CASE e # d
    BY <1>2, <2>2 DEF Alike
  <2> QED
    BY <2>1, <2>2
<1>4. \A e \in DataTypes : r.stream[e].p2pStreaming = cl.stream[e].p2pStreaming
  BY <1>3 DEF Alike
<1>5. (Spares(cl) => Spares(r)) /\ (SendsOne(cl) => SendsOne(r))
  BY <1>2, <1>4 DEF Spares, SendsOne, SameWork
<1> QED
  BY <1>2, <1>3, <1>5 DEF r

(* ... and what an action of the session is to establish. *)
Timely == "slowSend" \notin Faults /\ "lateConvert" \notin Faults
FirstOnly == "badLater" \notin Faults /\ "otherCamera" \notin Faults
Works(cl) == Spares(cl) /\ SendsOne(cl)

Good(cl, r) ==
    /\ ClientOK(r)
    /\ FirstOnly => Step(Video(cl), Video(r))
    /\ Timely /\ Works(cl) => Works(r)

LEMMA SendGood ==
    ASSUME NEW cl, ClientOK(cl), NEW command \in Commands
    PROVE  Good(cl, SendCommand(cl, command))
BY SendCommandOK, Steps DEF Good, Works, Video

LEMMA EndStreamSteps ==
    ASSUME NEW cl, ClientOK(cl), NEW d \in DataTypes, NEW stop \in BOOLEAN
    PROVE  Step(Video(cl), Video(EndStream(cl, d, stop)))
<1>1. /\ cl.stream \in [DataTypes -> StreamState] /\ StreamInv(cl.stream[d])
      /\ "VIDEO" \in DataTypes
  BY StreamAssumption DEF ClientOK, ClientType
<1>2. EndStream(cl, d, stop).stream = [cl.stream EXCEPT ![d] = Ended(cl.stream[d])]
  BY EndStreamOK
<1>3. CASE d = "VIDEO"
  <2>1. Video(EndStream(cl, d, stop)) = Ended(cl.stream[d])
    BY <1>1, <1>2, <1>3 DEF Video
  <2> QED
    BY <1>1, <1>3, <2>1, StreamSteps DEF Video
<1>4. CASE d # "VIDEO"
  <2>1. Video(EndStream(cl, d, stop)) = Video(cl)
    BY <1>1, <1>2, <1>4 DEF Video
  <2> QED
    BY <2>1, Steps
<1> QED
  BY <1>3, <1>4

LEMMA EndGood ==
    ASSUME NEW cl, ClientOK(cl), NEW d \in DataTypes, NEW stop \in BOOLEAN
    PROVE  Good(cl, EndStream(cl, d, stop))
BY EndStreamOK, EndStreamSteps DEF Good, Works

(* First a timer, then the end of the stream. *)
LEMMA RetimedAndEnded ==
    ASSUME NEW cl, ClientOK(cl), NEW d \in DataTypes, NEW stop \in BOOLEAN,
           NEW t \in StreamState, Alike(cl.stream[d], t),
           NEW q, q = WithStream(cl, d, t)
    PROVE  Good(cl, EndStream(q, d, stop))
<1>1. /\ ClientOK(q) /\ Alike(Video(cl), Video(q))
      /\ Works(cl) => Works(q)
  BY AlikeOK, StreamAssumption DEF Works, Video
<1>2. Good(q, EndStream(q, d, stop))
  BY <1>1, EndGood
<1> QED
  BY <1>1, <1>2, Steps DEF Good

(* Calm: the streams are alike, nothing else is said. *)
Calm(cl, r) == ClientOK(r) /\ \A d \in DataTypes : Alike(cl.stream[d], r.stream[d])

LEMMA CalmThenGood ==
    ASSUME NEW cl, NEW q, NEW r, Calm(cl, q), Good(q, r),
           Timely /\ Works(cl) => Works(q)
    PROVE  Good(cl, r)
<1>1. Alike(Video(cl), Video(q))
  BY StreamAssumption DEF Calm, Video
<1> QED
  BY <1>1, Steps DEF Good

LEMMA GoodThenCalm ==
    ASSUME NEW cl, NEW q, NEW r, Good(cl, q), Calm(q, r),
           Timely /\ Works(q) => Works(r)
    PROVE  Good(cl, r)
<1>1. Alike(Video(q), Video(r))
  BY StreamAssumption DEF Calm, Video
<1> QED
  BY <1>1, Steps DEF Good, Calm

LEMMA SameStreamsAreCalm ==
    ASSUME NEW cl, NEW r, ClientOK(r), r.stream = cl.stream
    PROVE  Calm(cl, r)
BY DEF Calm, Alike

LEMMA CalmIsGood ==
    ASSUME NEW cl, NEW r, Calm(cl, r), Timely /\ Works(cl) => Works(r)
    PROVE  Good(cl, r)
<1>1. Alike(Video(cl), Video(r))
  BY StreamAssumption DEF Calm, Video
<1> QED
  BY <1>1, Steps DEF Good, Calm

(* What _sendCommand does after the command was sent. *)
LEMMA EffectOfOK ==
    ASSUME NEW cl, ClientOK(cl), NEW command \in Commands
    PROVE  LET r == EffectOf(cl, command)
           IN  /\ ClientOK(r)
               /\ Step(Video(cl), Video(r))
               /\ Spares(cl) /\ cl.unacknowledged # NoCommand => Spares(r)
               /\ SendsOne(cl) => SendsOne(r)
<1> DEFINE d == command.datatype
           c == command.channel
           r == EffectOf(cl, command)
<1>1. d \in DataTypes /\ c \in Channels
  BY StreamAssumption DEF Commands
<1>2. /\ cl.stream \in [DataTypes -> StreamState] /\ StreamInv(cl.stream[d])
      /\ "VIDEO" \in DataTypes
  BY <1>1, StreamAssumption DEF ClientOK, ClientType
<1> HIDE DEF d, c
<1>3. CASE command.type = "start"
  <2>1. r = StartStream(cl, d, c)
    BY <1>3 DEF EffectOf, d, c
  <2> HIDE DEF r
  <2>2. /\ ClientOK(r)
        /\ r.stream = [cl.stream EXCEPT ![d] = Started(cl.stream[d], c)]
        /\ SameWork(cl, r)
        /\ Spares(cl) /\ cl.unacknowledged # NoCommand => Spares(r)
    BY <1>1, <2>1, StartStreamOK
  <2>3. Step(Video(cl), Video(r))
    <3>1. CASE d = "VIDEO"
      <4>1. Video(r) = Started(cl.stream[d], c)
        BY <1>2, <2>2, <3>1 DEF Video
      <4> QED
        BY <1>1, <1>2, <3>1, <4>1, StreamSteps DEF Video
    <3>2. CASE d # "VIDEO"
      <4>1. Video(r) = Video(cl)
        BY <1>2, <2>2, <3>2 DEF Video
      <4> QED
        BY <4>1, Steps
    <3> QED
      BY <3>1, <3>2
  <2> QED
    BY <2>2, <2>3 DEF SendsOne, SameWork, r
<1>4. CASE command.type = "stop"
  <2>1. r = EndStream(cl, d, FALSE)
    BY <1>4 DEF EffectOf, d
  <2> HIDE DEF r
  <2>2. /\ ClientOK(r) /\ (Spares(cl) => Spares(r)) /\ (SendsOne(cl) => SendsOne(r))
    BY <1>1, <2>1, EndStreamOK
  <2>3. Step(Video(cl), Video(r))
    BY <1>1, <2>1, EndStreamSteps
  <2> QED
    BY <2>2, <2>3 DEF r
<1>5. CASE command.type \notin {"start", "stop"}
  <2>1. r = cl
    BY <1>5 DEF EffectOf
  <2> QED
    BY <2>1, Steps
<1> QED
  BY <1>3, <1>4, <1>5

(* The connection is gone: _disconnected. *)
LEMMA EndAllOK ==
    ASSUME NEW cl, ClientOK(cl)
    PROVE  LET r == EndAll(cl, DataTypes)
           IN  /\ ClientOK(r)
               /\ \A d \in DataTypes : r.stream[d] = Ended(cl.stream[d])
               /\ SameWork(cl, r)
               /\ Spares(cl) => Spares(r)
<1> DEFINE v == EndStream(cl, "VIDEO", FALSE)
           b == EndStream(v, "BINARY", FALSE)
           r == EndAll(cl, DataTypes)
<1>1. DataTypes \subseteq {"VIDEO", "BINARY"} /\ "VIDEO" \in DataTypes
  BY StreamAssumption
<1>2. /\ ClientOK(v) /\ v.stream = [cl.stream EXCEPT !["VIDEO"] = Ended(cl.stream["VIDEO"])]
      /\ SameWork(cl, v) /\ (Spares(cl) => Spares(v))
  BY <1>1, EndStreamOK
<1>3. cl.stream \in [DataTypes -> StreamState]
  BY DEF ClientOK, ClientType
<1>4. CASE "BINARY" \notin DataTypes
  <2>1. r = v
    BY <1>1, <1>4 DEF EndAll
  <2> HIDE DEF v
  <2>2. \A d \in DataTypes : v.stream[d] = Ended(cl.stream[d])
    BY <1>1, <1>2, <1>3, <1>4
  <2> QED
    BY <1>2, <2>1, <2>2
<1>5. CASE "BINARY" \in DataTypes
  <2>1. r = b
    BY <1>1, <1>5 DEF EndAll
  <2> HIDE DEF v
  <2>2. /\ ClientOK(b) /\ b.stream = [v.stream EXCEPT !["BINARY"] = Ended(v.stream["BINARY"])]
        /\ SameWork(v, b) /\ (Spares(v) => Spares(b))
    BY <1>2, <1>5, EndStreamOK
  <2> HIDE DEF b
  <2>3. \A d \in DataTypes : b.stream[d] = Ended(cl.stream[d])
    <3>1. /\ v.stream["VIDEO"] = Ended(cl.stream["VIDEO"])
          /\ v.stream["BINARY"] = cl.stream["BINARY"]
          /\ v.stream \in [DataTypes -> StreamState]
      BY <1>1, <1>2, <1>3, <1>5 DEF ClientOK, ClientType
    <3>2. /\ b.stream["VIDEO"] = Ended(cl.stream["VIDEO"])
          /\ b.stream["BINARY"] = Ended(cl.stream["BINARY"])
      BY <1>1, <1>5, <2>2, <3>1
    <3> QED
      BY <1>1, <3>2
  <2>4. SameWork(cl, b) /\ (Spares(cl) => Spares(b))
    BY <1>2, <2>2 DEF SameWork
  <2> QED
    BY <2>1, <2>2, <2>3, <2>4
<1> QED
  BY <1>4, <1>5

LEMMA DisconnectedIs ==
    ASSUME NEW cl, ClientOK(cl)
    PROVE  LET r == Disconnected(cl)
           IN  /\ ClientOK(r)
               /\ \A d \in DataTypes : r.stream[d] = Replaced(Ended(cl.stream[d]))
               /\ r.connection = "closed" /\ r.unacknowledged = NoCommand
               /\ r.awaiting = {}
               /\ r.sendQueue = cl.sendQueue /\ r.sending = cl.sending
               /\ Step(Video(cl), Video(r))
               /\ Spares(r)
<1> DEFINE q == [cl EXCEPT !.esdDisconnect = FALSE]
           e == EndAll(q, DataTypes)
           f == [d \in DataTypes |-> Replaced(e.stream[d])]
           r == Disconnected(cl)
<1>1. /\ q \in ClientType /\ q.stream = cl.stream /\ ~q.esdDisconnect
      /\ q.sending = cl.sending /\ q.sendQueue = cl.sendQueue
  BY DEF ClientOK, ClientType
<1> HIDE DEF q
<1>2. ClientOK(q) /\ Spares(q)
  BY <1>1 DEF ClientOK, Spares
<1>3. /\ ClientOK(e)
      /\ \A d \in DataTypes : e.stream[d] = Ended(q.stream[d])
      /\ SameWork(q, e)
      /\ Spares(e)
  BY <1>2, EndAllOK
<1>4. r = [e EXCEPT !.connection = "closed", !.stream = f,
                    !.unacknowledged = NoCommand, !.awaiting = {}]
  <2>1. r = [e EXCEPT !.connection = "closed",
                      !.stream = [d \in DataTypes |-> Replaced(e.stream[d])],
                      !.unacknowledged = NoCommand, !.awaiting = {}]
    BY DEF Disconnected, q
  <2> QED
    BY <2>1
<1> HIDE DEF e, r
<1>5. \A d \in DataTypes :
        /\ f[d] = Replaced(Ended(cl.stream[d]))
        /\ StreamInv(f[d]) /\ ~f[d].p2pStreaming
        /\ Step(cl.stream[d], f[d])
  <2> TAKE d \in DataTypes
  <2>1. f[d] = Replaced(Ended(cl.stream[d]))
    BY <1>1, <1>3
  <2>2. StreamInv(cl.stream[d])
    BY DEF ClientOK
  <2>3. StreamInv(f[d]) /\ Step(cl.stream[d], f[d])
    BY <2>1, <2>2, DroppedMoves, StreamSteps
  <2>4. ~f[d].p2pStreaming
    BY <2>1, <2>2, EndedOK, ReplacedOK DEF StreamInv
  <2> QED
    BY <2>1, <2>3, <2>4
<1>6. f \in [DataTypes -> StreamState]
  BY <1>5 DEF StreamInv
<1> HIDE DEF f
<1>7. /\ r \in ClientType /\ r.stream = f /\ r.unacknowledged = NoCommand
      /\ r.sending = e.sending /\ r.esdDisconnect = e.esdDisconnect
      /\ r.sendQueue = e.sendQueue /\ r.connection = "closed" /\ r.awaiting = {}
  BY <1>3, <1>4, <1>6 DEF ClientOK, ClientType
<1>8. ClientOK(r)
  BY <1>5, <1>7 DEF ClientOK
<1>9. Step(Video(cl), Video(r))
  BY <1>5, <1>7, StreamAssumption DEF Video
<1>10. Spares(r)
  BY <1>3, <1>5, <1>7 DEF Spares
<1>11. r.sendQueue = cl.sendQueue /\ r.sending = cl.sending
  BY <1>1, <1>3, <1>7 DEF SameWork
<1> QED
  BY <1>5, <1>7, <1>8, <1>9, <1>10, <1>11 DEF r

LEMMA DisconnectedGood ==
    ASSUME NEW cl, ClientOK(cl),
           Timely /\ Works(cl) => cl.sending = << >>
    PROVE  Good(cl, Disconnected(cl))
BY DisconnectedIs DEF Good, Works, SendsOne

----------------------------------------------------------------------------
(* One lemma for each action, or for several that are alike.               *)

IndInv == TypeOK /\ ClientOK(client)

(* A step that tells the receiver of the livestream of a broken download.  *)
Reported(s, c) == [s EXCEPT !.reports = Append(@, [event |-> "error", channel |-> c])]

Misreports(cl, r) ==
    /\ ~DownloadIsBroken(cl) /\ DownloadIsBroken(r)
    /\ \E c \in Channels : Video(r) = Reported(Video(cl), c)

Misreported ==
    /\ ClientOK(client')
    /\ Misreports(client, client')
    /\ Timely /\ Works(client) => Works(client')

Kept == Good(client, client') \/ Misreported

LEMMA ApplicationKeeps ==
    ASSUME IndInv, NEW c \in Channels,
           \/ StartLivestream(c) \/ StopLivestream(c) \/ MaximumReached(c) \/ StrayMaximum(c)
           \/ StartDownload(c) \/ CancelDownload(c)
           \/ \E type \in {"talk", "endTalk"} : Talkback(type, c)
    PROVE  Kept
<1>1. \A type \in {"start", "stop"}, d \in DataTypes : Command(type, d, c) \in Commands
  BY DEF Commands, Command
<1>2. \A type \in {"talk", "endTalk"} : Command(type, "VIDEO", c) \in Commands
  BY DEF Commands, Command
<1>3. "VIDEO" \in DataTypes /\ ClientOK(client)
  BY StreamAssumption DEF IndInv
<1>4. ASSUME NEW command \in Commands, client' = SendCommand(client, command)
      PROVE  Kept
  BY <1>3, <1>4, SendGood DEF Kept
<1>5. CASE StartLivestream(c)
  BY <1>1, <1>3, <1>4, <1>5 DEF StartLivestream
<1>6. CASE StartDownload(c)
  BY <1>1, <1>4, <1>6 DEF StartDownload
<1>7. CASE CancelDownload(c)
  BY <1>1, <1>4, <1>7 DEF CancelDownload
<1>8. CASE \E type \in {"talk", "endTalk"} : Talkback(type, c)
  BY <1>2, <1>4, <1>8 DEF Talkback
<1>9. ASSUME client' = Stopped(client, c)
      PROVE  Kept
  <2>1. CASE client' = SendCommand(client, Command("stop", "VIDEO", c))
    BY <1>1, <1>3, <1>4, <2>1
  <2>2. CASE client' = client
    <3>1. Calm(client, client')
      BY <1>3, <2>2, SameStreamsAreCalm
    <3> QED
      BY <2>2, <3>1, CalmIsGood DEF Kept
  <2> QED
    BY <1>9, <2>1, <2>2 DEF Stopped
<1>10. CASE StopLivestream(c) \/ MaximumReached(c) \/ StrayMaximum(c)
  BY <1>9, <1>10 DEF StopLivestream, MaximumReached, StrayMaximum
<1> QED
  BY <1>5, <1>6, <1>7, <1>8, <1>10

LEMMA MessageSentKeeps ==
    ASSUME IndInv, MessageSent
    PROVE  Kept
<1> DEFINE q == [client EXCEPT !.sending = Tail(@)]
           command == Head(client.sending)
<1>1. client \in ClientType /\ client.sending \in Seq(Commands) /\ client.sending # << >>
  BY DEF IndInv, ClientOK, ClientType, MessageSent
<1>2. command \in Commands /\ Tail(client.sending) \in Seq(Commands)
  BY <1>1, HeadTailProperties
<1>3. /\ q \in ClientType /\ q.stream = client.stream /\ q.connection = client.connection
      /\ q.sendQueue = client.sendQueue /\ q.unacknowledged = client.unacknowledged
      /\ q.esdDisconnect = client.esdDisconnect
  BY <1>1, <1>2 DEF ClientType
<1>4. client' = EffectOf(q, command)
  BY DEF MessageSent
<1> HIDE DEF q, command
<1>5. ClientOK(q)
  BY <1>3 DEF ClientOK, IndInv
<1>6. Calm(client, q)
  BY <1>3, <1>5, SameStreamsAreCalm
<1>7. Works(client) => Works(q) /\ q.unacknowledged # NoCommand
  BY <1>1, <1>3 DEF Works, Spares, SendsOne
<1>8. /\ ClientOK(client') /\ Step(Video(q), Video(client'))
      /\ Works(q) /\ q.unacknowledged # NoCommand => Works(client')
  BY <1>2, <1>4, <1>5, EffectOfOK DEF Works
<1>9. Step(Video(client), Video(client'))
  BY <1>6, <1>8, Steps, StreamAssumption DEF Calm, Video
<1> QED
  BY <1>7, <1>8, <1>9 DEF Good, Kept

LEMMA QueueKeeps ==
    ASSUME NEW cl, ClientOK(cl)
    PROVE  Good(cl, SendQueuedMessage(cl))
BY SendQueuedMessageOK, Steps DEF Good, Works, Video

LEMMA ReceiveAckKeeps ==
    ASSUME IndInv, ReceiveAck
    PROVE  Kept
<1> DEFINE command == client.unacknowledged
           q == [client EXCEPT !.unacknowledged = NoCommand, !.awaiting = @ \cup {command}]
<1>1. /\ client \in ClientType /\ command \in Commands /\ command # NoCommand
      /\ Timely => client.sending = << >>
  BY DEF IndInv, ClientOK, ClientType, ReceiveAck, IsSent, Timely
<1>2. /\ q \in ClientType /\ q.stream = client.stream /\ q.unacknowledged = NoCommand
      /\ q.sending = client.sending /\ q.esdDisconnect = client.esdDisconnect
      /\ q.sendQueue = client.sendQueue
  BY <1>1 DEF ClientType
<1>3. client' = SendQueuedMessage(q)
  BY DEF ReceiveAck
<1> HIDE DEF q
<1>4. ClientOK(q)
  BY <1>2 DEF ClientOK, IndInv
<1>5. Calm(client, q)
  BY <1>2, <1>4, SameStreamsAreCalm
<1>6. Timely /\ Works(client) => Works(q)
  BY <1>1, <1>2 DEF Works, Spares, SendsOne
<1> QED
  BY <1>3, <1>4, <1>5, <1>6, QueueKeeps, CalmThenGood DEF Kept

LEMMA GiveUpKeeps ==
    ASSUME IndInv, GiveUp
    PROVE  Kept
<1> DEFINE command == client.unacknowledged
           ends == /\ command.type = "start"
                   /\ IsStreaming(client, command.datatype, command.channel)
           e == IF ends THEN EndStream(client, command.datatype, FALSE) ELSE client
           q == [e EXCEPT !.unacknowledged = NoCommand]
<1>1. /\ client \in ClientType /\ command \in Commands /\ command # NoCommand
      /\ ClientOK(client)
      /\ Timely => client.sending = << >>
  BY DEF IndInv, ClientOK, ClientType, GiveUp, IsSent, Timely
<1>2. command.datatype \in DataTypes
  BY <1>1, StreamAssumption DEF Commands
<1>3. client' = SendQueuedMessage(q)
  BY DEF GiveUp
<1>4. Good(client, e) /\ SameWork(client, e) /\ (Spares(client) => Spares(e))
  <2>1. CASE ends
    BY <1>1, <1>2, <2>1, EndGood, EndStreamOK
  <2>2. CASE ~ends
    <3>1. Calm(client, client)
      BY <1>1, SameStreamsAreCalm
    <3>2. e = client
      BY <2>2
    <3> QED
      BY <3>1, <3>2, CalmIsGood DEF SameWork
  <2> QED
    BY <2>1, <2>2
<1> HIDE DEF e
<1>5. /\ q \in ClientType /\ q.stream = e.stream /\ q.unacknowledged = NoCommand
      /\ q.sending = e.sending /\ q.esdDisconnect = e.esdDisconnect
      /\ q.sendQueue = e.sendQueue
  BY <1>4 DEF Good, ClientOK, ClientType
<1> HIDE DEF q
<1>6. ClientOK(q)
  BY <1>4, <1>5 DEF ClientOK, Good
<1>7. Calm(e, q)
  BY <1>5, <1>6, SameStreamsAreCalm
<1>8. Timely /\ Works(client) => Works(q)
  BY <1>1, <1>4, <1>5 DEF Works, Spares, SendsOne, SameWork
<1>9. ClientOK(client') /\ Step(Video(q), Video(client')) /\ (Works(q) => Works(client'))
  BY <1>3, <1>6, SendQueuedMessageOK, Steps DEF Works, Video
<1>10. FirstOnly => Step(Video(client), Video(client'))
  <2>1. Video(client') = Video(e)
    BY <1>3, <1>5, <1>6, SendQueuedMessageOK DEF Video
  <2> QED
    BY <1>4, <2>1 DEF Good
<1> QED
  BY <1>8, <1>9, <1>10 DEF Good, Kept

(* A stream's timers and marks change. *)
LEMMA RetimedGood ==
    ASSUME NEW cl, ClientOK(cl), NEW d \in DataTypes,
           NEW t \in StreamState, Alike(cl.stream[d], t)
    PROVE  /\ Good(cl, WithStream(cl, d, t))
           /\ Calm(cl, WithStream(cl, d, t))
           /\ Works(cl) => Works(WithStream(cl, d, t))
<1>1. Calm(cl, WithStream(cl, d, t)) /\ (Works(cl) => Works(WithStream(cl, d, t)))
  BY AlikeOK DEF Calm, Works
<1> QED
  BY <1>1, CalmIsGood

(* ... and talkback goes on or off. *)
Talks(cl, c, b) == [cl EXCEPT !.stream["VIDEO"].talkback = c, !.microphone = b]

LEMMA TalksOK ==
    ASSUME NEW cl, ClientOK(cl), NEW c \in Channels \cup {NoChannel}, NEW b \in BOOLEAN
    PROVE  Calm(cl, Talks(cl, c, b)) /\ (Works(cl) => Works(Talks(cl, c, b)))
<1> DEFINE r == Talks(cl, c, b)
           t == [cl.stream["VIDEO"] EXCEPT !.talkback = c]
           w == WithStream(cl, "VIDEO", t)
<1>1. "VIDEO" \in DataTypes /\ cl \in ClientType /\ cl.stream \in [DataTypes -> StreamState]
  BY StreamAssumption DEF ClientOK, ClientType
<1>2. t \in StreamState /\ Alike(cl.stream["VIDEO"], t)
  BY <1>1 DEF StreamState, Alike
<1>3. r = [w EXCEPT !.microphone = b]
  BY <1>1 DEF WithStream, ClientType, Talks
<1> HIDE DEF t, r
<1>4. Calm(cl, w) /\ (Works(cl) => Works(w))
  BY <1>1, <1>2, RetimedGood
<1> HIDE DEF w
<1>5. /\ r \in ClientType /\ r.stream = w.stream /\ r.sendQueue = w.sendQueue
      /\ r.unacknowledged = w.unacknowledged /\ r.sending = w.sending
      /\ r.esdDisconnect = w.esdDisconnect /\ r.connection = w.connection
  BY <1>3, <1>4 DEF Calm, ClientOK, ClientType
<1>6. ClientOK(r) /\ Calm(cl, r)
  BY <1>4, <1>5 DEF Calm, ClientOK
<1>7. Works(w) => Works(r)
  BY <1>5 DEF Works, Spares, SendsOne
<1> QED
  BY <1>4, <1>6, <1>7 DEF r

LEMMA ReceiveResultKeeps ==
    ASSUME IndInv, NEW command \in client.awaiting, NEW successful \in BOOLEAN,
           ReceiveResult(command, successful)
    PROVE  Kept
<1> DEFINE q == [client EXCEPT !.awaiting = @ \ {command}, !.esdDisconnect = FALSE]
           a == SendQueuedMessage(q)
<1>1. client \in ClientType /\ command \in Commands
  BY DEF IndInv, ClientOK, ClientType
<1>2. command.datatype \in DataTypes /\ command.channel \in Channels /\ "VIDEO" \in DataTypes
  BY <1>1, StreamAssumption DEF Commands
<1>3. /\ q \in ClientType /\ q.stream = client.stream /\ ~q.esdDisconnect
      /\ q.unacknowledged = client.unacknowledged /\ q.connection = client.connection
      /\ q.sending = client.sending
  BY <1>1 DEF ClientType
<1>4. client' = CASE command.type = "start"   -> Watched(a, command.datatype)
                  [] command.type = "talk"    -> IF successful
                                                 THEN TalkbackStarted(a, command.channel)
                                                 ELSE a
                  [] command.type = "endTalk" -> TalkbackStopped(a)
                  [] OTHER -> a
  BY DEF ReceiveResult
<1> HIDE DEF q
<1>5. ClientOK(q)
  BY <1>3 DEF ClientOK, IndInv
<1>6. Calm(client, q) /\ (Works(client) => Works(q))
  BY <1>3, <1>5, SameStreamsAreCalm DEF Works, Spares, SendsOne
<1>7. Good(client, a) /\ ClientOK(a)
  BY <1>5, <1>6, QueueKeeps, CalmThenGood DEF Good
<1> HIDE DEF a
<1>8. ASSUME Calm(a, client'), Works(a) => Works(client')
      PROVE  Kept
  BY <1>7, <1>8, GoodThenCalm DEF Kept
<1>9. CASE command.type = "start"
  <2> DEFINE d == command.datatype
             t == [a.stream[d] EXCEPT !.watchdog = "stop"]
  <2>1. a.stream[d] \in StreamState /\ d \in DataTypes
    BY <1>2, <1>7 DEF ClientOK, StreamInv
  <2>2. client' = WithStream(a, d, t)
    BY <1>4, <1>9 DEF Watched, WithStream
  <2> HIDE DEF d
  <2>3. t \in StreamState /\ Alike(a.stream[d], t)
    BY <2>1 DEF StreamState, Alike
  <2> HIDE DEF t
  <2> QED
    BY <1>7, <1>8, <2>1, <2>2, <2>3, RetimedGood
<1>10. CASE command.type = "talk" /\ successful
  <2>1. client' = Talks(a, command.channel, TRUE)
    BY <1>4, <1>10 DEF TalkbackStarted, Talks
  <2> QED
    BY <1>2, <1>7, <1>8, <2>1, TalksOK
<1>11. CASE command.type = "endTalk"
  <2> DEFINE m == Talks(a, NoChannel, FALSE)
  <2>1. client' = CloseEnergySavingDevice(m)
    BY <1>4, <1>11 DEF TalkbackStopped, Talks
  <2>2. Calm(a, m) /\ (Works(a) => Works(m))
    BY <1>7, TalksOK
  <2> HIDE DEF m
  <2>3. /\ ClientOK(client') /\ client'.stream = m.stream /\ SameWork(m, client')
        /\ Spares(m) => Spares(client')
    BY <2>1, <2>2, CloseEnergySavingDeviceOK DEF Calm
  <2>4. Calm(a, client') /\ (Works(m) => Works(client'))
    BY <2>2, <2>3 DEF Calm, Works, SendsOne, SameWork
  <2> QED
    BY <1>8, <2>2, <2>4
<1>12. CASE command.type = "stop" \/ (command.type = "talk" /\ ~successful)
  <2>1. client' = a
    BY <1>4, <1>12
  <2> QED
    BY <1>7, <1>8, <2>1, SameStreamsAreCalm
<1> QED
  BY <1>1, <1>9, <1>10, <1>11, <1>12 DEF Commands

LEMMA ReceiveEarlyIs ==
    ASSUME IndInv, NEW d \in DataTypes, ReceiveEarly(d)
    PROVE  \E t \in StreamState :
            /\ Alike(client.stream[d], t)
            /\ t.watchdog = client.stream[d].watchdog
            /\ client' = WithStream(client, d, t)
<1> DEFINE t == [client.stream[d] EXCEPT !.waitForSeqNo = TRUE, !.queuedData = TRUE]
<1>1. ClientOK(client) /\ client \in ClientType /\ client.stream \in [DataTypes -> StreamState]
  BY DEF IndInv, ClientOK, ClientType
<1>2. /\ t \in StreamState /\ Alike(client.stream[d], t)
      /\ t.watchdog = client.stream[d].watchdog
  <2>1. client.stream[d] \in StreamState
    BY <1>1
  <2> QED
    BY <2>1 DEF StreamState, Alike
<1>3. client' = WithStream(client, d, t)
  <2> DEFINE f == [client.stream EXCEPT ![d].waitForSeqNo = TRUE, ![d].queuedData = TRUE]
  <2>1. client' = [client EXCEPT !.stream = f]
    BY <1>1 DEF ReceiveEarly, ClientType
  <2>2. f = [client.stream EXCEPT ![d] = t]
    BY <1>1
  <2> HIDE DEF f
  <2> QED
    BY <1>1, <2>1, <2>2 DEF WithStream, ClientType
<1> HIDE DEF t
<1> QED
  BY <1>2, <1>3

LEMMA ReceiveEarlyKeeps ==
    ASSUME IndInv, NEW d \in DataTypes, ReceiveEarly(d)
    PROVE  Kept
BY ReceiveEarlyIs, RetimedGood DEF Kept, IndInv

LEMMA ReceiveFinishedKeeps ==
    ASSUME IndInv, ReceiveFinished
    PROVE  Kept
BY EndGood DEF ReceiveFinished, Kept, IndInv

(* Timers that end a stream. *)
LEMMA TimersEnd ==
    ASSUME IndInv, NEW d \in DataTypes,
           WatchdogFires(d) \/ GapTimerFires(d) \/ StrayWatchdog(d)
    PROVE  \E t \in StreamState, stop \in BOOLEAN :
            /\ Alike(client.stream[d], t)
            /\ t.watchdog \in {client.stream[d].watchdog, "none"}
            /\ client' = EndStream(WithStream(client, d, t), d, stop)
            /\ ~stop => WatchdogFires(d) /\ client.stream[d].watchdog = "quiet"
<1> DEFINE s == client.stream[d]
           Ends(t, stop) ==
                /\ Alike(s, t)
                /\ t.watchdog \in {s.watchdog, "none"}
                /\ client' = EndStream(WithStream(client, d, t), d, stop)
                /\ ~stop => WatchdogFires(d) /\ s.watchdog = "quiet"
<1>1. /\ ClientOK(client) /\ client \in ClientType /\ s \in StreamState
      /\ client.stream \in [DataTypes -> StreamState]
  BY DEF IndInv, ClientOK, ClientType
<1>2. CASE WatchdogFires(d)
  <2> DEFINE t == [s EXCEPT !.watchdog = "none"]
             stop == s.watchdog = "stop"
  <2>1. t \in StreamState /\ Alike(s, t) /\ t.watchdog = "none"
    BY <1>1 DEF StreamState, Alike
  <2>2. client' = EndStream(WithStream(client, d, t), d, stop)
    BY <1>2 DEF WatchdogFires, WithStream
  <2>3. ~stop => s.watchdog = "quiet"
    BY <1>1, <1>2 DEF WatchdogFires, StreamState
  <2>4. stop \in BOOLEAN
    OBVIOUS
  <2> HIDE DEF t, stop
  <2>5. Ends(t, stop)
    BY <1>2, <2>1, <2>2, <2>3
  <2> QED
    BY <2>1, <2>4, <2>5
<1>3. CASE GapTimerFires(d)
  <2> DEFINE t == [s EXCEPT !.waitForSeqNo = FALSE]
  <2>1. t \in StreamState /\ Alike(s, t) /\ t.watchdog = s.watchdog
    BY <1>1 DEF StreamState, Alike
  <2>2. client' = EndStream(WithStream(client, d, t), d, TRUE)
    BY <1>3 DEF GapTimerFires, WithStream
  <2> HIDE DEF t
  <2>3. Ends(t, TRUE)
    BY <2>1, <2>2
  <2> QED
    BY <2>1, <2>3
<1>4. CASE StrayWatchdog(d)
  <2> DEFINE t == [s EXCEPT !.strays["watchdog"] = @ - 1]
  <2>1. t \in StreamState /\ Alike(s, t) /\ t.watchdog = s.watchdog
    <3>1. s.strays \in [StrayKinds -> Nat] /\ s.strays["watchdog"] \in Nat \ {0}
          /\ "watchdog" \in StrayKinds
      BY <1>1, <1>4 DEF StrayWatchdog, StreamState, StrayKinds
    <3>2. [s.strays EXCEPT !["watchdog"] = @ - 1] \in [StrayKinds -> Nat]
      BY <3>1
    <3>3. t = [s EXCEPT !.strays = [s.strays EXCEPT !["watchdog"] = @ - 1]]
      BY <1>1 DEF StreamState
    <3> QED
      BY <1>1, <3>2, <3>3 DEF StreamState, Alike
  <2>2. client' = EndStream(WithStream(client, d, t), d, TRUE)
    <3>1. [client EXCEPT !.stream[d].strays["watchdog"] = @ - 1] = WithStream(client, d, t)
      BY <1>1 DEF WithStream
    <3> QED
      BY <1>4, <3>1 DEF StrayWatchdog
  <2> HIDE DEF t
  <2>3. Ends(t, TRUE)
    BY <2>1, <2>2
  <2> QED
    BY <2>1, <2>3
<1> QED
  BY <1>2, <1>3, <1>4

LEMMA TimersKeep ==
    ASSUME IndInv, NEW d \in DataTypes,
           WatchdogFires(d) \/ GapTimerFires(d) \/ StrayWatchdog(d)
    PROVE  Kept
<1>1. PICK t \in StreamState, stop \in BOOLEAN :
            /\ Alike(client.stream[d], t)
            /\ client' = EndStream(WithStream(client, d, t), d, stop)
  BY TimersEnd
<1> QED
  BY <1>1, RetimedAndEnded DEF Kept, IndInv

LEMMA EnergySavingDisconnectKeeps ==
    ASSUME IndInv, EnergySavingDisconnect
    PROVE  Kept
<1>1. ClientOK(client) /\ client' = Disconnected(client) /\ client.esdDisconnect
  BY DEF IndInv, EnergySavingDisconnect
<1>2. Works(client) => client.sending = << >>
  BY <1>1 DEF Works, Spares, SendsOne
<1> QED
  BY <1>1, <1>2, DisconnectedGood DEF Kept

LEMMA DisconnectKeeps ==
    ASSUME IndInv, Disconnect \/ ConnectFails
    PROVE  Kept
<1>1. ClientOK(client) /\ client' = Disconnected(client)
  BY DEF IndInv, Disconnect, ConnectFails
<1>2. Timely /\ Works(client) => client.sending = << >>
  BY DEF Timely, Works, SendsOne, Disconnect, ConnectFails
<1> QED
  BY <1>1, <1>2, DisconnectedGood DEF Kept

LEMMA ConnectionKeeps ==
    ASSUME IndInv, Connect \/ Connected \/ Keepalive
    PROVE  Kept
<1>1. ClientOK(client) /\ client \in ClientType
  BY DEF IndInv, ClientOK
<1>2. CASE Connect
  <2>1. /\ client' \in ClientType /\ client'.stream = client.stream
        /\ client'.sendQueue = client.sendQueue
        /\ client'.unacknowledged = client.unacknowledged
        /\ client'.sending = client.sending
        /\ client'.esdDisconnect = client.esdDisconnect
        /\ client.connection = "closed"
    BY <1>1, <1>2 DEF Connect, ClientType
  <2>2. ClientOK(client') /\ (Works(client) => Works(client'))
    BY <1>1, <2>1 DEF ClientOK, Works, Spares, SendsOne
  <2>3. Calm(client, client')
    BY <2>1, <2>2, SameStreamsAreCalm
  <2> QED
    BY <2>2, <2>3, CalmIsGood DEF Kept
<1>3. CASE Connected
  <2> DEFINE q == [client EXCEPT !.connection = "connected", !.esdDisconnect = FALSE]
  <2>1. /\ q \in ClientType /\ q.stream = client.stream /\ ~q.esdDisconnect
        /\ q.sending = client.sending /\ client.connection = "connecting"
    BY <1>1, <1>3 DEF Connected, ClientType
  <2>2. client' = SendQueuedMessage(q)
    BY <1>3 DEF Connected
  <2> HIDE DEF q
  <2>3. ClientOK(q) /\ (Works(client) => Works(q))
    BY <1>1, <2>1 DEF ClientOK, Works, Spares, SendsOne
  <2>4. Calm(client, q)
    BY <2>1, <2>3, SameStreamsAreCalm
  <2> QED
    BY <2>2, <2>3, <2>4, QueueKeeps, CalmThenGood DEF Kept
<1>4. CASE Keepalive
  <2>1. /\ ClientOK(client') /\ client'.stream = client.stream /\ SameWork(client, client')
        /\ Spares(client) => Spares(client')
    BY <1>1, <1>4, CloseEnergySavingDeviceOK DEF Keepalive
  <2>2. Works(client) => Works(client')
    BY <2>1 DEF Works, SendsOne, SameWork
  <2> QED
    BY <2>1, <2>2, SameStreamsAreCalm, CalmIsGood DEF Kept
<1> QED
  BY <1>2, <1>3, <1>4

LEMMA ReceiveConvertedIs ==
    ASSUME IndInv, NEW c \in Channels, ReceiveConverted(c)
    PROVE  /\ "BINARY" \in DataTypes
           /\ \E t : StreamInv(t) /\ t.p2pStreaming /\ client' = WithStream(client, "BINARY", t)
           /\ Timely => client.stream["BINARY"].p2pStreaming
<1> DEFINE s == client.stream["BINARY"]
           t == [s EXCEPT !.p2pStreaming = TRUE, !.p2pStreamChannel = c]
<1>1. /\ ClientOK(client) /\ client \in ClientType /\ "BINARY" \in DataTypes
      /\ client.stream \in [DataTypes -> StreamState] /\ StreamInv(s)
  BY DEF IndInv, ClientOK, ClientType, ReceiveConverted
<1>2. /\ t \in StreamState /\ t.p2pStreaming /\ t.p2pStreamChannel = c
      /\ t.p2pStreamNotStarted = s.p2pStreamNotStarted /\ t.firstVideo = s.firstVideo
  BY <1>1 DEF StreamState, StreamInv
<1>3. client' = WithStream(client, "BINARY", t)
  <2> DEFINE f == [client.stream EXCEPT !["BINARY"].p2pStreaming = TRUE,
                                        !["BINARY"].p2pStreamChannel = c]
  <2>1. client' = [client EXCEPT !.stream = f]
    BY <1>1 DEF ReceiveConverted, ClientType
  <2>2. f = [client.stream EXCEPT !["BINARY"] = t]
    BY <1>1
  <2> HIDE DEF f
  <2> QED
    BY <1>1, <2>1, <2>2 DEF WithStream, ClientType
<1> HIDE DEF t
<1>4. StreamInv(t)
  BY <1>1, <1>2, StreamAssumption DEF StreamInv
<1>5. Timely => s.p2pStreaming
  BY DEF Timely, ReceiveConverted, IsStreaming
<1> QED
  BY <1>1, <1>2, <1>3, <1>4, <1>5

LEMMA ReceiveConvertedKeeps ==
    ASSUME IndInv, NEW c \in Channels, ReceiveConverted(c)
    PROVE  Kept
<1>1. /\ ClientOK(client) /\ client.stream \in [DataTypes -> StreamState]
      /\ "VIDEO" \in DataTypes /\ "BINARY" \in DataTypes
  BY StreamAssumption, ReceiveConvertedIs DEF IndInv, ClientOK, ClientType
<1>2. PICK t : StreamInv(t) /\ t.p2pStreaming /\ client' = WithStream(client, "BINARY", t)
  BY ReceiveConvertedIs
<1>5. /\ ClientOK(client')
      /\ client'.stream = [client.stream EXCEPT !["BINARY"] = t]
      /\ client'.stream["BINARY"] = t
      /\ \A e \in DataTypes \ {"BINARY"} : client'.stream[e] = client.stream[e]
      /\ SameWork(client, client')
      /\ client'.esdDisconnect = client.esdDisconnect
      /\ client'.awaiting = client.awaiting
  BY <1>1, <1>2, OneStreamChanges
<1>6. Video(client') = Video(client)
  BY <1>1, <1>5 DEF Video
<1>7. Timely => client.stream["BINARY"].p2pStreaming
  BY ReceiveConvertedIs
<1>8. Timely /\ Works(client) => Works(client')
  BY <1>1, <1>5, <1>7 DEF Works, Spares, SendsOne, SameWork
<1> QED
  BY <1>5, <1>6, <1>8, Steps DEF Good, Kept

(* A frame, or a timer that stands for one. *)
LEMMA StreamStepWorks ==
    ASSUME NEW cl, ClientOK(cl), NEW d \in DataTypes, NEW t, StreamInv(t),
           t.p2pStreaming = cl.stream[d].p2pStreaming
    PROVE  /\ ClientOK(WithStream(cl, d, t))
           /\ WithStream(cl, d, t).stream[d] = t
           /\ \A e \in DataTypes \ {d} : WithStream(cl, d, t).stream[e] = cl.stream[e]
           /\ Works(cl) => Works(WithStream(cl, d, t))
<1> DEFINE r == WithStream(cl, d, t)
<1>1. /\ ClientOK(r)
      /\ r.stream = [cl.stream EXCEPT ![d] = t]
      /\ r.stream[d] = t
      /\ \A e \in DataTypes \ {d} : r.stream[e] = cl.stream[e]
      /\ SameWork(cl, r)
      /\ r.esdDisconnect = cl.esdDisconnect
      /\ r.awaiting = cl.awaiting
  BY OneStreamChanges
<1> HIDE DEF r
<1>2. \A e \in DataTypes : r.stream[e].p2pStreaming = cl.stream[e].p2pStreaming
  BY <1>1
<1>3. Works(cl) => Works(r)
  BY <1>1, <1>2 DEF Works, Spares, SendsOne, SameWork
<1> QED
  BY <1>1, <1>3 DEF r

LEMMA StreamStepGood ==
    ASSUME NEW cl, ClientOK(cl), NEW d \in DataTypes, NEW t, StreamInv(t),
           FirstOnly => Step(cl.stream[d], t),
           t.p2pStreaming = cl.stream[d].p2pStreaming
    PROVE  Good(cl, WithStream(cl, d, t))
<1> DEFINE r == WithStream(cl, d, t)
<1>1. /\ ClientOK(r)
      /\ r.stream[d] = t
      /\ \A e \in DataTypes \ {d} : r.stream[e] = cl.stream[e]
      /\ Works(cl) => Works(r)
  BY StreamStepWorks
<1> HIDE DEF r
<1>2. FirstOnly => Step(Video(cl), Video(r))
  <2>1. CASE d = "VIDEO"
    BY <1>1, <2>1 DEF Video
  <2>2. CASE d # "VIDEO"
    <3>1. Video(r) = Video(cl)
      BY <1>1, <2>2, StreamAssumption DEF Video
    <3> QED
      BY <3>1, Steps
  <2> QED
    BY <2>1, <2>2
<1> QED
  BY <1>1, <1>2 DEF Good, r

LEMMA ReadyStep ==
    ASSUME NEW s, StreamInv(s), NEW q \in StreamState, Alike(s, q)
    PROVE  /\ StreamInv(StartIfReady(q))
           /\ Step(s, StartIfReady(q))
           /\ StartIfReady(q).p2pStreaming = s.p2pStreaming
<1>1. StreamInv(q)
  BY AlikeKeepsInv
<1>2. Step(q, StartIfReady(q))
  BY <1>1, StartIfReadyOK DEF Step
<1>3. q.p2pStreaming = s.p2pStreaming
  BY DEF Alike
<1> QED
  BY <1>1, <1>2, <1>3, StartIfReadyOK, Steps

LEMMA AudioTimersAre ==
    ASSUME IndInv, NEW d \in DataTypes, AudioTimerFires(d) \/ StrayAudioTimer(d)
    PROVE  \E q \in StreamState :
            /\ Alike(client.stream[d], q)
            /\ q.watchdog = client.stream[d].watchdog
            /\ client' = WithStream(client, d, StartIfReady(q))
<1> DEFINE s == client.stream[d]
<1>1. /\ ClientOK(client) /\ client \in ClientType /\ s \in StreamState /\ StreamInv(s)
      /\ client.stream \in [DataTypes -> StreamState]
  BY DEF IndInv, ClientOK, ClientType
<1>3. CASE AudioTimerFires(d)
  <2> DEFINE q == [s EXCEPT !.waitForAudioData = FALSE, !.firstAudio = TRUE]
  <2>1. q \in StreamState /\ Alike(s, q) /\ q.watchdog = s.watchdog
    BY <1>1 DEF StreamState, Alike
  <2>2. client' = WithStream(client, d, StartIfReady(q))
    BY <1>3 DEF AudioTimerFires, WithStream
  <2> HIDE DEF q
  <2> QED
    BY <2>1, <2>2
<1>4. CASE StrayAudioTimer(d)
  <2> DEFINE f == [s.strays EXCEPT !["audio"] = @ - 1 + One(s.waitForAudioData)]
             u == Strayed(s, "audio", "waitForAudioData")
             q == [u EXCEPT !.firstAudio = TRUE]
  <2>1. s.strays \in [StrayKinds -> Nat] /\ s.strays["audio"] \in Nat \ {0}
        /\ "audio" \in StrayKinds
    BY <1>1, <1>4 DEF StrayAudioTimer, StreamState, StrayKinds
  <2>2. One(s.waitForAudioData) \in Nat
    BY DEF One
  <2>3. f \in [StrayKinds -> Nat]
    BY <2>1, <2>2
  <2>4. u = [s EXCEPT !.strays = f, !.waitForAudioData = FALSE]
    BY <1>1 DEF Strayed, StreamState
  <2> HIDE DEF f, u
  <2>5. q \in StreamState /\ Alike(s, q) /\ q.watchdog = s.watchdog
    BY <1>1, <2>3, <2>4 DEF StreamState, Alike
  <2>6. client' = WithStream(client, d, StartIfReady(q))
    BY <1>4 DEF StrayAudioTimer, WithStream, u
  <2> HIDE DEF q
  <2> QED
    BY <2>5, <2>6
<1> QED
  BY <1>3, <1>4

LEMMA AudioTimersKeep ==
    ASSUME IndInv, NEW d \in DataTypes, AudioTimerFires(d) \/ StrayAudioTimer(d)
    PROVE  Kept
<1>1. ClientOK(client) /\ StreamInv(client.stream[d])
  BY DEF IndInv, ClientOK
<1>2. PICK q \in StreamState :
            /\ Alike(client.stream[d], q)
            /\ client' = WithStream(client, d, StartIfReady(q))
  BY AudioTimersAre
<1> QED
  BY <1>1, <1>2, ReadyStep, StreamStepGood DEF Kept

OneLess(s) == [s EXCEPT !.strays["gap"] = @ - 1]

LEMMA OneLessOK ==
    ASSUME NEW s \in StreamState, s.strays["gap"] > 0
    PROVE  OneLess(s) \in StreamState /\ Alike(s, OneLess(s))
<1> DEFINE f == [s.strays EXCEPT !["gap"] = @ - 1]
<1>1. s.strays \in [StrayKinds -> Nat] /\ "gap" \in StrayKinds
  BY DEF StreamState, StrayKinds
<1>2. s.strays["gap"] \in Nat \ {0}
  BY <1>1
<1>3. f \in [StrayKinds -> Nat]
  BY <1>1, <1>2
<1>4. OneLess(s) = [s EXCEPT !.strays = f]
  BY DEF StreamState, OneLess
<1> HIDE DEF f
<1> QED
  BY <1>3, <1>4 DEF StreamState, Alike

LEMMA OneLessInClient ==
    ASSUME NEW d \in DataTypes, client \in ClientType,
           client.stream \in [DataTypes -> StreamState]
    PROVE  [client EXCEPT !.stream[d].strays["gap"] = @ - 1]
                = WithStream(client, d, OneLess(client.stream[d]))
BY DEF WithStream, OneLess

LEMMA StrayGapTimerIs ==
    ASSUME IndInv, NEW d \in DataTypes, StrayGapTimer(d)
    PROVE  \E t, v \in StreamState : \E e :
            /\ Alike(client.stream[d], t)
            /\ t.watchdog = client.stream[d].watchdog
            /\ e = EndStream(WithStream(client, d, t), d, TRUE)
            /\ Alike(e.stream[d], v)
            /\ v.watchdog = e.stream[d].watchdog
            /\ client' = WithStream(e, d, v)
<1> DEFINE s == client.stream[d]
           t == OneLess(s)
           e == EndStream(WithStream(client, d, t), d, TRUE)
           u == e.stream[d]
           v == [u EXCEPT !.strays["gap"] = @ + One(u.waitForSeqNo), !.waitForSeqNo = FALSE]
<1>1. /\ ClientOK(client) /\ client \in ClientType /\ s \in StreamState
      /\ client.stream \in [DataTypes -> StreamState]
  BY DEF IndInv, ClientOK, ClientType
<1>2. t \in StreamState /\ Alike(s, t) /\ t.watchdog = s.watchdog
  <2>1. t.watchdog = s.watchdog
    BY <1>1 DEF OneLess, StreamState
  <2> QED
    BY <1>1, <2>1, OneLessOK DEF StrayGapTimer
<1>3. [client EXCEPT !.stream[d].strays["gap"] = @ - 1] = WithStream(client, d, t)
  BY <1>1, OneLessInClient
<1>4. client' = WithStream(e, d, v)
  BY <1>3 DEF StrayGapTimer, WithStream
<1>a. e = EndStream(WithStream(client, d, t), d, TRUE)
  OBVIOUS
<1> HIDE DEF t
<1>5. Good(client, e) /\ ClientOK(e)
  BY <1>1, <1>2, RetimedAndEnded DEF Good
<1> HIDE DEF e
<1>6. u \in StreamState
  BY <1>5 DEF ClientOK, StreamInv
<1> HIDE DEF u
<1>7. v \in StreamState /\ Alike(u, v) /\ v.watchdog = u.watchdog
  <2>1. u.strays \in [StrayKinds -> Nat] /\ "gap" \in StrayKinds /\ One(u.waitForSeqNo) \in Nat
    BY <1>6 DEF StreamState, StrayKinds, One
  <2>2. [u.strays EXCEPT !["gap"] = @ + One(u.waitForSeqNo)] \in [StrayKinds -> Nat]
    BY <2>1
  <2>3. v = [u EXCEPT !.strays = [u.strays EXCEPT !["gap"] = @ + One(u.waitForSeqNo)],
                      !.waitForSeqNo = FALSE]
    BY <1>6 DEF StreamState
  <2> QED
    BY <1>6, <2>2, <2>3 DEF StreamState, Alike
<1> HIDE DEF v
<1> QED
  BY <1>2, <1>4, <1>a, <1>7 DEF u

LEMMA StrayGapTimerKeeps ==
    ASSUME IndInv, NEW d \in DataTypes, StrayGapTimer(d)
    PROVE  Kept
<1>1. PICK t, v \in StreamState : \E e :
            /\ Alike(client.stream[d], t)
            /\ e = EndStream(WithStream(client, d, t), d, TRUE)
            /\ Alike(e.stream[d], v)
            /\ client' = WithStream(e, d, v)
  BY StrayGapTimerIs
<1>0. PICK e :
            /\ Alike(client.stream[d], t)
            /\ e = EndStream(WithStream(client, d, t), d, TRUE)
            /\ Alike(e.stream[d], v)
            /\ client' = WithStream(e, d, v)
  BY <1>1
<1>2. Good(client, e) /\ ClientOK(e)
  BY <1>0, RetimedAndEnded DEF Good, IndInv
<1>3. Calm(e, client') /\ (Works(e) => Works(client'))
  BY <1>0, <1>2, RetimedGood
<1> QED
  BY <1>2, <1>3, GoodThenCalm DEF Kept

(* One packet, and those that waited for it. *)
ParsesFirst(s, t) == BreaksFirst(s) => BreaksFirst(t) /\ Parses(s, t)

LEMMA ParsedTwice ==
    ASSUME NEW s, StreamInv(s), NEW frame \in NextFrames(s),
           NEW next \in NextFrames(Parsed(s, frame))
    PROVE  /\ StreamInv(Parsed(Parsed(s, frame), next))
           /\ FirstOnly => ParsesFirst(s, Parsed(Parsed(s, frame), next))
           /\ Parsed(Parsed(s, frame), next).p2pStreaming = s.p2pStreaming
           /\ Parsed(Parsed(s, frame), next).p2pStreamChannel = s.p2pStreamChannel
<1> DEFINE p == Parsed(s, frame)
           r == Parsed(p, next)
<1>1. frame \in FrameKinds /\ next \in FrameKinds
  BY DEF NextFrames
<1>2. /\ StreamInv(p) /\ p.p2pStreaming = s.p2pStreaming
      /\ p.p2pStreamChannel = s.p2pStreamChannel
      /\ BreaksFirst(s) /\ FirstOnly =>
            /\ BreaksFirst(p) /\ Parses(s, p)
            /\ Phase(s) # "requested" \/ Phase(p) = "requested" => Still(s, p)
  BY <1>1, ParsedOK DEF FirstOnly
<1> HIDE DEF p
<1>3. next \in NextFrames(p)
  BY DEF p
<1>4. /\ StreamInv(r) /\ r.p2pStreaming = p.p2pStreaming
      /\ r.p2pStreamChannel = p.p2pStreamChannel
      /\ BreaksFirst(p) /\ FirstOnly =>
            /\ BreaksFirst(r) /\ Parses(p, r)
            /\ Phase(p) # "requested" \/ Phase(r) = "requested" => Still(p, r)
  BY <1>1, <1>2, <1>3, ParsedOK DEF FirstOnly
<1> HIDE DEF r
<1>5. ASSUME FirstOnly, BreaksFirst(s)
      PROVE  BreaksFirst(r) /\ Parses(s, r)
  <2>0. BreaksFirst(r) /\ Parses(s, p) /\ Parses(p, r)
    BY <1>2, <1>4, <1>5
  <2>1. CASE Phase(p) = "requested"
    <3>1. Still(s, p)
      BY <1>2, <1>5, <2>1
    <3>2. p.invalidStream = s.invalidStream
      BY <2>0, <2>1 DEF Parses, Breaks
    <3>3. CASE Breaks(p, r)
      BY <2>0, <3>1, <3>3 DEF Parses, Breaks, Still
    <3>4. CASE Moves(p, r) /\ r.invalidStream = p.invalidStream
      BY <2>0, <3>1, <3>2, <3>4, StillAndMoves DEF Parses
    <3> QED
      BY <2>0, <3>3, <3>4 DEF Parses
  <2>2. CASE Phase(p) # "requested"
    <3>1. Still(p, r)
      BY <1>2, <1>4, <1>5, <2>2
    <3>2. r.invalidStream = p.invalidStream
      BY <2>0, <2>2 DEF Parses, Breaks
    <3>3. CASE Breaks(s, p)
      BY <2>0, <3>1, <3>3 DEF Parses, Breaks, Still
    <3>4. CASE Moves(s, p) /\ p.invalidStream = s.invalidStream
      BY <2>0, <3>1, <3>2, <3>4, StillAndMoves DEF Parses
    <3> QED
      BY <2>0, <3>3, <3>4 DEF Parses
  <2> QED
    BY <2>1, <2>2
<1> QED
  BY <1>2, <1>4, <1>5 DEF ParsesFirst, p, r

LEMMA ReportedOK ==
    ASSUME NEW s, StreamInv(s), NEW c \in Channels
    PROVE  /\ StreamInv(Reported(s, c))
           /\ Reported(s, c).p2pStreaming = s.p2pStreaming
           /\ Reported(s, c).p2pStreamChannel = s.p2pStreamChannel
           /\ Reported(s, c).invalidStream = s.invalidStream
           /\ Reported(s, c).firstVideo = s.firstVideo
           /\ Reported(s, c).watchdog = s.watchdog
           /\ Phase(Reported(s, c)) = Phase(s)
           /\ Reported(s, c).reports = Append(s.reports, [event |-> "error", channel |-> c])
<1>1. s \in StreamState /\ [event |-> "error", channel |-> c] \in Report
  BY DEF StreamInv, Report
<1>2. Append(s.reports, [event |-> "error", channel |-> c]) \in Seq(Report)
  BY <1>1 DEF StreamState
<1>3. /\ Reported(s, c) \in StreamState
      /\ Reported(s, c).p2pStreaming = s.p2pStreaming
      /\ Reported(s, c).p2pStreamChannel = s.p2pStreamChannel
      /\ Reported(s, c).invalidStream = s.invalidStream
      /\ Reported(s, c).firstVideo = s.firstVideo
      /\ Reported(s, c).p2pStreamNotStarted = s.p2pStreamNotStarted
      /\ Reported(s, c).watchdog = s.watchdog
      /\ Reported(s, c).reports = Append(s.reports, [event |-> "error", channel |-> c])
  BY <1>1, <1>2 DEF Reported, StreamState
<1> QED
  BY <1>3 DEF StreamInv, Phase

(* What the add-on does when it is told. *)
LEMMA StoppedOK ==
    ASSUME NEW cl, ClientOK(cl), NEW c \in Channels
    PROVE  /\ ClientOK(Stopped(cl, c))
           /\ Stopped(cl, c).stream = cl.stream
           /\ Works(cl) => Works(Stopped(cl, c))
<1> DEFINE command == Command("stop", "VIDEO", c)
<1>1. command \in Commands
  BY StreamAssumption DEF Command, Commands
<1> HIDE DEF command
<1>2. LET r == SendCommand(cl, command)
      IN  ClientOK(r) /\ r.stream = cl.stream /\ (Works(cl) => Works(r))
  BY <1>1, SendCommandOK DEF Works
<1>3. Stopped(cl, c) \in {cl, SendCommand(cl, command)}
  BY DEF Stopped, command
<1> QED
  BY <1>2, <1>3

(* After the frames, the stream of the data type d is s. *)
LEMMA AfterFramesKeep ==
    ASSUME IndInv, NEW d \in DataTypes, NEW s, StreamInv(s),
           FirstOnly => ParsesFirst(client.stream[d], s),
           s.p2pStreaming = client.stream[d].p2pStreaming,
           s.p2pStreamChannel = client.stream[d].p2pStreamChannel,
           NEW c \in Senders(client.stream[d]),
           client' = AfterFrames(client, d, s, c)
    PROVE  Kept
<1> DEFINE o == client.stream[d]
           w == WithStream(client, d, s)
           v == Reported(Video(w), c)
           e == WithStream(w, "VIDEO", v)
<1>0. ClientOK(client) /\ StreamInv(o) /\ "VIDEO" \in DataTypes
  BY StreamAssumption DEF IndInv, ClientOK
<1>1. /\ ClientOK(w) /\ w.stream[d] = s
      /\ \A x \in DataTypes \ {d} : w.stream[x] = client.stream[x]
      /\ Works(client) => Works(w)
  BY <1>0, StreamStepWorks
<1>2. client' = IF s.invalidStream /\ ~o.invalidStream THEN Stopped(e, c) ELSE w
  BY DEF AfterFrames, LivestreamError, WithStream, Reported, Video
<1>3. CASE ~(s.invalidStream /\ ~o.invalidStream)
  <2>1. FirstOnly => Step(o, s)
    <3>1. ~Breaks(o, s)
      BY <1>0, <1>3, PhaseIs DEF Breaks, StreamInv
    <3> QED
      BY <3>1 DEF ParsesFirst, Parses, Step
  <2>2. Good(client, w)
    BY <1>0, <2>1, StreamStepGood
  <2> HIDE DEF w
  <2> QED
    BY <1>2, <1>3, <2>2 DEF Kept
<1>4. CASE s.invalidStream /\ ~o.invalidStream
  <2>1. s.p2pStreaming /\ o.p2pStreamChannel \in Channels
    BY <1>0, <1>4 DEF StreamInv, StreamState
  <2>2. c \in Channels
    BY <2>1 DEF Senders
  <2> HIDE DEF w
  <2>3. StreamInv(Video(w))
    BY <1>0, <1>1 DEF ClientOK, Video
  <2>4. /\ StreamInv(v) /\ v.p2pStreaming = Video(w).p2pStreaming
        /\ v.invalidStream = Video(w).invalidStream /\ v.firstVideo = Video(w).firstVideo
        /\ v.p2pStreamChannel = Video(w).p2pStreamChannel
        /\ Phase(v) = Phase(Video(w))
        /\ v.reports = Append(Video(w).reports, [event |-> "error", channel |-> c])
    BY <2>2, <2>3, ReportedOK
  <2>5. v = Reported(Video(w), c)
    OBVIOUS
  <2> HIDE DEF v
  <2>6. /\ ClientOK(e) /\ e.stream["VIDEO"] = v
        /\ \A x \in DataTypes \ {"VIDEO"} : e.stream[x] = w.stream[x]
        /\ Works(w) => Works(e)
    BY <1>0, <1>1, <2>4, StreamStepWorks DEF Video
  <2> HIDE DEF e
  <2>7. /\ ClientOK(client') /\ client'.stream = e.stream
        /\ Works(e) => Works(client')
    BY <1>2, <1>4, <2>2, <2>6, StoppedOK
  <2>8. Video(client') = v
    BY <2>6, <2>7 DEF Video
  <2>9. Works(client) => Works(client')
    BY <1>1, <2>6, <2>7
  <2>10. CASE d = "VIDEO"
    <3>1. Video(client) = o /\ Video(w) = s
      BY <1>1, <2>10 DEF Video
    <3>2. ASSUME FirstOnly, BreaksFirst(o)
          PROVE  BreaksFirst(v) /\ Moves(o, v)
      <4>1. BreaksFirst(s) /\ Breaks(o, s)
        BY <1>4, <3>2 DEF ParsesFirst, Parses
      <4>2. c = o.p2pStreamChannel
        BY <3>2 DEF FirstOnly, Senders
      <4>3. v.reports = Told(o, "error")
        BY <2>4, <3>1, <4>1, <4>2 DEF Breaks, Told
      <4> QED
        BY <2>4, <3>1, <4>1, <4>3 DEF BreaksFirst, Breaks, Moves
    <3>3. FirstOnly => Step(Video(client), Video(client'))
      BY <2>8, <3>1, <3>2 DEF Step
    <3> QED
      BY <2>7, <2>9, <3>3 DEF Kept, Good
  <2>11. CASE d # "VIDEO"
    <3>1. \A x \in DataTypes : x = "VIDEO" \/ x = d
      BY <2>11, StreamAssumption
    <3>2. ~DownloadIsBroken(client)
      BY <1>4, <3>1 DEF DownloadIsBroken
    <3>3. client'.stream[d] = s
      BY <1>1, <2>6, <2>7, <2>11
    <3>4. DownloadIsBroken(client')
      BY <1>4, <2>11, <3>3 DEF DownloadIsBroken
    <3>5. Video(w) = Video(client)
      BY <1>0, <1>1, <2>11 DEF Video
    <3>6. Video(client') = Reported(Video(client), c)
      BY <2>5, <2>8, <3>5
    <3> QED
      BY <2>2, <2>7, <2>9, <3>2, <3>4, <3>6 DEF Kept, Misreported, Misreports
  <2> QED
    BY <2>10, <2>11
<1> QED
  BY <1>3, <1>4

Arrived(s) == [s EXCEPT !.waitForSeqNo = FALSE]
Waiting(s, more) == [s EXCEPT !.queuedData = more]

LEMMA PacketMarks ==
    ASSUME NEW s \in StreamState
    PROVE  /\ Arrived(s) \in StreamState /\ Alike(s, Arrived(s))
           /\ Arrived(s).firstVideo = s.firstVideo
           /\ \A more \in BOOLEAN :
                Waiting(s, more) \in StreamState /\ Alike(s, Waiting(s, more))
BY DEF StreamState, Alike, Arrived, Waiting

LEMMA ReceiveExpectedKeeps ==
    ASSUME IndInv, NEW d \in DataTypes, NEW frame \in FrameKinds, ReceiveExpected(d, frame)
    PROVE  Kept
<1> DEFINE s == client.stream[d]
           q == Arrived(s)
           p == Parsed(q, frame)
<1>1. StreamInv(s) /\ s \in StreamState /\ frame \in NextFrames(s)
  BY DEF IndInv, ClientOK, StreamInv, ReceiveExpected
<1>2. q \in StreamState /\ Alike(s, q) /\ q.firstVideo = s.firstVideo
  BY <1>1, PacketMarks
<1>3. ASSUME NEW t, StreamInv(t), FirstOnly => ParsesFirst(q, t),
             t.p2pStreaming = q.p2pStreaming, t.p2pStreamChannel = q.p2pStreamChannel,
             NEW c \in Senders(s), client' = AfterFrames(client, d, t, c)
      PROVE  Kept
  <2>1. FirstOnly => ParsesFirst(s, t)
    <3>1. Still(s, q) /\ q.invalidStream = s.invalidStream /\ BreaksFirst(q) = BreaksFirst(s)
      BY <1>2 DEF Alike, Still, Phase, BreaksFirst
    <3>2. Moves(q, t) => Moves(s, t)
      BY <3>1, StillAndMoves
    <3>3. Breaks(q, t) => Breaks(s, t)
      BY <3>1 DEF Still, Breaks
    <3> QED
      BY <1>3, <3>1, <3>2, <3>3 DEF ParsesFirst, Parses
  <2>2. t.p2pStreaming = s.p2pStreaming /\ t.p2pStreamChannel = s.p2pStreamChannel
    BY <1>2, <1>3 DEF Alike
  <2> QED
    BY <1>3, <2>1, <2>2, AfterFramesKeep
<1>4. StreamInv(q) /\ frame \in NextFrames(q)
  BY <1>1, <1>2, AlikeKeepsInv DEF NextFrames
<1>5. PICK c \in Senders(s) :
            /\ ~s.queuedData =>
                    client' = AfterFrames(client, d, p, c)
            /\ s.queuedData =>
                    \E next \in NextFrames(p), more \in BOOLEAN :
                        client' = AfterFrames(client, d, Waiting(Parsed(p, next), more), c)
  BY DEF ReceiveExpected, Arrived, Waiting
<1> HIDE DEF q
<1>6. CASE ~s.queuedData
  <2>1. /\ StreamInv(p) /\ (FirstOnly => ParsesFirst(q, p))
        /\ p.p2pStreaming = q.p2pStreaming /\ p.p2pStreamChannel = q.p2pStreamChannel
    BY <1>4, ParsedOK DEF FirstOnly, ParsesFirst
  <2> QED
    BY <1>3, <1>5, <1>6, <2>1
<1>7. CASE s.queuedData
  <2>1. PICK next \in NextFrames(p), more \in BOOLEAN :
            client' = AfterFrames(client, d, Waiting(Parsed(p, next), more), c)
    BY <1>5, <1>7
  <2> DEFINE r == Parsed(p, next)
             t == Waiting(r, more)
  <2>2. /\ StreamInv(r) /\ (FirstOnly => ParsesFirst(q, r))
        /\ r.p2pStreaming = q.p2pStreaming /\ r.p2pStreamChannel = q.p2pStreamChannel
    BY <1>4, <2>1, ParsedTwice
  <2> HIDE DEF r
  <2>3. t \in StreamState /\ Alike(r, t)
    BY <2>1, <2>2, PacketMarks DEF StreamInv
  <2>4. client' = AfterFrames(client, d, t, c)
    BY <2>1 DEF r
  <2> HIDE DEF t
  <2>5. StreamInv(t) /\ t.p2pStreaming = q.p2pStreaming
        /\ t.p2pStreamChannel = q.p2pStreamChannel
    BY <2>2, <2>3, AlikeKeepsInv DEF Alike
  <2>6. FirstOnly => ParsesFirst(q, t)
    <3>1. Still(r, t) /\ t.invalidStream = r.invalidStream /\ BreaksFirst(t) = BreaksFirst(r)
      BY <2>3 DEF Alike, Still, Phase, BreaksFirst
    <3>2. Moves(q, r) => Moves(q, t)
      BY <3>1, StillAndMoves
    <3>3. Breaks(q, r) => Breaks(q, t)
      BY <3>1 DEF Still, Breaks
    <3> QED
      BY <2>2, <3>1, <3>2, <3>3 DEF ParsesFirst, Parses
  <2> QED
    BY <1>3, <2>4, <2>5, <2>6
<1> QED
  BY <1>6, <1>7

----------------------------------------------------------------------------
(* Every step keeps the session in order, and the other variables typed.   *)
LEMMA NextKeeps ==
    ASSUME IndInv, Next
    PROVE  Kept
<1>1. ASSUME NEW c \in Channels,
             \/ StartLivestream(c) \/ StopLivestream(c) \/ MaximumReached(c) \/ StrayMaximum(c)
             \/ StartDownload(c) \/ CancelDownload(c) \/ ReceiveConverted(c)
             \/ \E type \in {"talk", "endTalk"} : Talkback(type, c)
      PROVE  Kept
  BY <1>1, ApplicationKeeps, ReceiveConvertedKeeps
<1>2. CASE MessageSent
  BY <1>2, MessageSentKeeps
<1>3. CASE ReceiveAck
  BY <1>3, ReceiveAckKeeps
<1>4. CASE GiveUp
  BY <1>4, GiveUpKeeps
<1>5. CASE \E command \in client.awaiting, successful \in BOOLEAN :
                ReceiveResult(command, successful)
  BY <1>5, ReceiveResultKeeps
<1>6. CASE ReceiveFinished
  BY <1>6, ReceiveFinishedKeeps
<1>7. ASSUME NEW d \in DataTypes,
             \/ \E frame \in FrameKinds : ReceiveExpected(d, frame)
             \/ ReceiveEarly(d) \/ WatchdogFires(d) \/ GapTimerFires(d) \/ AudioTimerFires(d)
             \/ StrayGapTimer(d) \/ StrayAudioTimer(d) \/ StrayWatchdog(d)
      PROVE  Kept
  BY <1>7, ReceiveExpectedKeeps, ReceiveEarlyKeeps, TimersKeep, AudioTimersKeep,
     StrayGapTimerKeeps
<1>8. CASE Disconnect \/ ConnectFails \/ EnergySavingDisconnect
  BY <1>8, DisconnectKeeps, EnergySavingDisconnectKeeps
<1>9. CASE Connect \/ Connected \/ Keepalive
  BY <1>9, ConnectionKeeps
<1> QED
  BY <1>1, <1>2, <1>3, <1>4, <1>5, <1>6, <1>7, <1>8, <1>9 DEF Next

MaximumType == maximum \in [Channels -> [armed : BOOLEAN, strays : Nat]]
StationType == station \in [DataTypes -> Channels \cup {NoChannel}]
BoundsType == commands \in 0..MaxCommands /\ cameras \subseteq Channels /\ frames \in 0..MaxFrames

LEMMA OtherTypes ==
    ASSUME IndInv, Next
    PROVE  MaximumType' /\ StationType' /\ BoundsType'
<1> USE StreamAssumption
<1>0. MaximumType /\ StationType /\ BoundsType
  BY DEF IndInv, TypeOK, MaximumType, StationType, BoundsType
<1>1. MaximumType'
  <2>1. CASE UNCHANGED maximum
    BY <1>0, <2>1 DEF MaximumType
  <2>2. CASE maximum' = MaximaStopped
    BY <1>0, <2>2 DEF MaximumType, MaximaStopped
  <2>3. ASSUME NEW c \in Channels, NEW m \in [armed : BOOLEAN, strays : Nat],
               maximum' = [maximum EXCEPT ![c] = m]
        PROVE  MaximumType'
    BY <1>0, <2>3 DEF MaximumType
  <2>4. \A c \in Channels : /\ maximum[c] \in [armed : BOOLEAN, strays : Nat]
                            /\ One(maximum[c].armed) \in Nat
    BY <1>0 DEF MaximumType, One
  <2>5. ASSUME NEW c \in Channels, StartLivestream(c)
        PROVE  MaximumType'
    <3> DEFINE m == [armed |-> TRUE, strays |-> maximum[c].strays + One(maximum[c].armed)]
    <3>1. m \in [armed : BOOLEAN, strays : Nat]
      BY <2>4
    <3>2. maximum' = [maximum EXCEPT ![c] = m]
      BY <2>5 DEF StartLivestream
    <3> QED
      BY <2>3, <3>1, <3>2
  <2>6. ASSUME NEW c \in Channels, StopLivestream(c) \/ MaximumReached(c)
        PROVE  MaximumType'
    <3> DEFINE m == [maximum[c] EXCEPT !.armed = FALSE]
    <3>1. m \in [armed : BOOLEAN, strays : Nat]
      BY <2>4
    <3>2. maximum' = [maximum EXCEPT ![c] = m]
      BY <2>6 DEF StopLivestream, MaximumReached
    <3> QED
      BY <2>3, <3>1, <3>2
  <2>7. ASSUME NEW c \in Channels, StrayMaximum(c)
        PROVE  MaximumType'
    <3> DEFINE m == [armed |-> FALSE, strays |-> maximum[c].strays - 1]
    <3>1. m \in [armed : BOOLEAN, strays : Nat]
      BY <2>4, <2>7 DEF StrayMaximum
    <3>2. maximum' = [maximum EXCEPT ![c] = m]
      BY <2>7 DEF StrayMaximum
    <3> QED
      BY <2>3, <3>1, <3>2
  <2> QED
    BY <2>1, <2>2, <2>5, <2>6, <2>7
       DEF Next, StartDownload, CancelDownload, ReceiveConverted, Talkback, MessageSent,
           ReceiveAck, GiveUp, ReceiveResult, ReceiveFinished, ReceiveExpected, ReceiveEarly,
           WatchdogFires, GapTimerFires, AudioTimerFires, StrayGapTimer, StrayAudioTimer,
           StrayWatchdog, Disconnect, ConnectFails, Connect, Connected, Keepalive,
           EnergySavingDisconnect
<1>2. StationType'
  <2>1. CASE UNCHANGED station
    BY <1>0, <2>1 DEF StationType
  <2>2. CASE StationStops
    BY <2>2 DEF StationType, StationStops
  <2>3. CASE ReceiveAck
    <3>1. client.unacknowledged \in Commands
      BY <2>3 DEF ReceiveAck, IndInv, ClientOK, ClientType
    <3>2. /\ client.unacknowledged.datatype \in DataTypes
          /\ client.unacknowledged.channel \in Channels
      BY <3>1 DEF Commands
    <3> QED
      BY <1>0, <2>3, <3>2 DEF ReceiveAck, StationType
  <2>4. CASE ReceiveFinished
    BY <1>0, <2>4 DEF ReceiveFinished, StationType
  <2> QED
    BY <2>1, <2>2, <2>3, <2>4
       DEF Next, StartLivestream, StopLivestream, MaximumReached, StrayMaximum,
           StartDownload, CancelDownload, ReceiveConverted, Talkback, MessageSent,
           GiveUp, ReceiveResult, ReceiveExpected, ReceiveEarly,
           WatchdogFires, GapTimerFires, AudioTimerFires, StrayGapTimer, StrayAudioTimer,
           StrayWatchdog, Disconnect, ConnectFails, Connect, Connected, Keepalive,
           EnergySavingDisconnect
<1>3. BoundsType'
  <2>1. CASE UNCHANGED <<commands, cameras, frames>>
    BY <1>0, <2>1 DEF BoundsType
  <2>2. ASSUME NEW c \in Channels, Asked(c), UNCHANGED frames
        PROVE  BoundsType'
    BY <1>0, <2>2 DEF BoundsType, Asked
  <2>3. CASE /\ UNCHANGED <<commands, cameras>> /\ frames < MaxFrames /\ frames' = frames + 1
    BY <1>0, <2>3 DEF BoundsType
  <2> QED
    BY <2>1, <2>2, <2>3
       DEF Next, StartLivestream, StopLivestream, MaximumReached, StrayMaximum,
           StartDownload, CancelDownload, ReceiveConverted, Talkback, MessageSent,
           ReceiveAck, GiveUp, ReceiveResult, ReceiveFinished, ReceiveExpected, ReceiveEarly,
           WatchdogFires, GapTimerFires, AudioTimerFires, StrayGapTimer, StrayAudioTimer,
           StrayWatchdog, Disconnect, ConnectFails, Connect, Connected, Keepalive,
           EnergySavingDisconnect
<1> QED
  BY <1>1, <1>2, <1>3

LEMMA InitialClientOK ==
    /\ ClientOK(InitialClient)
    /\ Video(InitialClient) = NewStream
    /\ Works(InitialClient)
<1>1. StreamInv(NewStream)
  BY NewStreamOK DEF StreamInv
<1>2. InitialClient \in ClientType
  BY NewStreamOK DEF InitialClient, ClientType
<1>3. \A d \in DataTypes : InitialClient.stream[d] = NewStream
  BY DEF InitialClient
<1>4. Works(InitialClient)
  BY DEF InitialClient, Works, Spares, SendsOne
<1> QED
  BY <1>1, <1>2, <1>3, <1>4, StreamAssumption DEF ClientOK, Video

LEMMA InitOK ==
    ASSUME Init
    PROVE  IndInv
<1>1. ClientOK(client)
  BY InitialClientOK DEF Init
<1>2. MaximumType /\ StationType /\ BoundsType
  BY StreamAssumption DEF Init, MaximumType, StationType, BoundsType
<1> QED
  BY <1>1, <1>2 DEF IndInv, TypeOK, ClientOK, MaximumType, StationType, BoundsType

LEMMA IndInvKept ==
    ASSUME IndInv, [Next]_vars
    PROVE  IndInv'
<1>1. CASE Next
  <2>1. ClientOK(client')
    BY <1>1, NextKeeps DEF Kept, Good, Misreported
  <2>2. MaximumType' /\ StationType' /\ BoundsType'
    BY <1>1, OtherTypes
  <2> QED
    BY <2>1, <2>2 DEF IndInv, TypeOK, ClientOK, MaximumType, StationType, BoundsType
<1>2. CASE UNCHANGED vars
  BY <1>2 DEF vars, IndInv, TypeOK, ClientOK, ClientType
<1> QED
  BY <1>1, <1>2

LEMMA Invariance == Spec => []IndInv
<1>1. Init => IndInv
  BY InitOK
<1>2. IndInv /\ [Next]_vars => IndInv'
  BY IndInvKept
<1> QED
  BY <1>1, <1>2, PTL DEF Spec

(* The types of the session, of the add-on's timers and of the station     *)
(* (P2PClientProtocol's currentMessageState and queues).                   *)
THEOREM LivestreamTypes == Spec => []TypeOK
<1>1. IndInv => TypeOK
  BY DEF IndInv
<1> QED
  BY <1>1, Invariance, PTL

(* The timer that cuts the connection to a battery station spares work:    *)
(* closeEnergySavingDevice checks it, and every command stops the timer.   *)
(* Assumed: a command's sendMessage returns before its acknowledgement     *)
(* comes, and no CMD_CONVERT_MP4_OK after the download was ended.          *)
THEOREM TimerSparesWork ==
    ASSUME "slowSend" \notin Faults, "lateConvert" \notin Faults
    PROVE  Spec => []EnergySavingSparesWork
<1>1. Init => Works(client)
  BY InitialClientOK DEF Init
<1>2. ASSUME IndInv, Works(client), [Next]_vars
      PROVE  Works(client)'
  <2>1. CASE Next
    BY <1>2, <2>1, NextKeeps DEF Kept, Good, Misreported, Timely
  <2>2. CASE UNCHANGED vars
    BY <1>2, <2>2 DEF vars
  <2> QED
    BY <1>2, <2>1, <2>2
<1>3. Works(client) => EnergySavingSparesWork
  BY DEF Works, Spares, EnergySavingSparesWork
<1> QED
  BY <1>1, <1>2, <1>3, Invariance, PTL DEF Spec

(* The livestream implements MediaStream: it is reported as started once,  *)
(* and as stopped or broken once, for the camera it is of, whatever stray  *)
(* timers fire (endStream, emitStreamStartEvent), and a download that      *)
(* breaks is reported to its receiver, too (handleDataBinaryAndVideo).     *)
(* Assumed: if a stream breaks, then with its first frame, and with one of *)
(* the camera that was asked for last.                                     *)
THEOREM LivestreamImplementsMediaStream ==
    ASSUME "badLater" \notin Faults, "otherCamera" \notin Faults
    PROVE  Spec => LivestreamIsReported
<1> DEFINE s == client.stream["VIDEO"]
           First == BreaksFirst(Video(client))
           v == <<Phase(s), s.p2pStreamChannel, s.reports>>
<1>1. Init => Livestream!Init /\ First
  <2> SUFFICES ASSUME Init PROVE Livestream!Init /\ First
    OBVIOUS
  <2>1. s = NewStream
    BY InitialClientOK DEF Init, Video
  <2>2. Phase(s) = "closed" /\ s.reports = << >> /\ ~s.invalidStream
    BY <2>1, NewStreamOK DEF Phase, NewStream
  <2> QED
    BY <2>2 DEF Livestream!Init, BreaksFirst, Video
<1>2. ASSUME IndInv, First, [Next]_vars
      PROVE  First' /\ [Livestream!Next]_v
  <2>1. CASE Next
    <3>1. CASE Good(client, client')
      <4>1. BreaksFirst(Video(client')) /\ Moves(Video(client), Video(client'))
        BY <1>2, <3>1 DEF Good, FirstOnly, Step
      <4>2. First'
        BY <4>1
      <4>3. [Livestream!Next]_v
        BY <4>1 DEF Video, Moves, Told, Goodbye, Livestream!Next, Livestream!Request,
                    Livestream!Open, Livestream!Break, Livestream!Close, Livestream!Switch,
                    Livestream!Report, Livestream!Farewell
      <4> QED
        BY <4>2, <4>3
    <3>2. CASE Misreported
      <4>1. PICK c \in Channels : Video(client') = Reported(Video(client), c)
        BY <3>2 DEF Misreported, Misreports
      <4>2. StreamInv(Video(client))
        BY <1>2, StreamAssumption DEF IndInv, ClientOK, Video
      <4>3. First'
        BY <1>2, <4>1, <4>2, ReportedOK DEF BreaksFirst
      <4>4. /\ Phase(s') = Phase(s) /\ s'.p2pStreamChannel = s.p2pStreamChannel
            /\ s'.reports = Append(s.reports, [event |-> "error", channel |-> c])
        BY <4>1, <4>2, ReportedOK DEF Video
      <4>5. ~DownloadIsBroken(client) /\ DownloadIsBroken(client')
        BY <3>2 DEF Misreported, Misreports
      <4>6. Livestream!Misreport
        BY <4>4, <4>5 DEF Livestream!Misreport
      <4> QED
        BY <4>3, <4>6 DEF Livestream!Next
    <3> QED
      BY <1>2, <2>1, <3>1, <3>2, NextKeeps DEF Kept
  <2>2. CASE UNCHANGED vars
    BY <1>2, <2>2 DEF vars, Video
  <2> QED
    BY <1>2, <2>1, <2>2
<1> QED
  BY <1>1, <1>2, Invariance, PTL DEF Spec, LivestreamIsReported, Livestream!Spec
----------------------------------------------------------------------------
(* Nobody is filmed for nothing.  Of a session it matters what is known of *)
(* the livestream, and which commands for it are on their way; on is the   *)
(* camera whose livestream the station sends, K are the cameras the        *)
(* application has given commands for.                                     *)
In(s) == {s[i] : i \in DOMAIN s}

(* A command of this type for the livestream. *)
IsLive(type, x) == x # NoCommand /\ x.type = type /\ x.datatype = "VIDEO"

Unanswered(cl) == In(cl.sendQueue) \cup {cl.unacknowledged}
StopPending(cl) == \E x \in Unanswered(cl) : IsLive("stop", x)
StartComes(cl) == \E x \in cl.awaiting \cup {cl.unacknowledged} : IsLive("start", x)

(* The client knows of the livestream, or the station is to hear that it   *)
(* is not wanted.                                                          *)
Accounted(cl) == Video(cl).p2pStreaming \/ StopPending(cl)

(* One command is sent at a time, over a connection that is not about to   *)
(* be cut to save energy.                                                  *)
InOrder(cl) ==
    /\ cl.sending # << >> => cl.sending = <<cl.unacknowledged>> /\ cl.unacknowledged # NoCommand
    /\ cl.unacknowledged # NoCommand => cl.connection = "connected"
    /\ cl.esdDisconnect => cl.sendQueue = << >> /\ cl.unacknowledged = NoCommand

OfCameras(cl, K) ==
    /\ \A x \in Unanswered(cl) \cup cl.awaiting :
        x # NoCommand /\ x.datatype = "VIDEO" => x.channel \in K
    /\ Video(cl).p2pStreaming => Video(cl).p2pStreamChannel \in K

OneOf(K) == \A c, other \in K : c = other

(* What the station films is accounted for, also when the command it is    *)
(* about to acknowledge starts it: the command's effect on the client      *)
(* comes first.                                                            *)
Filmed(cl, on, K) ==
    /\ InOrder(cl)
    /\ OfCameras(cl, K)
    /\ on \in K \cup {NoChannel}
    /\ cl.connection # "connected" => on = NoChannel
    /\ OneOf(K) =>
        /\ on # NoChannel => Accounted(cl)
        /\ IsLive("start", cl.unacknowledged) /\ cl.sending = << >> => Accounted(cl)

(* The watchdog that does not tell the station runs only until the start   *)
(* of the livestream is answered.                                          *)
Guarded(cl, K) ==
    OneOf(K) /\ Video(cl).watchdog = "quiet" => Video(cl).p2pStreaming /\ StartComes(cl)

FilmInv ==
    /\ Filmed(client, station["VIDEO"], cameras)
    /\ Guarded(client, cameras)

LEMMA HeadTailIn ==
    ASSUME NEW S, NEW s \in Seq(S), s # << >>
    PROVE  In(s) = {Head(s)} \cup In(Tail(s))
<1>1. Len(s) \in Nat /\ Len(s) > 0 /\ DOMAIN s = 1..Len(s)
  BY EmptySeq
<1>2. DOMAIN Tail(s) = 1..(Len(s) - 1) /\ \A i \in 1..(Len(s) - 1) : Tail(s)[i] = s[i + 1]
  BY <1>1, HeadTailProperties
<1>3. \A i \in 1..Len(s) : i = 1 \/ i - 1 \in 1..(Len(s) - 1)
  BY <1>1
<1>4. In(s) \subseteq {Head(s)} \cup In(Tail(s))
  <2> SUFFICES ASSUME NEW i \in 1..Len(s)
               PROVE  s[i] \in {Head(s)} \cup In(Tail(s))
    BY <1>1 DEF In
  <2>1. CASE i = 1
    BY <2>1
  <2>2. CASE i - 1 \in 1..(Len(s) - 1)
    <3>1. Tail(s)[i - 1] = s[i]
      BY <1>2, <2>2
    <3> QED
      BY <1>2, <2>2, <3>1 DEF In
  <2> QED
    BY <1>3, <2>1, <2>2
<1>5. In(Tail(s)) \subseteq In(s)
  <2> SUFFICES ASSUME NEW i \in 1..(Len(s) - 1)
               PROVE  Tail(s)[i] \in In(s)
    BY <1>2 DEF In
  <2>1. Tail(s)[i] = s[i + 1] /\ i + 1 \in 1..Len(s)
    BY <1>1, <1>2
  <2> QED
    BY <1>1, <2>1 DEF In
<1>6. Head(s) \in In(s)
  BY <1>1 DEF In
<1> QED
  BY <1>4, <1>5, <1>6

LEMMA AppendIn ==
    ASSUME NEW S, NEW s \in Seq(S), NEW x \in S
    PROVE  In(Append(s, x)) = In(s) \cup {x}
<1>1. Len(s) \in Nat /\ DOMAIN s = 1..Len(s)
  OBVIOUS
<1>2. DOMAIN Append(s, x) = 1..(Len(s) + 1)
  OBVIOUS
<1>3. \A i \in 1..(Len(s) + 1) : Append(s, x)[i] = IF i = Len(s) + 1 THEN x ELSE s[i]
  OBVIOUS
<1>4. In(s) \subseteq In(Append(s, x)) /\ x \in In(Append(s, x))
  <2>1. \A i \in 1..Len(s) : i \in 1..(Len(s) + 1) /\ i # Len(s) + 1
    BY <1>1
  <2>2. Len(s) + 1 \in 1..(Len(s) + 1)
    BY <1>1
  <2> QED
    BY <1>1, <1>2, <1>3, <2>1, <2>2 DEF In
<1>5. In(Append(s, x)) \subseteq In(s) \cup {x}
  <2>1. \A i \in 1..(Len(s) + 1) : i = Len(s) + 1 \/ i \in 1..Len(s)
    BY <1>1
  <2> QED
    BY <1>1, <1>2, <1>3, <2>1 DEF In
<1> QED
  BY <1>4, <1>5

(* More cameras. *)
LEMMA MoreCameras ==
    ASSUME NEW cl, NEW on, NEW K, NEW L, K \subseteq L
    PROVE  /\ Filmed(cl, on, K) => Filmed(cl, on, L)
           /\ Guarded(cl, K) => Guarded(cl, L)
<1>1. OneOf(L) => OneOf(K)
  BY DEF OneOf
<1>2. OfCameras(cl, K) => OfCameras(cl, L)
  BY DEF OfCameras
<1> QED
  BY <1>1, <1>2 DEF Filmed, Guarded

(* Nothing of what matters changes, but that the watchdog may become one   *)
(* that tells the station.                                                 *)
SameLive(cl, r) ==
    /\ SameWork(cl, r)
    /\ r.awaiting = cl.awaiting
    /\ r.esdDisconnect =>
        cl.esdDisconnect \/ (cl.sendQueue = << >> /\ cl.unacknowledged = NoCommand)
    /\ Video(r).p2pStreaming = Video(cl).p2pStreaming
    /\ Video(r).p2pStreamChannel = Video(cl).p2pStreamChannel
    /\ Video(r).watchdog = "quiet" => Video(cl).watchdog = "quiet"

LEMMA SameLiveKeeps ==
    ASSUME NEW cl, NEW r, NEW on, NEW K, SameLive(cl, r)
    PROVE  /\ Filmed(cl, on, K) => Filmed(r, on, K)
           /\ Guarded(cl, K) => Guarded(r, K)
           /\ StopPending(cl) => StopPending(r)
<1>1. Unanswered(r) = Unanswered(cl)
  BY DEF SameLive, SameWork, Unanswered
<1> QED
  BY <1>1 DEF Filmed, Guarded, InOrder, OfCameras, Accounted, StopPending, StartComes,
              SameWork, SameLive

LEMMA CloseEnergySavingDeviceIs ==
    ASSUME NEW cl, cl \in ClientType
    PROVE  LET r == CloseEnergySavingDevice(cl)
           IN  SameLive(cl, r) /\ r.stream = cl.stream
<1>1. CASE CloseEnergySavingDevice(cl) = cl
  BY <1>1 DEF SameLive, SameWork
<1>2. CASE /\ cl.sendQueue = << >> /\ cl.unacknowledged = NoCommand
           /\ CloseEnergySavingDevice(cl) = [cl EXCEPT !.esdDisconnect = TRUE]
  BY <1>2 DEF SameLive, SameWork, Video, ClientType
<1> QED
  BY <1>1, <1>2 DEF CloseEnergySavingDevice

LEMMA SendQueuedIs ==
    ASSUME NEW cl, ClientOK(cl)
    PROVE  LET r == SendQueuedMessage(cl)
           IN  /\ r.stream = cl.stream
               /\ r.awaiting = cl.awaiting
               /\ r.esdDisconnect =>
                    \/ cl.esdDisconnect
                    \/ r.sendQueue = << >> /\ r.unacknowledged = NoCommand
               /\ \/ /\ r.sendQueue = cl.sendQueue
                     /\ r.unacknowledged = cl.unacknowledged
                     /\ r.sending = cl.sending
                     /\ \/ r.connection = cl.connection
                        \/ cl.connection = "closed" /\ r.connection = "connecting"
                  \/ /\ cl.sendQueue # << >>
                     /\ cl.connection = "connected"
                     /\ cl.unacknowledged = NoCommand
                     /\ r.connection = "connected"
                     /\ r.sendQueue = Tail(cl.sendQueue)
                     /\ r.unacknowledged = Head(cl.sendQueue)
                     /\ r.sending = Append(cl.sending, Head(cl.sendQueue))
<1> DEFINE Sends == cl.connection = "connected" /\ cl.unacknowledged = NoCommand
           m == IF cl.sendQueue = << >> THEN cl
                ELSE CASE Sends -> [cl EXCEPT !.sendQueue = Tail(@),
                                              !.unacknowledged = Head(cl.sendQueue),
                                              !.sending = Append(@, Head(cl.sendQueue))]
                       [] cl.connection = "closed" -> [cl EXCEPT !.connection = "connecting"]
                       [] OTHER -> cl
           r == SendQueuedMessage(cl)
<1>1. r = CloseEnergySavingDevice(m)
  BY DEF SendQueuedMessage
<1>2. cl \in ClientType
  BY DEF ClientOK
<1>3. ASSUME NEW q \in ClientType
      PROVE  LET e == CloseEnergySavingDevice(q)
             IN  /\ e.stream = q.stream /\ SameWork(q, e) /\ e.awaiting = q.awaiting
                 /\ e.esdDisconnect =>
                      q.esdDisconnect \/ (e.sendQueue = << >> /\ e.unacknowledged = NoCommand)
  BY CloseEnergySavingDeviceIs DEF SameLive, SameWork
<1>4. CASE cl.sendQueue = << >> \/ (~Sends /\ cl.connection # "closed")
  <2>1. m = cl
    BY <1>4
  <2> HIDE DEF m
  <2> QED
    BY <1>1, <1>2, <1>3, <2>1 DEF SameWork
<1>5. CASE cl.sendQueue # << >> /\ cl.connection = "closed"
  <2>1. m = [cl EXCEPT !.connection = "connecting"]
    BY <1>5
  <2> HIDE DEF m
  <2>2. /\ m \in ClientType /\ m.stream = cl.stream /\ m.awaiting = cl.awaiting
        /\ m.sending = cl.sending /\ m.unacknowledged = cl.unacknowledged
        /\ m.sendQueue = cl.sendQueue /\ m.connection = "connecting"
        /\ m.esdDisconnect = cl.esdDisconnect
    BY <1>2, <2>1 DEF ClientType
  <2> QED
    BY <1>1, <1>3, <1>5, <2>2 DEF SameWork
<1>6. CASE cl.sendQueue # << >> /\ Sends
  <2>1. m = [cl EXCEPT !.sendQueue = Tail(cl.sendQueue),
                       !.unacknowledged = Head(cl.sendQueue),
                       !.sending = Append(cl.sending, Head(cl.sendQueue))]
    BY <1>2, <1>6 DEF ClientType
  <2> HIDE DEF m
  <2>2. /\ Tail(cl.sendQueue) \in Seq(Commands)
        /\ Head(cl.sendQueue) \in Commands
        /\ Append(cl.sending, Head(cl.sendQueue)) \in Seq(Commands)
    BY <1>2, <1>6, HeadTailProperties DEF ClientType
  <2>3. /\ m \in ClientType /\ m.stream = cl.stream /\ m.awaiting = cl.awaiting
        /\ m.sendQueue = Tail(cl.sendQueue) /\ m.unacknowledged = Head(cl.sendQueue)
        /\ m.sending = Append(cl.sending, Head(cl.sendQueue))
        /\ m.connection = cl.connection /\ m.esdDisconnect = cl.esdDisconnect
    BY <1>2, <2>1, <2>2 DEF ClientType
  <2> QED
    BY <1>1, <1>3, <1>6, <2>3 DEF SameWork
<1> QED
  BY <1>4, <1>5, <1>6

LEMMA SendQueuedFilmed ==
    ASSUME NEW cl, ClientOK(cl), NEW on, NEW K, Filmed(cl, on, K)
    PROVE  LET r == SendQueuedMessage(cl)
           IN  /\ Filmed(r, on, K)
               /\ Guarded(cl, K) => Guarded(r, K)
               /\ StopPending(cl) => StopPending(r)
<1> DEFINE r == SendQueuedMessage(cl)
           h == Head(cl.sendQueue)
<1>1. /\ r.stream = cl.stream /\ r.awaiting = cl.awaiting
      /\ r.esdDisconnect =>
           \/ cl.esdDisconnect
           \/ r.sendQueue = << >> /\ r.unacknowledged = NoCommand
  BY SendQueuedIs
<1>2. Video(r) = Video(cl)
  BY <1>1 DEF Video
<1>3. CASE /\ r.sendQueue = cl.sendQueue /\ r.unacknowledged = cl.unacknowledged
           /\ r.sending = cl.sending
           /\ \/ r.connection = cl.connection
              \/ cl.connection = "closed" /\ r.connection = "connecting"
  <2> HIDE DEF r
  <2>1. Unanswered(r) = Unanswered(cl)
    BY <1>3 DEF Unanswered
  <2>2. InOrder(r)
    BY <1>1, <1>3 DEF Filmed, InOrder
  <2> QED
    BY <1>1, <1>2, <1>3, <2>1, <2>2
       DEF Filmed, Guarded, OfCameras, Accounted, StopPending, StartComes, r
<1>4. CASE /\ cl.sendQueue # << >> /\ cl.connection = "connected"
           /\ cl.unacknowledged = NoCommand /\ r.connection = "connected"
           /\ r.sendQueue = Tail(cl.sendQueue) /\ r.unacknowledged = h
           /\ r.sending = Append(cl.sending, h)
  <2> HIDE DEF r
  <2>1. cl.sendQueue \in Seq(Commands)
    BY DEF ClientOK, ClientType
  <2>2. In(cl.sendQueue) = {h} \cup In(r.sendQueue)
    BY <1>4, <2>1, HeadTailIn
  <2>3. h \in Commands
    BY <1>4, <2>1, HeadTailProperties
  <2>4. h # NoCommand
    BY <2>3, CommandAssumption
  <2>5. cl.sending = << >>
    BY <1>4 DEF Filmed, InOrder
  <2>6. r.sending = <<h>>
    BY <1>4, <2>5
  <2> HIDE DEF h
  <2>7. Unanswered(cl) = Unanswered(r) \cup {NoCommand} /\ Unanswered(r) \subseteq Unanswered(cl)
    BY <1>4, <2>2 DEF Unanswered
  <2>8. InOrder(r) /\ r.sending # << >>
    BY <1>1, <1>4, <2>4, <2>6 DEF Filmed, InOrder
  <2>9. StopPending(cl) => StopPending(r)
    BY <2>7 DEF StopPending, IsLive
  <2>10. StartComes(cl) => StartComes(r)
    BY <1>1, <1>4 DEF StartComes, IsLive
  <2>11. OfCameras(r, K)
    BY <1>1, <1>2, <2>7 DEF Filmed, OfCameras
  <2> QED
    BY <1>2, <1>4, <2>8, <2>9, <2>10, <2>11 DEF Filmed, Guarded, Accounted, r
<1> QED
  BY <1>3, <1>4, SendQueuedIs

LEMMA SendFilmed ==
    ASSUME NEW cl, ClientOK(cl), NEW on, NEW K, Filmed(cl, on, K),
           NEW command \in Commands, command.datatype = "VIDEO" => command.channel \in K
    PROVE  LET r == SendCommand(cl, command)
           IN  /\ Filmed(r, on, K)
               /\ Guarded(cl, K) => Guarded(r, K)
               /\ IsLive("stop", command) => StopPending(r)
<1> DEFINE q == [cl EXCEPT !.sendQueue = Append(cl.sendQueue, command),
                           !.esdDisconnect = FALSE]
<1>1. /\ cl \in ClientType /\ cl.sendQueue \in Seq(Commands)
      /\ Append(cl.sendQueue, command) \in Seq(Commands)
  BY DEF ClientOK, ClientType
<1>2. /\ q \in ClientType /\ q.stream = cl.stream /\ q.awaiting = cl.awaiting
      /\ q.sending = cl.sending /\ q.unacknowledged = cl.unacknowledged
      /\ q.connection = cl.connection /\ ~q.esdDisconnect
      /\ q.sendQueue = Append(cl.sendQueue, command)
  BY <1>1 DEF ClientType
<1>3. SendCommand(cl, command) = SendQueuedMessage(q)
  BY DEF SendCommand
<1> HIDE DEF q
<1>4. ClientOK(q) /\ Video(q) = Video(cl)
  BY <1>2 DEF ClientOK, Video
<1>5. Unanswered(q) = Unanswered(cl) \cup {command}
  BY <1>1, <1>2, AppendIn DEF Unanswered
<1>6. /\ StopPending(cl) => StopPending(q)
      /\ IsLive("stop", command) => StopPending(q)
      /\ StartComes(cl) => StartComes(q)
  BY <1>2, <1>5 DEF StopPending, StartComes
<1>7. OfCameras(q, K)
  BY <1>2, <1>4, <1>5 DEF Filmed, OfCameras
<1>8. Filmed(q, on, K) /\ (Guarded(cl, K) => Guarded(q, K))
  BY <1>2, <1>4, <1>6, <1>7 DEF Filmed, Guarded, InOrder, Accounted
<1> QED
  BY <1>3, <1>4, <1>6, <1>8, SendQueuedFilmed
(* A stream that ends leaves no watchdog. *)
LEMMA EndedMarks ==
    ASSUME NEW s, StreamInv(s)
    PROVE  /\ Replaced(s).watchdog = "none"
           /\ ~Ended(s).p2pStreaming
           /\ s.p2pStreaming => Ended(s).watchdog = "none"
           /\ ~s.p2pStreaming => Ended(s) = s
<1>1. \A t : Replaced(t).watchdog = "none"
  BY DEF Replaced, NewStream
<1> QED
  BY <1>1, EndedOK DEF Ended

LEMMA WithStreamSame ==
    ASSUME NEW cl, ClientOK(cl), NEW d \in DataTypes, NEW t, StreamInv(t),
           d = "VIDEO" =>
                /\ t.p2pStreaming = Video(cl).p2pStreaming
                /\ t.p2pStreamChannel = Video(cl).p2pStreamChannel
                /\ t.watchdog = "quiet" => Video(cl).watchdog = "quiet"
    PROVE  ClientOK(WithStream(cl, d, t)) /\ SameLive(cl, WithStream(cl, d, t))
<1> DEFINE r == WithStream(cl, d, t)
<1>1. /\ ClientOK(r)
      /\ r.stream = [cl.stream EXCEPT ![d] = t]
      /\ r.stream[d] = t
      /\ \A e \in DataTypes \ {d} : r.stream[e] = cl.stream[e]
      /\ SameWork(cl, r)
      /\ r.esdDisconnect = cl.esdDisconnect
      /\ r.awaiting = cl.awaiting
  BY OneStreamChanges
<1> HIDE DEF r
<1>2. /\ Video(r).p2pStreaming = Video(cl).p2pStreaming
      /\ Video(r).p2pStreamChannel = Video(cl).p2pStreamChannel
      /\ Video(r).watchdog = "quiet" => Video(cl).watchdog = "quiet"
  <2>1. CASE d = "VIDEO"
    BY <1>1, <2>1 DEF Video
  <2>2. CASE d # "VIDEO"
    <3>1. Video(r) = Video(cl)
      BY <1>1, <2>2, StreamAssumption DEF Video
    <3> QED
      BY <3>1
  <2> QED
    BY <2>1, <2>2
<1> QED
  BY <1>1, <1>2 DEF SameLive, r

(* The livestream has ended, everything else that matters is the same. *)
Dropped(cl, r) ==
    /\ SameWork(cl, r)
    /\ r.awaiting = cl.awaiting
    /\ r.esdDisconnect =>
        cl.esdDisconnect \/ (cl.sendQueue = << >> /\ cl.unacknowledged = NoCommand)
    /\ ~Video(r).p2pStreaming
    /\ Video(r).watchdog = "quiet" =>
        Video(cl).watchdog = "quiet" /\ ~Video(cl).p2pStreaming

LEMMA DroppedKeeps ==
    ASSUME NEW cl, NEW r, NEW on, NEW K, Dropped(cl, r), Filmed(cl, on, K),
           StopPending(cl) \/ ~OneOf(K)
    PROVE  /\ Filmed(r, on, K)
           /\ Guarded(cl, K) => Guarded(r, K)
<1>1. Unanswered(r) = Unanswered(cl)
  BY DEF Dropped, SameWork, Unanswered
<1>2. InOrder(r) /\ OfCameras(r, K)
  BY <1>1 DEF Filmed, InOrder, OfCameras, Dropped, SameWork
<1>3. StopPending(cl) => StopPending(r)
  BY <1>1 DEF StopPending
<1> QED
  BY <1>2, <1>3 DEF Filmed, Guarded, Accounted, Dropped, SameWork

LEMMA EndQuietlyIs ==
    ASSUME NEW cl, ClientOK(cl), NEW d \in DataTypes
    PROVE  LET r == EndStream(cl, d, FALSE)
           IN  /\ ClientOK(r)
               /\ d # "VIDEO" => SameLive(cl, r)
               /\ d = "VIDEO" => Dropped(cl, r)
<1> DEFINE s == cl.stream[d]
           w == WithStream(cl, d, Ended(s))
           r == EndStream(cl, d, FALSE)
<1>1. StreamInv(s)
  BY DEF ClientOK
<1>2. ClientOK(r)
  BY EndStreamOK
<1>3. CASE ~s.p2pStreaming
  <2>1. r = cl
    BY <1>3 DEF EndStream
  <2> HIDE DEF r
  <2>2. SameLive(cl, r) /\ (d = "VIDEO" => Dropped(cl, r))
    BY <1>3, <2>1 DEF SameLive, SameWork, Dropped, Video
  <2> QED
    BY <1>2, <2>2 DEF r
<1>4. CASE s.p2pStreaming
  <2>1. r = CloseEnergySavingDevice(w)
    BY <1>4 DEF EndStream, WithStream
  <2>2. StreamInv(Ended(s)) /\ ~Ended(s).p2pStreaming /\ Ended(s).watchdog = "none"
    BY <1>1, <1>4, EndedOK, EndedMarks
  <2> DEFINE t == Ended(s)
  <2>3. /\ ClientOK(w) /\ w.stream[d] = t
        /\ \A e \in DataTypes \ {d} : w.stream[e] = cl.stream[e]
        /\ SameWork(cl, w) /\ w.esdDisconnect = cl.esdDisconnect /\ w.awaiting = cl.awaiting
    <3>1. StreamInv(t) /\ w = WithStream(cl, d, t)
      BY <2>2
    <3> HIDE DEF t, w
    <3>2. /\ ClientOK(w)
          /\ w.stream = [cl.stream EXCEPT ![d] = t]
          /\ w.stream[d] = t
          /\ \A e \in DataTypes \ {d} : w.stream[e] = cl.stream[e]
          /\ SameWork(cl, w)
          /\ w.esdDisconnect = cl.esdDisconnect
          /\ w.awaiting = cl.awaiting
      BY <3>1, OneStreamChanges
    <3> QED
      BY <3>2
  <2> HIDE DEF w, r
  <2>4. SameLive(w, r) /\ r.stream = w.stream
    BY <2>1, <2>3, CloseEnergySavingDeviceIs DEF ClientOK
  <2>5. /\ SameWork(cl, r) /\ r.awaiting = cl.awaiting
        /\ r.esdDisconnect =>
            cl.esdDisconnect \/ (cl.sendQueue = << >> /\ cl.unacknowledged = NoCommand)
    BY <2>3, <2>4 DEF SameLive, SameWork
  <2>6. CASE d = "VIDEO"
    <3>1. Video(r) = Ended(s)
      BY <2>3, <2>4, <2>6 DEF Video
    <3> QED
      BY <1>2, <2>2, <2>5, <2>6, <3>1 DEF Dropped, r
  <2>7. CASE d # "VIDEO"
    <3>1. Video(r) = Video(cl)
      BY <2>3, <2>4, <2>7, StreamAssumption DEF Video
    <3> QED
      BY <1>2, <2>5, <2>7, <3>1 DEF SameLive, r
  <2> QED
    BY <2>6, <2>7
<1> QED
  BY <1>3, <1>4

(* A stream ends, and if it is the livestream, the station is told or it   *)
(* is known that a stop is on its way.                                     *)
LEMMA EndTellingIs ==
    ASSUME NEW cl, ClientOK(cl), NEW d \in DataTypes, cl.stream[d].p2pStreaming
    PROVE  LET stop == [type |-> "stop", datatype |-> d,
                        channel |-> cl.stream[d].p2pStreamChannel]
           IN  /\ stop \in Commands
               /\ EndStream(cl, d, TRUE) = EndStream(SendCommand(cl, stop), d, FALSE)
<1> DEFINE stop == [type |-> "stop", datatype |-> d,
                    channel |-> cl.stream[d].p2pStreamChannel]
           told == SendCommand(cl, stop)
<1>1. StreamInv(cl.stream[d])
  BY DEF ClientOK
<1>2. stop \in Commands
  BY <1>1 DEF StreamInv, StreamState, Commands
<1>3. told.stream = cl.stream
  BY <1>2, SendCommandOK
<1>4. EndStream(cl, d, TRUE) = CloseEnergySavingDevice([told EXCEPT !.stream[d] = Ended(@)])
  BY DEF EndStream
<1> HIDE DEF told
<1>5. EndStream(told, d, FALSE) = CloseEnergySavingDevice([told EXCEPT !.stream[d] = Ended(@)])
  BY <1>3 DEF EndStream
<1> QED
  BY <1>2, <1>4, <1>5 DEF told

LEMMA EndFilmed ==
    ASSUME NEW cl, ClientOK(cl), NEW on, NEW K, Filmed(cl, on, K),
           NEW d \in DataTypes, NEW stop \in BOOLEAN,
           d = "VIDEO" => stop \/ StopPending(cl) \/ ~OneOf(K)
    PROVE  LET r == EndStream(cl, d, stop)
           IN  /\ Filmed(r, on, K)
               /\ Guarded(cl, K) => Guarded(r, K)
<1>1. ASSUME NEW q, ClientOK(q), Filmed(q, on, K),
             d = "VIDEO" => StopPending(q) \/ ~OneOf(K)
      PROVE  LET r == EndStream(q, d, FALSE)
             IN  /\ Filmed(r, on, K)
                 /\ Guarded(q, K) => Guarded(r, K)
  <2> DEFINE r == EndStream(q, d, FALSE)
  <2>1. (d # "VIDEO" => SameLive(q, r)) /\ (d = "VIDEO" => Dropped(q, r))
    BY <1>1, EndQuietlyIs
  <2> HIDE DEF r
  <2>2. Filmed(r, on, K) /\ (Guarded(q, K) => Guarded(r, K))
    BY <1>1, <2>1, SameLiveKeeps, DroppedKeeps
  <2> QED
    BY <2>2 DEF r
<1>2. CASE ~stop
  <2>1. stop = FALSE
    BY <1>2
  <2> QED
    BY <1>1, <2>1
<1>3. CASE stop /\ ~cl.stream[d].p2pStreaming
  BY <1>3 DEF EndStream
<1>4. CASE stop /\ cl.stream[d].p2pStreaming
  <2> DEFINE command == [type |-> "stop", datatype |-> d,
                         channel |-> cl.stream[d].p2pStreamChannel]
             told == SendCommand(cl, command)
  <2>1. command \in Commands /\ EndStream(cl, d, stop) = EndStream(told, d, FALSE)
    BY <1>4, EndTellingIs
  <2>2. d = "VIDEO" => IsLive("stop", command) /\ command.channel \in K
    BY <1>4, <2>1, CommandAssumption DEF IsLive, Filmed, OfCameras, Video
  <2>3. command.datatype = d
    OBVIOUS
  <2> HIDE DEF command
  <2>4. /\ Filmed(told, on, K) /\ (Guarded(cl, K) => Guarded(told, K))
        /\ d = "VIDEO" => StopPending(told)
    BY <2>1, <2>2, <2>3, SendFilmed
  <2>5. ClientOK(told)
    BY <2>1, SendCommandOK
  <2> HIDE DEF told
  <2> QED
    BY <1>1, <2>1, <2>4, <2>5
<1> QED
  BY <1>2, <1>3, <1>4
----------------------------------------------------------------------------
(* The steps.  Assumed are a station that acknowledges what it is told,    *)
(* after sendMessage returned, and a start of a livestream that is         *)
(* answered before the watchdog fires.                                     *)
Prompt == "slowSend" \notin Faults /\ "deaf" \notin Faults /\ "lateStart" \notin Faults

(* The session changes, the station and the application do not. *)
LEMMA OnlyClient ==
    ASSUME Filmed(client', station["VIDEO"], cameras), Guarded(client', cameras),
           UNCHANGED <<station, cameras>>
    PROVE  FilmInv'
BY DEF FilmInv

LEMMA SameLiveFilms ==
    ASSUME FilmInv, SameLive(client, client'), UNCHANGED <<station, cameras>>
    PROVE  FilmInv'
BY SameLiveKeeps, OnlyClient DEF FilmInv

LEMMA ApplicationFilms ==
    ASSUME IndInv, FilmInv, NEW c \in Channels,
           \/ StartLivestream(c) \/ StopLivestream(c) \/ MaximumReached(c) \/ StrayMaximum(c)
           \/ StartDownload(c) \/ CancelDownload(c)
           \/ \E type \in {"talk", "endTalk"} : Talkback(type, c)
    PROVE  FilmInv'
<1>1. \A type \in {"start", "stop"}, d \in DataTypes :
        Command(type, d, c) \in Commands /\ Command(type, d, c).channel = c
  BY DEF Commands, Command
<1>2. \A type \in {"talk", "endTalk"} :
        Command(type, "VIDEO", c) \in Commands /\ Command(type, "VIDEO", c).channel = c
  BY DEF Commands, Command
<1>3. "VIDEO" \in DataTypes /\ ClientOK(client)
  BY StreamAssumption DEF IndInv
<1>4. ASSUME cameras \subseteq cameras', UNCHANGED station
      PROVE  /\ Filmed(client, station'["VIDEO"], cameras')
             /\ Guarded(client, cameras')
  BY <1>4, MoreCameras DEF FilmInv
<1>5. ASSUME NEW command \in Commands, client' = SendCommand(client, command),
             cameras \subseteq cameras', UNCHANGED station, command.channel \in cameras'
      PROVE  FilmInv'
  <2>1. /\ Filmed(SendCommand(client, command), station'["VIDEO"], cameras')
        /\ Guarded(SendCommand(client, command), cameras')
    BY <1>3, <1>4, <1>5, SendFilmed
  <2> QED
    BY <1>5, <2>1 DEF FilmInv
<1>6. Asked(c) => cameras \subseteq cameras' /\ c \in cameras'
  BY DEF Asked
<1>7. CASE StartLivestream(c)
  BY <1>1, <1>3, <1>5, <1>6, <1>7 DEF StartLivestream
<1>8. CASE StartDownload(c)
  BY <1>1, <1>5, <1>6, <1>8 DEF StartDownload
<1>9. CASE CancelDownload(c)
  BY <1>1, <1>5, <1>6, <1>9 DEF CancelDownload
<1>10. CASE \E type \in {"talk", "endTalk"} : Talkback(type, c)
  BY <1>2, <1>5, <1>6, <1>10 DEF Talkback
<1>11. ASSUME client' = Stopped(client, c), cameras \subseteq cameras', UNCHANGED station
       PROVE  FilmInv'
  <2>1. CASE /\ client' = SendCommand(client, Command("stop", "VIDEO", c))
             /\ IsStreaming(client, "VIDEO", c)
    <3>1. c \in cameras'
      BY <1>11, <2>1 DEF IsStreaming, FilmInv, Filmed, OfCameras, Video
    <3> QED
      BY <1>1, <1>3, <1>5, <1>11, <2>1, <3>1
  <2>2. CASE client' = client
    BY <1>4, <1>11, <2>2 DEF FilmInv
  <2> QED
    BY <1>11, <2>1, <2>2 DEF Stopped
<1>12. CASE StopLivestream(c) \/ MaximumReached(c) \/ StrayMaximum(c)
  BY <1>6, <1>11, <1>12 DEF StopLivestream, MaximumReached, StrayMaximum
<1> QED
  BY <1>7, <1>8, <1>9, <1>10, <1>12

LEMMA StartedIs ==
    ASSUME NEW s, StreamInv(s), NEW c \in Channels
    PROVE  Started(s, c).p2pStreaming /\ Started(s, c).p2pStreamChannel = c
<1> DEFINE t == IF s.p2pStreaming /\ s.p2pStreamChannel # c THEN Ended(s) ELSE s
<1>1. t \in StreamState
  BY EndedOK DEF StreamInv
<1>2. Started(s, c) = [t EXCEPT !.p2pStreaming = TRUE, !.p2pStreamChannel = c,
                                !.watchdog = "quiet"]
  BY DEF Started
<1> HIDE DEF t
<1> QED
  BY <1>1, <1>2 DEF StreamState

LEMMA MessageSentFilms ==
    ASSUME IndInv, FilmInv, MessageSent
    PROVE  FilmInv'
<1> DEFINE q == [client EXCEPT !.sending = Tail(@)]
           command == Head(client.sending)
           on == station["VIDEO"]
<1>1. client \in ClientType /\ client.sending \in Seq(Commands) /\ client.sending # << >>
  BY DEF IndInv, ClientOK, ClientType, MessageSent
<1>2. command \in Commands /\ Tail(client.sending) \in Seq(Commands)
  BY <1>1, HeadTailProperties
<1>3. /\ client.sending = <<client.unacknowledged>> /\ client.unacknowledged # NoCommand
      /\ client.connection = "connected" /\ ~client.esdDisconnect
  BY <1>1 DEF FilmInv, Filmed, InOrder
<1>4. command = client.unacknowledged /\ Tail(client.sending) = << >>
  BY <1>3
<1>5. /\ q \in ClientType /\ q.stream = client.stream /\ q.connection = "connected"
      /\ q.sendQueue = client.sendQueue /\ q.unacknowledged = command
      /\ ~q.esdDisconnect /\ q.awaiting = client.awaiting /\ q.sending = << >>
  BY <1>1, <1>2, <1>3, <1>4 DEF ClientType
<1>6. client' = EffectOf(q, command) /\ UNCHANGED <<station, cameras>>
  BY DEF MessageSent
<1>7. /\ command # NoCommand
      /\ command.datatype \in DataTypes /\ command.channel \in Channels
  BY <1>2, CommandAssumption, StreamAssumption DEF Commands
<1> HIDE DEF q
<1>8. ClientOK(q) /\ Video(q) = Video(client)
  BY <1>5 DEF ClientOK, IndInv, Video
<1>9. Unanswered(q) = Unanswered(client) /\ command \in Unanswered(q)
  BY <1>4, <1>5 DEF Unanswered
<1> HIDE DEF command
<1>10. InOrder(q) /\ OfCameras(q, cameras) /\ on \in cameras \cup {NoChannel}
       /\ Guarded(q, cameras)
  <2>1. InOrder(q)
    BY <1>5 DEF InOrder
  <2>2. OfCameras(q, cameras) /\ on \in cameras \cup {NoChannel}
    BY <1>5, <1>8, <1>9 DEF FilmInv, Filmed, OfCameras
  <2>3. StartComes(q) = StartComes(client)
    BY <1>4, <1>5 DEF StartComes
  <2> QED
    BY <1>8, <2>1, <2>2, <2>3 DEF FilmInv, Guarded
<1>11. ~IsLive("start", command) => Filmed(q, on, cameras)
  <2>1. Accounted(client) => Accounted(q)
    BY <1>8, <1>9 DEF Accounted, StopPending
  <2> QED
    BY <1>5, <1>10, <2>1 DEF FilmInv, Filmed
<1>12. CASE command.type = "start"
  <2> DEFINE r == StartStream(q, command.datatype, command.channel)
             d == command.datatype
             c == command.channel
  <2>1. client' = r
    BY <1>6, <1>12 DEF EffectOf
  <2>2. /\ ClientOK(r)
        /\ r.stream = [q.stream EXCEPT ![d] = Started(q.stream[d], c)]
        /\ SameWork(q, r)
        /\ r.awaiting = q.awaiting
        /\ Spares(q) /\ q.unacknowledged # NoCommand => Spares(r)
    BY <1>7, <1>8, StartStreamOK
  <2> HIDE DEF r
  <2>3. ~r.esdDisconnect
    BY <1>5, <1>7, <2>2 DEF Spares, SameWork
  <2>4. q.stream \in [DataTypes -> StreamState] /\ StreamInv(q.stream[d])
    BY <1>7, <1>8 DEF ClientOK, ClientType
  <2>5. CASE d # "VIDEO"
    <3>1. Video(r) = Video(q)
      BY <2>2, <2>4, <2>5, StreamAssumption DEF Video
    <3>2. SameLive(q, r)
      BY <2>2, <2>3, <3>1 DEF SameLive
    <3>3. ~IsLive("start", command)
      BY <2>5 DEF IsLive
    <3> QED
      BY <1>6, <1>10, <1>11, <2>1, <3>2, <3>3, SameLiveKeeps, OnlyClient
  <2>6. CASE d = "VIDEO"
    <3>1. Video(r) = Started(Video(q), c)
      BY <1>7, <2>2, <2>4, <2>6 DEF Video
    <3>2. Video(r).p2pStreaming /\ Video(r).p2pStreamChannel = c
      BY <1>7, <2>4, <2>6, <3>1, StartedIs DEF Video
    <3>3. c \in cameras
      BY <1>7, <1>9, <1>10, <2>6 DEF OfCameras
    <3>4. Unanswered(r) = Unanswered(q) /\ r.unacknowledged = command
      BY <1>5, <2>2 DEF Unanswered, SameWork
    <3>5. InOrder(r) /\ OfCameras(r, cameras) /\ r.connection = "connected"
      BY <1>5, <1>10, <2>2, <2>3, <3>2, <3>3, <3>4 DEF InOrder, OfCameras, SameWork
    <3>6. StartComes(r)
      BY <1>7, <1>12, <2>6, <3>4 DEF StartComes, IsLive
    <3>7. Filmed(r, on, cameras) /\ Guarded(r, cameras)
      BY <1>10, <3>2, <3>5, <3>6 DEF Filmed, Guarded, Accounted
    <3> QED
      BY <1>6, <2>1, <3>7, OnlyClient
  <2> QED
    BY <2>5, <2>6
<1>13. CASE command.type = "stop"
  <2>1. client' = EndStream(q, command.datatype, FALSE)
    BY <1>6, <1>13 DEF EffectOf
  <2>2. Filmed(q, on, cameras)
    BY <1>11, <1>13 DEF IsLive
  <2>3. command.datatype = "VIDEO" => StopPending(q)
    BY <1>7, <1>9, <1>13 DEF StopPending, IsLive
  <2>4. /\ Filmed(EndStream(q, command.datatype, FALSE), on, cameras)
        /\ Guarded(EndStream(q, command.datatype, FALSE), cameras)
    BY <1>7, <1>8, <1>10, <2>2, <2>3, EndFilmed
  <2> QED
    BY <1>6, <2>1, <2>4, OnlyClient
<1>14. CASE command.type \notin {"start", "stop"}
  <2>1. client' = q
    BY <1>6, <1>14 DEF EffectOf
  <2>2. Filmed(q, on, cameras)
    BY <1>11, <1>14 DEF IsLive
  <2> QED
    BY <1>6, <1>10, <2>1, <2>2, OnlyClient
<1> QED
  BY <1>12, <1>13, <1>14
(* A command is acknowledged: what it said is done. *)
LEMMA ReceiveAckFilms ==
    ASSUME IndInv, FilmInv, Prompt, ReceiveAck
    PROVE  FilmInv'
<1> DEFINE command == client.unacknowledged
           q == [client EXCEPT !.unacknowledged = NoCommand, !.awaiting = @ \cup {command}]
           on == station["VIDEO"]
           next == station'["VIDEO"]
           K == cameras
<1>1. /\ client \in ClientType /\ command \in Commands /\ command # NoCommand
      /\ client.sending = << >>
  BY DEF IndInv, ClientOK, ClientType, ReceiveAck, IsSent, Prompt
<1>2. /\ q \in ClientType /\ q.stream = client.stream /\ q.unacknowledged = NoCommand
      /\ q.sending = client.sending /\ q.esdDisconnect = client.esdDisconnect
      /\ q.sendQueue = client.sendQueue /\ q.connection = client.connection
      /\ q.awaiting = client.awaiting \cup {command}
  BY <1>1 DEF ClientType
<1>3. client' = SendQueuedMessage(q) /\ UNCHANGED cameras
  BY DEF ReceiveAck
<1>4. station' = CASE command.type = "start" ->
                        [station EXCEPT ![command.datatype] = command.channel]
                   [] command.type = "stop" ->
                        [station EXCEPT ![command.datatype] =
                            IF @ = command.channel THEN NoChannel ELSE @]
                   [] OTHER -> station
  BY DEF ReceiveAck
<1>5. station \in [DataTypes -> Channels \cup {NoChannel}] /\ "VIDEO" \in DataTypes
  BY StreamAssumption DEF IndInv, TypeOK
<1>6. Filmed(client, on, K)
  BY DEF FilmInv
<1> HIDE DEF q
<1>7. ClientOK(q) /\ Video(q) = Video(client)
  BY <1>2 DEF ClientOK, IndInv, Video
<1>8. /\ Unanswered(client) = In(q.sendQueue) \cup {command}
      /\ Unanswered(q) = In(q.sendQueue) \cup {NoCommand}
  BY <1>2 DEF Unanswered
<1>9. command.datatype = "VIDEO" => command.channel \in K
  BY <1>1, <1>6, <1>8 DEF Filmed, OfCameras
<1>10. InOrder(q) /\ OfCameras(q, K) /\ q.connection = "connected"
  <2>1. client.connection = "connected"
    BY <1>1, <1>6 DEF Filmed, InOrder
  <2>2. InOrder(q)
    BY <1>1, <1>2, <1>6 DEF Filmed, InOrder
  <2>3. OfCameras(q, K)
    BY <1>2, <1>6, <1>7, <1>8, <1>9 DEF Filmed, OfCameras
  <2> QED
    BY <1>2, <2>1, <2>2, <2>3
<1> HIDE DEF command
<1>11. ~IsLive("stop", command) => (StopPending(client) => StopPending(q))
  BY <1>8 DEF StopPending
<1>12. ASSUME IsLive("start", command)
       PROVE  Filmed(q, next, K)
  <2>1. next = command.channel
    BY <1>4, <1>5, <1>12 DEF IsLive
  <2>2. OneOf(K) => Accounted(client)
    BY <1>1, <1>6, <1>12 DEF Filmed, command
  <2>3. ~IsLive("stop", command)
    BY <1>12 DEF IsLive
  <2>4. OneOf(K) => Accounted(q)
    BY <1>7, <1>11, <2>2, <2>3 DEF Accounted
  <2> HIDE DEF next
  <2> QED
    BY <1>2, <1>9, <1>10, <1>12, <2>1, <2>4 DEF Filmed, IsLive
<1>13. ASSUME IsLive("stop", command)
       PROVE  Filmed(q, next, K)
  <2>1. next = IF on = command.channel THEN NoChannel ELSE on
    BY <1>4, <1>5, <1>13 DEF IsLive
  <2>2. on \in K \cup {NoChannel} /\ command.channel \in K
    BY <1>6, <1>9, <1>13 DEF Filmed, IsLive
  <2> HIDE DEF next, on
  <2>3. next \in K \cup {NoChannel} /\ (OneOf(K) => next = NoChannel)
    BY <2>1, <2>2 DEF OneOf
  <2> QED
    BY <1>2, <1>10, <2>3 DEF Filmed, IsLive
<1>14. ASSUME ~IsLive("start", command) /\ ~IsLive("stop", command)
       PROVE  Filmed(q, next, K)
  <2>1. next = on
    BY <1>1, <1>4, <1>5, <1>14 DEF IsLive, command
  <2>2. Accounted(client) => Accounted(q)
    BY <1>7, <1>11, <1>14 DEF Accounted
  <2> HIDE DEF next, on
  <2> QED
    BY <1>2, <1>6, <1>10, <2>1, <2>2 DEF Filmed, IsLive
<1>15. Filmed(q, next, K)
  BY <1>12, <1>13, <1>14
<1>16. Guarded(q, K)
  <2>1. StartComes(client) => StartComes(q)
    BY <1>2 DEF StartComes, command
  <2> QED
    BY <1>7, <2>1 DEF FilmInv, Guarded
<1>17. Filmed(SendQueuedMessage(q), next, K) /\ Guarded(SendQueuedMessage(q), K)
  BY <1>7, <1>15, <1>16, SendQueuedFilmed
<1> QED
  BY <1>3, <1>17 DEF FilmInv

(* A start is given up, of a station that does not send the stream. *)
LEMMA GiveUpFilms ==
    ASSUME IndInv, FilmInv, Prompt, GiveUp
    PROVE  FilmInv'
<1> DEFINE command == client.unacknowledged
           d == command.datatype
           ends == /\ command.type = "start"
                   /\ IsStreaming(client, command.datatype, command.channel)
           e == IF ends THEN EndStream(client, command.datatype, FALSE) ELSE client
           q == [e EXCEPT !.unacknowledged = NoCommand]
           on == station["VIDEO"]
           K == cameras
<1>1. /\ ClientOK(client) /\ command \in Commands /\ command # NoCommand
      /\ client.sending = << >> /\ command.type = "start"
      /\ station[command.datatype] = NoChannel
  BY DEF IndInv, ClientOK, ClientType, GiveUp, IsSent, Prompt
<1>2. d \in DataTypes
  BY <1>1, StreamAssumption DEF Commands
<1>3. client' = SendQueuedMessage(q) /\ UNCHANGED <<station, cameras>>
  BY DEF GiveUp
<1>4. Filmed(client, on, K) /\ Guarded(client, K)
  BY DEF FilmInv
<1>5. /\ ClientOK(e)
      /\ \/ SameLive(client, e) /\ (d = "VIDEO" => ~IsStreaming(client, d, command.channel))
         \/ Dropped(client, e) /\ d = "VIDEO"
  <2>1. CASE ends
    <3>1. e = EndStream(client, d, FALSE)
      BY <2>1
    <3> HIDE DEF e
    <3> QED
      BY <1>1, <1>2, <3>1, EndQuietlyIs
  <2>2. CASE ~ends
    <3>1. e = client
      BY <2>2
    <3> HIDE DEF e
    <3> QED
      BY <1>1, <2>2, <3>1 DEF SameLive, SameWork
  <2> QED
    BY <2>1, <2>2
<1> HIDE DEF e, ends
<1>6. SameWork(client, e) /\ e.awaiting = client.awaiting
  BY <1>5 DEF SameLive, Dropped
<1>7. client.connection = "connected" /\ ~client.esdDisconnect
  BY <1>1, <1>4 DEF Filmed, InOrder
<1>8. ~e.esdDisconnect
  BY <1>1, <1>5, <1>7 DEF SameLive, Dropped
<1>9. /\ q \in ClientType /\ q.stream = e.stream /\ q.unacknowledged = NoCommand
      /\ q.sending = << >> /\ ~q.esdDisconnect /\ q.connection = "connected"
      /\ q.sendQueue = client.sendQueue /\ q.awaiting = client.awaiting
  BY <1>1, <1>5, <1>6, <1>7, <1>8 DEF ClientOK, ClientType, SameWork
<1> HIDE DEF q
<1>10. ClientOK(q) /\ Video(q) = Video(e)
  BY <1>5, <1>9 DEF ClientOK, Video
<1>11. Unanswered(client) = In(q.sendQueue) \cup {command} /\ InOrder(q)
       /\ Unanswered(q) = In(q.sendQueue) \cup {NoCommand}
  BY <1>9 DEF Unanswered, InOrder
<1>12. OfCameras(q, K)
  <2>1. Video(q).p2pStreaming =>
            Video(client).p2pStreaming
            /\ Video(q).p2pStreamChannel = Video(client).p2pStreamChannel
    BY <1>5, <1>10 DEF SameLive, Dropped
  <2> QED
    BY <1>4, <1>9, <1>11, <2>1 DEF Filmed, OfCameras
<1>13. StopPending(client) => StopPending(q)
  BY <1>1, <1>11 DEF StopPending, IsLive
<1>14. CASE d = "VIDEO"
  <2>1. on = NoChannel
    BY <1>1, <1>14
  <2>2. Filmed(q, on, K)
    BY <1>9, <1>11, <1>12, <2>1 DEF Filmed, IsLive
  <2>3. ASSUME OneOf(K), Video(q).watchdog = "quiet"
        PROVE  FALSE
    <3>1. Video(client).watchdog = "quiet"
      BY <1>5, <1>10, <2>3 DEF SameLive, Dropped
    <3>2. Video(client).p2pStreaming
      BY <1>4, <2>3, <3>1 DEF Guarded
    <3>3. SameLive(client, e) /\ ~IsStreaming(client, "VIDEO", command.channel)
      BY <1>5, <1>10, <1>14, <2>3, <3>2 DEF Dropped
    <3>4. Video(client).p2pStreamChannel \in K /\ command.channel \in K
      BY <1>1, <1>4, <1>11, <1>14, <3>2 DEF Filmed, OfCameras
    <3> QED
      BY <2>3, <3>2, <3>3, <3>4 DEF OneOf, IsStreaming, Video
  <2> QED
    BY <1>3, <1>10, <2>2, <2>3, SendQueuedFilmed, OnlyClient DEF Guarded
<1>15. CASE d # "VIDEO"
  <2>1. SameLive(client, e)
    BY <1>5, <1>15
  <2>2. Accounted(client) => Accounted(q)
    BY <1>10, <1>13, <2>1 DEF Accounted, SameLive
  <2>3. Filmed(q, on, K)
    BY <1>4, <1>9, <1>11, <1>12, <2>2 DEF Filmed, IsLive
  <2>4. StartComes(client) => StartComes(q)
    BY <1>9, <1>15 DEF StartComes, IsLive
  <2>5. Guarded(q, K)
    BY <1>4, <1>10, <2>1, <2>4 DEF Guarded, SameLive
  <2> QED
    BY <1>3, <1>10, <2>3, <2>5, SendQueuedFilmed, OnlyClient
<1> QED
  BY <1>14, <1>15

LEMMA TalksSame ==
    ASSUME NEW cl, ClientOK(cl), NEW c \in Channels \cup {NoChannel}, NEW b \in BOOLEAN
    PROVE  SameLive(cl, Talks(cl, c, b))
<1> DEFINE r == Talks(cl, c, b)
           t == [cl.stream["VIDEO"] EXCEPT !.talkback = c]
           w == WithStream(cl, "VIDEO", t)
<1>1. "VIDEO" \in DataTypes /\ cl \in ClientType /\ cl.stream \in [DataTypes -> StreamState]
      /\ StreamInv(cl.stream["VIDEO"])
  BY StreamAssumption DEF ClientOK, ClientType
<1>2. /\ t \in StreamState /\ Alike(cl.stream["VIDEO"], t)
      /\ t.watchdog = cl.stream["VIDEO"].watchdog
  BY <1>1 DEF StreamState, Alike
<1>3. r = [w EXCEPT !.microphone = b]
  BY <1>1 DEF WithStream, ClientType, Talks
<1> HIDE DEF t, r
<1>4. StreamInv(t)
  BY <1>1, <1>2, AlikeKeepsInv
<1>5. ClientOK(w) /\ SameLive(cl, w)
  BY <1>1, <1>2, <1>4, WithStreamSame DEF Alike, Video
<1> HIDE DEF w
<1>6. /\ r.stream = w.stream /\ r.sendQueue = w.sendQueue
      /\ r.unacknowledged = w.unacknowledged /\ r.sending = w.sending
      /\ r.esdDisconnect = w.esdDisconnect /\ r.connection = w.connection
      /\ r.awaiting = w.awaiting
  BY <1>3, <1>5 DEF ClientOK, ClientType
<1> QED
  BY <1>5, <1>6 DEF SameLive, SameWork, Video, r

LEMMA ReceiveResultFilms ==
    ASSUME IndInv, FilmInv, NEW command \in client.awaiting, NEW successful \in BOOLEAN,
           ReceiveResult(command, successful)
    PROVE  FilmInv'
<1> DEFINE q == [client EXCEPT !.awaiting = @ \ {command}, !.esdDisconnect = FALSE]
           a == SendQueuedMessage(q)
           on == station["VIDEO"]
           K == cameras
<1>1. client \in ClientType /\ command \in Commands
  BY DEF IndInv, ClientOK, ClientType
<1>2. command.datatype \in DataTypes /\ command.channel \in Channels /\ "VIDEO" \in DataTypes
  BY <1>1, StreamAssumption DEF Commands
<1>3. /\ q \in ClientType /\ q.stream = client.stream /\ ~q.esdDisconnect
      /\ q.unacknowledged = client.unacknowledged /\ q.connection = client.connection
      /\ q.sending = client.sending /\ q.sendQueue = client.sendQueue
      /\ q.awaiting = client.awaiting \ {command}
  BY <1>1 DEF ClientType
<1>4. client' = CASE command.type = "start"   -> Watched(a, command.datatype)
                  [] command.type = "talk"    -> IF successful
                                                 THEN TalkbackStarted(a, command.channel)
                                                 ELSE a
                  [] command.type = "endTalk" -> TalkbackStopped(a)
                  [] OTHER -> a
  BY DEF ReceiveResult
<1>5. UNCHANGED <<station, cameras>>
  BY DEF ReceiveResult
<1> HIDE DEF q
<1>6. ClientOK(q) /\ Video(q) = Video(client) /\ Unanswered(q) = Unanswered(client)
  BY <1>3 DEF ClientOK, IndInv, Video, Unanswered
<1>7. Filmed(q, on, K)
  BY <1>3, <1>6 DEF FilmInv, Filmed, InOrder, OfCameras, Accounted, StopPending
<1>8. ~IsLive("start", command) => Guarded(q, K)
  <2>1. ~IsLive("start", command) => (StartComes(client) => StartComes(q))
    BY <1>3 DEF StartComes
  <2> QED
    BY <1>6, <2>1 DEF FilmInv, Guarded
<1>9. Filmed(a, on, K) /\ (Guarded(q, K) => Guarded(a, K)) /\ ClientOK(a)
  BY <1>6, <1>7, SendQueuedFilmed, SendQueuedMessageOK
<1> HIDE DEF a
<1>10. ASSUME SameLive(a, client'), ~IsLive("start", command)
       PROVE  FilmInv'
  BY <1>5, <1>8, <1>9, <1>10, SameLiveKeeps, OnlyClient
<1>11. CASE command.type = "start"
  <2> DEFINE d == command.datatype
             t == [a.stream[d] EXCEPT !.watchdog = "stop"]
  <2>1. StreamInv(a.stream[d]) /\ a.stream[d] \in StreamState /\ d \in DataTypes
    BY <1>2, <1>9 DEF ClientOK, StreamInv
  <2>2. client' = WithStream(a, d, t)
    BY <1>4, <1>11 DEF Watched, WithStream
  <2> HIDE DEF d
  <2>3. t \in StreamState /\ Alike(a.stream[d], t) /\ t.watchdog = "stop"
    BY <2>1 DEF StreamState, Alike
  <2> HIDE DEF t
  <2>4. StreamInv(t)
    BY <2>1, <2>3, AlikeKeepsInv
  <2>5. SameLive(a, client')
    BY <1>9, <2>1, <2>2, <2>3, <2>4, WithStreamSame DEF Alike, Video
  <2>6. CASE d # "VIDEO"
    BY <1>10, <2>5, <2>6 DEF IsLive, d
  <2>7. CASE d = "VIDEO"
    <3>1. a.stream \in [DataTypes -> StreamState] /\ a \in ClientType
      BY <1>9 DEF ClientOK, ClientType
    <3>2. Video(client') = t
      BY <2>1, <2>2, <2>7, <3>1 DEF WithStream, Video, ClientType
    <3>3. Guarded(client', K)
      BY <2>3, <3>2 DEF Guarded
    <3> QED
      BY <1>5, <1>9, <2>5, <3>3, SameLiveKeeps, OnlyClient
  <2> QED
    BY <2>6, <2>7
<1>12. CASE command.type = "talk" /\ successful
  <2>1. client' = Talks(a, command.channel, TRUE)
    BY <1>4, <1>12 DEF TalkbackStarted, Talks
  <2> QED
    BY <1>2, <1>9, <1>10, <1>12, <2>1, TalksSame DEF IsLive
<1>13. CASE command.type = "endTalk"
  <2> DEFINE m == Talks(a, NoChannel, FALSE)
  <2>1. client' = CloseEnergySavingDevice(m)
    BY <1>4, <1>13 DEF TalkbackStopped, Talks
  <2>2. SameLive(a, m) /\ m \in ClientType
    BY <1>9, TalksOK, TalksSame DEF Calm, ClientOK
  <2> HIDE DEF m
  <2>3. SameLive(m, client')
    BY <2>1, <2>2, CloseEnergySavingDeviceIs
  <2>4. SameLive(a, client')
    BY <2>2, <2>3 DEF SameLive, SameWork
  <2> QED
    BY <1>10, <1>13, <2>4 DEF IsLive
<1>14. CASE command.type = "stop" \/ (command.type = "talk" /\ ~successful)
  <2>1. client' = a
    BY <1>4, <1>14
  <2>2. SameLive(a, client')
    BY <2>1 DEF SameLive, SameWork
  <2> QED
    BY <1>10, <1>14, <2>2 DEF IsLive
<1> QED
  BY <1>1, <1>11, <1>12, <1>13, <1>14 DEF Commands
(* Timers and marks of a stream. *)
LEMMA AlikeIsSameLive ==
    ASSUME NEW cl, ClientOK(cl), NEW d \in DataTypes, NEW t \in StreamState,
           Alike(cl.stream[d], t), t.watchdog \in {cl.stream[d].watchdog, "none"}
    PROVE  ClientOK(WithStream(cl, d, t)) /\ SameLive(cl, WithStream(cl, d, t))
<1>1. StreamInv(t)
  BY AlikeKeepsInv DEF ClientOK
<1> QED
  BY <1>1, WithStreamSame DEF Alike, Video

(* The watchdog that does not tell the station does not fire while the     *)
(* start of the livestream may still be answered.                          *)
LEMMA TimersFilm ==
    ASSUME IndInv, FilmInv, Prompt, NEW d \in DataTypes,
           WatchdogFires(d) \/ GapTimerFires(d) \/ StrayWatchdog(d)
    PROVE  FilmInv'
<1> DEFINE on == station["VIDEO"]
           K == cameras
<1>1. ClientOK(client) /\ Filmed(client, on, K) /\ Guarded(client, K)
  BY DEF IndInv, FilmInv
<1>2. UNCHANGED <<station, cameras>>
  BY DEF WatchdogFires, GapTimerFires, StrayWatchdog
<1>3. PICK t \in StreamState, stop \in BOOLEAN :
            /\ Alike(client.stream[d], t)
            /\ t.watchdog \in {client.stream[d].watchdog, "none"}
            /\ client' = EndStream(WithStream(client, d, t), d, stop)
            /\ ~stop => WatchdogFires(d) /\ client.stream[d].watchdog = "quiet"
  BY TimersEnd
<1> DEFINE w == WithStream(client, d, t)
<1>4. ClientOK(w) /\ SameLive(client, w)
  BY <1>1, <1>3, AlikeIsSameLive
<1> HIDE DEF w
<1>5. Filmed(w, on, K) /\ Guarded(w, K)
  BY <1>1, <1>4, SameLiveKeeps
<1>6. ASSUME d = "VIDEO", OneOf(K), ~stop
      PROVE  FALSE
  <2>1. StartComes(client)
    BY <1>1, <1>3, <1>6 DEF Guarded, Video
  <2>2. StartIsOnItsWay(d)
    BY <1>6, <2>1 DEF StartComes, StartIsOnItsWay, IsLive
  <2> QED
    BY <1>3, <1>6, <2>2 DEF WatchdogFires, Prompt
<1>7. Filmed(EndStream(w, d, stop), on, K) /\ Guarded(EndStream(w, d, stop), K)
  BY <1>3, <1>4, <1>5, <1>6, EndFilmed
<1> QED
  BY <1>2, <1>3, <1>7, OnlyClient DEF w

LEMMA StrayGapTimerFilms ==
    ASSUME IndInv, FilmInv, NEW d \in DataTypes, StrayGapTimer(d)
    PROVE  FilmInv'
<1> DEFINE on == station["VIDEO"]
           K == cameras
<1>1. ClientOK(client) /\ Filmed(client, on, K) /\ Guarded(client, K)
  BY DEF IndInv, FilmInv
<1>2. UNCHANGED <<station, cameras>>
  BY DEF StrayGapTimer
<1>3. PICK t, v \in StreamState : \E e :
            /\ Alike(client.stream[d], t)
            /\ t.watchdog = client.stream[d].watchdog
            /\ e = EndStream(WithStream(client, d, t), d, TRUE)
            /\ Alike(e.stream[d], v)
            /\ v.watchdog = e.stream[d].watchdog
            /\ client' = WithStream(e, d, v)
  BY StrayGapTimerIs
<1>4. PICK e :
            /\ Alike(client.stream[d], t)
            /\ t.watchdog = client.stream[d].watchdog
            /\ e = EndStream(WithStream(client, d, t), d, TRUE)
            /\ Alike(e.stream[d], v)
            /\ v.watchdog = e.stream[d].watchdog
            /\ client' = WithStream(e, d, v)
  BY <1>3
<1> DEFINE w == WithStream(client, d, t)
<1>5. ClientOK(w) /\ SameLive(client, w) /\ e = EndStream(w, d, TRUE)
  BY <1>1, <1>4, AlikeIsSameLive
<1> HIDE DEF w
<1>6. Filmed(w, on, K) /\ Guarded(w, K)
  BY <1>1, <1>5, SameLiveKeeps
<1>7. Filmed(e, on, K) /\ Guarded(e, K) /\ ClientOK(e)
  BY <1>5, <1>6, EndFilmed, EndStreamOK
<1>8. SameLive(e, client')
  BY <1>4, <1>7, AlikeIsSameLive
<1> QED
  BY <1>2, <1>7, <1>8, SameLiveKeeps, OnlyClient

LEMMA ReadyMarks ==
    ASSUME NEW s, StreamInv(s)
    PROVE  /\ StreamInv(StartIfReady(s))
           /\ StartIfReady(s).watchdog = s.watchdog
           /\ StartIfReady(s).p2pStreaming = s.p2pStreaming
           /\ StartIfReady(s).p2pStreamChannel = s.p2pStreamChannel
<1> DEFINE q == [s EXCEPT !.p2pStreamNotStarted = FALSE]
           r == StartIfReady(s)
<1>1. StreamInv(r)
  BY StartIfReadyOK
<1>2. CASE r = s
  BY <1>1, <1>2
<1>3. CASE r = Emit(q, "started")
  <2>1. /\ q \in StreamState /\ q.watchdog = s.watchdog
        /\ q.p2pStreaming = s.p2pStreaming /\ q.p2pStreamChannel = s.p2pStreamChannel
    BY DEF StreamInv, StreamState
  <2> HIDE DEF q
  <2>2. /\ Emit(q, "started").watchdog = q.watchdog
        /\ Emit(q, "started").p2pStreaming = q.p2pStreaming
        /\ Emit(q, "started").p2pStreamChannel = q.p2pStreamChannel
    BY <2>1 DEF Emit, StreamState
  <2> HIDE DEF r
  <2> QED
    BY <1>1, <1>3, <2>1, <2>2 DEF r
<1> QED
  BY <1>2, <1>3 DEF StartIfReady

LEMMA AudioTimersFilm ==
    ASSUME IndInv, FilmInv, NEW d \in DataTypes, AudioTimerFires(d) \/ StrayAudioTimer(d)
    PROVE  FilmInv'
<1>1. ClientOK(client) /\ StreamInv(client.stream[d])
  BY DEF IndInv, ClientOK
<1>2. UNCHANGED <<station, cameras>>
  BY DEF AudioTimerFires, StrayAudioTimer
<1>3. PICK q \in StreamState :
            /\ Alike(client.stream[d], q)
            /\ q.watchdog = client.stream[d].watchdog
            /\ client' = WithStream(client, d, StartIfReady(q))
  BY AudioTimersAre
<1>4. StreamInv(q)
  BY <1>1, <1>3, AlikeKeepsInv
<1>5. SameLive(client, client')
  BY <1>1, <1>3, <1>4, ReadyMarks, WithStreamSame DEF Alike, Video
<1> QED
  BY <1>2, <1>5, SameLiveFilms

(* Packets. *)
LEMMA ParsedMarks ==
    ASSUME NEW s, StreamInv(s), NEW frame \in FrameKinds
    PROVE  /\ StreamInv(Parsed(s, frame))
           /\ Parsed(s, frame).p2pStreaming = s.p2pStreaming
           /\ Parsed(s, frame).p2pStreamChannel = s.p2pStreamChannel
           /\ Parsed(s, frame).watchdog = "quiet" => s.watchdog = "quiet"
<1> DEFINE p == Parsed(s, frame)
<1>1. CASE ~s.p2pStreaming \/ s.invalidStream
  BY <1>1 DEF Parsed
<1>2. CASE s.p2pStreaming /\ ~s.invalidStream
  <2>1. s \in StreamState
    BY DEF StreamInv
  <2>2. \A t : t \in StreamState /\ t.watchdog = "stop" =>
            StartIfReady(t).watchdog = "stop"
    BY DEF StartIfReady, Emit, StreamState
  <2>3. p.watchdog = "stop"
    <3>1. CASE frame = "video"
      <4> DEFINE t == [s EXCEPT !.watchdog = "stop", !.firstVideo = TRUE,
                        !.waitForAudioData = @ \/ (~s.firstVideo /\ ~s.firstAudio)]
      <4>1. p = StartIfReady(t)
        BY <1>2, <3>1 DEF Parsed, VideoFrame
      <4>2. t \in StreamState /\ t.watchdog = "stop"
        BY <2>1 DEF StreamState
      <4> HIDE DEF t, p
      <4> QED
        BY <2>2, <4>1, <4>2
    <3>2. CASE frame = "audio"
      <4> DEFINE t == [s EXCEPT !.watchdog = "stop", !.firstAudio = TRUE,
                                !.waitForAudioData = FALSE]
      <4>1. p = StartIfReady(t)
        BY <1>2, <3>2 DEF Parsed, AudioFrame
      <4>2. t \in StreamState /\ t.watchdog = "stop"
        BY <2>1 DEF StreamState
      <4> HIDE DEF t, p
      <4> QED
        BY <2>2, <4>1, <4>2
    <3>3. CASE frame = "bad"
      <4>1. p = [s EXCEPT !.watchdog = "stop", !.invalidStream = TRUE]
        BY <1>2, <3>3 DEF Parsed, BadFrame
      <4> QED
        BY <2>1, <4>1 DEF StreamState
    <3> QED
      BY <3>1, <3>2, <3>3 DEF FrameKinds
  <2> HIDE DEF p
  <2>4. StreamInv(p) /\ p.p2pStreaming = s.p2pStreaming /\ p.p2pStreamChannel = s.p2pStreamChannel
    BY ParsedOK DEF p
  <2> QED
    BY <2>3, <2>4 DEF p
<1> QED
  BY <1>1, <1>2

(* A stream that breaks may make the add-on stop the livestream. *)
LEMMA AfterFramesFilm ==
    ASSUME IndInv, FilmInv, NEW d \in DataTypes, NEW s, StreamInv(s),
           s.p2pStreaming = client.stream[d].p2pStreaming,
           s.p2pStreamChannel = client.stream[d].p2pStreamChannel,
           s.watchdog = "quiet" => client.stream[d].watchdog = "quiet",
           NEW c \in Senders(client.stream[d]),
           client' = AfterFrames(client, d, s, c), UNCHANGED <<station, cameras>>
    PROVE  FilmInv'
<1> DEFINE w == WithStream(client, d, s)
           v == Reported(Video(w), c)
           e == WithStream(w, "VIDEO", v)
           on == station["VIDEO"]
           K == cameras
<1>1. ClientOK(client) /\ "VIDEO" \in DataTypes
  BY StreamAssumption DEF IndInv
<1>2. ClientOK(w) /\ SameLive(client, w)
  BY <1>1, WithStreamSame DEF Video
<1>3. client' = IF s.invalidStream /\ ~client.stream[d].invalidStream
                THEN Stopped(e, c) ELSE w
  BY DEF AfterFrames, LivestreamError, WithStream, Reported, Video
<1>4. Filmed(w, on, K) /\ Guarded(w, K)
  BY <1>2, SameLiveKeeps DEF FilmInv
<1>5. CASE client' = w
  BY <1>4, <1>5, OnlyClient
<1>6. CASE s.invalidStream /\ client' = Stopped(e, c)
  <2>1. c \in Channels
    BY <1>6 DEF StreamInv, StreamState, Senders
  <2> HIDE DEF w
  <2>2. StreamInv(Video(w))
    BY <1>1, <1>2 DEF ClientOK, Video
  <2>3. /\ StreamInv(v) /\ v.p2pStreaming = Video(w).p2pStreaming
        /\ v.p2pStreamChannel = Video(w).p2pStreamChannel
        /\ v.watchdog = Video(w).watchdog
    BY <2>1, <2>2, ReportedOK
  <2> HIDE DEF v
  <2>4. ClientOK(e) /\ SameLive(w, e)
    BY <1>1, <1>2, <2>3, WithStreamSame
  <2> HIDE DEF e
  <2>5. Filmed(e, on, K) /\ Guarded(e, K)
    BY <1>4, <2>4, SameLiveKeeps
  <2>6. CASE client' = e
    BY <2>5, <2>6, OnlyClient
  <2>7. CASE /\ IsStreaming(e, "VIDEO", c)
             /\ client' = SendCommand(e, Command("stop", "VIDEO", c))
    <3> DEFINE command == Command("stop", "VIDEO", c)
    <3>1. command \in Commands /\ command.channel = c
      BY <1>1, <2>1 DEF Command, Commands
    <3>2. c \in K
      BY <2>5, <2>7 DEF IsStreaming, Filmed, OfCameras, Video
    <3>3. client' = SendCommand(e, command)
      BY <2>7
    <3> HIDE DEF command
    <3>4. Filmed(SendCommand(e, command), on, K) /\ Guarded(SendCommand(e, command), K)
      BY <2>4, <2>5, <3>1, <3>2, SendFilmed
    <3> QED
      BY <3>3, <3>4, OnlyClient
  <2> QED
    BY <1>6, <2>6, <2>7 DEF Stopped
<1> QED
  BY <1>3, <1>5, <1>6

LEMMA PacketsFilm ==
    ASSUME IndInv, FilmInv, NEW d \in DataTypes, NEW frame \in FrameKinds,
           ReceiveExpected(d, frame)
    PROVE  FilmInv'
<1> DEFINE s == client.stream[d]
           q == Arrived(s)
           p == Parsed(q, frame)
           Fits(t) ==
                /\ StreamInv(t)
                /\ t.p2pStreaming = s.p2pStreaming
                /\ t.p2pStreamChannel = s.p2pStreamChannel
                /\ t.watchdog = "quiet" => s.watchdog = "quiet"
<1>1. StreamInv(s) /\ s \in StreamState
  BY DEF IndInv, ClientOK, StreamInv
<1>2. UNCHANGED <<station, cameras>>
  BY DEF ReceiveExpected
<1>3. \A t \in StreamState : /\ Arrived(t).watchdog = t.watchdog
                             /\ \A more : Waiting(t, more).watchdog = t.watchdog
  BY DEF Arrived, Waiting, StreamState
<1>4. Fits(q)
  BY <1>1, <1>3, PacketMarks, AlikeKeepsInv DEF Alike
<1>5. PICK c \in Senders(s) :
            /\ ~s.queuedData =>
                    client' = AfterFrames(client, d, p, c)
            /\ s.queuedData =>
                    \E next \in NextFrames(p), more \in BOOLEAN :
                        client' = AfterFrames(client, d, Waiting(Parsed(p, next), more), c)
  BY DEF ReceiveExpected, Arrived, Waiting
<1> HIDE DEF q
<1>6. Fits(p)
  BY <1>4, ParsedMarks
<1> HIDE DEF p
<1>7. ASSUME NEW t, Fits(t), client' = AfterFrames(client, d, t, c)
      PROVE  FilmInv'
  BY <1>2, <1>7, AfterFramesFilm
<1>8. CASE ~s.queuedData
  BY <1>5, <1>6, <1>7, <1>8
<1>9. CASE s.queuedData
  <2>1. PICK next \in NextFrames(p), more \in BOOLEAN :
            client' = AfterFrames(client, d, Waiting(Parsed(p, next), more), c)
    BY <1>5, <1>9
  <2> DEFINE r == Parsed(p, next)
             t == Waiting(r, more)
  <2>2. next \in FrameKinds
    BY <2>1 DEF NextFrames
  <2>3. Fits(r) /\ r \in StreamState
    BY <1>6, <2>2, ParsedMarks DEF StreamInv
  <2>4. client' = AfterFrames(client, d, t, c)
    BY <2>1
  <2> HIDE DEF r
  <2>5. t \in StreamState /\ Alike(r, t) /\ t.watchdog = r.watchdog
    BY <1>3, <2>1, <2>3, PacketMarks
  <2> HIDE DEF t
  <2>6. Fits(t)
    BY <2>3, <2>5, AlikeKeepsInv DEF Alike
  <2> QED
    BY <1>7, <2>4, <2>6
<1> QED
  BY <1>8, <1>9

LEMMA OtherPacketsFilm ==
    ASSUME IndInv, FilmInv,
           \/ \E c \in Channels : ReceiveConverted(c)
           \/ ReceiveFinished
           \/ \E d \in DataTypes : ReceiveEarly(d)
    PROVE  FilmInv'
<1>1. ClientOK(client) /\ "VIDEO" \in DataTypes /\ station \in [DataTypes -> Channels \cup {NoChannel}]
  BY StreamAssumption DEF IndInv, TypeOK
<1>2. ASSUME NEW c \in Channels, ReceiveConverted(c)
      PROVE  FilmInv'
  <2>1. PICK t : StreamInv(t) /\ t.p2pStreaming /\ client' = WithStream(client, "BINARY", t)
    BY <1>2, ReceiveConvertedIs
  <2>2. SameLive(client, client')
    BY <1>1, <1>2, <2>1, ReceiveConvertedIs, WithStreamSame
  <2> QED
    BY <1>2, <2>2, SameLiveFilms DEF ReceiveConverted
<1>3. CASE ReceiveFinished
  <2>1. /\ "BINARY" \in DataTypes /\ client' = EndStream(client, "BINARY", FALSE)
        /\ station'["VIDEO"] = station["VIDEO"] /\ UNCHANGED cameras
    BY <1>1, <1>3 DEF ReceiveFinished
  <2>2. SameLive(client, client')
    BY <1>1, <2>1, EndQuietlyIs
  <2>3. Filmed(client', station["VIDEO"], cameras) /\ Guarded(client', cameras)
    BY <2>2, SameLiveKeeps DEF FilmInv
  <2> QED
    BY <2>1, <2>3 DEF FilmInv
<1>4. ASSUME NEW d \in DataTypes, ReceiveEarly(d)
      PROVE  FilmInv'
  <2>1. PICK t \in StreamState :
            /\ Alike(client.stream[d], t)
            /\ t.watchdog = client.stream[d].watchdog
            /\ client' = WithStream(client, d, t)
    BY <1>4, ReceiveEarlyIs
  <2>2. SameLive(client, client')
    BY <1>1, <2>1, AlikeIsSameLive
  <2> QED
    BY <1>4, <2>2, SameLiveFilms DEF ReceiveEarly
<1> QED
  BY <1>2, <1>3, <1>4

(* Without a connection nothing is sent, and nothing filmed. *)
LEMMA DisconnectedFilmed ==
    ASSUME ClientOK(client), FilmInv, client.sending = << >>, client' = Disconnected(client),
           station'["VIDEO"] = NoChannel, UNCHANGED cameras
    PROVE  FilmInv'
<1> DEFINE r == Disconnected(client)
<1>1. /\ ClientOK(r)
      /\ \A d \in DataTypes : r.stream[d] = Replaced(Ended(client.stream[d]))
      /\ r.connection = "closed" /\ r.unacknowledged = NoCommand
      /\ r.awaiting = {}
      /\ r.sendQueue = client.sendQueue /\ r.sending = client.sending
      /\ Step(Video(client), Video(r))
      /\ Spares(r)
  BY DisconnectedIs
<1> HIDE DEF r
<1>2. "VIDEO" \in DataTypes /\ StreamInv(client.stream["VIDEO"])
  BY StreamAssumption DEF ClientOK
<1>3. ~Video(r).p2pStreaming /\ Video(r).watchdog = "none"
  <2>1. Ended(client.stream["VIDEO"]) \in StreamState
    BY <1>2, EndedOK DEF StreamInv
  <2>2. StreamInv(Ended(client.stream["VIDEO"]))
    BY <1>2, EndedOK
  <2>3. Video(r) = Replaced(Ended(client.stream["VIDEO"]))
    BY <1>1, <1>2 DEF Video
  <2> QED
    BY <2>1, <2>2, <2>3, ReplacedOK, EndedMarks
<1>4. InOrder(r)
  BY <1>1 DEF InOrder, Spares
<1>5. OfCameras(r, cameras)
  <2>1. Unanswered(r) \subseteq Unanswered(client) \cup {NoCommand}
    BY <1>1 DEF Unanswered
  <2> QED
    BY <1>1, <1>3, <2>1 DEF FilmInv, Filmed, OfCameras
<1>6. Filmed(r, NoChannel, cameras) /\ Guarded(r, cameras)
  BY <1>1, <1>3, <1>4, <1>5 DEF Filmed, Guarded, IsLive
<1> QED
  BY <1>6 DEF FilmInv, r

LEMMA ConnectionFilms ==
    ASSUME IndInv, FilmInv, Prompt,
           \/ Disconnect \/ ConnectFails \/ EnergySavingDisconnect
           \/ Connect \/ Connected \/ Keepalive
    PROVE  FilmInv'
<1> DEFINE on == station["VIDEO"]
           K == cameras
<1>1. ClientOK(client) /\ client \in ClientType /\ Filmed(client, on, K) /\ Guarded(client, K)
  BY DEF IndInv, ClientOK, FilmInv
<1>2. /\ client.connection # "connected" =>
            on = NoChannel /\ client.unacknowledged = NoCommand
      /\ client.unacknowledged = NoCommand => client.sending = << >>
      /\ client.esdDisconnect => client.unacknowledged = NoCommand
  BY <1>1 DEF Filmed, InOrder
<1>3. StationStops => station'["VIDEO"] = NoChannel
  BY StreamAssumption DEF StationStops
<1>4. CASE Disconnect
  BY <1>1, <1>3, <1>4, DisconnectedFilmed DEF Disconnect, Prompt
<1>5. CASE ConnectFails
  BY <1>1, <1>2, <1>5, DisconnectedFilmed DEF ConnectFails
<1>6. CASE EnergySavingDisconnect
  BY <1>1, <1>2, <1>3, <1>6, DisconnectedFilmed DEF EnergySavingDisconnect
<1>7. CASE Connect
  <2>1. /\ client'.stream = client.stream /\ client'.sendQueue = client.sendQueue
        /\ client'.unacknowledged = client.unacknowledged /\ client'.sending = client.sending
        /\ client'.esdDisconnect = client.esdDisconnect /\ client'.awaiting = client.awaiting
        /\ client'.connection = "connecting" /\ client.connection = "closed"
    BY <1>1, <1>7 DEF Connect, ClientType
  <2>2. Unanswered(client') = Unanswered(client) /\ Video(client') = Video(client)
    BY <2>1 DEF Unanswered, Video
  <2>3. Filmed(client', on, K) /\ Guarded(client', K)
    BY <1>1, <1>2, <2>1, <2>2
       DEF Filmed, Guarded, InOrder, OfCameras, Accounted, StopPending, StartComes
  <2> QED
    BY <1>7, <2>3, OnlyClient DEF Connect
<1>8. CASE Connected
  <2> DEFINE q == [client EXCEPT !.connection = "connected", !.esdDisconnect = FALSE]
  <2>1. /\ q \in ClientType /\ q.stream = client.stream /\ ~q.esdDisconnect
        /\ q.sendQueue = client.sendQueue /\ q.awaiting = client.awaiting
        /\ q.unacknowledged = client.unacknowledged /\ q.sending = client.sending
        /\ q.connection = "connected" /\ client.connection = "connecting"
    BY <1>1, <1>8 DEF Connected, ClientType
  <2>2. client' = SendQueuedMessage(q)
    BY <1>8 DEF Connected
  <2> HIDE DEF q
  <2>3. Unanswered(q) = Unanswered(client) /\ Video(q) = Video(client) /\ ClientOK(q)
    BY <1>1, <2>1 DEF Unanswered, Video, ClientOK
  <2>4. Filmed(q, on, K) /\ Guarded(q, K)
    BY <1>1, <1>2, <2>1, <2>3
       DEF Filmed, Guarded, InOrder, OfCameras, Accounted, StopPending, StartComes
  <2>5. Filmed(client', on, K) /\ Guarded(client', K)
    BY <2>2, <2>3, <2>4, SendQueuedFilmed
  <2> QED
    BY <1>8, <2>5, OnlyClient DEF Connected
<1>9. CASE Keepalive
  BY <1>1, <1>9, CloseEnergySavingDeviceIs, SameLiveFilms DEF Keepalive
<1> QED
  BY <1>4, <1>5, <1>6, <1>7, <1>8, <1>9

LEMMA NextFilms ==
    ASSUME IndInv, FilmInv, Prompt, Next
    PROVE  FilmInv'
<1>1. ASSUME NEW c \in Channels,
             \/ StartLivestream(c) \/ StopLivestream(c) \/ MaximumReached(c) \/ StrayMaximum(c)
             \/ StartDownload(c) \/ CancelDownload(c) \/ ReceiveConverted(c)
             \/ \E type \in {"talk", "endTalk"} : Talkback(type, c)
      PROVE  FilmInv'
  BY <1>1, ApplicationFilms, OtherPacketsFilm
<1>2. CASE MessageSent \/ ReceiveAck \/ GiveUp
  BY <1>2, MessageSentFilms, ReceiveAckFilms, GiveUpFilms
<1>3. CASE \E command \in client.awaiting, successful \in BOOLEAN :
                ReceiveResult(command, successful)
  BY <1>3, ReceiveResultFilms
<1>4. CASE ReceiveFinished
  BY <1>4, OtherPacketsFilm
<1>5. ASSUME NEW d \in DataTypes,
             \/ \E frame \in FrameKinds : ReceiveExpected(d, frame)
             \/ ReceiveEarly(d) \/ WatchdogFires(d) \/ GapTimerFires(d) \/ AudioTimerFires(d)
             \/ StrayGapTimer(d) \/ StrayAudioTimer(d) \/ StrayWatchdog(d)
      PROVE  FilmInv'
  BY <1>5, PacketsFilm, OtherPacketsFilm, TimersFilm, AudioTimersFilm, StrayGapTimerFilms
<1>6. CASE \/ Disconnect \/ ConnectFails \/ EnergySavingDisconnect
           \/ Connect \/ Connected \/ Keepalive
  BY <1>6, ConnectionFilms
<1> QED
  BY <1>1, <1>2, <1>3, <1>4, <1>5, <1>6 DEF Next

LEMMA InitFilms ==
    ASSUME Init
    PROVE  FilmInv
<1>1. /\ client.sending = << >> /\ client.unacknowledged = NoCommand
      /\ ~client.esdDisconnect /\ client.sendQueue = << >> /\ client.awaiting = {}
  BY DEF Init, InitialClient
<1>2. Video(client) = NewStream
  BY InitialClientOK DEF Init
<1>3. ~Video(client).p2pStreaming /\ Video(client).watchdog = "none"
  BY <1>2 DEF NewStream
<1>4. Unanswered(client) = {NoCommand}
  BY <1>1 DEF Unanswered, In
<1>5. station["VIDEO"] = NoChannel
  BY StreamAssumption DEF Init
<1> QED
  BY <1>1, <1>3, <1>4, <1>5
     DEF FilmInv, Filmed, Guarded, InOrder, OfCameras, IsLive

(* Of one camera, nobody is filmed for nothing: when all is said and       *)
(* answered, the client knows of the livestream that the station sends     *)
(* (endStream and its sendStopCommand; GiveUp and the watchdog before the  *)
(* result are the two that do not tell the station).  Assumed: a command's *)
(* sendMessage returns before its acknowledgement comes, the station       *)
(* acknowledges what it is told, and answers the start of a livestream     *)
(* within MAX_STREAM_DATA_WAIT.                                            *)
THEOREM NobodyFilmed ==
    ASSUME "slowSend" \notin Faults, "deaf" \notin Faults, "lateStart" \notin Faults
    PROVE  Spec => []NobodyIsFilmedForNothing
<1>1. Init => FilmInv
  BY InitFilms
<1>2. IndInv /\ FilmInv /\ [Next]_vars => FilmInv'
  <2> SUFFICES ASSUME IndInv, FilmInv, [Next]_vars
               PROVE  FilmInv'
    OBVIOUS
  <2>1. CASE Next
    BY <2>1, NextFilms DEF Prompt
  <2>2. CASE UNCHANGED vars
    BY <2>2 DEF vars, FilmInv
  <2> QED
    BY <2>1, <2>2
<1>3. FilmInv => NobodyIsFilmedForNothing
  <2> SUFFICES ASSUME FilmInv, Quiet, OneCamera, station["VIDEO"] # NoChannel
               PROVE  IsStreaming(client, "VIDEO", station["VIDEO"])
    BY DEF NobodyIsFilmedForNothing
  <2>1. OneOf(cameras)
    BY DEF OneCamera, OneOf
  <2>2. ~StopPending(client)
    <3>1. Unanswered(client) = {NoCommand}
      BY DEF Quiet, Unanswered, In
    <3> QED
      BY <3>1 DEF StopPending, IsLive
  <2>3. Video(client).p2pStreaming
    BY <2>1, <2>2 DEF FilmInv, Filmed, Accounted
  <2>4. Video(client).p2pStreamChannel \in cameras /\ station["VIDEO"] \in cameras
    BY <2>3 DEF FilmInv, Filmed, OfCameras
  <2> QED
    BY <2>1, <2>3, <2>4 DEF OneOf, IsStreaming, Video
<1> QED
  BY <1>1, <1>2, <1>3, Invariance, PTL DEF Spec
=============================================================================
