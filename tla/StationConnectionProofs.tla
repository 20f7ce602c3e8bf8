----------------------- MODULE StationConnectionProofs ----------------------
(***************************************************************************)
(* Theorems about P2PConnection, the session alone (Spec), and about       *)
(* StationConnection, a station with its session (StationSpec), for both   *)
(* connection types, every number of retries, every bound and every set of *)
(* faults.  A behaviour of StationSpec is one of Spec                      *)
(* (StationUsesSession), so the theorems of the first part hold of it too. *)
(***************************************************************************)
EXTENDS StationConnection, TLAPS

----------------------------------------------------------------------------
(* The session alone.                                                      *)


(* The bounds of the counters.                                             *)
LEMMA ZeroIsSmall ==
    /\ 0 \in Nat /\ 0 \in 0..MAX_RETRIES /\ 0 \in 0..MaxOrphans
    /\ \A i \in 0..MAX_RETRIES : i < MAX_RETRIES => i + 1 \in 0..MAX_RETRIES
    /\ MAX_RETRIES \in Nat
  BY ConnectionAssumption

(***************************************************************************)
(* What the helpers make of a session.                                     *)
(***************************************************************************)

(* A session of the right type without a timer for the cloud, if it is     *)
(* ONLY_LOCAL.                                                             *)
Sound(s) ==
    /\ s \in SessionType
    /\ ConnectionType = "ONLY_LOCAL" => NoCloudTimer(s)

(* Two sessions agree on the connection and on its heartbeat.              *)
SameConnection(s, t) ==
    s.connected = t.connected /\ s.heartbeatTimeouts = t.heartbeatTimeouts

(* No connection and no heartbeat.                                         *)
Down(s) == ~s.connected /\ s.heartbeatTimeouts = 0

LEMMA OverwrittenSound ==
    ASSUME NEW s, Sound(s)
    PROVE  Sound(Overwritten(s)) /\ SameConnection(Overwritten(s), s)
  BY ConnectionAssumption DEF Sound, SameConnection, Overwritten, SessionType, NoCloudTimer

LEMMA LocalLookupSound ==
    ASSUME NEW s, Sound(s)
    PROVE  Sound(LocalLookup(s)) /\ SameConnection(LocalLookup(s), s)
<1>1. Sound(Overwritten(s)) /\ SameConnection(Overwritten(s), s)
  BY OverwrittenSound
<1> QED
  BY <1>1 DEF Sound, SameConnection, LocalLookup, SessionType, NoCloudTimer

(* The cloud is looked up by a QUICKEST session only.                      *)
LEMMA CloudLookupSound ==
    ASSUME NEW s, Sound(s), ConnectionType # "ONLY_LOCAL"
    PROVE  Sound(CloudLookup(s)) /\ SameConnection(CloudLookup(s), s)
  BY DEF Sound, SameConnection, CloudLookup, SessionType, NoCloudTimer

LEMMA LookupSound ==
    ASSUME NEW s, Sound(s)
    PROVE  Sound(Lookup(s)) /\ SameConnection(Lookup(s), s)
<1>1. Sound(LocalLookup(s)) /\ SameConnection(LocalLookup(s), s)
  BY LocalLookupSound
<1>2. CASE ConnectionType = "QUICKEST"
  <2>1. LET c == CloudLookup(LocalLookup(s))
        IN  Sound(c) /\ SameConnection(c, LocalLookup(s))
    BY <1>1, <1>2, CloudLookupSound
  <2> QED
    BY <1>1, <1>2, <2>1 DEF Sound, SameConnection, Lookup, SessionType, NoCloudTimer
<1>3. CASE ConnectionType # "QUICKEST"
  BY <1>1, <1>3 DEF Sound, SameConnection, Lookup, SessionType, NoCloudTimer
<1> QED
  BY <1>2, <1>3

LEMMA CamCheckSound ==
    ASSUME NEW s, Sound(s)
    PROVE  Sound(CamCheck(s)) /\ SameConnection(CamCheck(s), s)
  BY DEF Sound, SameConnection, CamCheck, SessionType, NoCloudTimer

LEMMA DisconnectedSound ==
    ASSUME NEW s, Sound(s)
    PROVE  Sound(Disconnected(s)) /\ Down(Disconnected(s))
  BY ZeroIsSmall DEF Sound, Down, Disconnected, SessionType, NoCloudTimer

LEMMA InitializedSound ==
    ASSUME NEW s, Sound(s)
    PROVE  Sound(Initialized(s)) /\ Down(Initialized(s))
  BY ZeroIsSmall DEF Sound, Down, Initialized, SessionType, NoCloudTimer

LEMMA NextHeartbeatSound ==
    ASSUME NEW s, Sound(s), s.connected
    PROVE  Sound(NextHeartbeat(s)) /\ SameConnection(NextHeartbeat(s), s)
  BY ZeroIsSmall DEF Sound, SameConnection, NextHeartbeat, SessionType, NoCloudTimer

(***************************************************************************)
(* The inductive invariant.  The types need that no timer of an ONLY_LOCAL *)
(* session asks the cloud; the heartbeat needs that the session is         *)
(* connected when it runs; the events need that what was reported is what  *)
(* is.                                                                     *)
(***************************************************************************)
ConnectionInv == TypeOK /\ ReportedIsReal /\ HeartbeatIffConnected

(* The socket, and what is noted of an attempt that has no limit.          *)
NotedTyped == binded \in BOOLEAN /\ stranded \in {"no", "bind", "foreign"}

(* What a step that reports nothing and leaves the connection and its      *)
(* heartbeat alone preserves.                                              *)
LEMMA QuietStep ==
    ASSUME ConnectionInv,
           Sound(session'), SameConnection(session', session),
           preparing' \in Nat, UNCHANGED closing,
           failing' \in BOOLEAN, alive' \in BOOLEAN, NotedTyped',
           asked' \subseteq Requests,
           ConnectionType = "ONLY_LOCAL" => asked' \subseteq {"LOCAL_LOOKUP", "CHECK_CAM"},
           EmitsNothing
    PROVE  ConnectionInv'
<1>1. TypeOK'
  BY DEF ConnectionInv, TypeOK, NotedTyped, Sound, EmitsNothing, Emits
<1>2. ReportedIsReal'
  BY DEF ConnectionInv, ReportedIsReal, SameConnection, EmitsNothing, Emits
<1>3. HeartbeatIffConnected'
  BY DEF ConnectionInv, HeartbeatIffConnected, SameConnection
<1> QED
  BY <1>1, <1>2, <1>3 DEF ConnectionInv

(* What a step into no connection preserves: it reports a close if, and    *)
(* only if, there was a connection.                                        *)
LEMMA DownStep ==
    ASSUME ConnectionInv,
           Sound(session'), Down(session'),
           preparing' \in Nat, closing' \in Nat,
           failing' \in BOOLEAN, alive' \in BOOLEAN, NotedTyped',
           asked' \in {asked, {}},
           NEW e \in {"none", "close", "timeout"}, Emits(e),
           session.connected <=> e = "close"
    PROVE  ConnectionInv'
<1>1. TypeOK'
  BY DEF ConnectionInv, TypeOK, NotedTyped, Sound, Emits
<1>2. ReportedIsReal'
  BY DEF ConnectionInv, TypeOK, ReportedIsReal, Down, Emits, Sound, SessionType
<1>3. HeartbeatIffConnected'
  BY DEF HeartbeatIffConnected, Down
<1> QED
  BY <1>1, <1>2, <1>3 DEF ConnectionInv

LEMMA EventTellsTheConnection ==
    /\ DisconnectEvent(session) \in {"none", "close", "timeout"}
    /\ session.connected <=> DisconnectEvent(session) = "close"
  BY DEF DisconnectEvent

LEMMA GoesDownStep ==
    ASSUME ConnectionInv, GoesDown,
           preparing' \in Nat, closing' \in Nat,
           failing' \in BOOLEAN, alive' \in BOOLEAN
    PROVE  ConnectionInv'
<1>1. Sound(session)
  BY DEF ConnectionInv, TypeOK, Sound
<1>2. Sound(session') /\ Down(session')
  BY <1>1, DisconnectedSound DEF GoesDown
<1>3. asked' \in {asked, {}} /\ Emits(DisconnectEvent(session))
  BY DEF GoesDown, StillAsked
<1>4. NotedTyped'
  BY DEF GoesDown, NotedTyped, ConnectionInv, TypeOK
<1> QED
  BY <1>2, <1>3, <1>4, EventTellsTheConnection, DownStep

----------------------------------------------------------------------------
LEMMA InitInv == Init => ConnectionInv
<1> SUFFICES ASSUME Init
             PROVE  ConnectionInv
  OBVIOUS
<1>1. session \in SessionType
  BY ZeroIsSmall DEF Init, SessionType
<1>2. TypeOK
  BY <1>1 DEF Init, TypeOK, NoCloudTimer, Requests
<1>3. session.connected = FALSE /\ session.heartbeatTimeouts = 0 /\ reported = FALSE
  BY DEF Init
<1>4. ReportedIsReal
  BY <1>3 DEF ReportedIsReal
<1>5. HeartbeatIffConnected
  BY <1>3 DEF HeartbeatIffConnected
<1> QED
  BY <1>2, <1>4, <1>5 DEF ConnectionInv

LEMMA StutterInv ==
    ASSUME ConnectionInv, UNCHANGED connectionVars
    PROVE  ConnectionInv'
  BY DEF ConnectionInv, TypeOK, ReportedIsReal, HeartbeatIffConnected, connectionVars

(* Every action preserves it.                                              *)
LEMMA NextInv ==
    ASSUME ConnectionInv, Next
    PROVE  ConnectionInv'
<1> DEFINE MayAsk(r) ==
        /\ r \subseteq Requests
        /\ ConnectionType = "ONLY_LOCAL" => r \subseteq {"LOCAL_LOOKUP", "CHECK_CAM"}
<1>1. /\ Sound(session) /\ MayAsk(asked)
      /\ preparing \in Nat /\ closing \in Nat /\ failing \in BOOLEAN /\ alive \in BOOLEAN
  BY DEF ConnectionInv, TypeOK, Sound
<1>2. SameConnection(session, session)
  BY DEF SameConnection
<1>n. NotedTyped'
  BY DEF ConnectionInv, TypeOK, NotedTyped, Next, SessionStep, Connect, Close, Prepared,
         PreparedInVain, Closed, HeartbeatFailed, LookupTimeout, ConnectTimeout,
         LookupRetry, Lookup2Timeout, Lookup2Retry, OrphanFires, Heartbeat,
         LocalLookupResp, LookupAddr, LookupAddr2, CamId, Pong, End, AliveChanges,
         DatagramLost, Asks, GoesDown
<1>3. ASSUME NEW r, MayAsk(r), Asks(r), Sound(session'), SameConnection(session', session)
      PROVE  ConnectionInv'
  <2>1. MayAsk(asked') /\ EmitsNothing /\ UNCHANGED <<preparing, closing, failing, alive>>
    BY <1>1, <1>3 DEF Asks
  <2> QED
    BY <1>1, <1>3, <1>n, <2>1, QuietStep
<1>4. CASE Connect
  <2>1. Sound(session') /\ SameConnection(session', session)
    BY <1>1, <1>4 DEF Connect, Sound, SameConnection, SessionType, NoCloudTimer
  <2> QED
    BY <1>1, <1>4, <2>1, <1>n, QuietStep DEF Connect
<1>5. CASE Close
  <2>1. CASE session.connected
    <3> DEFINE s == [session EXCEPT !.terminating = TRUE,
                        !.lookupTimeout = FALSE, !.lookupRetryTimeout = "none",
                        !.connectTimeout = FALSE, !.heartbeatTimeouts = 0]
    <3>1. session' = s /\ closing' = closing + 1
      BY <1>5, <2>1 DEF Close
    <3>2. s \in SessionType /\ s.heartbeatTimeouts = 0 /\ s.connected = session.connected
      BY <1>1, ZeroIsSmall DEF Sound, SessionType
    <3>3. NoCloudTimer(session) => NoCloudTimer(s)
      BY <1>1 DEF Sound, SessionType, NoCloudTimer
    <3> HIDE DEF s
    <3>4. TypeOK'
      BY <1>1, <1>n, <1>5, <2>1, <3>1, <3>2, <3>3
      DEF ConnectionInv, TypeOK, NotedTyped, Close, Sound, EmitsNothing, Emits
    <3>5. ReportedIsReal'
      BY <1>5, <3>1, <3>2 DEF ConnectionInv, ReportedIsReal, Close, EmitsNothing, Emits
    <3>6. closing' # 0 /\ session'.heartbeatTimeouts = 0
      BY <1>1, <3>1, <3>2
    <3>7. HeartbeatIffConnected'
      BY <3>6 DEF HeartbeatIffConnected
    <3> QED
      BY <3>4, <3>5, <3>7 DEF ConnectionInv
  <2>2. CASE ~session.connected
    <3>1. Sound(session') /\ Down(session')
      BY <1>1, <1>5, <2>2, InitializedSound DEF Close
    <3>2. asked' \in {asked, {}} /\ Emits("none")
      BY <1>5, <2>2 DEF Close, StillAsked, EmitsNothing
    <3> QED
      BY <1>1, <1>5, <2>2, <3>1, <3>2, <1>n, DownStep DEF Close
  <2> QED
    BY <2>1, <2>2
<1>6. CASE Prepared
  <2>1. Sound(session') /\ SameConnection(session', session)
    BY <1>1, <1>6, LookupSound DEF Prepared
  <2>2. MayAsk(asked') /\ preparing' \in Nat
    BY <1>1, <1>6 DEF Prepared, LookupRequests, Requests
  <2> QED
    BY <1>1, <1>6, <2>1, <2>2, <1>n, QuietStep DEF Prepared
<1>7. CASE Closed
  BY <1>1, <1>7, GoesDownStep DEF Closed
<1>8. CASE HeartbeatFailed
  BY <1>1, <1>8, GoesDownStep DEF HeartbeatFailed
<1>9. CASE LookupTimeout
  BY <1>1, <1>9, GoesDownStep DEF LookupTimeout
<1>10. CASE ConnectTimeout
  BY <1>1, <1>10, GoesDownStep DEF ConnectTimeout
<1>11. CASE LookupRetry
  <2> DEFINE r == IF session.lookupRetryTimeout = "local" THEN {"LOCAL_LOOKUP"}
                  ELSE {"LOOKUP_WITH_KEY"}
  <2>1. MayAsk(r)
    BY <1>1, <1>11 DEF LookupRetry, Sound, SessionType, NoCloudTimer, Requests
  <2>2. Asks(r) /\ session' = session
    BY <1>11 DEF LookupRetry
  <2> QED
    BY <1>1, <1>2, <1>3, <2>1, <2>2
<1>12. CASE Lookup2Timeout
  <2>1. ConnectionType # "ONLY_LOCAL"
    BY <1>1, <1>12 DEF Lookup2Timeout, Sound, NoCloudTimer
  <2>2. Sound(session') /\ SameConnection(session', session)
    BY <1>1, <1>12, <2>1 DEF Lookup2Timeout, Sound, SameConnection, SessionType
  <2>3. MayAsk({"LOOKUP_WITH_KEY2"}) /\ Asks({"LOOKUP_WITH_KEY2"})
    BY <1>12, <2>1 DEF Lookup2Timeout, Requests
  <2> QED
    BY <1>3, <2>2, <2>3
<1>13. CASE Lookup2Retry
  <2>1. ConnectionType # "ONLY_LOCAL"
    BY <1>1, <1>13 DEF Lookup2Retry, Sound, NoCloudTimer
  <2>2. MayAsk({"LOOKUP_WITH_KEY2"}) /\ Asks({"LOOKUP_WITH_KEY2"})
    BY <1>13, <2>1 DEF Lookup2Retry, Requests
  <2> QED
    BY <1>1, <1>2, <1>3, <1>13, <2>2 DEF Lookup2Retry
<1>14. ASSUME NEW k \in {"local", "cloud"}, OrphanFires(k)
       PROVE  ConnectionInv'
  <2> DEFINE fired == [session EXCEPT !.orphans[k] = @ - 1]
             r == IF k = "local" THEN {"LOCAL_LOOKUP"} ELSE {"LOOKUP_WITH_KEY"}
  <2>1. session.orphans[k] > 0 /\ Asks(r)
        /\ session' = IF k = "local" THEN LocalLookup(fired) ELSE CloudLookup(fired)
    BY <1>14 DEF OrphanFires
  <2>2. k = "cloud" => ConnectionType # "ONLY_LOCAL"
    BY <1>1, <2>1 DEF Sound, NoCloudTimer
  <2>3. Sound(fired) /\ SameConnection(fired, session)
    BY <1>1, <2>1, <2>2, ConnectionAssumption
    DEF Sound, SameConnection, SessionType, NoCloudTimer
  <2>4. MayAsk(r)
    BY <2>2 DEF Requests
  <2> HIDE DEF fired, r
  <2>5. CASE k = "local"
    <3>1. Sound(session') /\ SameConnection(session', fired)
      BY <2>1, <2>3, <2>5, LocalLookupSound
    <3>2. SameConnection(session', session)
      BY <3>1, <2>3 DEF SameConnection
    <3> QED
      BY <1>3, <2>1, <2>4, <3>1, <3>2
  <2>6. CASE k # "local"
    <3>1. Sound(session') /\ SameConnection(session', fired)
      BY <2>1, <2>2, <2>3, <2>6, CloudLookupSound
    <3>2. SameConnection(session', session)
      BY <3>1, <2>3 DEF SameConnection
    <3> QED
      BY <1>3, <2>1, <2>4, <3>1, <3>2
  <2> QED
    BY <2>5, <2>6
<1>15. CASE Heartbeat
  <2>1. session.connected
    BY <1>1, <1>15 DEF ConnectionInv, HeartbeatIffConnected, Heartbeat, Sound, SessionType
  <2>2. Sound(session') /\ SameConnection(session', session)
    BY <1>1, <1>15, <2>1, NextHeartbeatSound DEF Heartbeat
  <2>3. failing' \in BOOLEAN
    BY <1>15 DEF Heartbeat
  <2> QED
    BY <1>1, <1>15, <2>2, <2>3, <1>n, QuietStep DEF Heartbeat
<1>16. ASSUME NEW w \in BOOLEAN, LocalLookupResp(w)
       PROVE  ConnectionInv'
  <2> DEFINE r == IF w THEN {"CHECK_CAM"} ELSE {}
  <2>1. MayAsk(r) /\ Asks(r)
    BY <1>16 DEF LocalLookupResp, Requests
  <2>2. CASE w
    <3>1. Sound(session') /\ SameConnection(session', session)
      BY <1>1, <1>16, <2>2, CamCheckSound DEF LocalLookupResp
    <3> QED
      BY <1>3, <2>1, <3>1
  <2>3. CASE ~w
    <3>1. Sound(session') /\ SameConnection(session', session)
      BY <1>1, <1>16, <2>3
      DEF LocalLookupResp, Answered, Sound, SameConnection, SessionType, NoCloudTimer
    <3> QED
      BY <1>3, <2>1, <3>1
  <2> QED
    BY <2>2, <2>3
<1>17. CASE LookupAddr
  <2> DEFINE s == [session EXCEPT !.lookupRetryTimeout = "none"]
  <2>1. Sound(s) /\ SameConnection(s, session)
    BY <1>1 DEF Sound, SameConnection, SessionType, NoCloudTimer
  <2>2. session' = CamCheck(s) /\ Asks({"CHECK_CAM"})
    BY <1>17 DEF LookupAddr
  <2> HIDE DEF s
  <2>3. Sound(session') /\ SameConnection(session', session)
    BY <2>1, <2>2, CamCheckSound DEF SameConnection
  <2>4. MayAsk({"CHECK_CAM"})
    BY DEF Requests
  <2> QED
    BY <1>3, <2>2, <2>3, <2>4
<1>18. CASE LookupAddr2
  <2> DEFINE s == [session EXCEPT !.lookupRetryTimeout = "none",
                                  !.lookup2RetryTimeout = FALSE]
  <2>1. Sound(s) /\ SameConnection(s, session)
    BY <1>1 DEF Sound, SameConnection, SessionType, NoCloudTimer
  <2>2. session' = CamCheck(s) /\ Asks({"CHECK_CAM"})
    BY <1>18 DEF LookupAddr2
  <2> HIDE DEF s
  <2>3. Sound(session') /\ SameConnection(session', session)
    BY <2>1, <2>2, CamCheckSound DEF SameConnection
  <2>4. MayAsk({"CHECK_CAM"})
    BY DEF Requests
  <2> QED
    BY <1>3, <2>2, <2>3, <2>4
<1>19. CASE CamId
  <2>1. ~session.connected /\ session.heartbeatTimeouts = 0
    BY <1>1, <1>19
    DEF CamId, AcceptsCamId, ConnectionInv, HeartbeatIffConnected, Sound, SessionType
  <2> DEFINE s == [session EXCEPT
                    !.connected = TRUE, !.lookupTimeout = FALSE,
                    !.lookupRetryTimeout = "none", !.lookup2Timeout = FALSE,
                    !.lookup2RetryTimeout = FALSE, !.connectTimeout = FALSE,
                    !.heartbeatTimeouts = 1, !.missed = 0]
  <2>2. session' = s
    BY <1>19, <2>1 DEF CamId
  <2>3. /\ Sound(session')
        /\ session'.connected /\ session'.heartbeatTimeouts = 1
    BY <1>1, <2>2, ZeroIsSmall DEF Sound, SessionType, NoCloudTimer
  <2> HIDE DEF s
  <2>4. TypeOK'
    BY <1>1, <1>n, <1>19, <2>3 DEF TypeOK, NotedTyped, ConnectionInv, CamId, Sound, Emits
  <2>5. ReportedIsReal'
    BY <1>1, <1>19, <2>3 DEF ReportedIsReal, CamId, Emits, Sound, SessionType
  <2>6. HeartbeatIffConnected'
    BY <2>3 DEF HeartbeatIffConnected
  <2> QED
    BY <2>4, <2>5, <2>6 DEF ConnectionInv
<1>20. CASE Pong
  <2>1. Sound(session') /\ SameConnection(session', session)
    BY <1>1, <1>20, ZeroIsSmall
    DEF Pong, Sound, SameConnection, SessionType, NoCloudTimer
  <2> QED
    BY <1>1, <1>20, <2>1, <1>n, QuietStep DEF Pong
<1>21. CASE End
  <2>1. Sound(session') /\ Down(session')
    BY <1>1, <1>21, DisconnectedSound DEF End
  <2> QED
    BY <1>1, <1>21, <2>1, EventTellsTheConnection, <1>n, DownStep DEF End
<1>22. CASE AliveChanges
  <2>1. alive' \in BOOLEAN /\ session' = session
    BY <1>22 DEF AliveChanges
  <2> QED
    BY <1>1, <1>2, <1>22, <2>1, <1>n, QuietStep DEF AliveChanges
<1>23. CASE PreparedInVain
  <2>1. /\ preparing' \in Nat /\ session' = session /\ EmitsNothing
        /\ UNCHANGED <<closing, failing, alive, asked>>
    BY <1>1, <1>23 DEF PreparedInVain
  <2> QED
    BY <1>1, <1>2, <2>1, <1>n, QuietStep
<1>24. CASE DatagramLost
  <2>1. MayAsk(asked') /\ session' = session /\ EmitsNothing
        /\ UNCHANGED <<preparing, closing, failing, alive>>
    BY <1>1, <1>24 DEF DatagramLost
  <2> QED
    BY <1>1, <1>2, <2>1, <1>n, QuietStep
<1> QED
  BY <1>4, <1>5, <1>6, <1>7, <1>8, <1>9, <1>10, <1>11, <1>12, <1>13, <1>14,
     <1>15, <1>16, <1>17, <1>18, <1>19, <1>20, <1>21, <1>22, <1>23, <1>24
  DEF Next, SessionStep

----------------------------------------------------------------------------
(* The inductive invariant holds in every reachable state.                 *)
THEOREM ConnectionInvariance == Spec => []ConnectionInv
<1>1. ConnectionInv /\ [Next]_connectionVars => ConnectionInv'
  BY NextInv, StutterInv
<1> QED
  BY InitInv, <1>1, PTL DEF Spec

(* The state has its type, and an ONLY_LOCAL session never asks the cloud  *)
(* (lookup, cloudLookup).                                                  *)
THEOREM ConnectionTypeCorrect == Spec => []TypeOK
<1>1. ConnectionInv => TypeOK
  BY DEF ConnectionInv
<1> QED
  BY <1>1, ConnectionInvariance, PTL

(* What the application was told of the connection is what is (the CAM_ID  *)
(* handler, _disconnected and close).                                      *)
THEOREM WhatIsReportedIsReal == Spec => []ReportedIsReal
<1>1. ConnectionInv => ReportedIsReal
  BY DEF ConnectionInv
<1> QED
  BY <1>1, ConnectionInvariance, PTL

(* A connection has one heartbeat, which ends with it (scheduleHeartbeat). *)
THEOREM OneHeartbeat == Spec => []HeartbeatIffConnected
<1>1. ConnectionInv => HeartbeatIffConnected
  BY DEF ConnectionInv
<1> QED
  BY <1>1, ConnectionInvariance, PTL

(* connect and close alternate, and a timeout is never reported of a       *)
(* connection (the CAM_ID handler and _disconnected).                      *)
THEOREM ConnectAndCloseAlternate == Spec => EventsAlternate
<1> DEFINE Alternates ==
        /\ event' = "connect" => ~reported
        /\ event' = "close" => reported
        /\ event' = "timeout" => ~reported
<1>1. ASSUME ConnectionInv, Next
      PROVE  Alternates
  <2>1. CASE EmitsNothing
    BY <2>1 DEF EmitsNothing, Emits
  <2>2. CASE Emits(DisconnectEvent(session))
    BY <1>1, <2>2 DEF Emits, DisconnectEvent, ConnectionInv, ReportedIsReal
  <2>3. CASE CamId
    BY <1>1, <2>3 DEF CamId, AcceptsCamId, Emits, ConnectionInv, ReportedIsReal
  <2>4. EmitsNothing \/ Emits(DisconnectEvent(session)) \/ CamId
    BY <1>1
    DEF Next, SessionStep, Connect, Close, Prepared, PreparedInVain, DatagramLost,
        Closed, HeartbeatFailed, LookupTimeout, ConnectTimeout, LookupRetry, Lookup2Timeout, Lookup2Retry,
        OrphanFires, Heartbeat, LocalLookupResp, LookupAddr, LookupAddr2, Pong, End,
        AliveChanges, Asks, GoesDown
  <2> QED
    BY <2>1, <2>2, <2>3, <2>4
<1>2. ConnectionInv /\ [Next]_connectionVars => [Alternates]_connectionVars
  BY <1>1
<1> QED
  BY <1>2, ConnectionInvariance, PTL DEF Spec, EventsAlternate

(***************************************************************************)
(* Every attempt is limited, but for the two that the code strands.        *)
(***************************************************************************)
Limitless(s) == s.connecting /\ ~s.connected /\ ~Limited(s)

(* The helpers take no limit away without setting another one.             *)
LEMMA HelpersKeepLimits ==
    ASSUME NEW s \in SessionType
    PROVE  /\ ~Limitless(Lookup(s))
           /\ ~Limitless(CamCheck(s))
           /\ ~Limitless(Disconnected(s))
           /\ ~Limitless(Initialized(s))
           /\ ~Limitless(s) => ~Limitless(LocalLookup(s)) /\ ~Limitless(CloudLookup(s))
           /\ ~Limitless(s) => ~Limitless(NextHeartbeat(s))
<1>1. ~Limitless(Lookup(s))
  BY DEF Limitless, Limited, Lookup, LocalLookup, CloudLookup, Overwritten, SessionType
<1>2. ~Limitless(CamCheck(s))
  BY DEF Limitless, Limited, CamCheck, SessionType
<1>3. ~Limitless(Disconnected(s)) /\ ~Limitless(Initialized(s))
  BY DEF Limitless, Disconnected, Initialized, SessionType
<1>4. ~Limitless(s) => ~Limitless(LocalLookup(s)) /\ ~Limitless(CloudLookup(s))
  BY DEF Limitless, Limited, LocalLookup, CloudLookup, Overwritten, SessionType
<1>5. ~Limitless(s) => ~Limitless(NextHeartbeat(s))
  BY DEF Limitless, Limited, NextHeartbeat, SessionType
<1> QED
  BY <1>1, <1>2, <1>3, <1>4, <1>5

LEMMA LimitedNext ==
    ASSUME TypeOK, AttemptIsLimited, [Next]_connectionVars
    PROVE  AttemptIsLimited'
<1> DEFINE Excused == preparing > 0 \/ stranded # "no"
<1>1. session \in SessionType /\ preparing \in Nat /\ stranded \in {"no", "bind", "foreign"}
  BY DEF TypeOK
<1>2. Limitless(session) => Excused
  BY DEF AttemptIsLimited, Limitless
<1> SUFFICES ASSUME Limitless(session')
             PROVE  Excused'
  BY DEF AttemptIsLimited, Limitless
<1>3. ASSUME GoesDown
      PROVE  FALSE
  BY <1>1, <1>3, HelpersKeepLimits DEF GoesDown
<1>4. ASSUME Limitless(session), UNCHANGED <<preparing, stranded>>
      PROVE  Excused'
  BY <1>2, <1>4
<1>5. CASE UNCHANGED connectionVars
  BY <1>4, <1>5 DEF connectionVars
<1>6. CASE Connect
  BY <1>1, <1>6 DEF Connect
<1>7. CASE Close
  <2>1. CASE session.connected
    <3>1. session'.connected
      BY <1>1, <1>7, <2>1 DEF Close, SessionType
    <3> QED
      BY <3>1 DEF Limitless
  <2>2. CASE ~session.connected
    BY <1>1, <1>7, <2>2, HelpersKeepLimits DEF Close
  <2> QED
    BY <2>1, <2>2
<1>8. CASE Prepared
  BY <1>1, <1>8, HelpersKeepLimits DEF Prepared
<1>9. CASE PreparedInVain
  BY <1>9 DEF PreparedInVain, Limitless
<1>10. CASE \/ Closed \/ HeartbeatFailed
            \/ LookupTimeout \/ ConnectTimeout
  BY <1>3, <1>10 DEF Closed, HeartbeatFailed, LookupTimeout, ConnectTimeout
<1>11. CASE End
  BY <1>1, <1>11, HelpersKeepLimits DEF End
<1>12. CASE \/ LookupRetry \/ Lookup2Retry
            \/ AliveChanges \/ DatagramLost
  BY <1>4, <1>12 DEF LookupRetry, Lookup2Retry, AliveChanges, DatagramLost, Asks
<1>13. CASE Lookup2Timeout
  <2>1. Limitless(session)
    BY <1>1, <1>13 DEF Lookup2Timeout, Limitless, Limited, SessionType
  <2> QED
    BY <1>4, <1>13, <2>1 DEF Lookup2Timeout, Asks
<1>14. ASSUME NEW k \in {"local", "cloud"}, OrphanFires(k)
       PROVE  Excused'
  <2> DEFINE fired == [session EXCEPT !.orphans[k] = @ - 1]
  <2>1. session' = LocalLookup(fired) \/ session' = CloudLookup(fired)
    BY <1>14 DEF OrphanFires
  <2>2. Limitless(session)
    BY <1>1, <2>1
    DEF Limitless, Limited, LocalLookup, Overwritten, CloudLookup, SessionType
  <2> QED
    BY <1>4, <1>14, <2>2 DEF OrphanFires, Asks
<1>15. CASE Heartbeat
  BY <1>1, <1>4, <1>15, HelpersKeepLimits DEF Heartbeat
<1>16. ASSUME NEW w \in BOOLEAN, LocalLookupResp(w)
       PROVE  Excused'
  <2>1. CASE w
    BY <1>1, <1>16, <2>1, HelpersKeepLimits DEF LocalLookupResp
  <2>2. CASE ~w
    <3>1. /\ session' = Answered(session) /\ preparing' = preparing
          /\ stranded' = IF session.lookupTimeout /\ ~session.connectTimeout
                         THEN "foreign" ELSE stranded
      BY <1>16, <2>2 DEF LocalLookupResp, Asks
    <3>2. /\ session.connecting /\ ~session.connected /\ ~session.connectTimeout
      BY <1>1, <3>1 DEF Answered, Limitless, Limited, SessionType
    <3>3. CASE session.lookupTimeout
      BY <3>1, <3>2, <3>3
    <3>4. CASE ~session.lookupTimeout
      BY <1>2, <3>1, <3>2, <3>4 DEF Limitless, Limited
    <3> QED
      BY <3>3, <3>4
  <2> QED
    BY <2>1, <2>2
<1>17. CASE LookupAddr
  <2> DEFINE s == [session EXCEPT !.lookupRetryTimeout = "none"]
  <2>1. s \in SessionType
    BY <1>1 DEF SessionType
  <2>2. session' = CamCheck(s)
    BY <1>17 DEF LookupAddr
  <2> HIDE DEF s
  <2> QED
    BY <2>1, <2>2, HelpersKeepLimits
<1>18. CASE LookupAddr2
  <2> DEFINE s == [session EXCEPT !.lookupRetryTimeout = "none",
                                  !.lookup2RetryTimeout = FALSE]
  <2>1. s \in SessionType
    BY <1>1 DEF SessionType
  <2>2. session' = CamCheck(s)
    BY <1>18 DEF LookupAddr2
  <2> HIDE DEF s
  <2> QED
    BY <2>1, <2>2, HelpersKeepLimits
<1>19. CASE CamId
  <2>1. session'.connected
    BY <1>1, <1>19 DEF CamId, SessionType
  <2> QED
    BY <2>1 DEF Limitless
<1>20. CASE Pong
  <2>1. Limitless(session)
    BY <1>1, <1>20 DEF Pong, Limitless, Limited, SessionType
  <2> QED
    BY <1>4, <1>20, <2>1 DEF Pong
<1> QED
  BY <1>5, <1>6, <1>7, <1>8, <1>9, <1>10, <1>11, <1>12, <1>13, <1>14, <1>15, <1>16,
     <1>17, <1>18, <1>19, <1>20
  DEF Next, SessionStep

(* An attempt to connect has a timer that ends it, or has yet to begin, or *)
(* was left without a timer by a failed bind or by the answer of a foreign *)
(* device (connect, lookup, _connect, the LOCAL_LOOKUP_RESP handler).      *)
THEOREM AttemptsAreLimited == Spec => []AttemptIsLimited
<1>1. Init => AttemptIsLimited
  BY DEF Init, AttemptIsLimited
<1>2. TypeOK /\ AttemptIsLimited /\ [Next]_connectionVars => AttemptIsLimited'
  BY LimitedNext
<1> QED
  BY <1>1, <1>2, ConnectionTypeCorrect, PTL DEF Spec

----------------------------------------------------------------------------
(* The station with its session.                                           *)


(***************************************************************************)
(* The station uses the session as P2PConnection says.                     *)
(***************************************************************************)
LEMMA StationStepIsSessionStep ==
    ASSUME [StationNext]_vars
    PROVE  [Next]_connectionVars
<1>1. CASE UNCHANGED vars
  BY <1>1 DEF vars
<1>2. SessionUnchanged => UNCHANGED connectionVars
  BY DEF SessionUnchanged, connectionVars
<1>3. StationClose => Close \/ SessionUnchanged
  BY DEF StationClose
<1>4. ConnectUnlessConnected => Connect \/ SessionUnchanged
  BY DEF ConnectUnlessConnected
<1>5. CASE StationNext
  <2>1. Connect \/ Close \/ SessionStep \/ SessionUnchanged
    BY <1>3, <1>4, <1>5
    DEF StationNext, ConnectStation, DisconnectStation, CloseP2PConnections,
        ReconnectStation, ReconnectClosed, ReconnectSlept, ReconnectConnected,
        ReconnectReturned, ReconnectTimeout, SessionMoves
  <2> QED
    BY <1>2, <2>1 DEF Next
<1> QED
  BY <1>1, <1>5

(* A station with its session behaves like a session alone: what is proved *)
(* of the session holds in the composition (Station calls connect and      *)
(* close of P2PClientProtocol and nothing else).                           *)
THEOREM StationUsesSession == StationSpec => Spec
<1>1. StationInit => Init
  BY DEF StationInit
<1>2. [StationNext]_vars => [Next]_connectionVars
  BY StationStepIsSessionStep
<1> QED
  BY <1>1, <1>2, PTL DEF StationSpec, Spec

(***************************************************************************)
(* The inductive invariant.  Two flags called terminating, one of the      *)
(* session and one of the station, have to agree well enough: a session    *)
(* that swallows the timeout of an attempt because it is terminating       *)
(* leaves nobody waiting for it.                                           *)
(***************************************************************************)
TerminatingIsNotConnecting ==
    session.terminating /\ session.connecting => session.connected

TerminatingSessionIsNotAwaited ==
    session.terminating => terminating \/ session.connected \/ reconnectTimeout

KeepsTrying ==
    wanted /\ ~terminating =>
        session.connected \/ session.connecting \/ reconnectTimeout

StationInv ==
    /\ StationTypeOK
    /\ TerminatingIsNotConnecting
    /\ TerminatingSessionIsNotAwaited
    /\ KeepsTrying

----------------------------------------------------------------------------
(* The delays.                                                             *)
Delays == {10 * i : i \in 0..5} \cup {60 * i : i \in 2..10}

(* The next delay is one of the delays, and none is above ten minutes.     *)
LEMMA DelayIsBounded ==
    ASSUME NEW d \in Delays
    PROVE  NextDelay(d) \in Delays
<1>1. CASE d \in {10 * i : i \in 0..5}
  <2>1. PICK i \in 0..5 : d = 10 * i
    BY <1>1
  <2>2. CASE i = 5
    <3>1. NextDelay(d) = 60 * 2
      BY <2>1, <2>2 DEF NextDelay
    <3> QED
      BY <3>1 DEF Delays
  <2>3. CASE i # 5
    <3>1. NextDelay(d) = 10 * (i + 1) /\ i + 1 \in 0..5
      BY <2>1, <2>3 DEF NextDelay
    <3> QED
      BY <3>1 DEF Delays
  <2> QED
    BY <2>2, <2>3
<1>2. CASE d \in {60 * i : i \in 2..10}
  <2>1. PICK i \in 2..10 : d = 60 * i
    BY <1>2
  <2>2. CASE i = 10
    <3>1. NextDelay(d) = d
      BY <2>1, <2>2 DEF NextDelay
    <3> QED
      BY <3>1
  <2>3. CASE i # 10
    <3>1. NextDelay(d) = 60 * (i + 1) /\ i + 1 \in 2..10
      BY <2>1, <2>3 DEF NextDelay
    <3> QED
      BY <3>1 DEF Delays
  <2> QED
    BY <2>2, <2>3
<1> QED
  BY <1>1, <1>2 DEF Delays

LEMMA ZeroIsDelay == 0 \in Delays
<1>1. 0 = 10 * 0 /\ 0 \in 0..5
  OBVIOUS
<1> QED
  BY <1>1 DEF Delays

(***************************************************************************)
(* What a step of the session does to the flags the station depends on:    *)
(* nothing, or it ends the connection or the attempt and says so, or it    *)
(* connects.                                                               *)
(***************************************************************************)
SameFlags(s, t) ==
    /\ s.connected = t.connected
    /\ s.connecting = t.connecting
    /\ s.terminating = t.terminating

LEMMA HelpersKeepFlags ==
    ASSUME NEW s \in SessionType
    PROVE  /\ SameFlags(LocalLookup(s), s)
           /\ SameFlags(CloudLookup(s), s)
           /\ SameFlags(Lookup(s), s)
           /\ SameFlags(CamCheck(s), s)
           /\ SameFlags(NextHeartbeat(s), s)
<1>1. SameFlags(LocalLookup(s), s)
  BY DEF SameFlags, LocalLookup, Overwritten, SessionType
<1>2. SameFlags(CloudLookup(s), s)
  BY DEF SameFlags, CloudLookup, SessionType
<1>3. SameFlags(Lookup(s), s)
  BY DEF SameFlags, Lookup, LocalLookup, CloudLookup, Overwritten, SessionType
<1>4. SameFlags(CamCheck(s), s)
  BY DEF SameFlags, CamCheck, SessionType
<1>5. SameFlags(NextHeartbeat(s), s)
  BY DEF SameFlags, NextHeartbeat, SessionType
<1> QED
  BY <1>1, <1>2, <1>3, <1>4, <1>5

Unnoticed == EmitsNothing /\ SameFlags(session', session)

Ended ==
    /\ ~session'.connected /\ ~session'.connecting
    /\ session'.terminating = session.terminating
    /\ Emits(DisconnectEvent(session))

Connected == session'.connected /\ Emits("connect")

LEMMA DisconnectedEnds ==
    ASSUME session \in SessionType, session' = Disconnected(session),
           Emits(DisconnectEvent(session))
    PROVE  Ended
  BY DEF Ended, Disconnected, SessionType

LEMMA SessionStepsAreThree ==
    ASSUME session \in SessionType, SessionStep
    PROVE  Unnoticed \/ Ended \/ Connected
<1>1. CASE Prepared
  BY <1>1, HelpersKeepFlags DEF Prepared, Unnoticed
<1>2. CASE Closed \/ HeartbeatFailed \/ LookupTimeout \/ ConnectTimeout \/ End
  BY <1>2, DisconnectedEnds
  DEF Closed, HeartbeatFailed, LookupTimeout, ConnectTimeout, End, GoesDown
<1>3. CASE \/ LookupRetry \/ Lookup2Retry
           \/ AliveChanges \/ PreparedInVain \/ DatagramLost
  BY <1>3
  DEF LookupRetry, Lookup2Retry, AliveChanges, PreparedInVain, DatagramLost, Asks,
      Unnoticed, SameFlags
<1>4. CASE Lookup2Timeout
  BY <1>4 DEF Lookup2Timeout, Asks, Unnoticed, SameFlags, SessionType
<1>5. ASSUME NEW k \in {"local", "cloud"}, OrphanFires(k)
      PROVE  Unnoticed
  <2> DEFINE fired == [session EXCEPT !.orphans[k] = @ - 1]
  <2>1. EmitsNothing
    BY <1>5 DEF OrphanFires, Asks
  <2>2. SameFlags(fired, session)
    BY DEF SameFlags, SessionType
  <2>3. SameFlags(LocalLookup(fired), fired) /\ SameFlags(CloudLookup(fired), fired)
    BY DEF SameFlags, LocalLookup, Overwritten, CloudLookup, SessionType
  <2>4. session' = LocalLookup(fired) \/ session' = CloudLookup(fired)
    BY <1>5 DEF OrphanFires
  <2> HIDE DEF fired
  <2>5. SameFlags(session', session)
    BY <2>2, <2>3, <2>4 DEF SameFlags
  <2> QED
    BY <2>1, <2>5 DEF Unnoticed
<1>6. CASE Heartbeat
  BY <1>6, HelpersKeepFlags DEF Heartbeat, Unnoticed
<1>7. ASSUME NEW w \in BOOLEAN, LocalLookupResp(w)
      PROVE  Unnoticed
  <2>1. EmitsNothing
    BY <1>7 DEF LocalLookupResp, Asks
  <2>2. CASE w
    BY <1>7, <2>1, <2>2, HelpersKeepFlags DEF LocalLookupResp, Unnoticed
  <2>3. CASE ~w
    BY <1>7, <2>1, <2>3 DEF LocalLookupResp, Answered, Unnoticed, SameFlags, SessionType
  <2> QED
    BY <2>2, <2>3
<1>8. CASE LookupAddr \/ LookupAddr2
  <2>1. EmitsNothing
    BY <1>8 DEF LookupAddr, LookupAddr2, Asks
  <2>2. SameFlags(session', session)
    BY <1>8 DEF LookupAddr, LookupAddr2, CamCheck, SameFlags, SessionType
  <2> QED
    BY <2>1, <2>2 DEF Unnoticed
<1>9. CASE CamId
  BY <1>9 DEF CamId, Connected, SessionType
<1>10. CASE Pong
  BY <1>10 DEF Pong, Unnoticed, SameFlags, SessionType
<1> QED
  BY <1>1, <1>2, <1>3, <1>4, <1>5, <1>6, <1>7, <1>8, <1>9, <1>10 DEF SessionStep

----------------------------------------------------------------------------
LEMMA StationInitInv == StationInit => StationInv
<1> SUFFICES ASSUME StationInit
             PROVE  StationInv
  OBVIOUS
<1>1. TypeOK
  BY InitInv DEF StationInit, ConnectionInv
<1>2. StationTypeOK
  BY <1>1, ZeroIsDelay DEF StationInit, StationTypeOK, Delays
<1>3. session.terminating = FALSE /\ wanted = FALSE
  BY DEF StationInit, Init
<1> QED
  BY <1>2, <1>3
  DEF StationInv, TerminatingIsNotConnecting, TerminatingSessionIsNotAwaited, KeepsTrying

(* What the handlers of the station do.                                    *)
LEMMA StationReactsTyped ==
    ASSUME StationTypeOK, StationReacts
    PROVE  /\ terminating' \in BOOLEAN /\ reconnectTimeout' \in BOOLEAN
           /\ currentDelay' \in Delays
<1>1. /\ terminating \in BOOLEAN /\ reconnectTimeout \in BOOLEAN
      /\ currentDelay \in Delays /\ NextDelay(currentDelay) \in Delays
      /\ 0 \in Delays
  BY DelayIsBounded, ZeroIsDelay DEF StationTypeOK, Delays
<1> QED
  BY <1>1
  DEF StationReacts, OnConnect, OnDisconnect, OnTimeout, ScheduleReconnect

(* The steps of the application and of the reconnect timer.                *)
LEMMA CallInv ==
    ASSUME StationInv, StationNext, ~SessionMoves, TypeOK'
    PROVE  StationInv'
<1>1. /\ session \in SessionType /\ terminating \in BOOLEAN
      /\ reconnectTimeout \in BOOLEAN /\ wanted \in BOOLEAN
      /\ currentDelay \in Delays
  BY DEF StationInv, StationTypeOK, TypeOK, Delays
<1>2. ASSUME Connect
      PROVE  session'.connecting /\ ~session'.terminating
  BY <1>1, <1>2 DEF Connect, SessionType
<1>3. ASSUME SessionUnchanged
      PROVE  session' = session
  BY <1>3 DEF SessionUnchanged
<1>4. ASSUME ConnectUnlessConnected
      PROVE  \/ session'.connecting /\ ~session'.terminating
             \/ session' = session /\ (session.connected \/ session.connecting)
  BY <1>2, <1>3, <1>4 DEF ConnectUnlessConnected, MayConnect
<1>5. ASSUME Close, session.connected
      PROVE  session'.connected
  BY <1>1, <1>5 DEF Close, SessionType
<1>6. ASSUME StationClose
      PROVE  /\ terminating' = TRUE /\ reconnectTimeout' = FALSE
             /\ currentDelay' = currentDelay
             /\ session' = session \/ session'.connected
  BY <1>3, <1>5, <1>6 DEF StationClose
<1>7. CASE ConnectStation
  BY <1>1, <1>2, <1>7
  DEF ConnectStation, StationInv, StationTypeOK, TerminatingIsNotConnecting,
      TerminatingSessionIsNotAwaited, KeepsTrying, Delays
<1>8. CASE DisconnectStation
  BY <1>1, <1>6, <1>8
  DEF DisconnectStation, StationInv, StationTypeOK, TerminatingIsNotConnecting,
      TerminatingSessionIsNotAwaited, KeepsTrying, Delays
<1>9. CASE CloseP2PConnections
  BY <1>1, <1>3, <1>6, <1>9
  DEF CloseP2PConnections, StationInv, StationTypeOK, TerminatingIsNotConnecting,
      TerminatingSessionIsNotAwaited, KeepsTrying, Delays
<1>10. CASE ReconnectStation
  BY <1>1, <1>3, <1>6, <1>10
  DEF ReconnectStation, StationInv, StationTypeOK, TerminatingIsNotConnecting,
      TerminatingSessionIsNotAwaited, KeepsTrying, Delays
<1>11. CASE ReconnectClosed \/ ReconnectConnected \/ ReconnectReturned
  BY <1>1, <1>3, <1>11
  DEF ReconnectClosed, ReconnectConnected, ReconnectReturned, StationInv, StationTypeOK,
      TerminatingIsNotConnecting, TerminatingSessionIsNotAwaited, KeepsTrying, Delays
<1>12. CASE ReconnectSlept
  BY <1>1, <1>4, <1>12
  DEF ReconnectSlept, StationInv, StationTypeOK, TerminatingIsNotConnecting,
      TerminatingSessionIsNotAwaited, KeepsTrying, Delays
<1>13. CASE ReconnectTimeout
  BY <1>1, <1>4, <1>13
  DEF ReconnectTimeout, StationInv, StationTypeOK, TerminatingIsNotConnecting,
      TerminatingSessionIsNotAwaited, KeepsTrying, Delays
<1> QED
  BY <1>7, <1>8, <1>9, <1>10, <1>11, <1>12, <1>13 DEF StationNext

(* The steps of the session, with the reaction of the station.             *)
LEMMA SessionMovesInv ==
    ASSUME StationInv, SessionMoves, TypeOK'
    PROVE  StationInv'
<1>1. /\ session \in SessionType /\ StationTypeOK
      /\ UNCHANGED <<shutdown, reconnecting, wanted>> /\ StationReacts
  BY DEF StationInv, StationTypeOK, TypeOK, SessionMoves
<1>2. StationTypeOK'
  BY <1>1, StationReactsTyped DEF StationTypeOK, Delays
<1>3. Unnoticed \/ Ended \/ Connected
  BY <1>1, SessionStepsAreThree DEF SessionMoves
<1>4. CASE Unnoticed
  <2>1. UNCHANGED <<terminating, currentDelay, reconnectTimeout>>
    BY <1>1, <1>4 DEF Unnoticed, EmitsNothing, Emits, StationReacts
  <2> QED
    BY <1>1, <1>2, <1>4, <2>1
    DEF Unnoticed, SameFlags, StationInv, TerminatingIsNotConnecting,
        TerminatingSessionIsNotAwaited, KeepsTrying
<1>5. CASE Connected
  BY <1>2, <1>5
  DEF Connected, StationInv, TerminatingIsNotConnecting,
      TerminatingSessionIsNotAwaited, KeepsTrying
<1>6. CASE Ended
  <2>1. CASE session.connected
    <3>1. event' = "close"
      BY <1>6, <2>1 DEF Ended, Emits, DisconnectEvent
    <3>2. terminating' = terminating /\ (terminating \/ reconnectTimeout')
      BY <1>1, <3>1 DEF StationReacts, OnDisconnect, ScheduleReconnect
    <3> QED
      BY <1>1, <1>2, <1>6, <3>2
      DEF Ended, StationInv, TerminatingIsNotConnecting,
          TerminatingSessionIsNotAwaited, KeepsTrying
  <2>2. CASE ~session.connected /\ ~session.terminating
    <3>1. event' = "timeout"
      BY <1>6, <2>2 DEF Ended, Emits, DisconnectEvent
    <3>2. reconnectTimeout'
      BY <1>1, <3>1 DEF StationReacts, OnTimeout, ScheduleReconnect
    <3> QED
      BY <1>2, <1>6, <3>2
      DEF Ended, StationInv, TerminatingIsNotConnecting,
          TerminatingSessionIsNotAwaited, KeepsTrying
  <2>3. CASE ~session.connected /\ session.terminating
    <3>1. event' = "none"
      BY <1>6, <2>3 DEF Ended, Emits, DisconnectEvent
    <3>2. UNCHANGED <<terminating, reconnectTimeout>>
      BY <1>1, <3>1 DEF StationReacts
    <3>3. terminating \/ reconnectTimeout
      BY <2>3 DEF StationInv, TerminatingSessionIsNotAwaited
    <3> QED
      BY <1>2, <1>6, <3>2, <3>3
      DEF Ended, StationInv, TerminatingIsNotConnecting,
          TerminatingSessionIsNotAwaited, KeepsTrying
  <2> QED
    BY <2>1, <2>2, <2>3
<1> QED
  BY <1>3, <1>4, <1>5, <1>6

LEMMA StationNextInv ==
    ASSUME StationInv, [StationNext]_vars, TypeOK'
    PROVE  StationInv'
<1>1. CASE UNCHANGED vars
  BY <1>1
  DEF vars, connectionVars, stationVars, StationInv, StationTypeOK,
      TerminatingIsNotConnecting, TerminatingSessionIsNotAwaited, KeepsTrying
<1>2. CASE SessionMoves
  BY <1>2, SessionMovesInv
<1>3. CASE StationNext /\ ~SessionMoves
  BY <1>3, CallInv
<1> QED
  BY <1>1, <1>2, <1>3

(* The inductive invariant holds in every reachable state.                 *)
THEOREM StationInvariance == StationSpec => []StationInv
<1>1. StationInv /\ [StationNext]_vars /\ TypeOK' => StationInv'
  BY StationNextInv
<1>2. StationSpec => []TypeOK
  BY StationUsesSession, ConnectionTypeCorrect, PTL
<1> QED
  BY StationInitInv, <1>1, <1>2, PTL DEF StationSpec

(* The state has its type, and the station never waits longer than ten     *)
(* minutes before it connects again (getCurrentDelay).                     *)
THEOREM StationTypeCorrect == StationSpec => []StationTypeOK
<1>1. StationInv => StationTypeOK
  BY DEF StationInv
<1> QED
  BY <1>1, StationInvariance, PTL

(* A station that was not closed on purpose is connected, waiting for its  *)
(* next attempt, or in an attempt that has a timer to end it unless a      *)
(* failed bind or a foreign device left it without one, whatever           *)
(* continuations and datagrams of earlier attempts come late               *)
(* (onDisconnect, onTimeout, connect).                                     *)
THEOREM StationNeverGivesUp == StationSpec => []NeverGivesUp
<1>1. StationInv /\ AttemptIsLimited => NeverGivesUp
  BY DEF StationInv, KeepsTrying, NeverGivesUp
<1>2. StationSpec => []AttemptIsLimited
  BY StationUsesSession, AttemptsAreLimited, PTL
<1> QED
  BY <1>1, <1>2, StationInvariance, PTL

----------------------------------------------------------------------------
(***************************************************************************)
(* Nothing goes on behind the back of the application.  The hypotheses     *)
(* name what would let it: a connect() that overtakes the rest of an older *)
(* close() or sendPing() ("stale"), an answer to an earlier attempt        *)
(* ("late"), and the second lookup of a session that asks the cloud, whose *)
(* retry timer outlives the session (_disconnected, close).                *)
(***************************************************************************)
Undisturbed ==
    /\ ConnectionType = "ONLY_LOCAL"
    /\ "stale" \notin Faults
    /\ "late" \notin Faults

(* Nothing limits, repeats or answers a lookup or a handshake.             *)
Clean ==
    /\ ~session.lookupTimeout
    /\ session.lookupRetryTimeout = "none"
    /\ ~session.connectTimeout
    /\ asked = {}

Attempting == session.connecting /\ ~session.connected
Idle == ~session.connecting /\ ~session.connected

NoOrphans == \A k \in {"local", "cloud"} : session.orphans[k] = 0

(* The inductive invariant: the timers and the requests belong to the      *)
(* attempt that is under way.  A connect() that still waits for its keys   *)
(* starts from a clean session, so the lookup it begins loses no timer; it *)
(* is alone, and nothing of an older connection has yet to go on.          *)
QuietInv ==
    /\ NoOrphans
    /\ preparing <= 1
    /\ preparing > 0 => Attempting
    /\ preparing > 0 \/ Idle => Clean
    /\ Attempting => closing = 0 /\ ~failing

(* The station closes its session only when it is connected.               *)
CalledStep == Connect \/ (Close /\ session.connected) \/ SessionStep

LEMMA StationStepIsCalledStep ==
    ASSUME [StationNext]_vars
    PROVE  CalledStep \/ UNCHANGED connectionVars
<1>1. CASE UNCHANGED vars
  BY <1>1 DEF vars
<1>2. SessionUnchanged => UNCHANGED connectionVars
  BY DEF SessionUnchanged, connectionVars
<1>3. StationClose => (Close /\ session.connected) \/ SessionUnchanged
  BY DEF StationClose
<1>4. ConnectUnlessConnected => Connect \/ SessionUnchanged
  BY DEF ConnectUnlessConnected
<1>5. CASE StationNext
  <2>1. CalledStep \/ SessionUnchanged
    BY <1>3, <1>4, <1>5
    DEF StationNext, ConnectStation, DisconnectStation, CloseP2PConnections,
        ReconnectStation, ReconnectClosed, ReconnectSlept, ReconnectConnected,
        ReconnectReturned, ReconnectTimeout, SessionMoves, CalledStep
  <2> QED
    BY <1>2, <2>1
<1> QED
  BY <1>1, <1>5

(* A session that goes down is idle and clean.                             *)
LEMMA DownIsQuiet ==
    ASSUME TypeOK, TypeOK', QuietInv, preparing = 0, UNCHANGED preparing,
           session' = Disconnected(session), asked' = {}
    PROVE  QuietInv'
<1>1. /\ session'.connected = FALSE /\ session'.connecting = FALSE
      /\ session'.lookupTimeout = FALSE /\ session'.lookupRetryTimeout = "none"
      /\ session'.connectTimeout = FALSE /\ session'.orphans = session.orphans
  BY DEF TypeOK, SessionType, Disconnected
<1> QED
  BY <1>1 DEF QuietInv, NoOrphans, Attempting, Idle, Clean

(* What keeps the connection, the attempt and the continuations, and asks  *)
(* or arms something only in an attempt or a connection.                   *)
LEMMA GoingOnIsQuiet ==
    ASSUME QuietInv, preparing = 0, ~Idle,
           session'.connected = session.connected,
           session'.connecting = session.connecting,
           session'.orphans = session.orphans,
           UNCHANGED <<preparing, closing>>,
           failing' => failing \/ session.connected
    PROVE  QuietInv'
  BY DEF QuietInv, NoOrphans, Attempting, Idle, Clean

LEMMA QuietNext ==
    ASSUME Undisturbed, TypeOK, TypeOK', QuietInv,
           CalledStep \/ UNCHANGED connectionVars
    PROVE  QuietInv'
<1>1. /\ session \in SessionType /\ session' \in SessionType
      /\ preparing \in Nat /\ closing \in Nat /\ failing \in BOOLEAN
      /\ NoCloudTimer(session)
  BY DEF TypeOK, Undisturbed
<1>2. StillAsked = {}
  BY DEF StillAsked, Undisturbed
<1>3. ~Clean => preparing = 0 /\ ~Idle
  BY <1>1 DEF QuietInv
<1>4. session.connected => preparing = 0 /\ ~Idle
  BY <1>1 DEF QuietInv, Attempting, Idle
<1>5. ASSUME UNCHANGED connectionVars
      PROVE  QuietInv'
  BY <1>5 DEF QuietInv, NoOrphans, Attempting, Idle, Clean, connectionVars
<1>6. ASSUME preparing = 0, GoesDown, UNCHANGED preparing
      PROVE  QuietInv'
  BY <1>2, <1>6, DownIsQuiet DEF GoesDown
<1>7. CASE Connect
  <2>1. /\ ~session.connected /\ ~session.connecting
        /\ closing = 0 /\ ~failing /\ preparing = 0
    BY <1>7 DEF Connect, MayConnect, Undisturbed
  <2>2. Clean
    BY <2>1 DEF QuietInv, Idle
  <2>3. /\ session'.connecting = TRUE /\ session'.connected = session.connected
        /\ session'.lookupTimeout = session.lookupTimeout
        /\ session'.lookupRetryTimeout = session.lookupRetryTimeout
        /\ session'.connectTimeout = session.connectTimeout
        /\ session'.orphans = session.orphans
    BY <1>1, <1>7 DEF Connect, SessionType
  <2>4. preparing' = 1 /\ UNCHANGED <<closing, failing, asked>>
    BY <1>7, <2>1 DEF Connect
  <2> QED
    BY <2>1, <2>2, <2>3, <2>4 DEF QuietInv, NoOrphans, Attempting, Idle, Clean
<1>8. CASE Close /\ session.connected
  <2>1. /\ session'.connecting = session.connecting
        /\ session'.connected = session.connected
        /\ session'.orphans = session.orphans
        /\ UNCHANGED <<preparing, failing>>
    BY <1>1, <1>8 DEF Close, SessionType
  <2> QED
    BY <1>4, <1>8, <2>1 DEF QuietInv, NoOrphans, Attempting, Idle, Clean
<1>9. CASE Prepared
  <2>1. preparing = 1 /\ preparing' = 0 /\ session' = Lookup(session)
        /\ UNCHANGED <<closing, failing>>
    BY <1>1, <1>9 DEF Prepared, QuietInv
  <2>2. session.lookupRetryTimeout = "none" /\ Attempting
    BY <2>1 DEF QuietInv, Clean
  <2>3. Lookup(session) = [session EXCEPT !.lookupRetryTimeout = "local",
                                          !.lookupTimeout = TRUE]
    BY <1>1, <2>2 DEF Lookup, LocalLookup, Overwritten, Undisturbed, SessionType
  <2>4. /\ session'.connecting = session.connecting
        /\ session'.connected = session.connected
        /\ session'.orphans = session.orphans
    BY <1>1, <2>1, <2>3 DEF SessionType
  <2> QED
    BY <2>1, <2>2, <2>4 DEF QuietInv, NoOrphans, Attempting, Idle, Clean
<1>10. CASE Closed \/ HeartbeatFailed
  <2>1. closing > 0 \/ failing
    BY <1>10 DEF Closed, HeartbeatFailed
  <2>2. preparing = 0
    BY <1>1, <2>1 DEF QuietInv
  <2> QED
    BY <1>6, <1>10, <2>2 DEF Closed, HeartbeatFailed
<1>11. CASE LookupTimeout \/ ConnectTimeout
  <2>1. ~Clean
    BY <1>11 DEF LookupTimeout, ConnectTimeout, Clean
  <2> QED
    BY <1>3, <1>6, <1>11, <2>1 DEF LookupTimeout, ConnectTimeout
<1>12. CASE LookupRetry
  <2>1. ~Clean
    BY <1>12 DEF LookupRetry, Clean
  <2> QED
    BY <1>3, <1>12, <2>1, GoingOnIsQuiet DEF LookupRetry, Asks
<1>13. CASE Lookup2Timeout \/ Lookup2Retry \/ \E k \in {"local", "cloud"} : OrphanFires(k)
  BY <1>1, <1>13
  DEF Lookup2Timeout, Lookup2Retry, OrphanFires, NoCloudTimer, QuietInv, NoOrphans,
      SessionType
<1>14. CASE Heartbeat
  <2>1. failing' => session.connected
    BY <1>14 DEF Heartbeat
  <2>2. /\ session'.connecting = session.connecting
        /\ session'.connected = session.connected
        /\ session'.lookupTimeout = session.lookupTimeout
        /\ session'.lookupRetryTimeout = session.lookupRetryTimeout
        /\ session'.connectTimeout = session.connectTimeout
        /\ session'.orphans = session.orphans
        /\ UNCHANGED <<preparing, closing, asked>>
    BY <1>1, <1>14 DEF Heartbeat, NextHeartbeat, SessionType
  <2> QED
    BY <2>1, <2>2 DEF QuietInv, NoOrphans, Attempting, Idle, Clean
<1>15. ASSUME NEW w \in BOOLEAN, LocalLookupResp(w)
       PROVE  QuietInv'
  <2>1. ~Clean
    BY <1>15 DEF LocalLookupResp, Clean
  <2>2. /\ session'.connecting = session.connecting
        /\ session'.connected = session.connected
        /\ session'.orphans = session.orphans
        /\ UNCHANGED <<preparing, closing, failing>>
    BY <1>1, <1>15 DEF LocalLookupResp, CamCheck, Answered, Asks, SessionType
  <2> QED
    BY <1>3, <2>1, <2>2, GoingOnIsQuiet
<1>16. CASE LookupAddr \/ LookupAddr2
  <2>1. ~Clean
    BY <1>16 DEF LookupAddr, LookupAddr2, Clean
  <2>2. /\ session'.connecting = session.connecting
        /\ session'.connected = session.connected
        /\ session'.orphans = session.orphans
        /\ UNCHANGED <<preparing, closing, failing>>
    BY <1>1, <1>16 DEF LookupAddr, LookupAddr2, CamCheck, Asks, SessionType
  <2> QED
    BY <1>3, <2>1, <2>2, GoingOnIsQuiet
<1>17. CASE CamId
  <2>1. ~Clean
    BY <1>17 DEF CamId, Clean
  <2>2. /\ session'.connected = TRUE /\ session'.orphans = session.orphans
        /\ UNCHANGED <<preparing, closing, failing>>
    BY <1>1, <1>17 DEF CamId, SessionType
  <2> QED
    BY <1>3, <2>1, <2>2 DEF QuietInv, NoOrphans, Attempting, Idle, Clean
<1>18. CASE Pong
  <2>1. /\ session'.connecting = session.connecting
        /\ session'.connected = session.connected
        /\ session'.orphans = session.orphans
        /\ UNCHANGED <<preparing, closing, failing>>
    BY <1>1, <1>18 DEF Pong, SessionType
  <2> QED
    BY <1>4, <1>18, <2>1, GoingOnIsQuiet DEF Pong
<1>19. CASE End
  <2>1. session.connected
    BY <1>19 DEF End, Undisturbed
  <2> QED
    BY <1>4, <1>19, <2>1, DownIsQuiet DEF End
<1>20. CASE AliveChanges \/ DatagramLost
  BY <1>20 DEF AliveChanges, DatagramLost, QuietInv, NoOrphans, Attempting, Idle, Clean
<1>21. CASE PreparedInVain
  <2>1. preparing = 1 /\ preparing' = 0
        /\ UNCHANGED <<session, closing, failing, asked>>
    BY <1>1, <1>21 DEF PreparedInVain, QuietInv
  <2> QED
    BY <2>1 DEF QuietInv, NoOrphans, Attempting, Idle, Clean
<1> QED
  BY <1>5, <1>7, <1>8, <1>9, <1>10, <1>11, <1>12, <1>13, <1>14, <1>15, <1>16,
     <1>17, <1>18, <1>19, <1>20, <1>21
  DEF CalledStep, SessionStep

(* The inductive invariant holds in every reachable state.                 *)
THEOREM QuietInvariance ==
    ASSUME Undisturbed
    PROVE  StationSpec => []QuietInv
<1>1. StationInit => QuietInv
  BY DEF StationInit, Init, QuietInv, NoOrphans, Attempting, Idle, Clean
<1>2. TypeOK /\ TypeOK' /\ QuietInv /\ [StationNext]_vars => QuietInv'
  BY StationStepIsCalledStep, QuietNext
<1>3. StationSpec => []TypeOK
  BY StationUsesSession, ConnectionTypeCorrect, PTL
<1> QED
  BY <1>1, <1>2, <1>3, PTL DEF StationSpec

(* A session that is neither connected nor connecting has no timer that    *)
(* would look the station up or connect to it (_disconnected, close).      *)
THEOREM IdleSessionIsQuiet ==
    ASSUME Undisturbed
    PROVE  StationSpec => []IdleIsQuiet
<1>1. TypeOK /\ QuietInv => IdleIsQuiet
  BY DEF TypeOK, Undisturbed, NoCloudTimer, QuietInv, NoOrphans, Idle, Clean, IdleIsQuiet
<1>2. StationSpec => []TypeOK
  BY StationUsesSession, ConnectionTypeCorrect, PTL
<1> QED
  BY <1>1, <1>2, QuietInvariance, PTL

(* A station that was closed because the application ends: it will not     *)
(* react to the close event, its timer is cleared, nobody reconnects it,   *)
(* and its session will not report that it is down as a failed attempt.    *)
ShutInv ==
    shutdown = "connected" =>
        /\ terminating /\ ~reconnectTimeout
        /\ session.terminating
        /\ reconnecting = "no"

(* Only an answer to CHECK_CAM makes a session connect.                    *)
LEMMA OnlyCamIdConnects ==
    ASSUME SessionStep, event' = "connect"
    PROVE  CamId
<1>1. EmitsNothing \/ Emits(DisconnectEvent(session)) \/ CamId
  BY DEF SessionStep, Prepared, PreparedInVain, DatagramLost, Closed, HeartbeatFailed,
         LookupTimeout, ConnectTimeout,
         LookupRetry, Lookup2Timeout, Lookup2Retry, OrphanFires, Heartbeat,
         LocalLookupResp, LookupAddr, LookupAddr2, Pong, End, AliveChanges, Asks, GoesDown
<1> QED
  BY <1>1 DEF EmitsNothing, Emits, DisconnectEvent

(* After the shutdown the application calls nothing, and the session does  *)
(* not connect: it is connected, or idle and asked for nothing.            *)
LEMMA ShutStaysShut ==
    ASSUME StationInv, QuietInv, ShutInv, shutdown = "connected", StationNext
    PROVE  SessionMoves /\ event' # "connect"
<1>1. SessionMoves
  BY DEF StationNext, Calm, ConnectStation, DisconnectStation, CloseP2PConnections,
         ReconnectStation, ReconnectClosed, ReconnectSlept, ReconnectConnected,
         ReconnectReturned, ReconnectTimeout, ShutInv
<1>2. session.connected \/ Idle
  BY DEF ShutInv, StationInv, TerminatingIsNotConnecting, Idle
<1>3. ~CamId
  BY <1>2 DEF QuietInv, Idle, Clean, CamId, AcceptsCamId
<1> QED
  BY <1>1, <1>3, OnlyCamIdConnects DEF SessionMoves

LEMMA ShutNext ==
    ASSUME StationInv, QuietInv, ShutInv, [StationNext]_vars
    PROVE  ShutInv'
<1> SUFFICES ASSUME shutdown' = "connected"
             PROVE  /\ terminating' /\ ~reconnectTimeout'
                    /\ session'.terminating
                    /\ reconnecting' = "no"
  BY DEF ShutInv
<1>1. session \in SessionType
  BY DEF StationInv, StationTypeOK, TypeOK
<1>2. CASE UNCHANGED vars
  BY <1>2 DEF vars, connectionVars, stationVars, ShutInv
<1>3. CASE StationNext /\ shutdown = "connected"
  <2>1. SessionMoves /\ event' # "connect"
    BY <1>3, ShutStaysShut
  <2>2. Unnoticed \/ Ended
    BY <1>1, <2>1, SessionStepsAreThree DEF SessionMoves, Connected, Emits
  <2>3. session'.terminating = session.terminating
    BY <2>2 DEF Unnoticed, Ended, SameFlags
  <2>4. event' \in {"none", "close"}
    BY <1>3, <2>2
    DEF Unnoticed, Ended, EmitsNothing, Emits, DisconnectEvent, ShutInv
  <2>5. UNCHANGED <<terminating, reconnectTimeout>>
    BY <1>3, <2>1, <2>4 DEF SessionMoves, StationReacts, OnDisconnect, ShutInv
  <2> QED
    BY <1>3, <2>1, <2>3, <2>5 DEF SessionMoves, ShutInv
<1>4. CASE StationNext /\ shutdown # "connected"
  <2>1. CloseP2PConnections
    BY <1>4
    DEF StationNext, ConnectStation, DisconnectStation, ReconnectStation,
        ReconnectClosed, ReconnectSlept, ReconnectConnected, ReconnectReturned,
        ReconnectTimeout, SessionMoves
  <2>2. session.connected
    BY <2>1 DEF CloseP2PConnections
  <2>3. StationClose /\ Close /\ reconnecting = "no" /\ UNCHANGED reconnecting
    BY <2>1, <2>2 DEF CloseP2PConnections, StationClose, Calm
  <2>4. session'.terminating
    BY <1>1, <2>2, <2>3 DEF Close, SessionType
  <2> QED
    BY <2>3, <2>4 DEF StationClose
<1> QED
  BY <1>2, <1>3, <1>4

(* A station closed with the application while it was connected never      *)
(* connects again (Station.close, onDisconnect, scheduleReconnect).        *)
THEOREM ClosedForGood ==
    ASSUME Undisturbed
    PROVE  StationSpec => ClosedStaysClosed
<1>1. StationInit => ShutInv
  BY DEF StationInit, ShutInv
<1>2. StationInv /\ QuietInv /\ ShutInv /\ [StationNext]_vars => ShutInv'
  BY ShutNext
<1>3. StationSpec => []ShutInv
  BY <1>1, <1>2, StationInvariance, QuietInvariance, PTL DEF StationSpec
<1>4. StationInv /\ QuietInv /\ ShutInv /\ [StationNext]_vars
      => [shutdown = "connected" => event' # "connect"]_vars
  BY ShutStaysShut
<1> QED
  BY <1>3, <1>4, StationInvariance, QuietInvariance, PTL
  DEF StationSpec, ClosedStaysClosed
=============================================================================
