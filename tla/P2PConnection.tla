---------------------------- MODULE P2PConnection ---------------------------
(***************************************************************************)
(* The life of the connection of a P2P session: looking up the station,    *)
(* the connect handshake, the heartbeat, the end (P2PClientProtocol of     *)
(* p2p/session.ts).  Commands, data and streams are in other modules; the  *)
(* station is not an energy saving one.                                    *)
(*                                                                         *)
(* Three operations go on after an await, when the session may be in       *)
(* another connection already: connect() after the DSK keys are renewed    *)
(* and the socket is bound, close() after END was sent, and sendPing()     *)
(* after the sleep that follows a failed heartbeat check.                  *)
(***************************************************************************)
EXTENDS Integers, FiniteSets

CONSTANTS
    ConnectionType,   \* P2PConnectionType of the session
    MAX_RETRIES,      \* heartbeats that may stay unanswered
    Faults,           \* what may go wrong outside the session
    MaxPending,       \* bound: continuations of connect() and of close()
    MaxOrphans        \* bound: lookup timers without a handle that are counted

FaultKinds ==
    { "foreign",   \* another device answers the local lookup
      "late",      \* a datagram of an earlier attempt or connection arrives
      "bind",      \* the socket cannot be bound (the static UDP port is in use)
      "lost",      \* a request to the station, or its answer, is lost
      "stale" }    \* connect() is called while close() or sendPing() of an
                   \* earlier connection have not gone on yet

ASSUME ConnectionAssumption ==
    /\ ConnectionType \in {"ONLY_LOCAL", "QUICKEST"}
    /\ MAX_RETRIES \in Nat \ {0}
    /\ Faults \subseteq FaultKinds
    /\ MaxPending \in Nat
    /\ MaxOrphans \in Nat

VARIABLES
    session,    \* flags and timers of the session (SessionType)
    preparing,  \* connect() calls that wait for the DSK keys or the socket
    closing,    \* close() calls that wait until END is sent
    failing,    \* does a sendPing() sleep before it disconnects?
    binded,     \* is the socket bound?
    alive,      \* environment: does the station answer?
    asked,      \* environment: requests that may still be answered
    event,      \* the event the last step emitted
    reported,   \* history: was "connect" the last of connect and close?
    stranded    \* history: what left the attempt without a time limit?

connectionVars ==
    <<session, preparing, closing, failing, binded, alive, asked, event, reported,
      stranded>>

----------------------------------------------------------------------------
Requests == {"LOCAL_LOOKUP", "LOOKUP_WITH_KEY", "LOOKUP_WITH_KEY2", "CHECK_CAM"}

(* A timer is armed or not.  lookupRetryTimeout serves the local and the   *)
(* cloud lookup; a timer that is overwritten without being cleared runs on *)
(* as an orphan.                                                           *)
SessionType ==
    [connected : BOOLEAN, connecting : BOOLEAN, terminating : BOOLEAN,
     lookupTimeout : BOOLEAN, lookupRetryTimeout : {"none", "local", "cloud"},
     orphans : [{"local", "cloud"} -> 0..MaxOrphans],
     lookup2Timeout : BOOLEAN, lookup2RetryTimeout : BOOLEAN,
     connectTimeout : BOOLEAN,
     heartbeatTimeouts : Nat, missed : 0..MAX_RETRIES]

Init ==
    /\ session = [connected |-> FALSE, connecting |-> FALSE, terminating |-> FALSE,
                  lookupTimeout |-> FALSE, lookupRetryTimeout |-> "none",
                  orphans |-> [k \in {"local", "cloud"} |-> 0],
                  lookup2Timeout |-> FALSE, lookup2RetryTimeout |-> FALSE,
                  connectTimeout |-> FALSE, heartbeatTimeouts |-> 0, missed |-> 0]
    /\ preparing = 0
    /\ closing = 0
    /\ failing = FALSE
    /\ binded = FALSE
    /\ alive = TRUE
    /\ asked = {}
    /\ event = "none"
    /\ reported = FALSE
    /\ stranded = "no"

----------------------------------------------------------------------------
(* Helpers, as functions of the session. *)

(* The handle in lookupRetryTimeout is lost. *)
Overwritten(s) ==
    IF s.lookupRetryTimeout = "none" THEN s
    ELSE [s EXCEPT !.orphans[s.lookupRetryTimeout] = IF @ < MaxOrphans THEN @ + 1 ELSE @]

(* localLookup() clears localLookupRetryTimeout, which nothing ever sets, *)
(* and stores its timer in lookupRetryTimeout.                            *)
LocalLookup(s) == [Overwritten(s) EXCEPT !.lookupRetryTimeout = "local"]

CloudLookup(s) == [s EXCEPT !.lookupRetryTimeout = "cloud"]

Lookup(s) ==
    LET looking == IF ConnectionType = "QUICKEST"
                   THEN [CloudLookup(LocalLookup(s)) EXCEPT !.lookup2Timeout = TRUE]
                   ELSE LocalLookup(s)
    IN  [looking EXCEPT !.lookupTimeout = TRUE]

LookupRequests ==
    {"LOCAL_LOOKUP"} \cup (IF ConnectionType = "QUICKEST" THEN {"LOOKUP_WITH_KEY"} ELSE {})

(* Mutant: no limit is set on the connect handshake. *)
CamCheckWithoutTimeout(s) == [s EXCEPT !.lookupTimeout = FALSE]

(* An address was found: the lookup is over, CHECK_CAM is sent and the     *)
(* connect timeout is started.                                             *)
CamCheck(s) == [s EXCEPT !.lookupTimeout = FALSE, !.connectTimeout = TRUE]

(* Mutant: the heartbeat of the old connection goes on. *)
DisconnectedWithHeartbeat(s) ==
    [s EXCEPT !.connected = FALSE, !.connecting = FALSE, !.lookupTimeout = FALSE,
              !.lookupRetryTimeout = "none", !.lookup2Timeout = FALSE,
              !.connectTimeout = FALSE, !.missed = 0]

(* _disconnected() and _initialize(): lookup2RetryTimeout is left running. *)
Disconnected(s) ==
    [s EXCEPT !.connected = FALSE, !.connecting = FALSE, !.lookupTimeout = FALSE,
              !.lookupRetryTimeout = "none", !.lookup2Timeout = FALSE,
              !.connectTimeout = FALSE, !.heartbeatTimeouts = 0, !.missed = 0]

DisconnectEvent(s) ==
    IF s.connected THEN "close" ELSE IF s.terminating THEN "none" ELSE "timeout"

(* _initialize() in close(), which only cleared some of the timers. *)
Initialized(s) ==
    [s EXCEPT !.connected = FALSE, !.connecting = FALSE, !.terminating = TRUE,
              !.lookupTimeout = FALSE, !.lookupRetryTimeout = "none",
              !.connectTimeout = FALSE, !.heartbeatTimeouts = 0, !.missed = 0]

(* What is still on its way when a connection or an attempt is over. *)
StillAsked == IF "late" \in Faults THEN asked ELSE {}

Emits(e) ==
    /\ event' = e
    /\ reported' = CASE e = "connect" -> TRUE
                     [] e = "close"   -> FALSE
                     [] OTHER         -> reported

EmitsNothing == Emits("none")

(* The timers that end an attempt. *)
Limited(s) == s.lookupTimeout \/ s.connectTimeout

(* A step that ends in _disconnected(). *)
GoesDown ==
    /\ session' = Disconnected(session)
    /\ asked' = StillAsked
    /\ Emits(DisconnectEvent(session))
    /\ stranded' = "no"
    /\ UNCHANGED binded

----------------------------------------------------------------------------
(* Calls. *)

(* Mutant: an attempt under way is not noticed. *)
MayConnectAgain(s) == ~s.connected

MayConnect(s) == ~s.connected /\ ~s.connecting

Connect ==
    /\ MayConnect(session)
    /\ preparing < MaxPending
    /\ "stale" \in Faults \/ (closing = 0 /\ ~failing /\ preparing = 0)
    /\ session' = [session EXCEPT !.connecting = TRUE, !.terminating = FALSE]
    /\ preparing' = preparing + 1
    /\ stranded' = "no"
    /\ EmitsNothing
    /\ UNCHANGED <<closing, failing, binded, alive, asked>>

(* The DSK keys are there and the socket is bound. *)
Prepared ==
    /\ preparing > 0
    /\ preparing' = preparing - 1
    /\ session' = Lookup(session)
    /\ binded' = TRUE
    /\ asked' = asked \cup LookupRequests
    /\ stranded' = "no"
    /\ EmitsNothing
    /\ UNCHANGED <<closing, failing, alive>>

(* The socket cannot be bound, which is only logged: no lookup begins, and *)
(* connecting is left as it is.  (A bind whose socket is replaced before   *)
(* its callback came ends the same way.)                                   *)
PreparedInVain ==
    /\ "bind" \in Faults
    /\ preparing > 0
    /\ ~binded
    /\ preparing' = preparing - 1
    /\ stranded' = IF session.connecting /\ ~Limited(session) THEN "bind" ELSE stranded
    /\ EmitsNothing
    /\ UNCHANGED <<session, closing, failing, binded, alive, asked>>

Close ==
    /\ closing < MaxPending
    /\ IF session.connected
       THEN /\ session' = [session EXCEPT !.terminating = TRUE,
                             !.lookupTimeout = FALSE, !.lookupRetryTimeout = "none",
                             !.connectTimeout = FALSE, !.heartbeatTimeouts = 0]
            /\ closing' = closing + 1
            /\ UNCHANGED <<asked, stranded>>
       ELSE /\ session' = Initialized(session)
            /\ asked' = StillAsked
            /\ stranded' = "no"
            /\ UNCHANGED closing
    /\ EmitsNothing
    /\ UNCHANGED <<preparing, failing, binded, alive>>

(* END was sent. *)
Closed ==
    /\ closing > 0
    /\ closing' = closing - 1
    /\ GoesDown
    /\ UNCHANGED <<preparing, failing, alive>>

----------------------------------------------------------------------------
(* Timers. *)

LookupTimeout ==
    /\ session.lookupTimeout
    /\ GoesDown
    /\ UNCHANGED <<preparing, closing, failing, alive>>

ConnectTimeout ==
    /\ session.connectTimeout
    /\ GoesDown
    /\ UNCHANGED <<preparing, closing, failing, alive>>

Asks(requests) ==
    /\ asked' = asked \cup requests
    /\ EmitsNothing
    /\ UNCHANGED <<preparing, closing, failing, binded, alive>>

(* The timer in lookupRetryTimeout: the same lookup again. *)
LookupRetry ==
    /\ session.lookupRetryTimeout # "none"
    /\ Asks(IF session.lookupRetryTimeout = "local" THEN {"LOCAL_LOOKUP"}
            ELSE {"LOOKUP_WITH_KEY"})
    /\ UNCHANGED <<session, stranded>>

(* A timer whose handle was lost: it takes the place of the one that has   *)
(* it.                                                                     *)
OrphanFires(k) ==
    /\ session.orphans[k] > 0
    /\ LET fired == [session EXCEPT !.orphans[k] = @ - 1]
       IN  session' = IF k = "local" THEN LocalLookup(fired) ELSE CloudLookup(fired)
    /\ Asks(IF k = "local" THEN {"LOCAL_LOOKUP"} ELSE {"LOOKUP_WITH_KEY"})
    /\ UNCHANGED stranded

Lookup2Timeout ==
    /\ session.lookup2Timeout
    /\ session' = [session EXCEPT !.lookup2Timeout = FALSE, !.lookup2RetryTimeout = TRUE]
    /\ Asks({"LOOKUP_WITH_KEY2"})
    /\ UNCHANGED stranded

Lookup2Retry ==
    /\ session.lookup2RetryTimeout
    /\ Asks({"LOOKUP_WITH_KEY2"})
    /\ UNCHANGED <<session, stranded>>

(* Mutant: the heartbeat is not scheduled again. *)
NextHeartbeatNever(s) == [s EXCEPT !.heartbeatTimeouts = @ - 1]

(* scheduleHeartbeat() with sendPing(): the timer is set again, and one    *)
(* more heartbeat waits for its PONG.                                      *)
NextHeartbeat(s) ==
    IF ~s.connected THEN [s EXCEPT !.heartbeatTimeouts = @ - 1]
    ELSE [s EXCEPT !.missed = IF @ < MAX_RETRIES THEN @ + 1 ELSE @]

(* The sleep of at most 2.4 seconds is over before the next heartbeat. *)
Heartbeat ==
    /\ session.heartbeatTimeouts > 0
    /\ ~failing
    /\ failing' = (session.connected /\ session.missed = MAX_RETRIES)
    /\ session' = NextHeartbeat(session)
    /\ EmitsNothing
    /\ UNCHANGED <<preparing, closing, binded, alive, asked, stranded>>

(* sendPing() goes on after its sleep. *)
HeartbeatFailed ==
    /\ failing
    /\ failing' = FALSE
    /\ GoesDown
    /\ UNCHANGED <<preparing, closing, alive>>

----------------------------------------------------------------------------
(* Datagrams. *)

(* Mutant: the local lookup is not repeated after an answer.               *)
AnsweredForGood(s) == [s EXCEPT !.lookupTimeout = FALSE, !.lookupRetryTimeout = "none"]

(* The 20 s limit of the lookup goes, whoever answered, and the lookup is  *)
(* repeated all the same: the timer that repeats it is not the one that is *)
(* cleared.                                                                *)
Answered(s) == [s EXCEPT !.lookupTimeout = FALSE]

(* Only the wanted device's answer sets another limit.                     *)
LocalLookupResp(wanted) ==
    /\ ~session.connected
    /\ "LOCAL_LOOKUP" \in asked
    /\ IF wanted THEN alive ELSE "foreign" \in Faults
    /\ session' = IF wanted THEN CamCheck(session) ELSE Answered(session)
    /\ stranded' = IF wanted THEN "no"
                   ELSE IF session.lookupTimeout /\ ~session.connectTimeout
                        THEN "foreign" ELSE stranded
    /\ Asks(IF wanted THEN {"CHECK_CAM"} ELSE {})

LookupAddr ==
    /\ ~session.connected
    /\ "LOOKUP_WITH_KEY" \in asked
    /\ ConnectionType = "QUICKEST"
    /\ session' = CamCheck([session EXCEPT !.lookupRetryTimeout = "none"])
    /\ stranded' = "no"
    /\ Asks({"CHECK_CAM"})

LookupAddr2 ==
    /\ ~session.connected
    /\ "LOOKUP_WITH_KEY2" \in asked
    /\ session' = CamCheck([session EXCEPT !.lookupRetryTimeout = "none",
                                           !.lookup2RetryTimeout = FALSE])
    /\ stranded' = "no"
    /\ Asks({"CHECK_CAM"})

(* Mutant: every CAM_ID is an answer to this attempt (seven ports are      *)
(* asked).                                                                 *)
AcceptsEvery(s) == TRUE

AcceptsCamId(s) == ~s.connected

CamId ==
    /\ AcceptsCamId(session)
    /\ alive
    /\ "CHECK_CAM" \in asked
    /\ session' = [session EXCEPT
            !.connected = TRUE, !.lookupTimeout = FALSE, !.lookupRetryTimeout = "none",
            !.lookup2Timeout = FALSE, !.lookup2RetryTimeout = FALSE,
            !.connectTimeout = FALSE, !.heartbeatTimeouts = @ + 1, !.missed = 0]
    /\ stranded' = "no"
    /\ Emits("connect")
    /\ UNCHANGED <<preparing, closing, failing, binded, alive, asked>>

Pong ==
    /\ session.connected
    /\ alive
    /\ session' = [session EXCEPT !.missed = 0]
    /\ EmitsNothing
    /\ UNCHANGED <<preparing, closing, failing, binded, alive, asked, stranded>>

(* END from the station: a new socket takes the place of the old one, on   *)
(* which nothing is received any more.                                     *)
End ==
    /\ alive
    /\ session.connected \/ "late" \in Faults
    /\ session' = Disconnected(session)
    /\ binded' = FALSE
    /\ asked' = {}
    /\ stranded' = "no"
    /\ Emits(DisconnectEvent(session))
    /\ UNCHANGED <<preparing, closing, failing, alive>>

----------------------------------------------------------------------------
(* The station and its network fail and come back (external). *)
AliveChanges ==
    /\ alive' = ~alive
    /\ EmitsNothing
    /\ UNCHANGED <<session, preparing, closing, failing, binded, asked, stranded>>

(* A request is not answered (any more) until it is sent again (external). *)
DatagramLost ==
    /\ "lost" \in Faults
    /\ \E request \in asked : asked' = asked \ {request}
    /\ EmitsNothing
    /\ UNCHANGED <<session, preparing, closing, failing, binded, alive, stranded>>

SessionStep ==
    \/ Prepared \/ PreparedInVain \/ Closed \/ HeartbeatFailed
    \/ LookupTimeout \/ ConnectTimeout \/ LookupRetry \/ Lookup2Timeout \/ Lookup2Retry
    \/ \E k \in {"local", "cloud"} : OrphanFires(k)
    \/ Heartbeat
    \/ \E wanted \in BOOLEAN : LocalLookupResp(wanted)
    \/ LookupAddr \/ LookupAddr2 \/ CamId \/ Pong \/ End
    \/ AliveChanges \/ DatagramLost

Next == Connect \/ Close \/ SessionStep

Spec == Init /\ [][Next]_connectionVars

(* Timers fire and what is awaited comes.  Nothing is asked of the station *)
(* and the network.                                                        *)
SessionFairness ==
    /\ WF_connectionVars(Prepared \/ PreparedInVain)
    /\ WF_connectionVars(Closed)
    /\ WF_connectionVars(HeartbeatFailed)
    /\ WF_connectionVars(Heartbeat)
    /\ WF_connectionVars(LookupTimeout)
    /\ WF_connectionVars(ConnectTimeout)

FairSpec == Spec /\ SessionFairness

----------------------------------------------------------------------------
(* The timers that would ask the cloud are not armed. *)
NoCloudTimer(s) ==
    /\ s.lookupRetryTimeout # "cloud" /\ s.orphans["cloud"] = 0
    /\ ~s.lookup2Timeout /\ ~s.lookup2RetryTimeout

(* Types, and: a session set to ONLY_LOCAL never asks the cloud, nor has a *)
(* timer that would (lookup).                                              *)
TypeOK ==
    /\ session \in SessionType
    /\ preparing \in Nat
    /\ closing \in Nat
    /\ failing \in BOOLEAN
    /\ binded \in BOOLEAN
    /\ alive \in BOOLEAN
    /\ asked \subseteq Requests
    /\ event \in {"none", "connect", "close", "timeout"}
    /\ reported \in BOOLEAN
    /\ stranded \in {"no", "bind", "foreign"}
    /\ ConnectionType = "ONLY_LOCAL" =>
        asked \subseteq {"LOCAL_LOOKUP", "CHECK_CAM"} /\ NoCloudTimer(session)

(* The events say what happens: connect and close alternate, a timeout is  *)
(* only reported of an attempt, whatever goes on late and in whatever      *)
(* order (the CAM_ID handler and _disconnected).                           *)
EventsAlternate ==
    [][/\ event' = "connect" => ~reported
       /\ event' = "close" => reported
       /\ event' = "timeout" => ~reported]_connectionVars

(* No connection ends without its close event: what the application was    *)
(* told is what is (close() calls _initialize without an event only when   *)
(* there is no connection).                                                *)
ReportedIsReal == reported = session.connected

(* One heartbeat runs in a connection and none outside, except that        *)
(* close() stops it before the connection is over (scheduleHeartbeat,      *)
(* _clearHeartbeatTimeout).                                                *)
HeartbeatIffConnected ==
    /\ session.heartbeatTimeouts <= 1
    /\ session.heartbeatTimeouts = 1 => session.connected
    /\ session.connected /\ closing = 0 => session.heartbeatTimeouts = 1

(* A session that is neither connected nor connecting has nothing running: *)
(* no timer that would look the station up, or even connect to it, behind  *)
(* the back of the application (_disconnected, close).                     *)
IdleIsQuiet ==
    ~session.connected /\ ~session.connecting /\ preparing = 0 =>
        /\ ~session.lookupTimeout /\ session.lookupRetryTimeout = "none"
        /\ ~session.lookup2Timeout /\ ~session.lookup2RetryTimeout
        /\ ~session.connectTimeout
        /\ \A k \in {"local", "cloud"} : session.orphans[k] = 0

(* An attempt that is still to be prepared, or has a timer that ends it,   *)
(* or was stranded by one of the two things that strand an attempt: a bind *)
(* that fails, and the answer of a foreign device.                         *)
AttemptIsLimited ==
    session.connecting /\ ~session.connected =>
        preparing > 0 \/ Limited(session) \/ stranded # "no"

(* An attempt to connect comes to an end, although the timers that limit   *)
(* it are cleared and started by the answers (lookup, _connect,            *)
(* handleMsg).  The code has two exceptions: when the socket cannot be     *)
(* bound no timer is ever set (connect), and the answer of a foreign       *)
(* device clears the one there is (the LOCAL_LOOKUP_RESP handler).         *)
ConnectingEnds ==
    session.connecting /\ ~session.connected
        ~> session.connected \/ ~session.connecting \/ stranded # "no"

(* A station that does not answer any more is noticed (sendPing).          *)
LostStationIsNoticed ==
    session.connected /\ ~alive ~> ~session.connected \/ alive
=============================================================================
