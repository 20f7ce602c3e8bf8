-------------------------- MODULE StationConnection -------------------------
(***************************************************************************)
(* A station with its session: Station of http/station.ts reacts to the    *)
(* events of P2PConnection and connects again with a growing delay; the    *)
(* application calls it through stations.ts and eufySecurityApi.ts.  The   *)
(* session emits synchronously, so the reaction belongs to the step that   *)
(* emits.                                                                  *)
(***************************************************************************)
EXTENDS P2PConnection

VARIABLES
    terminating,       \* Station.terminating
    currentDelay,      \* Station.currentDelay, in seconds
    reconnectTimeout,  \* is the reconnect timer armed?
    shutdown,          \* was closeP2PConnections called, and what did it find?
    reconnecting,      \* where reconnectStation() is
    wanted             \* history: was the station ever to be connected?

stationVars ==
    <<terminating, currentDelay, reconnectTimeout, shutdown, reconnecting, wanted>>
vars == <<connectionVars, stationVars>>

StationInit ==
    /\ Init
    /\ terminating = FALSE
    /\ currentDelay = 0
    /\ reconnectTimeout = FALSE
    /\ shutdown = "no"
    /\ reconnecting = "no"
    /\ wanted = FALSE

----------------------------------------------------------------------------
(* getCurrentDelay(): 10 s more up to a minute, then a minute more up to   *)
(* ten minutes; the two steps of the code meet at 50 s.                    *)
NextDelay(d) ==
    LET grown == IF d < 60 THEN d + 10 ELSE d
    IN  IF grown >= 60 /\ grown < 600 THEN grown + 60 ELSE grown

(* scheduleReconnect() *)
ScheduleReconnect ==
    /\ reconnectTimeout' = TRUE
    /\ currentDelay' = IF reconnectTimeout THEN currentDelay ELSE NextDelay(currentDelay)
    /\ UNCHANGED terminating

(* Mutant: a timeout of the session is only reported. *)
OnTimeoutReport == UNCHANGED <<terminating, currentDelay, reconnectTimeout>>

OnTimeout == ScheduleReconnect

OnConnect ==
    /\ terminating' = FALSE
    /\ currentDelay' = 0
    /\ UNCHANGED reconnectTimeout

(* Mutant: an intended close is not told from a lost connection. *)
OnDisconnectAlways == ScheduleReconnect

OnDisconnect ==
    IF terminating THEN UNCHANGED <<terminating, currentDelay, reconnectTimeout>>
    ELSE ScheduleReconnect

(* The handlers of the session's events. *)
StationReacts ==
    CASE event' = "connect" -> OnConnect
      [] event' = "close"   -> OnDisconnect
      [] event' = "timeout" -> OnTimeout
      [] OTHER -> UNCHANGED <<terminating, currentDelay, reconnectTimeout>>

----------------------------------------------------------------------------
(* Calls of the session by the station. *)

SessionUnchanged ==
    UNCHANGED <<session, preparing, closing, failing, binded, alive, asked, event,
                reported, stranded>>

(* Station.connect(); connect() of the session has the same guard. *)
ConnectUnlessConnected ==
    IF MayConnect(session) THEN Connect ELSE SessionUnchanged

(* Station.close() *)
StationClose ==
    /\ terminating' = TRUE
    /\ reconnectTimeout' = FALSE
    /\ IF session.connected THEN Close ELSE SessionUnchanged
    /\ UNCHANGED currentDelay

Calm == shutdown = "no" /\ reconnecting = "no"

----------------------------------------------------------------------------
(* The application. *)

(* The first connection, a refresh of the cloud data (updateStation),      *)
(* connectStation(), or a command when there is no connection              *)
(* (sendQueuedMessage).                                                    *)
ConnectStation ==
    /\ Calm
    /\ Connect
    /\ wanted' = TRUE
    /\ UNCHANGED <<terminating, currentDelay, reconnectTimeout, shutdown, reconnecting>>

DisconnectStation ==
    /\ Calm
    /\ StationClose
    /\ UNCHANGED <<shutdown, reconnecting, wanted>>

(* closeP2PConnections(): stations that are not connected are passed over. *)
CloseP2PConnections ==
    /\ Calm
    /\ IF session.connected
       THEN /\ StationClose
            /\ shutdown' = "connected"
       ELSE /\ shutdown' = "notConnected"
            /\ SessionUnchanged
            /\ UNCHANGED <<terminating, currentDelay, reconnectTimeout>>
    /\ UNCHANGED <<reconnecting, wanted>>

(* reconnectStation() of eufySecurityApi.ts: whether the station is        *)
(* connected is read once, before the connection is closed.                *)
ReconnectStation ==
    /\ Calm
    /\ IF session.connected
       THEN /\ StationClose
            /\ reconnecting' = "closing"
       ELSE /\ reconnecting' = "sleeping"
            /\ SessionUnchanged
            /\ UNCHANGED <<terminating, currentDelay, reconnectTimeout>>
    /\ UNCHANGED <<shutdown, wanted>>

(* It was connected: once it is closed and a second has passed the call    *)
(* returns.                                                                *)
ReconnectClosed ==
    /\ reconnecting = "closing"
    /\ ~session.connected
    /\ reconnecting' = "done"
    /\ SessionUnchanged
    /\ UNCHANGED <<terminating, currentDelay, reconnectTimeout, shutdown, wanted>>

(* It was not connected: connectStation() after a second. *)
ReconnectSlept ==
    /\ reconnecting = "sleeping"
    /\ reconnecting' = "connecting"
    /\ wanted' = TRUE
    /\ ConnectUnlessConnected
    /\ UNCHANGED <<terminating, currentDelay, reconnectTimeout, shutdown>>

(* The station connected, or ten seconds are over. *)
ReconnectConnected ==
    /\ reconnecting = "connecting"
    /\ reconnecting' = "done"
    /\ SessionUnchanged
    /\ UNCHANGED <<terminating, currentDelay, reconnectTimeout, shutdown, wanted>>

ReconnectReturned ==
    /\ reconnecting = "done"
    /\ reconnecting' = "no"
    /\ SessionUnchanged
    /\ UNCHANGED <<terminating, currentDelay, reconnectTimeout, shutdown, wanted>>

----------------------------------------------------------------------------
ReconnectTimeout ==
    /\ reconnectTimeout
    /\ reconnectTimeout' = FALSE
    /\ ConnectUnlessConnected
    /\ UNCHANGED <<terminating, currentDelay, shutdown, reconnecting, wanted>>

SessionMoves ==
    /\ SessionStep
    /\ StationReacts
    /\ UNCHANGED <<shutdown, reconnecting, wanted>>

StationNext ==
    \/ ConnectStation \/ DisconnectStation \/ CloseP2PConnections
    \/ ReconnectStation \/ ReconnectClosed \/ ReconnectSlept
    \/ ReconnectConnected \/ ReconnectReturned
    \/ ReconnectTimeout
    \/ SessionMoves

StationSpec == StationInit /\ [][StationNext]_vars

(* Timers fire, awaited steps come or fail, and a station that can be      *)
(* reached answers one of the lookups and one of the handshakes it is      *)
(* asked for, however many datagrams are lost.                             *)
StationFairSpec ==
    /\ StationSpec
    /\ WF_vars(ReconnectTimeout)
    /\ WF_vars((Prepared \/ PreparedInVain) /\ SessionMoves)
    /\ WF_vars(Closed /\ SessionMoves)
    /\ WF_vars(HeartbeatFailed /\ SessionMoves)
    /\ WF_vars(LookupTimeout /\ SessionMoves)
    /\ WF_vars(ConnectTimeout /\ SessionMoves)
    /\ WF_vars(LookupRetry /\ SessionMoves)
    /\ WF_vars(ReconnectClosed)
    /\ WF_vars(ReconnectSlept)
    /\ WF_vars(ReconnectConnected)
    /\ WF_vars(ReconnectReturned)
    /\ SF_vars(LocalLookupResp(TRUE) /\ SessionMoves)
    /\ SF_vars(CamId /\ SessionMoves)

----------------------------------------------------------------------------
(* Types, and the delays the station waits: never more than ten minutes.   *)
StationTypeOK ==
    /\ TypeOK
    /\ terminating \in BOOLEAN
    /\ currentDelay \in {10 * i : i \in 0..5} \cup {60 * i : i \in 2..10}
    /\ reconnectTimeout \in BOOLEAN
    /\ shutdown \in {"no", "connected", "notConnected"}
    /\ reconnecting \in {"no", "closing", "sleeping", "connecting", "done"}
    /\ wanted \in BOOLEAN

(* A station that was not closed on purpose never drops out: it is         *)
(* connected, or an attempt that will end is under way, or the next one is *)
(* scheduled, whatever goes on late and in whatever order (onDisconnect,   *)
(* onTimeout and the two guards of connect).  The exceptions are those of  *)
(* ConnectingEnds: an attempt that a failed bind or a foreign device has   *)
(* stranded is under way with nothing to end it.                           *)
NeverGivesUp ==
    wanted /\ ~terminating =>
        \/ session.connected \/ reconnectTimeout
        \/ session.connecting /\ AttemptIsLimited

(* A station closed while it was connected stays closed: no timer and no   *)
(* event of the old connection opens another one (Station.close).          *)
ClosedStaysClosed == [][shutdown = "connected" => event' # "connect"]_vars

(* A station that can be reached and was not closed on purpose is          *)
(* connected again and again (scheduleReconnect), unless the bind of an    *)
(* attempt fails.  An attempt whose lookup timer a foreign device stopped  *)
(* gets there by the lookup that is repeated all the same (localLookup).   *)
ComesBack ==
    wanted ~> session.connected \/ terminating \/ ~alive \/ stranded = "bind"
=============================================================================
