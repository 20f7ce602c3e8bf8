------------------------------ MODULE MqttService ------------------------------
(***************************************************************************)
(* The MQTT service (mqtt/service.ts): one field for the client in use, a  *)
(* queue of the locks that wait for a connection, and the flags connected  *)
(* and connecting.  A handler is an operator on the service's state; the   *)
(* module ApiLifecycle calls them.                                         *)
(*                                                                         *)
(* External: the MQTT library, which connects, connects again when the     *)
(* connection was lost and subscribes again to what was subscribed, and    *)
(* keeps a subscription that is made while it has no connection.  The      *)
(* broker cuts the older of two connections with one client id.            *)
(***************************************************************************)
EXTENDS Integers, Sequences, FiniteSets

CONSTANT Locks   \* serial numbers of the locks

(* A client of the library: ended clients do not connect any more.         *)
MqttClient == [status : {"connecting", "up", "ended"}, topics : SUBSET Locks]

MqttType ==
    [connected : BOOLEAN,
     connecting : BOOLEAN,
     subscribeLocks : SUBSET Locks,
     clients : Seq(MqttClient)]     \* the last one is the field `client`

InitialMqtt ==
    [connected |-> FALSE, connecting |-> FALSE, subscribeLocks |-> {}, clients |-> << >>]

Latest(m) == Len(m.clients)

(* connect(), with the credentials it has from the login.                  *)
MqttConnect(m) ==
    IF m.connected \/ m.connecting \/ m.subscribeLocks = {} THEN m
    ELSE [m EXCEPT !.connecting = TRUE,
                   !.clients = Append(@, [status |-> "connecting", topics |-> {}])]

(* subscribeLock() for locks.                                              *)
SubscribeLocks(m, locks) ==
    IF m.connected THEN [m EXCEPT !.clients[Latest(m)].topics = @ \cup locks]
    ELSE MqttConnect([m EXCEPT !.subscribeLocks = @ \cup locks])

(* close() *)
MqttClose(m) ==
    IF ~m.connected THEN m
    ELSE [m EXCEPT !.connected = FALSE,
                   !.connecting = FALSE,
                   !.clients[Latest(m)].status = "ended"]

(* Mutant: the locks that wait are forgotten. *)
OnMqttConnectForgetful(m, k) ==
    [m EXCEPT !.connected = TRUE,
              !.connecting = FALSE,
              !.clients[k].status = "up",
              !.subscribeLocks = {}]

(* The handler of the library's "connect" event: the locks that wait are   *)
(* subscribed with the client in use, whichever client it is that is       *)
(* connected.                                                              *)
OnMqttConnect(m, k) ==
    [m EXCEPT !.connected = TRUE,
              !.connecting = FALSE,
              !.subscribeLocks = {},
              !.clients = [c \in DOMAIN m.clients |->
                [status |-> IF c = k THEN "up" ELSE m.clients[c].status,
                 topics |-> m.clients[c].topics
                              \cup (IF c = Latest(m) THEN m.subscribeLocks ELSE {})]]]

(* The handler of "close": the library tries to connect again.             *)
OnMqttClose(m, k) ==
    [m EXCEPT !.connected = FALSE, !.clients[k].status = "connecting"]

(* The handler of "error" for a connection that was refused.  final: with  *)
(* a code for which the client in use is ended.                            *)
OnMqttError(m, final) ==
    IF final THEN [m EXCEPT !.connecting = FALSE, !.clients[Latest(m)].status = "ended"]
    ELSE [m EXCEPT !.connecting = FALSE]

(* The locks of whose messages the service hears.                          *)
Heard(m) == UNION {m.clients[k].topics : k \in {c \in DOMAIN m.clients :
                                                    m.clients[c].status = "up"}}
================================================================================
