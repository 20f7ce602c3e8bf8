--------------------------- MODULE P2PCommandQueue --------------------------
(***************************************************************************)
(* Commands of a P2P session: the send queue, the table messageStates of   *)
(* commands in flight, acknowledgements, results, the timers of a command  *)
(* and the mapping from the station's DATA numbers to the client's         *)
(* sequence numbers (P2PClientProtocol of p2p/session.ts).                 *)
(*                                                                         *)
(* All handlers run on one event loop, so a handler is one step.  A        *)
(* command is its own message state object: timers hold the object, and an *)
(* object may outlive its entry in messageStates.                          *)
(*                                                                         *)
(* External: the network carries a command until it is executed            *)
(* (resendNotAcknowledgedCommand repeats it every 100 ms, the station      *)
(* ignores a number it has seen), and the station answers in the order in  *)
(* which it executed, one DATA packet for a command, one CONTROL packet    *)
(* for CMD_GATEWAYINFO, none for a ping.  Faults widens that.              *)
(***************************************************************************)
EXTENDS Integers, Sequences, Functions, SequencesExt

CONSTANTS
    Commands,     \* the commands the application sends
    Pings,        \* the CMD_PING messages the keepalive sends
    Types,        \* command types
    TypeOf,       \* the command type of every command
    MAX_RETRIES,  \* how often an unacknowledged command is sent again
    MAX_SEQUENCE_NUMBER,  \* the largest number of a message, 65535
    MaxSessions,  \* bound: connections to the station
    Faults        \* what may go wrong outside the client

FaultKinds ==
    { "ackTimeout",   \* an acknowledgement takes more than MAX_AKNOWLEDGE_TIMEOUT
      "silent",       \* the station executes a command and sends no result
      "slowKey",      \* the CMD_GATEWAYINFO exchange takes more than 5 seconds
      "lateKey",      \* getCipher returns after the connection was closed
      "failed",       \* the station answers ERROR_FAILED_TO_REQUEST
      "aged" }        \* a command waits more than MAX_COMMAND_QUEUE_TIMEOUT

Gateways == 1..MaxSessions      \* the CMD_GATEWAYINFO command of each session
Messages == Commands \cup Pings \cup Gateways

ASSUME CommandAssumption ==
    /\ Commands \cap Pings = {}
    /\ (Commands \cup Pings) \cap Gateways = {}
    /\ TypeOf \in [Commands -> Types]
    /\ MAX_RETRIES \in Nat
    /\ MAX_SEQUENCE_NUMBER \in Nat \ {0}
    /\ MaxSessions \in Nat
    /\ Faults \subseteq FaultKinds

VARIABLES
    connected,     \* is the session connected?
    sessions,      \* number of connections made so far
    submitted,     \* the commands and pings handed to sendCommand
    client,        \* the fields of the session a command goes through (ClientType)
    station,       \* what the station has executed and answered in this session
    delivered,     \* how many of the station's DATA results were handled
    cipherCalls    \* the sessions whose getCipher request has not returned

vars == <<connected, sessions, submitted, client, station, delivered, cipherCalls>>

----------------------------------------------------------------------------
(* The fields of the client. *)

Outcomes ==
    [kind : {"result"}, of : Commands]
        \cup [kind : {"commandTimeout", "connectTimeout"}]

(* A message state.  timeout is the timer the object holds: the one that   *)
(* waits for the acknowledgement, the one that waits for the result, none. *)
MessageState ==
    [sequence : Nat, retries : 0..MAX_RETRIES, acknowledged : BOOLEAN,
     failed : BOOLEAN, timeout : {"none", "acknowledge", "result"}]

NewMessageState(n) ==
    [sequence |-> n, retries |-> 0, acknowledged |-> FALSE,
     failed |-> FALSE, timeout |-> "none"]

EmptyFunction == [n \in {} |-> 0]

(* _initialize() *)
Initialized(cl) ==
    [cl EXCEPT !.messageStates = EmptyFunction, !.seqNumber = 0,
               !.p2pDataSeqNumber = 0, !.p2pSeqMapping = EmptyFunction,
               !.p2pKey = 0, !.wire = {}]

InitialStation ==
    [executed |-> << >>, handled |-> 0, results |-> << >>, keySent |-> FALSE]

Init ==
    /\ connected = FALSE
    /\ sessions = 0
    /\ submitted = {}
    /\ client = [sendQueue |-> << >>,
                 messageStates |-> EmptyFunction,
                 state |-> [m \in Messages |-> NewMessageState(0)],
                 seqNumber |-> 0,
                 p2pDataSeqNumber |-> 0,
                 p2pSeqMapping |-> EmptyFunction,
                 p2pKey |-> 0,        \* the session whose key is in use, 0: none
                 wire |-> {},         \* what was transmitted in this session
                 emitted |-> [m \in Messages |-> << >>]]
    /\ station = InitialStation
    /\ delivered = 0
    /\ cipherCalls = {}

----------------------------------------------------------------------------
(* The helpers of the session, as functions of its fields. *)

Put(f, n, v) == [x \in DOMAIN f \cup {n} |-> IF x = n THEN v ELSE f[x]]
Delete(f, n) == Restrict(f, DOMAIN f \ {n})
DeleteValue(f, v) == Restrict(f, {x \in DOMAIN f : f[x] # v})

IsInFlight(cl, n) == n \in DOMAIN cl.messageStates

Forget(cl, n) == [cl EXCEPT !.messageStates = Delete(@, n)]

(* Mutant: a clearTimeout is forgotten. *)
TimerKept(cl, m) == cl

StopTimer(cl, m) == [cl EXCEPT !.state[m].timeout = "none"]

(* _clearMessageStateTimeouts() *)
StopTimers(cl) ==
    LET inFlight == Range(cl.messageStates)
    IN  [cl EXCEPT !.state = [m \in Messages |->
            IF m \in inFlight THEN [cl.state[m] EXCEPT !.timeout = "none"]
            ELSE cl.state[m]]]

(* Mutant: the number is not taken back. *)
DataNumberKept(cl, n) == [cl EXCEPT !.p2pSeqMapping = DeleteValue(@, n)]

(* The station does not count CMD_GATEWAYINFO as DATA: when the exchange   *)
(* is over, its entries in the mapping go and its number is taken back.    *)
TakeBackDataNumber(cl, n) ==
    [cl EXCEPT !.p2pSeqMapping = DeleteValue(@, n),
               !.p2pDataSeqNumber = @ - 1]

(* _incrementSequence *)
IncrementSequence(n) == IF n < MAX_SEQUENCE_NUMBER THEN n + 1 ELSE 0

Emit(cl, m, outcome) == [cl EXCEPT !.emitted[m] = Append(@, outcome)]

(* What _sendCommand does with a message state: both timers are set, the   *)
(* message is entered in messageStates and (unless it is a ping) in the    *)
(* mapping, and it is sent if there is an address to send it to.           *)
Transmit(cl, isConnected, m) ==
    LET n == cl.state[m].sequence
    IN  [cl EXCEPT
            !.state[m].timeout = "acknowledge",
            !.messageStates = Put(@, n, m),
            !.p2pSeqMapping = IF m \in Pings THEN @ ELSE Put(@, cl.p2pDataSeqNumber, n),
            !.p2pDataSeqNumber = IF m \in Pings THEN @ ELSE IncrementSequence(@),
            !.wire = IF isConnected THEN @ \cup {[sequence |-> n, message |-> m]} ELSE @]

(* _sendCommand of a queued message. *)
SendFirst(cl, m) ==
    Transmit([cl EXCEPT !.state[m] = NewMessageState(cl.seqNumber),
                        !.seqNumber = IncrementSequence(@)], TRUE, m)

AgeOut(cl, m) ==
    IF m \in Pings THEN cl ELSE Emit(cl, m, [kind |-> "connectTimeout"])

(* A command waits while another one is not acknowledged, and as long as   *)
(* the key exchange is going on.  (A command of the same type that is not  *)
(* acknowledged is a special case of the first.)                           *)
IsBlocked(cl) ==
    \E n \in DOMAIN cl.messageStates :
        LET m == cl.messageStates[n]
        IN  ~cl.state[m].acknowledged \/ m \in Gateways

(* sendQueuedMessage(): at most one message leaves the queue.  tooOld says *)
(* whether it waited more than MAX_COMMAND_QUEUE_TIMEOUT.                  *)
SendQueuedMessage(cl, isConnected, tooOld) ==
    IF ~isConnected \/ cl.sendQueue = << >> \/ IsBlocked(cl) THEN cl
    ELSE LET m    == Head(cl.sendQueue)
             rest == [cl EXCEPT !.sendQueue = Tail(@)]
         IN  IF tooOld THEN AgeOut(rest, m) ELSE SendFirst(rest, m)

MayBeTooOld == IF "aged" \in Faults THEN BOOLEAN ELSE {FALSE}

Given(cl, m) ==
    Emit(Forget(cl, cl.state[m].sequence), m, [kind |-> "commandTimeout"])

(* Mutant: the queue is not worked off when a command is given up. *)
GiveUpSilently(cl, m, tooOld) == Given(cl, m)

(* The retries are used up. *)
GiveUp(cl, m, tooOld) == SendQueuedMessage(Given(cl, m), connected, tooOld)

(* An ERROR_FAILED_TO_REQUEST is followed by a new sequence number. *)
Renumber(cl, m) ==
    [Forget(cl, cl.state[m].sequence) EXCEPT
        !.state[m].sequence = cl.seqNumber,
        !.seqNumber = IncrementSequence(@)]

Retry(cl, m) ==
    Transmit([(IF cl.state[m].failed THEN Renumber(cl, m) ELSE cl)
                 EXCEPT !.state[m].retries = @ + 1], connected, m)

(* Mutant: one retry too many. *)
SendAgainOnceMore(cl, m, tooOld) ==
    IF cl.state[m].retries <= MAX_RETRIES THEN Retry(cl, m) ELSE GiveUp(cl, m, tooOld)

(* _sendCommand of a message state. *)
SendAgain(cl, m, tooOld) ==
    IF cl.state[m].retries < MAX_RETRIES THEN Retry(cl, m) ELSE GiveUp(cl, m, tooOld)

----------------------------------------------------------------------------
(* The application and the keepalive. *)

SendCommand(m, tooOld) ==
    /\ m \in (Commands \cup Pings) \ submitted
    /\ m \in Pings => connected
    /\ submitted' = submitted \cup {m}
    /\ client' = SendQueuedMessage([client EXCEPT !.sendQueue = Append(@, m)],
                                   connected, tooOld)
    /\ UNCHANGED <<connected, sessions, station, delivered, cipherCalls>>

----------------------------------------------------------------------------
(* The station (external). *)

StationExecutes(w) ==
    /\ connected
    /\ w \in client.wire \ ToSet(station.executed)
    /\ station' = [station EXCEPT !.executed = Append(@, w)]
    /\ UNCHANGED <<connected, sessions, submitted, client, delivered, cipherCalls>>

Answers(m) ==
    (IF "silent" \in Faults THEN {"none"} ELSE {}) \cup
    CASE m \in Commands -> {"ok"} \cup ({"failed"} \cap Faults)
      [] m \in Gateways -> {"key"}
      [] m \in Pings    -> {"none"}

(* The station deals with the next command it executed. *)
StationAnswers ==
    /\ connected
    /\ station.handled < Len(station.executed)
    /\ LET m == station.executed[station.handled + 1].message
       IN  \E code \in Answers(m) :
            station' = [station EXCEPT
                !.handled = @ + 1,
                !.keySent = @ \/ code = "key",
                !.results = IF code \in {"ok", "failed"}
                            THEN Append(@, [of |-> m, code |-> code]) ELSE @]
    /\ UNCHANGED <<connected, sessions, submitted, client, delivered, cipherCalls>>

----------------------------------------------------------------------------
(* Messages from the station. *)

(* Mutant: the timer for the result is not started. *)
AcknowledgedWithoutTimer(cl, m) ==
    [cl EXCEPT !.state[m].acknowledged = TRUE, !.state[m].timeout = "none"]

Acknowledged(cl, m) ==
    [cl EXCEPT !.state[m].acknowledged = TRUE, !.state[m].timeout = "result"]

(* ACK for a DATA message. *)
ReceiveAck(n, tooOld) ==
    /\ connected
    /\ IsInFlight(client, n)
    /\ \E w \in ToSet(station.executed) : w.sequence = n
    /\ LET m == client.messageStates[n]
       IN  /\ ~client.state[m].acknowledged
           /\ client' = SendQueuedMessage(
                IF m \in Pings
                THEN Forget(StopTimer(client, m), n)
                ELSE Acknowledged(client, m),
                TRUE, tooOld)
    /\ UNCHANGED <<connected, sessions, submitted, station, delivered, cipherCalls>>

(* handleData for a result: the station's DATA number, which wraps as the  *)
(* client's do, is translated with p2pSeqMapping, where the sequence       *)
(* number 0 counts as absent.                                              *)
ReceiveResult(tooOld) ==
    /\ connected
    /\ delivered < Len(station.results)
    /\ delivered' = delivered + 1
    /\ LET r      == station.results[delivered + 1]
           seqNo  == delivered % (MAX_SEQUENCE_NUMBER + 1)
           mapped == /\ seqNo \in DOMAIN client.p2pSeqMapping
                     /\ client.p2pSeqMapping[seqNo] # 0
           n      == IF mapped THEN client.p2pSeqMapping[seqNo] ELSE seqNo
           cl     == IF mapped
                     THEN [client EXCEPT !.p2pSeqMapping = Delete(@, seqNo)]
                     ELSE client
           m      == cl.messageStates[n]
           stopped == StopTimer(cl, m)
       IN  client' =
             IF ~IsInFlight(cl, n) THEN cl
             ELSE IF m \notin Commands \/ TypeOf[m] # TypeOf[r.of]
             THEN Forget(cl, n)
             ELSE IF r.code = "failed"
             THEN SendAgain([stopped EXCEPT !.state[m].failed = TRUE], m, tooOld)
             ELSE SendQueuedMessage(
                    Emit(Forget(stopped, n), m, [kind |-> "result", of |-> r.of]),
                    TRUE, tooOld)
    /\ UNCHANGED <<connected, sessions, submitted, station, cipherCalls>>

(* handleDataControl for CMD_GATEWAYINFO asks the cloud for the cipher ... *)
ReceiveKey ==
    /\ connected
    /\ station.keySent
    /\ station' = [station EXCEPT !.keySent = FALSE]
    /\ cipherCalls' = cipherCalls \cup {sessions}
    /\ UNCHANGED <<connected, sessions, submitted, client, delivered>>

(* ... and continues when the answer comes.  The key reply is the first    *)
(* CONTROL message of its session: its number, which is used as the        *)
(* number of the command, is 0.                                            *)
CipherReturns(g, tooOld) ==
    /\ g \in cipherCalls
    /\ cipherCalls' = cipherCalls \ {g}
    /\ LET stopped == IF IsInFlight(client, 0)
                      THEN StopTimer(client, client.messageStates[0])
                      ELSE client
       IN  client' = SendQueuedMessage(
                        [Forget(TakeBackDataNumber(stopped, 0), 0) EXCEPT !.p2pKey = g],
                        connected, tooOld)
    /\ UNCHANGED <<connected, sessions, submitted, station, delivered>>

----------------------------------------------------------------------------
(* Timers. *)

(* MAX_AKNOWLEDGE_TIMEOUT is over.  (The acknowledgement of a command that *)
(* is sent again under a new number is ignored, as the message state is    *)
(* already acknowledged.)                                                  *)
AcknowledgeTimeout(m, tooOld) ==
    /\ client.state[m].timeout = "acknowledge"
    /\ "ackTimeout" \in Faults \/ client.state[m].failed
    /\ client' = SendAgain([client EXCEPT !.state[m].timeout = "none"], m, tooOld)
    /\ UNCHANGED <<connected, sessions, submitted, station, delivered, cipherCalls>>

KeyIsOnItsWay(g) ==
    \/ ~\E i \in 1..station.handled : station.executed[i].message = g
    \/ station.keySent
    \/ g \in cipherCalls

(* MAX_COMMAND_RESULT_WAIT or MAX_GATEWAY_COMMAND_RESULT_WAIT is over. *)
ResultTimeout(m, tooOld) ==
    /\ client.state[m].timeout = "result"
    /\ m \in Gateways => "slowKey" \in Faults \/ ~KeyIsOnItsWay(m)
    /\ LET n       == client.state[m].sequence
           stopped == [client EXCEPT !.state[m].timeout = "none"]
           given   == IF m \in Gateways
                      THEN TakeBackDataNumber(stopped, n)
                      ELSE Emit(stopped, m, [kind |-> "commandTimeout"])
       IN  client' = SendQueuedMessage(Forget(given, n), connected, tooOld)
    /\ UNCHANGED <<connected, sessions, submitted, station, delivered, cipherCalls>>

----------------------------------------------------------------------------
(* The connection. *)

(* CAM_ID: the key exchange is sent ahead of what the queue holds. *)
Connect(tooOld) ==
    /\ ~connected
    /\ sessions < MaxSessions
    /\ connected' = TRUE
    /\ sessions' = sessions + 1
    /\ LET first == SendQueuedMessage([client EXCEPT !.sendQueue = <<sessions + 1>>],
                                      TRUE, FALSE)
       IN  client' = SendQueuedMessage(
                        [first EXCEPT !.sendQueue = @ \o client.sendQueue], TRUE, tooOld)
    /\ UNCHANGED <<submitted, station, delivered, cipherCalls>>

(* The commands of a queue, in their order.                                *)
WithoutPings(queue) ==
    LET kept[i \in 0..Len(queue)] ==
            IF i = 0 THEN << >>
            ELSE IF queue[i] \in Pings THEN kept[i - 1]
            ELSE Append(kept[i - 1], queue[i])
    IN  kept[Len(queue)]

(* _disconnected(): the timers of what is in flight are stopped, pings     *)
(* leave the queue, and the session starts afresh.                         *)
Disconnect ==
    /\ connected
    /\ cipherCalls = {} \/ "lateKey" \in Faults
    /\ connected' = FALSE
    /\ client' = Initialized([StopTimers(client) EXCEPT
                   !.sendQueue = WithoutPings(@)])
    /\ station' = InitialStation
    /\ delivered' = 0
    /\ UNCHANGED <<sessions, submitted, cipherCalls>>

----------------------------------------------------------------------------
Next ==
    \/ \E m \in Commands \cup Pings, tooOld \in MayBeTooOld : SendCommand(m, tooOld)
    \/ \E w \in client.wire : StationExecutes(w)
    \/ StationAnswers
    \/ \E n \in DOMAIN client.messageStates, tooOld \in MayBeTooOld : ReceiveAck(n, tooOld)
    \/ \E tooOld \in MayBeTooOld : ReceiveResult(tooOld)
    \/ ReceiveKey
    \/ \E g \in cipherCalls, tooOld \in MayBeTooOld : CipherReturns(g, tooOld)
    \/ \E m \in Messages, tooOld \in MayBeTooOld : AcknowledgeTimeout(m, tooOld)
    \/ \E m \in Messages, tooOld \in MayBeTooOld : ResultTimeout(m, tooOld)
    \/ \E tooOld \in MayBeTooOld : Connect(tooOld)
    \/ Disconnect

Spec == Init /\ [][Next]_vars

(* The timers fire, a getCipher request returns or fails, and a client     *)
(* with something to send is connected again (sendQueuedMessage calls      *)
(* connect()).  Nothing is asked of the station and the network.           *)
Fairness ==
    /\ \A m \in Messages :
        /\ WF_vars(\E tooOld \in MayBeTooOld : AcknowledgeTimeout(m, tooOld))
        /\ WF_vars(\E tooOld \in MayBeTooOld : ResultTimeout(m, tooOld))
    /\ \A g \in Gateways : WF_vars(\E tooOld \in MayBeTooOld : CipherReturns(g, tooOld))
    /\ WF_vars(\E tooOld \in MayBeTooOld : Connect(tooOld))

FairSpec == Spec /\ Fairness

----------------------------------------------------------------------------
TypeOK ==
    /\ connected \in BOOLEAN
    /\ sessions \in 0..MaxSessions
    /\ submitted \subseteq Commands \cup Pings
    /\ cipherCalls \subseteq Gateways
    /\ delivered \in Nat
    /\ client.sendQueue \in Seq(Messages)
    /\ client.state \in [Messages -> MessageState]
    /\ Range(client.messageStates) \subseteq Messages
    /\ client.seqNumber \in Nat
    /\ client.p2pDataSeqNumber \in Int
    /\ client.p2pKey \in 0..MaxSessions
    /\ client.emitted \in [Messages -> Seq(Outcomes)]

InFlight == Range(client.messageStates)

(* The application hears of a command at most once, whatever the station   *)
(* and the network do: by a result, by a timeout of the retries or of the  *)
(* result, or because the command waited too long (the emits of "command"  *)
(* in _sendCommand, the ACK handler and handleData).                       *)
AtMostOneOutcome == \A m \in Messages : Len(client.emitted[m]) <= 1

(* The result an event reports is the one the station gave for that very   *)
(* command (handleData with p2pSeqMapping).                                *)
ResultIsOwn ==
    \A c \in Commands : \A o \in ToSet(client.emitted[c]) : o.kind = "result" => o.of = c

(* No session has come to its last number.                                 *)
NumbersLast == client.seqNumber < MAX_SEQUENCE_NUMBER

(* Commands hear of their own results until the numbers of a session wrap. *)
(* From then on the code promises nothing: the command that gets number 0  *)
(* counts as not mapped, and the number of the result is taken for that of *)
(* a command (handleData, "if (goodSeqNumber)").                           *)
ResultsAreOwnUntilWrap == []NumbersLast => []ResultIsOwn

(* A queued command does not wait for ever, whatever the station does: it  *)
(* is sent or given up, unless no connection is made any more.             *)
QueueDrains ==
    \A c \in Commands :
        c \in ToSet(client.sendQueue) ~>
            \/ c \notin ToSet(client.sendQueue)
            \/ ~connected /\ sessions = MaxSessions

(* A command does not stay in flight for ever.                             *)
InFlightEnds == \A m \in Messages : m \in InFlight ~> m \notin InFlight
=============================================================================
