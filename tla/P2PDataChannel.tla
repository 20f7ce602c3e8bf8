--------------------------- MODULE P2PDataChannel ---------------------------
(***************************************************************************)
(* The receiving side of one data type (DATA or CONTROL) of a P2P session: *)
(* the branch of P2PClientProtocol.handleMsg for ResponseMessageType.DATA. *)
(*                                                                         *)
(* The station numbers the packets of a data type modulo                   *)
(* MAX_SEQUENCE_NUMBER + 1 and repeats a packet until it is acknowledged;  *)
(* UDP may lose, repeat and reorder packets and acknowledgements.  A       *)
(* packet is represented by its position n in the station's stream; its    *)
(* sequence number is SeqNo(n).                                            *)
(*                                                                         *)
(* Two assumptions on what is not in the repository bound the reordering:  *)
(* the station has at most Window packets between its oldest               *)
(* unacknowledged packet and its newest one, and a further copy of a       *)
(* packet is never more than SEQUENCE_PROCESSING_BOUNDARY packets late.    *)
(*                                                                         *)
(* _wasSequenceNumberAlreadyProcessed does not know the largest number     *)
(* across a wrap, so the second copy of a packet with that number is       *)
(* queued, and handed on a whole cycle later in place of the packet that   *)
(* has the number then, be that packet sent or not.  The properties state  *)
(* this exception.                                                         *)
(***************************************************************************)
EXTENDS Integers, Sequences

CONSTANTS
    MAX_SEQUENCE_NUMBER,            \* largest sequence number (65535)
    SEQUENCE_PROCESSING_BOUNDARY,   \* how far back "already processed" reaches
    MaxSent                         \* bound: packets the station sends

ASSUME SequenceAssumption ==
    /\ MAX_SEQUENCE_NUMBER \in Nat
    /\ SEQUENCE_PROCESSING_BOUNDARY \in 1..(MAX_SEQUENCE_NUMBER - 1)
    /\ MaxSent \in Nat

VARIABLES
    sent,                 \* station: number of packets sent
    arrived,              \* network: the packets of which a copy was received
    acked,                \* station: the packets whose acknowledgement arrived
    expectedSeqNo,        \* client: expectedSeqNo[dataType]
    queuedData,           \* client: queuedData of the data type, by sequence number
    waitForSeqNoTimeout,  \* client: is the gap timer armed?
    delivered             \* the packets given to parseDataMessage, in order

vars == <<sent, arrived, acked, expectedSeqNo, queuedData, waitForSeqNoTimeout, delivered>>

----------------------------------------------------------------------------
SeqNo(n) == n % (MAX_SEQUENCE_NUMBER + 1)

Window == MAX_SEQUENCE_NUMBER - SEQUENCE_PROCESSING_BOUNDARY

(* Mutant: the counter starts again at 1. *)
IncrementSkippingZero(s, k) ==
    IF s + k <= MAX_SEQUENCE_NUMBER THEN s + k ELSE s + k - MAX_SEQUENCE_NUMBER

(* _incrementSequence applied k times: 0 follows MAX_SEQUENCE_NUMBER.      *)
IncrementSequence(s, k) == (s + k) % (MAX_SEQUENCE_NUMBER + 1)

IsBetween(n, lowBoundary, highBoundary) == lowBoundary <= n /\ n < highBoundary

(* Mutant: the numbers before a wrap are forgotten. *)
ProcessedSinceReset(expected, received) ==
    IF expected - SEQUENCE_PROCESSING_BOUNDARY > 0
    THEN IsBetween(received, expected - SEQUENCE_PROCESSING_BOUNDARY, expected)
    ELSE IsBetween(received, 0, expected)

WasSequenceNumberAlreadyProcessed(expected, received) ==
    LET low == expected - SEQUENCE_PROCESSING_BOUNDARY
    IN  IF low > 0
        THEN IsBetween(received, low, expected)
        ELSE \/ IsBetween(received, 0, expected)
             \/ IsBetween(received, MAX_SEQUENCE_NUMBER + low, MAX_SEQUENCE_NUMBER)

(* The position of the next packet the client is waiting for. *)
next == Len(delivered)

----------------------------------------------------------------------------
TypeOK ==
    /\ sent \in Nat
    /\ arrived \subseteq Nat
    /\ acked \subseteq Nat
    /\ expectedSeqNo \in 0..MAX_SEQUENCE_NUMBER
    /\ DOMAIN queuedData \subseteq 0..MAX_SEQUENCE_NUMBER
    /\ queuedData \in [DOMAIN queuedData -> Nat]
    /\ waitForSeqNoTimeout \in BOOLEAN
    /\ delivered \in Seq(Nat)

Init ==
    /\ sent = 0
    /\ arrived = {}
    /\ acked = {}
    /\ expectedSeqNo = 0
    /\ queuedData = [s \in {} |-> 0]
    /\ waitForSeqNoTimeout = FALSE
    /\ delivered = << >>

----------------------------------------------------------------------------
(* The station and the network (external). *)

Send ==
    /\ sent < MaxSent
    /\ \A i \in 0..sent : i + Window <= sent => i \in acked
    /\ sent' = sent + 1
    /\ UNCHANGED <<arrived, acked, expectedSeqNo, queuedData, waitForSeqNoTimeout,
                   delivered>>

(* sendAck: every packet that arrives is acknowledged, a discarded one     *)
(* too, and one of those acknowledgements reaches the station.             *)
AckArrives(n) ==
    /\ n \in arrived \ acked
    /\ acked' = acked \cup {n}
    /\ UNCHANGED <<sent, arrived, expectedSeqNo, queuedData, waitForSeqNoTimeout, delivered>>

(* A first or a repeated copy of packet n reaches the client. *)
Arrives(n) ==
    /\ n < sent
    /\ n \in arrived => next <= n + SEQUENCE_PROCESSING_BOUNDARY
    /\ arrived' = arrived \cup {n}

----------------------------------------------------------------------------
(* The three branches of the DATA handler. *)

(* The queue holds the k packets that follow the expected one, not k + 1. *)
IsRun(k) ==
    /\ \A i \in 1..k : IncrementSequence(expectedSeqNo, i) \in DOMAIN queuedData
    /\ IncrementSequence(expectedSeqNo, k + 1) \notin DOMAIN queuedData

(* The expected packet: it is parsed, then the queue is worked off as long *)
(* as it holds the packet that is expected next.                           *)
ReceiveExpected(n) ==
    /\ Arrives(n)
    /\ SeqNo(n) = expectedSeqNo
    /\ waitForSeqNoTimeout' = FALSE
    /\ \E k \in 0..MAX_SEQUENCE_NUMBER :
        LET at(i)   == IncrementSequence(expectedSeqNo, i)
            run     == [i \in 1..(k + 1) |-> IF i = 1 THEN n ELSE queuedData[at(i - 1)]]
            drained == {at(i) : i \in 1..k}
        IN  /\ IsRun(k)
            /\ expectedSeqNo' = at(k + 1)
            /\ delivered' = delivered \o run
            /\ queuedData' = [s \in DOMAIN queuedData \ drained |-> queuedData[s]]
    /\ UNCHANGED <<sent, acked>>

ReceiveProcessed(n) ==
    /\ Arrives(n)
    /\ SeqNo(n) # expectedSeqNo
    /\ WasSequenceNumberAlreadyProcessed(expectedSeqNo, SeqNo(n))
    /\ UNCHANGED <<sent, acked, expectedSeqNo, queuedData, waitForSeqNoTimeout,
                   delivered>>

(* A packet from beyond a gap: the gap timer is armed unless it already    *)
(* runs, and the packet is queued unless its number is already queued.     *)
ReceiveUnexpected(n) ==
    /\ Arrives(n)
    /\ SeqNo(n) # expectedSeqNo
    /\ ~WasSequenceNumberAlreadyProcessed(expectedSeqNo, SeqNo(n))
    /\ waitForSeqNoTimeout' = TRUE
    /\ queuedData' = IF SeqNo(n) \in DOMAIN queuedData THEN queuedData
                     ELSE [s \in DOMAIN queuedData \cup {SeqNo(n)} |->
                             IF s = SeqNo(n) THEN n ELSE queuedData[s]]
    /\ UNCHANGED <<sent, acked, expectedSeqNo, delivered>>

(* MAX_EXPECTED_SEQNO_WAIT is over.  endStream() does nothing for a data   *)
(* type that never has p2pStreaming set.                                   *)
SeqNoTimeout ==
    /\ waitForSeqNoTimeout
    /\ waitForSeqNoTimeout' = FALSE
    /\ UNCHANGED <<sent, arrived, acked, expectedSeqNo, queuedData, delivered>>

Receive(n) == ReceiveExpected(n) \/ ReceiveProcessed(n) \/ ReceiveUnexpected(n)

Next ==
    \/ Send
    \/ \E n \in 0..(sent - 1) : AckArrives(n)
    \/ \E n \in 0..(sent - 1) : Receive(n)
    \/ SeqNoTimeout

Spec == Init /\ [][Next]_vars

(* The station repeats a packet until it is acknowledged, and the network  *)
(* does not lose every copy of a packet nor every acknowledgement of it.   *)
Fairness ==
    \A n \in 0..(MaxSent - 1) : WF_vars(Receive(n)) /\ WF_vars(AckArrives(n))

FairSpec == Spec /\ Fairness

----------------------------------------------------------------------------
(* Packet p is handed on where packet n belongs: p is n, or both have the  *)
(* largest number and p is a cycle of numbers older.                       *)
TakesPlaceOf(p, n) ==
    \/ p = n
    \/ SeqNo(n) = MAX_SEQUENCE_NUMBER /\ p + MAX_SEQUENCE_NUMBER + 1 = n

(* Packets are parsed in the order in which the station sent them, each    *)
(* once, however they are lost, repeated or reordered on the way and       *)
(* however often the sequence number wraps: the `seqNo === expectedSeqNo`  *)
(* branch with its queue (DATA branch of handleMsg).  The one exception    *)
(* is a packet with the largest number: if the packet that had the number  *)
(* before arrived twice, that one is parsed again in its place.            *)
DeliveredInOrder ==
    \A i \in 1..Len(delivered) : TakesPlaceOf(delivered[i], i - 1)

(* A repeated packet is recognised as processed and skipped: the queue     *)
(* never holds a packet that was already parsed, which would be parsed in  *)
(* place of another one after the sequence number has wrapped              *)
(* (_wasSequenceNumberAlreadyProcessed), but for the last one that had     *)
(* the largest number.                                                     *)
QueuedDataIsNew ==
    \A s \in DOMAIN queuedData :
        \/ queuedData[s] > next
        \/ s = MAX_SEQUENCE_NUMBER /\ queuedData[s] + MAX_SEQUENCE_NUMBER >= next

(* A packet that is still missing is never mistaken for a processed one.   *)
(* The window the station uses is as large as this allows.                 *)
MissingIsNotProcessed ==
    \A n \in next..(sent - 1) :
        ~WasSequenceNumberAlreadyProcessed(expectedSeqNo, SeqNo(n))

(* The session hands on packets as OrderedDelivery promises.               *)
Ordered == INSTANCE OrderedDelivery
                WITH Numbers <- MAX_SEQUENCE_NUMBER + 1,
                     sent <- sent, delivered <- delivered
ImplementsOrderedDelivery == Ordered!Spec

(* Every packet the station sends is handed on in the end, or, if it has   *)
(* the largest number, the stale packet in its place: no gap stays open    *)
(* for ever while the station repeats the missing packet.                  *)
EveryPacketIsDelivered ==
    \A n \in 0..(MaxSent - 1) :
        sent > n ~> next > n /\ TakesPlaceOf(delivered[n + 1], n)
=============================================================================
