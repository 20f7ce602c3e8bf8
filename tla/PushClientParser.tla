--------------------------- MODULE PushClientParser --------------------------
(***************************************************************************)
(* The parser of the push connection (push/parser.ts).  The server sends a *)
(* version byte and then messages, each a tag byte, its size as a varint   *)
(* and its body; TCP cuts this stream anywhere.                            *)
(*                                                                         *)
(* handleData runs to completion, going from state to state until it has   *)
(* to wait for more data.  Each pass through waitForData is a step here;   *)
(* while a pass is due (isWaitingForData is FALSE) nothing else happens.   *)
(*                                                                         *)
(* An exception leaves the socket's data handler uncaught and ends the     *)
(* process (thrown).  A body is bytes of no meaning; a body that does not  *)
(* decode throws as an unknown tag does and is not modelled apart.         *)
(***************************************************************************)
EXTENDS Integers, Sequences, SequencesExt, FiniteSets

CONSTANTS
    MessageTags,    \* the tags buildProtobufFromTag knows
    ServerTags,     \* the tags the server uses
    Versions,       \* the versions servers announce
    Sizes,          \* body sizes
    BASE,           \* a size byte of BASE or more is followed by another (128)
    MaxMessages,    \* bound: messages sent in a connection
    MaxConnections  \* bound: connections

ASSUME ParserAssumption ==
    /\ BASE \in Nat \ {0, 1}
    /\ Sizes \subseteq 0..(BASE * BASE - 1)
    /\ MessageTags \cup ServerTags \subseteq Nat
    /\ Versions \subseteq Nat
    /\ MaxMessages \in Nat
    /\ MaxConnections \in Nat \ {0}

VARIABLES
    parser,       \* the fields of the parser, its messages, its exception
    sent,         \* environment: the messages the server sent
    inFlight,     \* environment: the bytes of them still on their way
    received,     \* history: the number of bytes that arrived
    version,      \* environment: the version the server announced
    connections   \* bound: the number of connections so far

parserVars == <<parser, sent, inFlight, received, version, connections>>

ProcessingState ==
    {"MCS_VERSION_TAG_AND_SIZE", "MCS_TAG_AND_SIZE", "MCS_SIZE", "MCS_PROTO_BYTES"}

Message == [tag : Nat, size : Nat]

----------------------------------------------------------------------------
(* The bytes of a message (external). *)
Varint(n) == IF n < BASE THEN <<n>> ELSE <<BASE + (n % BASE), n \div BASE>>

Encoded(m) == <<m.tag>> \o Varint(m.size) \o [i \in 1..m.size |-> 0]

----------------------------------------------------------------------------
(* The parser. *)

ResetState(p) ==
    [state |-> "MCS_VERSION_TAG_AND_SIZE", data |-> << >>,
     isWaitingForData |-> TRUE, sizePacketSoFar |-> 0, messageSize |-> 0,
     messageTag |-> 0, messages |-> << >>, thrown |-> FALSE]

Skip(d, n) == SubSeq(d, n + 1, Len(d))

(* The position of the last byte of the size at the head of d, 0 if it is  *)
(* not there yet (BufferReader.int32 throws "index out of range").         *)
SizeEnd(d) == SelectInSeq(d, LAMBDA byte : byte < BASE)

SizeValue(d) ==
    LET value[i \in 1..SizeEnd(d)] ==
            (d[i] % BASE) + (IF i = SizeEnd(d) THEN 0 ELSE BASE * value[i + 1])
    IN  value[1]

(* Mutant: more of a message is waited for than it may have. *)
MinBytesNeededTooMany(p) ==
    CASE p.state = "MCS_VERSION_TAG_AND_SIZE" -> 3
      [] p.state = "MCS_TAG_AND_SIZE"         -> 3
      [] p.state = "MCS_SIZE"                 -> p.sizePacketSoFar + 1
      [] p.state = "MCS_PROTO_BYTES"          -> p.messageSize

MinBytesNeeded(p) ==
    CASE p.state = "MCS_VERSION_TAG_AND_SIZE" -> 3
      [] p.state = "MCS_TAG_AND_SIZE"         -> 2
      [] p.state = "MCS_SIZE"                 -> p.sizePacketSoFar + 1
      [] p.state = "MCS_PROTO_BYTES"          -> p.messageSize

Throws(p) == [p EXCEPT !.thrown = TRUE]

(* Mutant: the size of the last message is kept. *)
NextMessageKeepingSize(p) == [p EXCEPT !.messageTag = 0, !.state = "MCS_TAG_AND_SIZE"]

NextMessage(p) ==
    [p EXCEPT !.messageTag = 0, !.messageSize = 0, !.state = "MCS_TAG_AND_SIZE"]

(* onGotMessageBytes(), with all of the body in data. *)
GotMessageBytes(p) ==
    IF p.messageTag \notin MessageTags THEN Throws(p)
    ELSE NextMessage([p EXCEPT
            !.messages = Append(@, [tag |-> p.messageTag, size |-> p.messageSize]),
            !.data = Skip(@, p.messageSize)])

(* Mutant: the bytes of an incomplete size are given up. *)
GotMessageSizeForgetting(p) ==
    LET sized == [p EXCEPT !.messageSize = SizeValue(p.data),
                           !.data = Skip(@, SizeEnd(p.data)),
                           !.sizePacketSoFar = 0]
    IN  IF SizeEnd(p.data) = 0
        THEN [p EXCEPT !.data = << >>, !.state = "MCS_SIZE"]
        ELSE IF sized.messageSize > 0
        THEN [sized EXCEPT !.state = "MCS_PROTO_BYTES"]
        ELSE GotMessageBytes(sized)

GotMessageSize(p) ==
    LET sized == [p EXCEPT !.messageSize = SizeValue(p.data),
                           !.data = Skip(@, SizeEnd(p.data)),
                           !.sizePacketSoFar = 0]
    IN  IF SizeEnd(p.data) = 0
        THEN [p EXCEPT !.sizePacketSoFar = Len(p.data), !.state = "MCS_SIZE"]
        ELSE IF sized.messageSize > 0
        THEN [sized EXCEPT !.state = "MCS_PROTO_BYTES"]
        ELSE GotMessageBytes(sized)

GotMessageTag(p) ==
    GotMessageSize([p EXCEPT !.messageTag = Head(p.data), !.data = Tail(@)])

GotVersion(p) ==
    LET rest == [p EXCEPT !.data = Tail(@)]
    IN  IF Head(p.data) < 41 /\ Head(p.data) # 38 THEN Throws(rest)
        ELSE GotMessageTag(rest)

----------------------------------------------------------------------------
ParserInit ==
    /\ version \in Versions
    /\ parser = ResetState([data |-> << >>])
    /\ sent = << >>
    /\ inFlight = <<version>>
    /\ received = 0
    /\ connections = 1

(* The server sends a message (external). *)
ServerSends(m) ==
    /\ parser.isWaitingForData
    /\ Len(sent) < MaxMessages
    /\ sent' = Append(sent, m)
    /\ inFlight' = inFlight \o Encoded(m)
    /\ UNCHANGED <<parser, received, version, connections>>

(* The next n bytes arrive in one chunk. *)
HandleData(n) ==
    /\ parser.isWaitingForData
    /\ parser' = [parser EXCEPT !.data = @ \o SubSeq(inFlight, 1, n),
                                !.isWaitingForData = FALSE]
    /\ inFlight' = Skip(inFlight, n)
    /\ received' = received + n
    /\ UNCHANGED <<sent, version, connections>>

Running == ~parser.isWaitingForData /\ ~parser.thrown

Enough == Len(parser.data) >= MinBytesNeeded(parser)

WaitForData ==
    /\ Running /\ ~Enough
    /\ parser' = [parser EXCEPT !.isWaitingForData = TRUE]
    /\ UNCHANGED <<sent, inFlight, received, version, connections>>

HandleFullMessage ==
    /\ Running /\ Enough
    /\ parser' = CASE parser.state = "MCS_VERSION_TAG_AND_SIZE" -> GotVersion(parser)
                   [] parser.state = "MCS_TAG_AND_SIZE"         -> GotMessageTag(parser)
                   [] parser.state = "MCS_SIZE"                 -> GotMessageSize(parser)
                   [] parser.state = "MCS_PROTO_BYTES"          -> GotMessageBytes(parser)
    /\ UNCHANGED <<sent, inFlight, received, version, connections>>

(* The client connects again: PushClient.connect resets the parser. *)
Reconnect ==
    /\ parser.isWaitingForData
    /\ connections < MaxConnections
    /\ connections' = connections + 1
    /\ version' \in Versions
    /\ parser' = ResetState(parser)
    /\ sent' = << >>
    /\ inFlight' = <<version'>>
    /\ received' = 0

ParserNext ==
    \/ \E tag \in ServerTags, size \in Sizes : ServerSends([tag |-> tag, size |-> size])
    \/ \E n \in 1..Len(inFlight) : HandleData(n)
    \/ WaitForData
    \/ HandleFullMessage
    \/ Reconnect

ParserSpec == ParserInit /\ [][ParserNext]_parserVars

(* handleData runs on its own. *)
FairParserSpec == ParserSpec /\ WF_parserVars(WaitForData) /\ WF_parserVars(HandleFullMessage)

----------------------------------------------------------------------------
ParserTypeOK ==
    /\ parser.state \in ProcessingState
    /\ parser.data \in Seq(Nat)
    /\ parser.isWaitingForData \in BOOLEAN
    /\ parser.messageTag \in Nat
    /\ parser.messages \in Seq(Message)
    /\ parser.thrown \in BOOLEAN
    /\ parser.sizePacketSoFar \in Nat
    /\ parser.messageSize \in Nat
    /\ parser.messageSize > 0 => parser.state = "MCS_PROTO_BYTES"
    /\ sent \in Seq(Message)
    /\ inFlight \in Seq(Nat)
    /\ received \in Nat
    /\ version \in Versions
    /\ connections \in 1..MaxConnections

(* Where the k-th of these messages ends in a stream; the version byte     *)
(* comes first.                                                            *)
End(messages, k) ==
    LET ends[i \in 0..Len(messages)] ==
            IF i = 0 THEN 1 ELSE ends[i - 1] + Len(Encoded(messages[i]))
    IN  ends[k]

(* How many messages have arrived to their last byte. *)
Arrived == Cardinality({k \in 1..Len(sent) : End(sent, k) <= received})

(* However the stream is cut, the client has been given exactly the        *)
(* messages that arrived completely: none is lost, invented, torn or held  *)
(* back until the next one comes (handleData and the states).              *)
EmitsWhatArrived ==
    parser.isWaitingForData => parser.messages = SubSeq(sent, 1, Arrived)

(* The parser only throws over a message or a version that is wrong, never *)
(* because of a cut, and has passed on all that came before                *)
(* (onGotVersion, buildProtobufFromTag).                                   *)
ThrowsOnlyOverBadData ==
    parser.thrown =>
        /\ IsPrefix(parser.messages, sent)
        /\ \/ version < 41 /\ version # 38 /\ parser.messages = << >>
           \/ LET next == Len(parser.messages) + 1
              IN  next <= Arrived /\ sent[next].tag \notin MessageTags
=============================================================================
