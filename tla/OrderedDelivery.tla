-------------------------- MODULE OrderedDelivery --------------------------
(***************************************************************************)
(* What one data type of a P2P session promises to the code above it: the  *)
(* packets the station sent are handed to the message builder in the order *)
(* they were sent, each of them once.  Packets are numbered 0, 1, 2, ...   *)
(* in the order in which the station sends them.                           *)
(*                                                                         *)
(* The promise has one exception.  The station counts modulo Numbers, and  *)
(* in place of a packet with the last number the one that had this number  *)
(* before may be handed on a second time.                                  *)
(***************************************************************************)
EXTENDS Integers, Sequences

CONSTANT
    Numbers     \* how many sequence numbers there are

VARIABLES
    sent,       \* number of packets the station has sent
    delivered   \* the packets handed on, in the order they were handed on

HasLastNumber(n) == n % Numbers = Numbers - 1

Init ==
    /\ sent = 0
    /\ delivered = << >>

Send ==
    /\ sent' = sent + 1
    /\ UNCHANGED delivered

(* One arrival may close a gap, and the run of packets up to packet `last` *)
(* is handed on at once; `stale` are the places an older packet takes, the *)
(* place of the next packet to be sent among them.                         *)
Deliver ==
    \E last \in Len(delivered)..sent :
    \E stale \in SUBSET {n \in Len(delivered)..last : n >= Numbers /\ HasLastNumber(n)} :
        /\ last < sent \/ last \in stale
        /\ delivered' = delivered \o
               [i \in 1..(last - Len(delivered) + 1) |->
                  LET n == Len(delivered) + i - 1
                  IN  IF n \in stale THEN n - Numbers ELSE n]
        /\ UNCHANGED sent

Next == Send \/ Deliver

Spec == Init /\ [][Next]_<<sent, delivered>>
=============================================================================
