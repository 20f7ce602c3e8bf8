------------------------ MODULE P2PCommandQueueProofs -----------------------
(***************************************************************************)
(* Theorems about P2PCommandQueue: for any number of commands, pings and   *)
(* sessions, every command is reported at most once whatever the station   *)
(* and the network do, and, when they do what they should, every result    *)
(* that is reported is the one of its own command.                         *)
(***************************************************************************)
EXTENDS P2PCommandQueue, WellFoundedInduction, TLAPS

(***************************************************************************)
(* Queues.                                                                 *)
(***************************************************************************)
Elements(q) == {q[i] : i \in 1..Len(q)}

NoDuplicates(q) == \A i, j \in 1..Len(q) : q[i] = q[j] => i = j

LEMMA TailOfQueue ==
    ASSUME NEW S, NEW q \in Seq(S), q # << >>, NoDuplicates(q)
    PROVE  /\ Head(q) \in S /\ Head(q) \in Elements(q)
           /\ Tail(q) \in Seq(S) /\ NoDuplicates(Tail(q))
           /\ Elements(Tail(q)) = Elements(q) \ {Head(q)}
<1>1. /\ Len(q) \in Nat \ {0}
      /\ Len(Tail(q)) = Len(q) - 1
      /\ \A i \in 1..Len(Tail(q)) : Tail(q)[i] = q[i + 1]
      /\ Head(q) = q[1]
  OBVIOUS
<1>2. Tail(q) \in Seq(S) /\ Head(q) \in S
  OBVIOUS
<1>3. NoDuplicates(Tail(q))
  <2> SUFFICES ASSUME NEW i \in 1..Len(Tail(q)), NEW j \in 1..Len(Tail(q)),
                      Tail(q)[i] = Tail(q)[j]
               PROVE  i = j
    BY DEF NoDuplicates
  <2>1. i + 1 \in 1..Len(q) /\ j + 1 \in 1..Len(q) /\ q[i + 1] = q[j + 1]
    BY <1>1
  <2> QED
    BY <2>1 DEF NoDuplicates
<1>4. ASSUME NEW x \in Elements(Tail(q)) PROVE x \in Elements(q) /\ x # Head(q)
  <2>1. PICK i \in 1..Len(Tail(q)) : x = Tail(q)[i]
    BY DEF Elements
  <2>2. i + 1 \in 1..Len(q) /\ x = q[i + 1] /\ 1 \in 1..Len(q) /\ i + 1 # 1
    BY <1>1, <2>1
  <2> QED
    BY <1>1, <2>2 DEF Elements, NoDuplicates
<1>5. ASSUME NEW x \in Elements(q), x # Head(q) PROVE x \in Elements(Tail(q))
  <2>1. PICK i \in 1..Len(q) : x = q[i]
    BY DEF Elements
  <2>2. i - 1 \in 1..Len(Tail(q)) /\ Tail(q)[i - 1] = x
    <3>1. i # 1
      BY <1>1, <1>5, <2>1
    <3>2. i - 1 \in 1..Len(Tail(q)) /\ (i - 1) + 1 = i
      BY <1>1, <3>1
    <3> QED
      BY <1>1, <2>1, <3>2
  <2> QED
    BY <2>2 DEF Elements
<1>6. Head(q) \in Elements(q)
  BY <1>1 DEF Elements
<1>7. Elements(Tail(q)) = Elements(q) \ {Head(q)}
  BY <1>4, <1>5
<1> QED
  BY <1>2, <1>3, <1>6, <1>7

LEMMA AppendToQueue ==
    ASSUME NEW S, NEW q \in Seq(S), NEW x \in S, x \notin Elements(q), NoDuplicates(q)
    PROVE  /\ Append(q, x) \in Seq(S) /\ NoDuplicates(Append(q, x))
           /\ Elements(Append(q, x)) = Elements(q) \cup {x}
<1>1. /\ Len(q) \in Nat /\ Len(Append(q, x)) = Len(q) + 1
      /\ \A i \in 1..Len(q) : Append(q, x)[i] = q[i]
      /\ Append(q, x)[Len(q) + 1] = x
  OBVIOUS
<1>2. \A i \in 1..Len(q) + 1 : i \in 1..Len(q) \/ i = Len(q) + 1
  BY <1>1
<1>3. NoDuplicates(Append(q, x))
  <2> DEFINE a == Append(q, x)
  <2> SUFFICES ASSUME NEW i \in 1..Len(q) + 1, NEW j \in 1..Len(q) + 1, a[i] = a[j]
               PROVE  i = j
    BY <1>1 DEF NoDuplicates
  <2>1. \A k \in 1..Len(q) : a[k] # x
    BY <1>1 DEF Elements
  <2> QED
    BY <1>1, <1>2, <2>1 DEF NoDuplicates
<1>4. Elements(Append(q, x)) = Elements(q) \cup {x}
  BY <1>1, <1>2 DEF Elements
<1> QED
  BY <1>3, <1>4

LEMMA ElementsOfJoined ==
    ASSUME NEW S, NEW x \in S, NEW q \in Seq(S), x \notin Elements(q), NoDuplicates(q)
    PROVE  /\ <<x>> \o q \in Seq(S) /\ NoDuplicates(<<x>> \o q)
           /\ Elements(<<x>> \o q) = Elements(q) \cup {x}
<1> DEFINE a == <<x>> \o q
<1>1. /\ Len(q) \in Nat /\ Len(a) = Len(q) + 1 /\ a[1] = x
      /\ \A i \in 1..Len(q) + 1 : i # 1 => i - 1 \in 1..Len(q) /\ a[i] = q[i - 1]
      /\ \A i \in 1..Len(q) : i + 1 \in 1..Len(q) + 1 /\ a[i + 1] = q[i]
      /\ 1 \in 1..Len(q) + 1
  OBVIOUS
<1>2. a \in Seq(S)
  OBVIOUS
<1> HIDE DEF a
<1>3. NoDuplicates(a)
  <2> SUFFICES ASSUME NEW i \in 1..Len(q) + 1, NEW j \in 1..Len(q) + 1, a[i] = a[j]
               PROVE  i = j
    BY <1>1 DEF NoDuplicates
  <2>1. \A k \in 1..Len(q) : q[k] # x
    BY DEF Elements
  <2>2. CASE i = 1 \/ j = 1
    BY <1>1, <2>1, <2>2
  <2>3. CASE i # 1 /\ j # 1
    <3>1. i - 1 \in 1..Len(q) /\ j - 1 \in 1..Len(q) /\ q[i - 1] = q[j - 1]
      BY <1>1, <2>3
    <3>2. i - 1 = j - 1
      BY <3>1 DEF NoDuplicates
    <3> QED
      BY <1>1, <3>2
  <2> QED
    BY <2>2, <2>3
<1>4. Elements(a) = Elements(q) \cup {x}
  <2>1. ASSUME NEW y \in Elements(a) PROVE y \in Elements(q) \cup {x}
    <3>1. PICK i \in 1..Len(q) + 1 : y = a[i]
      BY <1>1 DEF Elements
    <3> QED
      BY <1>1, <3>1 DEF Elements
  <2>2. ASSUME NEW y \in Elements(q) PROVE y \in Elements(a)
    <3>1. PICK i \in 1..Len(q) : y = q[i]
      BY DEF Elements
    <3> QED
      BY <1>1, <3>1 DEF Elements
  <2>3. x \in Elements(a)
    BY <1>1 DEF Elements
  <2> QED
    BY <2>1, <2>2, <2>3
<1> QED
  BY <1>2, <1>3, <1>4 DEF a

(***************************************************************************)
(* WithoutPings is recursive: that its function exists, and what it        *)
(* computes, is shown by counting up to the length of the queue.           *)
(***************************************************************************)
(* The natural numbers are the least set with 0 and all successors.        *)
LEMMA CountingUp ==
    ASSUME NEW S, 0 \in S, \A n \in Nat : n \in S => n + 1 \in S
    PROVE  Nat \subseteq S
<1> SUFFICES ASSUME Nat \ S # {} PROVE FALSE
  OBVIOUS
<1>1. PICK x \in Nat \ S : \A y \in Nat \ S : <<y, x>> \notin OpToRel(<, Nat)
  BY NatLessThanWellFounded, WFMin
<1>2. x # 0
  OBVIOUS
<1>3. x - 1 \in Nat /\ x - 1 < x /\ (x - 1) + 1 = x
  BY <1>2
<1>4. <<x - 1, x>> \in OpToRel(<, Nat)
  BY <1>3 DEF OpToRel
<1>5. x - 1 \in S
  BY <1>1, <1>3, <1>4
<1> QED
  BY <1>3, <1>5

Longer(queue, kept, i) ==
    IF i = 0 THEN << >>
    ELSE IF queue[i] \in Pings THEN kept[i - 1]
    ELSE Append(kept[i - 1], queue[i])

LEMMA KeptExists ==
    ASSUME NEW q, NEW N \in Nat
    PROVE  \E kept : kept = [i \in 0..N |-> Longer(q, kept, i)]
<1> DEFINE Defined == {n \in Nat : \E kept : kept = [i \in 0..n |-> Longer(q, kept, i)]}
<1>1. 0 \in Defined
  <2>1. [i \in 0..0 |-> << >>] = [i \in 0..0 |-> Longer(q, [j \in 0..0 |-> << >>], i)]
    BY DEF Longer
  <2> QED
    BY <2>1
<1>2. ASSUME NEW n \in Nat, n \in Defined PROVE n + 1 \in Defined
  <2>1. PICK f : f = [i \in 0..n |-> Longer(q, f, i)]
    BY <1>2
  <2> DEFINE g == [i \in 0..(n + 1) |-> IF i = n + 1 THEN Longer(q, f, n + 1) ELSE f[i]]
  <2>2. ASSUME NEW i \in 0..(n + 1) PROVE g[i] = Longer(q, g, i)
    <3>1. CASE i = 0
      BY <2>1, <3>1 DEF Longer
    <3>2. CASE i # 0
      <4>1. i - 1 \in 0..n /\ i - 1 # n + 1
        BY <3>2
      <4>2. g[i - 1] = f[i - 1]
        BY <4>1
      <4>3. g[i] = Longer(q, f, i)
        <5>1. CASE i = n + 1
          BY <5>1
        <5>2. CASE i # n + 1
          <6>1. i \in 0..n
            BY <5>2
          <6> QED
            BY <2>1, <5>2, <6>1
        <5> QED
          BY <5>1, <5>2
      <4> HIDE DEF g
      <4> QED
        BY <4>2, <4>3 DEF Longer
    <3> QED
      BY <3>1, <3>2
  <2>3. g = [i \in 0..(n + 1) |-> Longer(q, g, i)]
    BY <2>2
  <2> HIDE DEF g
  <2>4. \E h : h = [i \in 0..(n + 1) |-> Longer(q, h, i)]
    BY <2>3
  <2> QED
    BY <2>4
<1> HIDE DEF Defined
<1>3. N \in Defined
  BY <1>1, <1>2, CountingUp
<1> QED
  BY <1>3 DEF Defined

LEMMA WithoutPingsIsKept ==
    ASSUME NEW q, Len(q) \in Nat
    PROVE  \E kept : /\ kept = [i \in 0..Len(q) |-> Longer(q, kept, i)]
                     /\ WithoutPings(q) = kept[Len(q)]
<1> DEFINE kept[i \in 0..Len(q)] ==
            IF i = 0 THEN << >>
            ELSE IF q[i] \in Pings THEN kept[i - 1]
            ELSE Append(kept[i - 1], q[i])
<1>1. WithoutPings(q) = kept[Len(q)]
  BY DEF WithoutPings
<1>2. kept = [i \in 0..Len(q) |-> Longer(q, kept, i)]
  BY KeptExists DEF Longer
<1> QED
  BY <1>1, <1>2

LEMMA WithoutPingsIsAQueue ==
    ASSUME NEW S, NEW q \in Seq(S), NoDuplicates(q)
    PROVE  /\ WithoutPings(q) \in Seq(S)
           /\ NoDuplicates(WithoutPings(q))
           /\ Elements(WithoutPings(q)) = Elements(q) \ Pings
<1>1. Len(q) \in Nat
  OBVIOUS
<1>2. PICK kept : /\ kept = [i \in 0..Len(q) |-> Longer(q, kept, i)]
                  /\ WithoutPings(q) = kept[Len(q)]
  BY <1>1, WithoutPingsIsKept
<1> DEFINE Upto(n) == {q[i] : i \in 1..n}
           Right(n) == /\ kept[n] \in Seq(S)
                       /\ NoDuplicates(kept[n])
                       /\ Elements(kept[n]) = Upto(n) \ Pings
           Fine == {n \in Nat : n <= Len(q) => Right(n)}
<1>3. Right(0)
  <2>1. kept[0] = << >>
    BY <1>1, <1>2 DEF Longer
  <2> QED
    BY <2>1 DEF NoDuplicates, Elements
<1>4. ASSUME NEW n \in Nat, n + 1 <= Len(q), Right(n) PROVE Right(n + 1)
  <2>1. n + 1 \in 0..Len(q) /\ n + 1 # 0 /\ (n + 1) - 1 = n /\ n + 1 \in 1..Len(q)
    BY <1>1, <1>4
  <2>2. kept[n + 1] = IF q[n + 1] \in Pings THEN kept[n] ELSE Append(kept[n], q[n + 1])
    BY <1>2, <2>1 DEF Longer
  <2>3. q[n + 1] \in S
    BY <2>1
  <2>4. Upto(n + 1) = Upto(n) \cup {q[n + 1]}
    <3>1. \A i \in 1..n + 1 : i \in 1..n \/ i = n + 1
      OBVIOUS
    <3>2. \A i \in 1..n : i \in 1..n + 1
      OBVIOUS
    <3>3. n + 1 \in 1..n + 1
      OBVIOUS
    <3> QED
      BY <3>1, <3>2, <3>3
  <2>5. q[n + 1] \notin Upto(n)
    <3>1. \A i \in 1..n : i \in 1..Len(q) /\ i # n + 1
      BY <1>1, <1>4
    <3> QED
      BY <2>1, <3>1 DEF NoDuplicates
  <2>6. CASE q[n + 1] \in Pings
    BY <1>4, <2>2, <2>4, <2>6
  <2>7. CASE q[n + 1] \notin Pings
    <3>1. q[n + 1] \notin Elements(kept[n])
      BY <1>4, <2>5
    <3>2. kept[n] \in Seq(S) /\ NoDuplicates(kept[n])
      BY <1>4
    <3>3. /\ Append(kept[n], q[n + 1]) \in Seq(S)
          /\ NoDuplicates(Append(kept[n], q[n + 1]))
          /\ Elements(Append(kept[n], q[n + 1])) = Elements(kept[n]) \cup {q[n + 1]}
      BY <2>3, <3>1, <3>2, AppendToQueue
    <3> QED
      BY <1>4, <2>2, <2>4, <2>7, <3>3
  <2> QED
    BY <2>6, <2>7
<1> HIDE DEF Right
<1>5. \A n \in Nat : n \in Fine => n + 1 \in Fine
  BY <1>1, <1>4
<1>6. 0 \in Fine
  BY <1>3
<1> HIDE DEF Fine
<1>7. Len(q) \in Fine
  BY <1>1, <1>5, <1>6, CountingUp
<1>8. Right(Len(q))
  BY <1>1, <1>7 DEF Fine
<1> QED
  BY <1>2, <1>8 DEF Right, Elements

(***************************************************************************)
(* The fields of the client.                                               *)
(***************************************************************************)
ClientFields ==
    {"sendQueue", "messageStates", "state", "seqNumber", "p2pDataSeqNumber",
     "p2pSeqMapping", "p2pKey", "wire", "emitted"}

Packets == [sequence : Nat, message : Messages]

Typed(cl) ==
    /\ DOMAIN cl = ClientFields
    /\ cl.sendQueue \in Seq(Messages)
    /\ cl.state \in [Messages -> MessageState]
    /\ \A n \in DOMAIN cl.messageStates : n \in Nat /\ cl.messageStates[n] \in Messages
    /\ cl.seqNumber \in Nat
    /\ cl.p2pDataSeqNumber \in Int
    /\ cl.p2pKey \in 0..MaxSessions
    /\ cl.wire \subseteq Packets
    /\ cl.emitted \in [Messages -> Seq(Outcomes)]

LEMMA NextNumber ==
    ASSUME NEW n \in Int
    PROVE  /\ IncrementSequence(n) \in Int
           /\ n \in Nat => IncrementSequence(n) \in Nat
           /\ n < MAX_SEQUENCE_NUMBER => IncrementSequence(n) = n + 1
  BY CommandAssumption DEF IncrementSequence

LEMMA NewMessageStateTyped ==
    ASSUME NEW n \in Nat
    PROVE  /\ NewMessageState(n) \in MessageState
           /\ NewMessageState(n).sequence = n /\ NewMessageState(n).timeout = "none"
<1>1. 0 \in 0..MAX_RETRIES
  BY CommandAssumption
<1> QED
  BY <1>1 DEF NewMessageState, MessageState

(***************************************************************************)
(* The inductive invariant behind AtMostOneOutcome.  A message state is in *)
(* one place at a time: waiting in the queue, or in flight under its own   *)
(* number or held by a timer, or reported.  Before its command was         *)
(* submitted (before its session, for CMD_GATEWAYINFO) it is in none.      *)
(***************************************************************************)
Queued(cl) == Elements(cl.sendQueue)

NotInFlight(cl, m) == \A n \in DOMAIN cl.messageStates : cl.messageStates[n] # m

IsIdle(cl, m) == cl.state[m].timeout = "none" /\ NotInFlight(cl, m)

UnderItsNumber(cl, m) ==
    \A n \in DOMAIN cl.messageStates :
        cl.messageStates[n] = m => n = cl.state[m].sequence

IsReady(cl, m) == m \notin Queued(cl) /\ cl.emitted[m] = << >>

OnePlace(cl, m) ==
    /\ UnderItsNumber(cl, m)
    /\ m \in Queued(cl) => IsIdle(cl, m) /\ cl.emitted[m] = << >>
    /\ cl.emitted[m] # << >> => IsIdle(cl, m) /\ Len(cl.emitted[m]) = 1

IsFresh(cl, m) == IsIdle(cl, m) /\ IsReady(cl, m)

Good(cl, known) ==
    /\ Typed(cl)
    /\ NoDuplicates(cl.sendQueue)
    /\ \A m \in Messages : OnePlace(cl, m)
    /\ \A m \in Messages \ known : IsFresh(cl, m)

(* A step that changes the state of one message, and numbers it anew only  *)
(* when it is not in flight.                                               *)
LEMMA OwnStateGood ==
    ASSUME NEW known, NEW cl, Good(cl, known), NEW m \in Messages, NEW new,
           DOMAIN new = ClientFields,
           \A x \in ClientFields \ {"state", "seqNumber"} : new[x] = cl[x],
           new.seqNumber \in Nat,
           new.state \in [Messages -> MessageState],
           \A k \in Messages \ {m} : new.state[k] = cl.state[k],
           new.state[m].sequence = cl.state[m].sequence \/ NotInFlight(cl, m),
           new.state[m].timeout = "none" \/ (m \in known /\ IsReady(cl, m))
    PROVE  /\ Good(new, known)
           /\ new.messageStates = cl.messageStates
           /\ IsReady(cl, m) => IsReady(new, m)
<1>1. /\ new.sendQueue = cl.sendQueue /\ new.emitted = cl.emitted
      /\ new.messageStates = cl.messageStates /\ new.p2pDataSeqNumber = cl.p2pDataSeqNumber
      /\ new.p2pKey = cl.p2pKey /\ new.wire = cl.wire
  BY DEF ClientFields
<1>2. Typed(new)
  BY <1>1 DEF Good, Typed
<1>3. \A k \in Messages : NotInFlight(cl, k) => NotInFlight(new, k)
  BY <1>1 DEF NotInFlight
<1>4. \A k \in Messages : IsReady(cl, k) => IsReady(new, k)
  BY <1>1 DEF IsReady, Queued
<1>5. \A k \in Messages \ {m} : IsIdle(cl, k) => IsIdle(new, k)
  BY <1>3 DEF IsIdle
<1>6. ASSUME NEW k \in Messages PROVE OnePlace(new, k)
  <2>1. OnePlace(cl, k)
    BY DEF Good
  <2>2. CASE k = m
    <3>1. UnderItsNumber(new, m)
      BY <1>1, <2>1, <2>2 DEF OnePlace, UnderItsNumber, NotInFlight
    <3>2. CASE IsReady(cl, m)
      BY <1>1, <2>2, <3>1, <3>2 DEF OnePlace, IsReady, Queued
    <3>3. CASE new.state[m].timeout = "none"
      <4>1. IsIdle(cl, m) => IsIdle(new, m)
        BY <1>3, <3>3 DEF IsIdle
      <4> QED
        BY <1>1, <2>1, <2>2, <3>1, <4>1 DEF OnePlace, Queued
    <3> QED
      BY <3>2, <3>3
  <2>3. CASE k # m
    BY <1>1, <1>5, <2>1, <2>3 DEF OnePlace, UnderItsNumber, Queued
  <2> QED
    BY <2>2, <2>3
<1>7. ASSUME NEW k \in Messages \ known PROVE IsFresh(new, k)
  <2>1. IsFresh(cl, k)
    BY DEF Good
  <2>2. CASE k = m
    BY <1>3, <1>4, <2>1, <2>2 DEF IsFresh, IsIdle
  <2>3. CASE k # m
    BY <1>4, <1>5, <2>1, <2>3 DEF IsFresh
  <2> QED
    BY <2>2, <2>3
<1> QED
  BY <1>1, <1>2, <1>4, <1>6, <1>7 DEF Good

LEMMA StopTimerGood ==
    ASSUME NEW known, NEW cl, Good(cl, known), NEW m \in Messages
    PROVE  /\ Good(StopTimer(cl, m), known)
           /\ StopTimer(cl, m).messageStates = cl.messageStates
           /\ StopTimer(cl, m).state[m].timeout = "none"
           /\ StopTimer(cl, m).state[m].sequence = cl.state[m].sequence
           /\ IsReady(cl, m) => IsReady(StopTimer(cl, m), m)
<1> DEFINE new == StopTimer(cl, m)
<1>1. /\ DOMAIN new = ClientFields
      /\ \A x \in ClientFields \ {"state"} : new[x] = cl[x]
      /\ new.state = [cl.state EXCEPT ![m].timeout = "none"]
  BY DEF Good, Typed, StopTimer, ClientFields
<1>2. cl.state \in [Messages -> MessageState] /\ cl.seqNumber \in Nat
  BY DEF Good, Typed
<1> HIDE DEF new
<1>3. /\ new.state \in [Messages -> MessageState]
      /\ new.state[m].timeout = "none"
      /\ new.state[m].sequence = cl.state[m].sequence
      /\ \A k \in Messages \ {m} : new.state[k] = cl.state[k]
  BY <1>1, <1>2 DEF MessageState
<1>4. \A x \in ClientFields \ {"state", "seqNumber"} : new[x] = cl[x]
  BY <1>1
<1>5. new.seqNumber \in Nat
  BY <1>1, <1>2 DEF ClientFields
<1>6. /\ Good(new, known)
      /\ new.messageStates = cl.messageStates
      /\ IsReady(cl, m) => IsReady(new, m)
  BY <1>1, <1>3, <1>4, <1>5, OwnStateGood
<1> QED
  BY <1>3, <1>6 DEF new

LEMMA ForgetGood ==
    ASSUME NEW known, NEW cl, Good(cl, known), NEW n
    PROVE  /\ Good(Forget(cl, n), known)
           /\ Forget(cl, n).state = cl.state
           /\ \A m \in Messages : IsReady(cl, m) => IsReady(Forget(cl, n), m)
           /\ \A m \in Messages : n = cl.state[m].sequence => NotInFlight(Forget(cl, n), m)
<1> DEFINE new == Forget(cl, n)
<1>1. /\ DOMAIN new = ClientFields
      /\ new.messageStates = Delete(cl.messageStates, n)
      /\ \A x \in ClientFields \ {"messageStates"} : new[x] = cl[x]
  BY DEF Good, Typed, Forget, ClientFields
<1>2. /\ DOMAIN new.messageStates = DOMAIN cl.messageStates \ {n}
      /\ \A k \in DOMAIN cl.messageStates \ {n} : new.messageStates[k] = cl.messageStates[k]
  BY <1>1 DEF Delete, Restrict
<1>3. /\ new.sendQueue = cl.sendQueue /\ new.state = cl.state
      /\ new.seqNumber = cl.seqNumber /\ new.p2pDataSeqNumber = cl.p2pDataSeqNumber
      /\ new.p2pKey = cl.p2pKey /\ new.wire = cl.wire /\ new.emitted = cl.emitted
  BY <1>1 DEF ClientFields
<1> HIDE DEF new
<1>4. Typed(new)
  BY <1>1, <1>2, <1>3 DEF Good, Typed
<1>5. Good(new, known)
  BY <1>2, <1>3, <1>4
  DEF Good, OnePlace, UnderItsNumber, IsFresh, IsIdle, IsReady, NotInFlight, Queued
<1>6. \A m \in Messages : n = cl.state[m].sequence => NotInFlight(new, m)
  BY <1>2 DEF Good, OnePlace, UnderItsNumber, NotInFlight
<1> QED
  <2>1. \A m \in Messages : IsReady(cl, m) => IsReady(new, m)
    BY <1>3 DEF IsReady, Queued
  <2> QED
    BY <1>3, <1>5, <1>6, <2>1 DEF new

LEMMA EmitGood ==
    ASSUME NEW known, NEW cl, Good(cl, known), NEW m \in Messages \cap known,
           IsReady(cl, m), IsIdle(cl, m), NEW o \in Outcomes
    PROVE  Good(Emit(cl, m, o), known)
<1> DEFINE new == Emit(cl, m, o)
<1>1. Append(<< >>, o) \in Seq(Outcomes) /\ Len(Append(<< >>, o)) = 1
  OBVIOUS
<1>2. /\ DOMAIN new = ClientFields
      /\ \A x \in ClientFields \ {"emitted"} : new[x] = cl[x]
      /\ new.emitted = [cl.emitted EXCEPT ![m] = Append(<< >>, o)]
  BY DEF Good, Typed, Emit, ClientFields, IsReady
<1>3. /\ new.sendQueue = cl.sendQueue /\ new.state = cl.state
      /\ new.messageStates = cl.messageStates
      /\ new.seqNumber = cl.seqNumber /\ new.p2pDataSeqNumber = cl.p2pDataSeqNumber
      /\ new.p2pKey = cl.p2pKey /\ new.wire = cl.wire
  BY <1>2 DEF ClientFields
<1>4. /\ new.emitted \in [Messages -> Seq(Outcomes)]
      /\ Len(new.emitted[m]) = 1
      /\ \A k \in Messages \ {m} : new.emitted[k] = cl.emitted[k]
  BY <1>1, <1>2 DEF Good, Typed
<1> HIDE DEF new
<1>5. Typed(new)
  BY <1>2, <1>3, <1>4 DEF Good, Typed
<1>6. ASSUME NEW k \in Messages PROVE OnePlace(new, k)
  <2>1. CASE k = m
    BY <1>3, <1>4, <2>1
    DEF Good, OnePlace, UnderItsNumber, IsIdle, IsReady, NotInFlight, Queued
  <2>2. CASE k # m
    BY <1>3, <1>4, <2>2 DEF Good, OnePlace, UnderItsNumber, IsIdle, NotInFlight, Queued
  <2> QED
    BY <2>1, <2>2
<1>7. ASSUME NEW k \in Messages \ known PROVE IsFresh(new, k)
  BY <1>3, <1>4 DEF Good, IsFresh, IsIdle, IsReady, NotInFlight, Queued
<1> QED
  BY <1>3, <1>5, <1>6, <1>7 DEF Good, new

LEMMA TransmitGood ==
    ASSUME NEW known, NEW cl, Good(cl, known), NEW m \in Messages \cap known,
           IsReady(cl, m), NEW b
    PROVE  Good(Transmit(cl, b, m), known)
<1> DEFINE new == Transmit(cl, b, m)
           n == cl.state[m].sequence
<1>1. /\ DOMAIN new = ClientFields
      /\ new.sendQueue = cl.sendQueue /\ new.emitted = cl.emitted
      /\ new.messageStates = Put(cl.messageStates, n, m)
      /\ new.seqNumber = cl.seqNumber
      /\ new.p2pDataSeqNumber \in {cl.p2pDataSeqNumber, IncrementSequence(cl.p2pDataSeqNumber)}
      /\ new.p2pKey = cl.p2pKey
      /\ new.wire \subseteq cl.wire \cup {[sequence |-> n, message |-> m]}
      /\ new.state = [cl.state EXCEPT ![m].timeout = "acknowledge"]
  BY DEF Good, Typed, ClientFields, Transmit
<1>2. n \in Nat
  BY DEF Good, Typed, MessageState
<1>3. /\ new.state \in [Messages -> MessageState]
      /\ \A k \in Messages : new.state[k].sequence = cl.state[k].sequence
      /\ \A k \in Messages \ {m} : new.state[k] = cl.state[k]
  <2>1. cl.state \in [Messages -> MessageState]
    BY DEF Good, Typed
  <2> HIDE DEF new
  <2> QED
    BY <1>1, <2>1 DEF MessageState
<1> HIDE DEF new, n
<1>4. /\ DOMAIN new.messageStates = DOMAIN cl.messageStates \cup {n}
      /\ new.messageStates[n] = m
      /\ \A k \in DOMAIN cl.messageStates \ {n} : new.messageStates[k] = cl.messageStates[k]
  BY <1>1 DEF Put
<1>5. new.wire \subseteq Packets
  BY <1>1, <1>2 DEF Good, Typed, Packets
<1>6. Typed(new)
  <2>1. cl.p2pDataSeqNumber \in Int
    BY DEF Good, Typed
  <2>2. new.p2pDataSeqNumber \in Int
    BY <1>1, <2>1, NextNumber
  <2> QED
    BY <1>1, <1>2, <1>3, <1>4, <1>5, <2>2 DEF Good, Typed
<1>7. ASSUME NEW k \in Messages PROVE OnePlace(new, k)
  <2>1. OnePlace(cl, k)
    BY DEF Good
  <2>2. CASE k = m
    BY <1>1, <1>3, <1>4, <2>1, <2>2 DEF OnePlace, UnderItsNumber, IsReady, Queued, n
  <2>3. CASE k # m
    BY <1>1, <1>3, <1>4, <2>1, <2>3 DEF OnePlace, UnderItsNumber, IsIdle, NotInFlight, Queued
  <2> QED
    BY <2>2, <2>3
<1>8. ASSUME NEW k \in Messages \ known PROVE IsFresh(new, k)
  BY <1>1, <1>3, <1>4 DEF Good, IsFresh, IsIdle, IsReady, NotInFlight, Queued
<1> QED
  BY <1>1, <1>6, <1>7, <1>8 DEF Good, new

LEMMA SendFirstGood ==
    ASSUME NEW known, NEW cl, Good(cl, known), NEW m \in Messages \cap known,
           IsReady(cl, m), NotInFlight(cl, m)
    PROVE  Good(SendFirst(cl, m), known)
<1> DEFINE new == [cl EXCEPT !.state[m] = NewMessageState(cl.seqNumber),
                           !.seqNumber = IncrementSequence(@)]
<1>1. cl.state \in [Messages -> MessageState] /\ cl.seqNumber \in Nat
  BY DEF Good, Typed
<1>2. NewMessageState(cl.seqNumber) \in MessageState
  BY <1>1, NewMessageStateTyped
<1>3. /\ DOMAIN new = ClientFields
      /\ \A x \in ClientFields \ {"state", "seqNumber"} : new[x] = cl[x]
      /\ new.seqNumber = IncrementSequence(cl.seqNumber)
      /\ new.state = [cl.state EXCEPT ![m] = NewMessageState(cl.seqNumber)]
  BY DEF Good, Typed, ClientFields
<1>4. SendFirst(cl, m) = Transmit(new, TRUE, m)
  BY DEF SendFirst
<1> HIDE DEF new
<1>5. /\ new.state \in [Messages -> MessageState]
      /\ \A k \in Messages \ {m} : new.state[k] = cl.state[k]
  BY <1>1, <1>2, <1>3
<1>6. new.seqNumber \in Nat
  BY <1>1, <1>3, NextNumber
<1>7. Good(new, known) /\ IsReady(new, m)
  BY <1>3, <1>5, <1>6, OwnStateGood
<1> QED
  BY <1>4, <1>7, TransmitGood

(* The queue is worked off: its first message is idle and was never        *)
(* reported, so it may be sent or reported.                                *)
LEMMA SendQueuedMessageGood ==
    ASSUME NEW known, NEW cl, Good(cl, known), NEW b, NEW tooOld
    PROVE  Good(SendQueuedMessage(cl, b, tooOld), known)
<1>1. CASE ~b \/ cl.sendQueue = << >> \/ IsBlocked(cl)
  BY <1>1 DEF SendQueuedMessage
<1>2. CASE ~(~b \/ cl.sendQueue = << >> \/ IsBlocked(cl))
  <2> DEFINE m == Head(cl.sendQueue)
             rest == [cl EXCEPT !.sendQueue = Tail(@)]
  <2>1. SendQueuedMessage(cl, b, tooOld) =
            IF tooOld THEN AgeOut(rest, m) ELSE SendFirst(rest, m)
    BY <1>2 DEF SendQueuedMessage
  <2>2. cl.sendQueue \in Seq(Messages) /\ cl.sendQueue # << >> /\ NoDuplicates(cl.sendQueue)
    BY <1>2 DEF Good, Typed
  <2>3. /\ m \in Messages /\ m \in Queued(cl)
        /\ Tail(cl.sendQueue) \in Seq(Messages)
        /\ NoDuplicates(Tail(cl.sendQueue))
        /\ Elements(Tail(cl.sendQueue)) = Queued(cl) \ {m}
    BY <2>2, TailOfQueue DEF Queued
  <2>4. /\ DOMAIN rest = ClientFields
        /\ rest.sendQueue = Tail(cl.sendQueue)
        /\ rest.messageStates = cl.messageStates /\ rest.state = cl.state
        /\ rest.seqNumber = cl.seqNumber /\ rest.p2pDataSeqNumber = cl.p2pDataSeqNumber
        /\ rest.p2pKey = cl.p2pKey /\ rest.wire = cl.wire /\ rest.emitted = cl.emitted
    BY DEF Good, Typed, ClientFields
  <2> HIDE DEF rest, m
  <2>5. Queued(rest) = Queued(cl) \ {m}
    BY <2>3, <2>4 DEF Queued
  <2>6. Typed(rest)
    BY <2>3, <2>4 DEF Good, Typed
  <2>7. Good(rest, known)
    BY <2>3, <2>4, <2>5, <2>6
    DEF Good, OnePlace, UnderItsNumber, IsFresh, IsReady, IsIdle, NotInFlight
  <2>8. m \in known /\ IsReady(rest, m) /\ IsIdle(rest, m)
    BY <2>3, <2>4, <2>5
    DEF Good, OnePlace, IsFresh, IsReady, IsIdle, NotInFlight
  <2>9. Good(SendFirst(rest, m), known)
    BY <2>3, <2>7, <2>8, SendFirstGood DEF IsIdle
  <2>10. Good(AgeOut(rest, m), known)
    <3>1. [kind |-> "connectTimeout"] \in Outcomes
      BY DEF Outcomes
    <3> QED
      BY <2>3, <2>7, <2>8, <3>1, EmitGood DEF AgeOut
  <2> QED
    BY <2>1, <2>9, <2>10
<1> QED
  BY <1>1, <1>2

(* A message is reported as timed out.                                     *)
LEMMA GivenGood ==
    ASSUME NEW known, NEW cl, Good(cl, known), NEW m \in Messages \cap known,
           IsReady(cl, m), cl.state[m].timeout = "none"
    PROVE  Good(Given(cl, m), known)
<1> DEFINE new == Forget(cl, cl.state[m].sequence)
<1>1. Good(new, known) /\ IsReady(new, m) /\ NotInFlight(new, m) /\ new.state = cl.state
  BY ForgetGood
<1>2. IsIdle(new, m)
  BY <1>1 DEF IsIdle
<1>3. [kind |-> "commandTimeout"] \in Outcomes
  BY DEF Outcomes
<1> HIDE DEF new
<1>4. Good(Emit(new, m, [kind |-> "commandTimeout"]), known)
  BY <1>1, <1>2, <1>3, EmitGood
<1> QED
  BY <1>4 DEF new, Given

LEMMA RenumberGood ==
    ASSUME NEW known, NEW cl, Good(cl, known), NEW m \in Messages, IsReady(cl, m),
           cl.state[m].timeout = "none"
    PROVE  /\ Good(Renumber(cl, m), known) /\ IsReady(Renumber(cl, m), m)
           /\ Renumber(cl, m).state[m].timeout = "none"
           /\ Renumber(cl, m).state[m].retries = cl.state[m].retries
<1> DEFINE less == Forget(cl, cl.state[m].sequence)
           new == Renumber(cl, m)
<1>1. /\ Good(less, known) /\ IsReady(less, m) /\ NotInFlight(less, m)
      /\ less.state = cl.state
  BY ForgetGood
<1>2. new = [less EXCEPT !.state[m].sequence = cl.seqNumber,
                         !.seqNumber = IncrementSequence(@)]
  BY DEF Renumber
<1>3. cl.seqNumber \in Nat /\ cl.state \in [Messages -> MessageState]
  BY DEF Good, Typed
<1> HIDE DEF less, new
<1>4. /\ DOMAIN new = ClientFields
      /\ \A x \in ClientFields \ {"state", "seqNumber"} : new[x] = less[x]
      /\ new.seqNumber = IncrementSequence(less.seqNumber)
      /\ new.state = [less.state EXCEPT ![m].sequence = cl.seqNumber]
  BY <1>1, <1>2 DEF Good, Typed, ClientFields
<1>5. /\ new.state \in [Messages -> MessageState]
      /\ new.state[m].timeout = "none"
      /\ new.state[m].retries = cl.state[m].retries
      /\ \A k \in Messages \ {m} : new.state[k] = less.state[k]
  BY <1>1, <1>3, <1>4 DEF MessageState
<1>6. new.seqNumber \in Nat
  BY <1>1, <1>4, NextNumber DEF Good, Typed
<1>7. Good(new, known) /\ IsReady(new, m)
  BY <1>1, <1>4, <1>5, <1>6, OwnStateGood
<1> QED
  BY <1>5, <1>7 DEF new

LEMMA RetryGood ==
    ASSUME NEW known, NEW cl, Good(cl, known), NEW m \in Messages \cap known,
           IsReady(cl, m), cl.state[m].timeout = "none", cl.state[m].retries < MAX_RETRIES
    PROVE  Good(Retry(cl, m), known)
<1> DEFINE base == IF cl.state[m].failed THEN Renumber(cl, m) ELSE cl
           new == [base EXCEPT !.state[m].retries = @ + 1]
<1>1. /\ Good(base, known) /\ IsReady(base, m)
      /\ base.state[m].timeout = "none" /\ base.state[m].retries = cl.state[m].retries
  BY RenumberGood
<1>2. Retry(cl, m) = Transmit(new, connected, m)
  BY DEF Retry
<1> HIDE DEF base
<1>3. /\ DOMAIN new = ClientFields
      /\ \A x \in ClientFields \ {"state"} : new[x] = base[x]
      /\ new.state = [base.state EXCEPT ![m].retries = base.state[m].retries + 1]
  BY <1>1 DEF Good, Typed, ClientFields
<1> HIDE DEF new
<1>4. base.state \in [Messages -> MessageState] /\ base.seqNumber \in Nat
  BY <1>1 DEF Good, Typed
<1>5. base.state[m].retries + 1 \in 0..MAX_RETRIES
  BY <1>1, <1>4, CommandAssumption DEF MessageState
<1>6. /\ new.state \in [Messages -> MessageState]
      /\ new.state[m].timeout = "none"
      /\ new.state[m].sequence = base.state[m].sequence
      /\ \A k \in Messages \ {m} : new.state[k] = base.state[k]
  BY <1>1, <1>3, <1>4, <1>5 DEF MessageState
<1>7. /\ \A x \in ClientFields \ {"state", "seqNumber"} : new[x] = base[x]
      /\ new.seqNumber \in Nat
  BY <1>3, <1>4 DEF ClientFields
<1>8. Good(new, known) /\ IsReady(new, m)
  BY <1>1, <1>3, <1>6, <1>7, OwnStateGood
<1> QED
  BY <1>2, <1>8, TransmitGood

LEMMA SendAgainGood ==
    ASSUME NEW known, NEW cl, Good(cl, known), NEW m \in Messages \cap known,
           IsReady(cl, m), cl.state[m].timeout = "none", NEW tooOld
    PROVE  Good(SendAgain(cl, m, tooOld), known)
  BY RetryGood, GivenGood, SendQueuedMessageGood DEF SendAgain, GiveUp

(* Outside of messageStates, the queue, the timers and the reports nothing *)
(* matters to where a message is.                                          *)
LEMMA OtherFieldsGood ==
    ASSUME NEW known, NEW cl, Good(cl, known), NEW new,
           DOMAIN new = ClientFields,
           \A x \in {"sendQueue", "messageStates", "state", "seqNumber", "emitted"} :
               new[x] = cl[x],
           new.p2pDataSeqNumber \in Int, new.p2pKey \in 0..MaxSessions,
           new.wire \subseteq Packets
    PROVE  /\ Good(new, known)
           /\ \A m \in Messages : IsReady(cl, m) => IsReady(new, m)
<1>1. /\ new.sendQueue = cl.sendQueue /\ new.emitted = cl.emitted
      /\ new.messageStates = cl.messageStates /\ new.state = cl.state
      /\ new.seqNumber = cl.seqNumber
  OBVIOUS
<1>2. Typed(new)
  BY <1>1 DEF Good, Typed
<1>3. \A k \in Messages : IsReady(cl, k) => IsReady(new, k)
  BY <1>1 DEF IsReady, Queued
<1>4. \A k \in Messages : IsIdle(cl, k) => IsIdle(new, k)
  BY <1>1 DEF IsIdle, NotInFlight
<1>5. \A k \in Messages : OnePlace(cl, k) => OnePlace(new, k)
  BY <1>1, <1>4 DEF OnePlace, UnderItsNumber, Queued
<1> QED
  BY <1>1, <1>2, <1>3, <1>4, <1>5 DEF Good, IsFresh

LEMMA MoreKnown ==
    ASSUME NEW known, NEW cl, Good(cl, known), NEW more
    PROVE  Good(cl, known \cup more)
  BY DEF Good

(* A message is put at an end of the queue for the first time.             *)
LEMMA EnqueuedGood ==
    ASSUME NEW known, NEW cl, Good(cl, known), NEW m \in Messages, IsFresh(cl, m),
           NEW q \in Seq(Messages), NoDuplicates(q), Elements(q) = Queued(cl) \cup {m}
    PROVE  Good([cl EXCEPT !.sendQueue = q], known \cup {m})
<1> DEFINE new == [cl EXCEPT !.sendQueue = q]
<1>1. /\ DOMAIN new = ClientFields
      /\ new.sendQueue = q
      /\ new.messageStates = cl.messageStates /\ new.state = cl.state
      /\ new.seqNumber = cl.seqNumber /\ new.p2pDataSeqNumber = cl.p2pDataSeqNumber
      /\ new.p2pKey = cl.p2pKey /\ new.wire = cl.wire /\ new.emitted = cl.emitted
  BY DEF Good, Typed, ClientFields
<1> HIDE DEF new
<1>2. Queued(new) = Queued(cl) \cup {m}
  BY <1>1 DEF Queued
<1>3. Typed(new)
  BY <1>1 DEF Good, Typed
<1>4. \A k \in Messages : IsIdle(cl, k) => IsIdle(new, k)
  BY <1>1 DEF IsIdle, NotInFlight
<1>5. ASSUME NEW k \in Messages PROVE OnePlace(new, k)
  <2>1. OnePlace(cl, k)
    BY DEF Good
  <2>2. CASE k = m
    BY <1>1, <1>2, <1>4, <2>1, <2>2 DEF OnePlace, UnderItsNumber, IsFresh, IsReady
  <2>3. CASE k # m
    BY <1>1, <1>2, <1>4, <2>1, <2>3 DEF OnePlace, UnderItsNumber
  <2> QED
    BY <2>2, <2>3
<1>6. ASSUME NEW k \in Messages \ (known \cup {m}) PROVE IsFresh(new, k)
  BY <1>1, <1>2, <1>4 DEF Good, IsFresh, IsReady
<1> QED
  BY <1>1, <1>3, <1>5, <1>6 DEF Good, new

----------------------------------------------------------------------------
Results == [of : Commands, code : {"ok", "failed"}]

StationType ==
    [executed : Seq(Packets), handled : Nat, results : Seq(Results), keySent : BOOLEAN]

SessionTyped ==
    /\ connected \in BOOLEAN
    /\ sessions \in 0..MaxSessions
    /\ connected => sessions > 0
    /\ submitted \subseteq Commands \cup Pings
    /\ cipherCalls \subseteq Gateways
    /\ delivered \in Nat
    /\ station \in StationType

Known == submitted \cup 1..sessions

QueueInv == SessionTyped /\ Good(client, Known)

LEMMA InitQueue == Init => QueueInv
<1> SUFFICES ASSUME Init PROVE QueueInv
  OBVIOUS
<1>1. /\ 0 \in 0..MaxSessions /\ NewMessageState(0) \in MessageState
      /\ NewMessageState(0).timeout = "none"
  BY CommandAssumption, NewMessageStateTyped
<1>2. SessionTyped
  <2>1. << >> \in Seq(Packets) /\ << >> \in Seq(Results)
    OBVIOUS
  <2>2. station \in StationType
    BY <2>1 DEF Init, InitialStation, StationType
  <2> QED
    BY <1>1, <2>2 DEF Init, SessionTyped
<1>3. /\ DOMAIN client = ClientFields
      /\ client.sendQueue = << >> /\ client.messageStates = EmptyFunction
      /\ client.state = [m \in Messages |-> NewMessageState(0)]
      /\ client.seqNumber = 0 /\ client.p2pDataSeqNumber = 0
      /\ client.p2pKey = 0 /\ client.wire = {}
      /\ client.emitted = [m \in Messages |-> << >>]
  BY DEF Init, ClientFields
<1>4. DOMAIN client.messageStates = {}
  BY <1>3 DEF EmptyFunction
<1>5. Queued(client) = {} /\ NoDuplicates(client.sendQueue)
  BY <1>3 DEF Queued, Elements, NoDuplicates
<1>6. Typed(client)
  BY <1>1, <1>3, <1>4 DEF Typed
<1>7. \A m \in Messages : IsFresh(client, m)
  BY <1>1, <1>3, <1>4, <1>5 DEF IsFresh, IsIdle, IsReady, NotInFlight
<1>8. \A m \in Messages : OnePlace(client, m)
  BY <1>3, <1>4, <1>5, <1>7 DEF OnePlace, UnderItsNumber, IsFresh, IsReady
<1> QED
  BY <1>2, <1>5, <1>6, <1>7, <1>8 DEF QueueInv, Good

LEMMA SendCommandQueue ==
    ASSUME QueueInv, NEW m \in Commands \cup Pings, NEW tooOld, SendCommand(m, tooOld)
    PROVE  QueueInv'
<1> DEFINE appended == [client EXCEPT !.sendQueue = Append(client.sendQueue, m)]
<1>1. m \in Messages \ Known
  BY CommandAssumption DEF SendCommand, Messages, Gateways, Known, QueueInv, SessionTyped
<1>2. Good(client, Known) /\ IsFresh(client, m) /\ client.sendQueue \in Seq(Messages)
      /\ NoDuplicates(client.sendQueue) /\ m \notin Elements(client.sendQueue)
  BY <1>1 DEF QueueInv, Good, Typed, IsFresh, IsReady, Queued
<1>3. /\ Append(client.sendQueue, m) \in Seq(Messages)
      /\ NoDuplicates(Append(client.sendQueue, m))
      /\ Elements(Append(client.sendQueue, m)) = Queued(client) \cup {m}
  BY <1>1, <1>2, AppendToQueue DEF Queued
<1>4. Good(appended, Known \cup {m})
  BY <1>1, <1>2, <1>3, EnqueuedGood
<1>5. client' = SendQueuedMessage(appended, connected, tooOld)
  BY DEF SendCommand
<1>6. Known' = Known \cup {m}
  BY DEF SendCommand, Known
<1> HIDE DEF appended
<1>7. Good(client', Known')
  BY <1>4, <1>5, <1>6, SendQueuedMessageGood
<1> QED
  BY <1>7 DEF QueueInv, SessionTyped, SendCommand

LEMMA StationQueue ==
    ASSUME QueueInv, (\E w \in client.wire : StationExecutes(w)) \/ StationAnswers
    PROVE  QueueInv'
<1>1. UNCHANGED <<connected, sessions, submitted, client, delivered, cipherCalls>>
  BY DEF StationExecutes, StationAnswers
<1>2. station' \in StationType
  <2>1. CASE \E w \in client.wire : StationExecutes(w)
    <3>1. PICK w \in client.wire : StationExecutes(w)
      BY <2>1
    <3>2. w \in Packets
      BY DEF QueueInv, Good, Typed
    <3>3. station \in StationType
      BY DEF QueueInv, SessionTyped
    <3>4. Append(station.executed, w) \in Seq(Packets)
      BY <3>2, <3>3 DEF StationType
    <3>5. station' = [station EXCEPT !.executed = Append(station.executed, w)]
      BY <3>1 DEF StationExecutes
    <3> QED
      BY <3>3, <3>4, <3>5 DEF StationType
  <2>2. CASE StationAnswers
    <3> DEFINE m == station.executed[station.handled + 1].message
    <3>1. station \in StationType /\ station.handled < Len(station.executed)
      BY <2>2 DEF QueueInv, SessionTyped, StationAnswers
    <3>2. station.executed[station.handled + 1] \in Packets
      BY <3>1 DEF StationType
    <3>3. m \in Messages
      BY <3>2 DEF Packets
    <3>4. PICK code \in Answers(m) :
            station' = [station EXCEPT
                !.handled = @ + 1,
                !.keySent = @ \/ code = "key",
                !.results = IF code \in {"ok", "failed"}
                            THEN Append(@, [of |-> m, code |-> code]) ELSE @]
      BY <2>2 DEF StationAnswers
    <3> HIDE DEF m
    <3>5. code \in {"ok", "failed"} => m \in Commands
      BY <3>3, CommandAssumption DEF Answers, Messages
    <3>6. code \in {"ok", "failed"} =>
            Append(station.results, [of |-> m, code |-> code])
                \in Seq(Results)
      <4>1. station.results \in Seq(Results)
        BY <3>1 DEF StationType
      <4>2. code \in {"ok", "failed"} => [of |-> m, code |-> code] \in Results
        BY <3>5 DEF Results
      <4> QED
        BY <4>1, <4>2
    <3>7. station.handled + 1 \in Nat /\ (station.keySent \/ code = "key") \in BOOLEAN
      BY <3>1 DEF StationType
    <3> QED
      BY <3>1, <3>4, <3>6, <3>7 DEF StationType
  <2> QED
    BY <2>1, <2>2
<1> QED
  BY <1>1, <1>2 DEF QueueInv, SessionTyped, Known

(* A message in flight, or held by a timer, was submitted, does not wait   *)
(* in the queue and was not reported.                                      *)
LEMMA InFlightIsReady ==
    ASSUME NEW known, NEW cl, Good(cl, known), NEW n \in DOMAIN cl.messageStates
    PROVE  /\ cl.messageStates[n] \in Messages \cap known
           /\ IsReady(cl, cl.messageStates[n])
           /\ cl.state[cl.messageStates[n]].sequence = n
<1>1. cl.messageStates[n] \in Messages
  BY DEF Good, Typed
<1> QED
  BY <1>1 DEF Good, OnePlace, UnderItsNumber, IsFresh, IsReady, IsIdle, NotInFlight

LEMMA TimedIsReady ==
    ASSUME NEW known, NEW cl, Good(cl, known), NEW m \in Messages,
           cl.state[m].timeout # "none"
    PROVE  m \in known /\ IsReady(cl, m)
  BY DEF Good, OnePlace, IsFresh, IsReady, IsIdle

LEMMA AcknowledgedGood ==
    ASSUME NEW known, NEW cl, Good(cl, known), NEW m \in Messages \cap known, IsReady(cl, m)
    PROVE  Good(Acknowledged(cl, m), known)
<1> DEFINE new == Acknowledged(cl, m)
<1>1. /\ DOMAIN new = ClientFields
      /\ \A x \in ClientFields \ {"state"} : new[x] = cl[x]
      /\ new.state = [cl.state EXCEPT ![m] = [cl.state[m] EXCEPT !.acknowledged = TRUE,
                                                               !.timeout = "result"]]
  BY DEF Good, Typed, Acknowledged, ClientFields
<1>2. cl.state \in [Messages -> MessageState] /\ cl.seqNumber \in Nat
  BY DEF Good, Typed
<1> HIDE DEF new
<1>3. /\ new.state \in [Messages -> MessageState]
      /\ new.state[m].sequence = cl.state[m].sequence
      /\ \A k \in Messages \ {m} : new.state[k] = cl.state[k]
  BY <1>1, <1>2 DEF MessageState
<1>4. \A x \in ClientFields \ {"state", "seqNumber"} : new[x] = cl[x]
  BY <1>1
<1>5. new.seqNumber \in Nat
  BY <1>1, <1>2 DEF ClientFields
<1>6. Good(new, known)
  BY <1>1, <1>3, <1>4, <1>5, OwnStateGood
<1> QED
  BY <1>6 DEF new

LEMMA FailedGood ==
    ASSUME NEW known, NEW cl, Good(cl, known), NEW m \in Messages, cl.state[m].timeout = "none"
    PROVE  /\ Good([cl EXCEPT !.state[m].failed = TRUE], known)
           /\ IsReady(cl, m) => IsReady([cl EXCEPT !.state[m].failed = TRUE], m)
           /\ [cl EXCEPT !.state[m].failed = TRUE].state[m].timeout = "none"
<1> DEFINE new == [cl EXCEPT !.state[m].failed = TRUE]
<1>1. /\ DOMAIN new = ClientFields
      /\ \A x \in ClientFields \ {"state"} : new[x] = cl[x]
      /\ new.state = [cl.state EXCEPT ![m].failed = TRUE]
  BY DEF Good, Typed, ClientFields
<1>2. cl.state \in [Messages -> MessageState] /\ cl.seqNumber \in Nat
  BY DEF Good, Typed
<1> HIDE DEF new
<1>3. /\ new.state \in [Messages -> MessageState]
      /\ new.state[m].sequence = cl.state[m].sequence
      /\ new.state[m].timeout = "none"
      /\ \A k \in Messages \ {m} : new.state[k] = cl.state[k]
  BY <1>1, <1>2 DEF MessageState
<1>4. \A x \in ClientFields \ {"state", "seqNumber"} : new[x] = cl[x]
  BY <1>1
<1>5. new.seqNumber \in Nat
  BY <1>1, <1>2 DEF ClientFields
<1>6. Good(new, known) /\ (IsReady(cl, m) => IsReady(new, m))
  BY <1>1, <1>3, <1>4, <1>5, OwnStateGood
<1> QED
  BY <1>3, <1>6 DEF new

LEMMA ReceiveAckQueue ==
    ASSUME QueueInv, NEW n \in DOMAIN client.messageStates, NEW tooOld, ReceiveAck(n, tooOld)
    PROVE  QueueInv'
<1> DEFINE m == client.messageStates[n]
<1>1. Good(client, Known)
  BY DEF QueueInv
<1>2. m \in Messages \cap Known /\ IsReady(client, m)
  BY <1>1, InFlightIsReady
<1>3. Good(Forget(StopTimer(client, m), n), Known) /\ Good(Acknowledged(client, m), Known)
  BY <1>1, <1>2, StopTimerGood, ForgetGood, AcknowledgedGood
<1>4. client' = SendQueuedMessage(IF m \in Pings THEN Forget(StopTimer(client, m), n)
                                  ELSE Acknowledged(client, m), TRUE, tooOld)
  BY DEF ReceiveAck
<1> HIDE DEF m
<1>5. Good(client', Known)
  BY <1>3, <1>4, SendQueuedMessageGood
<1> QED
  BY <1>5 DEF QueueInv, SessionTyped, ReceiveAck, Known

LEMMA ReceiveResultQueue ==
    ASSUME QueueInv, NEW tooOld, ReceiveResult(tooOld)
    PROVE  QueueInv'
<1> DEFINE r == station.results[delivered + 1]
           seqNo == delivered % (MAX_SEQUENCE_NUMBER + 1)
           mapped == /\ seqNo \in DOMAIN client.p2pSeqMapping
                     /\ client.p2pSeqMapping[seqNo] # 0
           n == IF mapped THEN client.p2pSeqMapping[seqNo] ELSE seqNo
           cl == IF mapped
                 THEN [client EXCEPT !.p2pSeqMapping = Delete(@, seqNo)]
                 ELSE client
           m == cl.messageStates[n]
           stopped == StopTimer(cl, m)
           failed == [stopped EXCEPT !.state[m].failed = TRUE]
           report == [kind |-> "result", of |-> r.of]
           done == Emit(Forget(stopped, n), m, report)
<1>1. client' = IF ~IsInFlight(cl, n) THEN cl
                ELSE IF m \notin Commands \/ TypeOf[m] # TypeOf[r.of] THEN Forget(cl, n)
                ELSE IF r.code = "failed" THEN SendAgain(failed, m, tooOld)
                ELSE SendQueuedMessage(done, TRUE, tooOld)
  BY DEF ReceiveResult
<1>2. Good(client, Known)
  BY DEF QueueInv
<1>3. r \in Results
  <2>1. station.results \in Seq(Results) /\ delivered \in Nat /\ delivered < Len(station.results)
    BY DEF QueueInv, SessionTyped, StationType, ReceiveResult
  <2> QED
    BY <2>1
<1>4. Good(cl, Known)
  <2> DEFINE new == [client EXCEPT !.p2pSeqMapping = Delete(@, seqNo)]
  <2>1. /\ DOMAIN new = ClientFields
        /\ \A x \in {"sendQueue", "messageStates", "state", "seqNumber", "emitted"} :
               new[x] = client[x]
        /\ new.p2pDataSeqNumber = client.p2pDataSeqNumber /\ new.p2pKey = client.p2pKey
        /\ new.wire = client.wire
    BY <1>2 DEF Good, Typed, ClientFields
  <2> HIDE DEF new
  <2>2. /\ new.p2pDataSeqNumber \in Int /\ new.p2pKey \in 0..MaxSessions
        /\ new.wire \subseteq Packets
    BY <1>2, <2>1 DEF Good, Typed
  <2>3. Good(new, Known)
    BY <1>2, <2>1, <2>2, OtherFieldsGood
  <2> QED
    BY <1>2, <2>3 DEF new
<1> HIDE DEF cl, n, r
<1>5. ASSUME IsInFlight(cl, n)
      PROVE  /\ Good(Forget(cl, n), Known)
             /\ Good(SendAgain(failed, m, tooOld), Known)
             /\ Good(SendQueuedMessage(done, TRUE, tooOld), Known)
  <2>1. m \in Messages \cap Known /\ IsReady(cl, m) /\ cl.state[m].sequence = n
    BY <1>4, <1>5, InFlightIsReady DEF IsInFlight
  <2>2. Good(Forget(cl, n), Known)
    BY <1>4, ForgetGood
  <2> HIDE DEF m
  <2>3. /\ Good(stopped, Known) /\ IsReady(stopped, m)
        /\ stopped.state[m].timeout = "none" /\ stopped.state[m].sequence = n
    BY <1>4, <2>1, StopTimerGood
  <2> HIDE DEF stopped
  <2>4. /\ Good(failed, Known) /\ IsReady(failed, m)
        /\ failed.state[m].timeout = "none"
    BY <2>1, <2>3, FailedGood
  <2> HIDE DEF failed
  <2>5. Good(SendAgain(failed, m, tooOld), Known)
    BY <2>1, <2>4, SendAgainGood
  <2>6. /\ Good(Forget(stopped, n), Known) /\ IsReady(Forget(stopped, n), m)
        /\ Forget(stopped, n).state = stopped.state
        /\ NotInFlight(Forget(stopped, n), m)
    BY <2>1, <2>3, ForgetGood
  <2>7. IsIdle(Forget(stopped, n), m)
    BY <2>3, <2>6 DEF IsIdle
  <2>8. report \in Outcomes
    BY <1>3 DEF Results, Outcomes
  <2> HIDE DEF report
  <2>9. Good(done, Known)
    BY <2>1, <2>6, <2>7, <2>8, EmitGood
  <2> HIDE DEF done
  <2>10. Good(SendQueuedMessage(done, TRUE, tooOld), Known)
    BY <2>9, SendQueuedMessageGood
  <2> QED
    BY <2>2, <2>5, <2>10
<1> HIDE DEF m, stopped, failed, report, done
<1>7. Good(client', Known)
  <2>1. CASE ~IsInFlight(cl, n)
    BY <1>1, <1>4, <2>1
  <2>2. CASE IsInFlight(cl, n)
    <3>1. \/ client' = Forget(cl, n) \/ client' = SendAgain(failed, m, tooOld)
          \/ client' = SendQueuedMessage(done, TRUE, tooOld)
      BY <1>1, <2>2
    <3> QED
      BY <1>5, <2>2, <3>1
  <2> QED
    BY <2>1, <2>2
<1>8. SessionTyped' /\ Known' = Known
  <2>1. /\ UNCHANGED <<connected, sessions, submitted, station, cipherCalls>>
        /\ delivered' = delivered + 1
    BY DEF ReceiveResult
  <2> QED
    BY <2>1 DEF QueueInv, SessionTyped, Known
<1> QED
  BY <1>7, <1>8 DEF QueueInv

LEMMA ReceiveKeyQueue ==
    ASSUME QueueInv, ReceiveKey
    PROVE  QueueInv'
<1>1. station \in StationType /\ station' = [station EXCEPT !.keySent = FALSE]
  BY DEF QueueInv, SessionTyped, ReceiveKey
<1>2. station' \in StationType
  BY <1>1 DEF StationType
<1>3. sessions \in Gateways
  BY CommandAssumption DEF QueueInv, SessionTyped, Gateways, ReceiveKey
<1> QED
  BY <1>2, <1>3 DEF QueueInv, SessionTyped, ReceiveKey, Known

LEMMA TakeBackGood ==
    ASSUME NEW known, NEW cl, Good(cl, known), NEW n
    PROVE  /\ Good(TakeBackDataNumber(cl, n), known)
           /\ TakeBackDataNumber(cl, n).state = cl.state
<1> DEFINE new == TakeBackDataNumber(cl, n)
<1>1. /\ DOMAIN new = ClientFields
      /\ \A x \in {"sendQueue", "messageStates", "state", "seqNumber", "emitted"} :
             new[x] = cl[x]
      /\ new.p2pDataSeqNumber = cl.p2pDataSeqNumber - 1
      /\ new.p2pKey = cl.p2pKey /\ new.wire = cl.wire
  BY DEF Good, Typed, ClientFields, TakeBackDataNumber
<1> HIDE DEF new
<1>2. /\ new.p2pDataSeqNumber \in Int /\ new.p2pKey \in 0..MaxSessions
      /\ new.wire \subseteq Packets
  BY <1>1 DEF Good, Typed
<1>3. Good(new, known)
  BY <1>1, <1>2, OtherFieldsGood
<1> QED
  BY <1>1, <1>3 DEF new

LEMMA CipherReturnsQueue ==
    ASSUME QueueInv, NEW g \in cipherCalls, NEW tooOld, CipherReturns(g, tooOld)
    PROVE  QueueInv'
<1> DEFINE stopped == IF IsInFlight(client, 0)
                      THEN StopTimer(client, client.messageStates[0])
                      ELSE client
           back == Forget(TakeBackDataNumber(stopped, 0), 0)
           new == [back EXCEPT !.p2pKey = g]
<1>1. Good(client, Known) /\ g \in 0..MaxSessions
  BY CommandAssumption DEF QueueInv, SessionTyped, Gateways
<1>2. client' = SendQueuedMessage(new, connected, tooOld)
  BY DEF CipherReturns
<1>3. Good(stopped, Known)
  BY <1>1, StopTimerGood, InFlightIsReady DEF IsInFlight
<1> HIDE DEF stopped
<1>4. Good(back, Known)
  BY <1>3, TakeBackGood, ForgetGood
<1> HIDE DEF back
<1>5. /\ DOMAIN new = ClientFields
      /\ \A x \in {"sendQueue", "messageStates", "state", "seqNumber", "emitted"} :
             new[x] = back[x]
      /\ new.p2pDataSeqNumber = back.p2pDataSeqNumber
      /\ new.p2pKey = g /\ new.wire = back.wire
  BY <1>4 DEF Good, Typed, ClientFields
<1> HIDE DEF new
<1>6. /\ new.p2pDataSeqNumber \in Int /\ new.p2pKey \in 0..MaxSessions
      /\ new.wire \subseteq Packets
  BY <1>1, <1>4, <1>5 DEF Good, Typed
<1>7. Good(new, Known)
  BY <1>4, <1>5, <1>6, OtherFieldsGood
<1>8. Good(client', Known)
  BY <1>2, <1>7, SendQueuedMessageGood
<1> QED
  BY <1>8 DEF QueueInv, SessionTyped, CipherReturns, Known

LEMMA AcknowledgeTimeoutQueue ==
    ASSUME QueueInv, NEW m \in Messages, NEW tooOld, AcknowledgeTimeout(m, tooOld)
    PROVE  QueueInv'
<1> DEFINE stopped == StopTimer(client, m)
<1>1. Good(client, Known) /\ m \in Known /\ IsReady(client, m)
  BY TimedIsReady DEF QueueInv, AcknowledgeTimeout
<1>2. client' = SendAgain(stopped, m, tooOld)
  BY DEF AcknowledgeTimeout, StopTimer
<1>3. Good(stopped, Known) /\ IsReady(stopped, m) /\ stopped.state[m].timeout = "none"
  BY <1>1, StopTimerGood
<1> HIDE DEF stopped
<1>4. Good(client', Known)
  BY <1>1, <1>2, <1>3, SendAgainGood
<1> QED
  BY <1>4 DEF QueueInv, SessionTyped, AcknowledgeTimeout, Known

LEMMA ResultTimeoutQueue ==
    ASSUME QueueInv, NEW m \in Messages, NEW tooOld, ResultTimeout(m, tooOld)
    PROVE  QueueInv'
<1> DEFINE n == client.state[m].sequence
           stopped == StopTimer(client, m)
           report == [kind |-> "commandTimeout"]
           given == IF m \in Gateways THEN TakeBackDataNumber(stopped, n)
                    ELSE Emit(stopped, m, report)
<1>1. Good(client, Known) /\ m \in Known /\ IsReady(client, m)
  BY TimedIsReady DEF QueueInv, ResultTimeout
<1>2. client' = SendQueuedMessage(Forget(given, n), connected, tooOld)
  BY DEF ResultTimeout, StopTimer
<1>3. /\ Good(stopped, Known) /\ IsReady(stopped, m)
      /\ stopped.state[m].timeout = "none" /\ stopped.state[m].sequence = n
  BY <1>1, StopTimerGood
<1> HIDE DEF stopped, n
<1>4. report \in Outcomes
  BY DEF Outcomes
<1> HIDE DEF report
<1>5. Good(Forget(given, n), Known)
  <2>1. CASE m \in Gateways
    BY <1>3, <2>1, TakeBackGood, ForgetGood
  <2>2. CASE m \notin Gateways
    <3>1. /\ Good(Forget(stopped, n), Known) /\ IsReady(Forget(stopped, n), m)
          /\ Forget(stopped, n).state = stopped.state
          /\ NotInFlight(Forget(stopped, n), m)
      BY <1>3, ForgetGood
    <3>2. Good(Emit(Forget(stopped, n), m, report), Known)
      BY <1>1, <1>3, <1>4, <3>1, EmitGood DEF IsIdle
    <3>3. Forget(Emit(stopped, m, report), n) = Emit(Forget(stopped, n), m, report)
      BY <1>3 DEF Good, Typed, ClientFields, Forget, Emit
    <3> QED
      BY <2>2, <3>2, <3>3
  <2> QED
    BY <2>1, <2>2
<1> HIDE DEF given
<1>7. Good(client', Known)
  BY <1>2, <1>5, SendQueuedMessageGood
<1> QED
  BY <1>7 DEF QueueInv, SessionTyped, ResultTimeout, Known

Requeued(cl, q) == [cl EXCEPT !.sendQueue = q]

(* What waits behind a message that is sent does not matter to it.         *)
LEMMA SendFirstKeepsQueue ==
    ASSUME NEW cl, DOMAIN cl = ClientFields, NEW m, NEW q
    PROVE  /\ SendFirst(Requeued(cl, q), m) = Requeued(SendFirst(cl, m), q)
           /\ DOMAIN SendFirst(cl, m) = ClientFields
           /\ SendFirst(cl, m).sendQueue = cl.sendQueue
           /\ SendFirst(cl, m) = [x \in ClientFields |-> SendFirst(cl, m)[x]]
<1> DEFINE a == [cl EXCEPT !.state[m] = NewMessageState(cl.seqNumber),
                         !.seqNumber = IncrementSequence(@)]
           b == [a EXCEPT !.sendQueue = q]
<1>1. SendFirst(cl, m) = Transmit(a, TRUE, m)
  BY DEF SendFirst
<1>2. SendFirst([cl EXCEPT !.sendQueue = q], m) = Transmit(b, TRUE, m)
  <2>1. [[cl EXCEPT !.sendQueue = q] EXCEPT !.state[m] = NewMessageState(cl.seqNumber),
                                            !.seqNumber = IncrementSequence(cl.seqNumber)] = b
    BY DEF ClientFields
  <2> QED
    BY <2>1 DEF SendFirst, ClientFields
<1>3. DOMAIN a = ClientFields /\ a.sendQueue = cl.sendQueue
  BY DEF ClientFields
<1> HIDE DEF a
<1>4. /\ DOMAIN b = ClientFields /\ b.sendQueue = q
      /\ \A x \in ClientFields \ {"sendQueue"} : b[x] = a[x]
      /\ b.state = a.state /\ b.messageStates = a.messageStates
      /\ b.p2pSeqMapping = a.p2pSeqMapping /\ b.wire = a.wire
      /\ b.p2pDataSeqNumber = a.p2pDataSeqNumber
  BY <1>3 DEF ClientFields
<1> HIDE DEF b
<1>5. /\ DOMAIN Transmit(a, TRUE, m) = ClientFields
      /\ Transmit(a, TRUE, m).sendQueue = a.sendQueue
      /\ DOMAIN Transmit(b, TRUE, m) = ClientFields
      /\ Transmit(b, TRUE, m).sendQueue = q
  BY <1>3, <1>4 DEF Transmit, ClientFields
<1>6. \A x \in ClientFields \ {"sendQueue"} : Transmit(b, TRUE, m)[x] = Transmit(a, TRUE, m)[x]
  BY <1>3, <1>4 DEF Transmit, ClientFields
<1>7. Transmit(b, TRUE, m) = [Transmit(a, TRUE, m) EXCEPT !.sendQueue = q]
  <2> DEFINE s == Transmit(a, TRUE, m)
             t == Transmit(b, TRUE, m)
  <2>1. t = [x \in ClientFields |-> t[x]]
    BY <1>3, <1>4 DEF Transmit, ClientFields
  <2> HIDE DEF s, t
  <2>2. \A x \in ClientFields : t[x] = [s EXCEPT !.sendQueue = q][x]
    BY <1>5, <1>6 DEF s, t, ClientFields
  <2> QED
    BY <1>5, <2>1, <2>2 DEF s, t
<1>8. Transmit(a, TRUE, m) = [x \in ClientFields |-> Transmit(a, TRUE, m)[x]]
  BY <1>3 DEF Transmit, ClientFields
<1>9. SendFirst(Requeued(cl, q), m) = Requeued(SendFirst(cl, m), q)
  BY <1>1, <1>2, <1>7 DEF Requeued
<1> QED
  BY <1>1, <1>3, <1>5, <1>8, <1>9

(* The key exchange goes first: it is sent before the rest of the queue is *)
(* put behind it, or waits at its head.                                    *)
LEMMA KeyExchangeFirst ==
    ASSUME Good(client, Known), ~IsBlocked(client), NEW tooOld, Connect(tooOld)
    PROVE  client' = SendQueuedMessage(SendFirst(client, sessions + 1), TRUE, tooOld)
<1> DEFINE g == sessions + 1
           old == client.sendQueue
           head == [client EXCEPT !.sendQueue = <<g>>]
           first == SendQueuedMessage(head, TRUE, FALSE)
           second == [first EXCEPT !.sendQueue = @ \o old]
           sent == SendFirst(client, g)
<1>1. client' = SendQueuedMessage(second, TRUE, tooOld)
  BY DEF Connect
<1>2. client.sendQueue \in Seq(Messages) /\ DOMAIN client = ClientFields
  BY DEF Good, Typed
<1> HIDE DEF g, old
<1>3. /\ head.sendQueue = <<g>> /\ DOMAIN head = ClientFields
      /\ head.messageStates = client.messageStates /\ head.state = client.state
      /\ head.sendQueue # << >> /\ Head(head.sendQueue) = g /\ Tail(head.sendQueue) = << >>
  BY <1>2 DEF ClientFields
<1>4. first = SendFirst([head EXCEPT !.sendQueue = << >>], g)
  BY <1>3 DEF SendQueuedMessage, IsBlocked
<1>5. << >> \o old = old
  BY <1>2 DEF old
<1>6. SendFirst([head EXCEPT !.sendQueue = << >>], g) = Requeued(sent, << >>)
  <2>1. [head EXCEPT !.sendQueue = << >>] = Requeued(client, << >>)
    BY <1>2 DEF Requeued, ClientFields
  <2>2. SendFirst(Requeued(client, << >>), g) = Requeued(SendFirst(client, g), << >>)
    BY <1>2, SendFirstKeepsQueue
  <2> QED
    BY <2>1, <2>2
<1>7. /\ DOMAIN sent = ClientFields /\ sent.sendQueue = old
      /\ sent = [x \in ClientFields |-> sent[x]]
  BY <1>2, SendFirstKeepsQueue DEF old
<1> HIDE DEF sent
<1>8. second = [[sent EXCEPT !.sendQueue = << >>] EXCEPT !.sendQueue = old]
  BY <1>4, <1>5, <1>6, <1>7 DEF ClientFields, Requeued
<1> HIDE DEF second
<1>9. second = sent
  BY <1>7, <1>8 DEF ClientFields
<1> QED
  BY <1>1, <1>9 DEF sent, g

LEMMA ConnectQueue ==
    ASSUME QueueInv, NEW tooOld, Connect(tooOld)
    PROVE  QueueInv'
<1> DEFINE g == sessions + 1
           old == client.sendQueue
           head == [client EXCEPT !.sendQueue = <<g>>]
           waiting == [client EXCEPT !.sendQueue = <<g>> \o old]
<1>1. /\ Good(client, Known) /\ client.sendQueue \in Seq(Messages)
      /\ NoDuplicates(client.sendQueue) /\ DOMAIN client = ClientFields
  BY DEF QueueInv, Good, Typed
<1>2. /\ g \in Messages /\ g \notin Known /\ Known' = Known \cup {g}
      /\ sessions' \in 0..MaxSessions /\ sessions' > 0
  BY CommandAssumption
  DEF Messages, Gateways, Known, QueueInv, SessionTyped, Connect
<1>3. IsFresh(client, g)
  BY <1>1, <1>2 DEF Good
<1>4. ASSUME IsBlocked(client) PROVE Good(client', Known \cup {g})
  <2>1. client' = SendQueuedMessage(
            [SendQueuedMessage(head, TRUE, FALSE) EXCEPT !.sendQueue = @ \o old], TRUE, tooOld)
    BY DEF Connect
  <2> HIDE DEF g, old
  <2>2. SendQueuedMessage(head, TRUE, FALSE) = head
    <3>1. head.messageStates = client.messageStates /\ head.state = client.state
      BY <1>1 DEF ClientFields
    <3> QED
      BY <1>4, <3>1 DEF SendQueuedMessage, IsBlocked
  <2>3. [head EXCEPT !.sendQueue = @ \o old] = waiting
    BY <1>1 DEF ClientFields
  <2>4. /\ <<g>> \o old \in Seq(Messages) /\ NoDuplicates(<<g>> \o old)
        /\ Elements(<<g>> \o old) = Queued(client) \cup {g}
    BY <1>1, <1>2, <1>3, ElementsOfJoined DEF IsFresh, IsReady, Queued, old
  <2>5. Good(waiting, Known \cup {g})
    BY <1>1, <1>2, <1>3, <2>4, EnqueuedGood
  <2> HIDE DEF head, waiting
  <2>6. client' = SendQueuedMessage(waiting, TRUE, tooOld)
    BY <2>1, <2>2, <2>3
  <2>7. Good(SendQueuedMessage(waiting, TRUE, tooOld), Known \cup {g})
    BY <2>5, SendQueuedMessageGood
  <2>8. Good(client', Known \cup {g})
    BY <2>6, <2>7
  <2> QED
    BY <2>8 DEF g
<1>5. ASSUME ~IsBlocked(client) PROVE Good(client', Known \cup {g})
  <2>1. client' = SendQueuedMessage(SendFirst(client, g), TRUE, tooOld)
    BY <1>1, <1>5, KeyExchangeFirst
  <2> HIDE DEF g
  <2>2. Good(client, Known \cup {g}) /\ g \in Messages \cap (Known \cup {g})
    BY <1>1, <1>2, MoreKnown
  <2>3. IsReady(client, g) /\ NotInFlight(client, g)
    BY <1>3 DEF IsFresh, IsIdle
  <2>4. Good(SendFirst(client, g), Known \cup {g})
    BY <2>2, <2>3, SendFirstGood
  <2>5. Good(client', Known \cup {g})
    BY <2>1, <2>4, SendQueuedMessageGood
  <2> QED
    BY <2>5 DEF g
<1>6. Good(client', Known')
  <2> HIDE DEF g
  <2> QED
    BY <1>2, <1>4, <1>5
<1> QED
  BY <1>2, <1>6 DEF QueueInv, SessionTyped, Connect

LEMMA DisconnectQueue ==
    ASSUME QueueInv, Disconnect
    PROVE  QueueInv'
<1> DEFINE stopped == [m \in Messages |->
                         IF m \in Range(client.messageStates)
                         THEN [client.state[m] EXCEPT !.timeout = "none"]
                         ELSE client.state[m]]
<1>1. Good(client, Known) /\ DOMAIN client = ClientFields
  BY DEF QueueInv, Good, Typed
<1>2. /\ DOMAIN client' = ClientFields
      /\ client'.sendQueue = WithoutPings(client.sendQueue)
      /\ client'.messageStates = EmptyFunction
      /\ client'.state = stopped /\ client'.seqNumber = 0
      /\ client'.p2pDataSeqNumber = 0 /\ client'.p2pKey = 0 /\ client'.wire = {}
      /\ client'.emitted = client.emitted
  BY <1>1 DEF Disconnect, Initialized, StopTimers, ClientFields
<1>3. /\ stopped \in [Messages -> MessageState]
      /\ \A m \in Messages : client.state[m].timeout = "none" => stopped[m].timeout = "none"
  <2>1. client.state \in [Messages -> MessageState]
    BY <1>1 DEF Good, Typed
  <2> QED
    BY <2>1 DEF MessageState
<1> HIDE DEF stopped
<1>4. /\ WithoutPings(client.sendQueue) \in Seq(Messages)
      /\ NoDuplicates(WithoutPings(client.sendQueue))
      /\ Elements(WithoutPings(client.sendQueue)) \subseteq Queued(client)
  <2>1. client.sendQueue \in Seq(Messages) /\ NoDuplicates(client.sendQueue)
    BY <1>1 DEF Good, Typed
  <2> QED
    BY <2>1, WithoutPingsIsAQueue DEF Queued
<1>5. DOMAIN client'.messageStates = {}
  BY <1>2 DEF EmptyFunction
<1>6. Typed(client')
  <2>1. 0 \in 0..MaxSessions /\ client.emitted \in [Messages -> Seq(Outcomes)]
    BY <1>1, CommandAssumption DEF Good, Typed
  <2> QED
    BY <1>2, <1>3, <1>4, <1>5, <2>1 DEF Typed
<1>7. \A m \in Messages : m \in Queued(client') => m \in Queued(client)
  BY <1>2, <1>4 DEF Queued
<1>8. \A m \in Messages : IsIdle(client, m) => IsIdle(client', m)
  BY <1>2, <1>3, <1>5 DEF IsIdle, NotInFlight
<1>9. ASSUME NEW m \in Messages PROVE OnePlace(client', m)
  <2>1. OnePlace(client, m)
    BY <1>1 DEF Good
  <2> QED
    BY <1>2, <1>5, <1>7, <1>8, <2>1 DEF OnePlace, UnderItsNumber
<1>10. ASSUME NEW m \in Messages \ Known PROVE IsFresh(client', m)
  <2>1. IsFresh(client, m)
    BY <1>1 DEF Good
  <2> QED
    BY <1>2, <1>7, <1>8, <2>1 DEF IsFresh, IsReady
<1>11. Good(client', Known)
  BY <1>2, <1>4, <1>6, <1>9, <1>10 DEF Good
<1>12. SessionTyped' /\ Known' = Known
  <2>1. << >> \in Seq(Packets) /\ << >> \in Seq(Results)
    OBVIOUS
  <2>2. station' \in StationType
    BY <2>1 DEF Disconnect, InitialStation, StationType
  <2> QED
    BY <2>2 DEF QueueInv, SessionTyped, Disconnect, Known
<1> QED
  BY <1>11, <1>12 DEF QueueInv

LEMMA NextQueue ==
    ASSUME QueueInv, [Next]_vars
    PROVE  QueueInv'
<1>1. CASE UNCHANGED vars
  BY <1>1 DEF vars, QueueInv, SessionTyped, Known
<1>2. CASE Next
  BY <1>2, SendCommandQueue, StationQueue, ReceiveAckQueue, ReceiveResultQueue,
     ReceiveKeyQueue, CipherReturnsQueue, AcknowledgeTimeoutQueue, ResultTimeoutQueue,
     ConnectQueue, DisconnectQueue
  DEF Next
<1> QED
  BY <1>1, <1>2

THEOREM QueueInvariance == Spec => []QueueInv
<1>1. QueueInv /\ [Next]_vars => QueueInv'
  BY NextQueue
<1> QED
  BY <1>1, InitQueue, PTL DEF Spec

(* The fields of the session have their types: no command is sent more     *)
(* often than MAX_RETRIES allows, and every outcome is one the client      *)
(* reports.                                                                *)
THEOREM QueueTypeCorrect == Spec => []TypeOK
<1>1. QueueInv => TypeOK
  BY DEF QueueInv, SessionTyped, Good, Typed, TypeOK, Range
<1> QED
  BY <1>1, QueueInvariance, PTL

(* Every command is reported at most once, whatever the station, the       *)
(* network and the cloud do, and however timers, answers and connections   *)
(* interleave.                                                             *)
THEOREM CommandsEndOnce == Spec => []AtMostOneOutcome
<1>1. QueueInv => AtMostOneOutcome
  <2> SUFFICES ASSUME QueueInv, NEW m \in Messages PROVE Len(client.emitted[m]) <= 1
    BY DEF AtMostOneOutcome
  <2>1. OnePlace(client, m)
    BY DEF QueueInv, Good
  <2>2. CASE client.emitted[m] = << >>
    BY <2>2
  <2>3. CASE client.emitted[m] # << >>
    <3>1. Len(client.emitted[m]) = 1
      BY <2>1, <2>3 DEF OnePlace
    <3> QED
      BY <3>1
  <2> QED
    BY <2>2, <2>3
<1> QED
  BY <1>1, QueueInvariance, PTL

----------------------------------------------------------------------------
(***************************************************************************)
(* Results.  When the station answers what it executed and acknowledgements*)
(* are in time, the client and the station count DATA messages alike: the  *)
(* invariant follows a command from the wire through what the station has  *)
(* executed and answered to the number its result will come with.          *)
(***************************************************************************)
Packet(n, m) == [sequence |-> n, message |-> m]

Executed(st) == {st.executed[i] : i \in 1..Len(st.executed)}

Handled(st) == {st.executed[i] : i \in 1..st.handled}

(* A timer belongs to a message in flight, and a timer for the result to   *)
(* one that is acknowledged.                                               *)
TimersInFlight(cl) ==
    \A m \in Messages :
        /\ ~cl.state[m].failed
        /\ cl.state[m].timeout # "none" => ~NotInFlight(cl, m)
        /\ cl.state[m].timeout = "result" => cl.state[m].acknowledged

OwnResults(cl) ==
    \A c \in Commands : \A o \in ToSet(cl.emitted[c]) : o.kind = "result" => o.of = c

(* What was transmitted in session s.  The key exchange has number 0.  What*)
(* is not executed is the message that was sent last and is still in       *)
(* flight, so the station executes in the order of the numbers.            *)
WireInOrder(cl, st, s) ==
    /\ Packet(0, s) \in cl.wire
    /\ \A w \in cl.wire :
        /\ w.sequence < cl.seqNumber
        /\ w.message \in Gateways => w = Packet(0, s)
    /\ \A v, w \in cl.wire : v.sequence = w.sequence => v = w
    /\ \A w \in cl.wire \ Executed(st) :
        w.sequence \in DOMAIN cl.messageStates /\ w.sequence = cl.seqNumber - 1

InFlightIsOnWire(cl, st) ==
    \A n \in DOMAIN cl.messageStates :
        LET w == Packet(n, cl.messageStates[n])
        IN  /\ w \in cl.wire
            /\ cl.state[cl.messageStates[n]].acknowledged => w \in Executed(st)

StationInOrder(cl, st) ==
    /\ Executed(st) \subseteq cl.wire
    /\ st.handled <= Len(st.executed)
    /\ \A i, j \in 1..Len(st.executed) :
        i < j => st.executed[i].sequence < st.executed[j].sequence
    /\ \A i \in 1..Len(st.results) : st.results[i].code = "ok"

(* The key exchange is going on: the key is asked for once.                *)
KeyPending(cl, st, d, calls, s) ==
    /\ cl.seqNumber = 1
    /\ DOMAIN cl.p2pSeqMapping = {0} /\ cl.p2pSeqMapping[0] = 0
    /\ cl.p2pDataSeqNumber = 1
    /\ st.results = << >> /\ d = 0
    /\ calls \subseteq {s}
    /\ Packet(0, s) \in Handled(st) <=> st.keySent \/ calls # {}
    /\ st.keySent => calls = {}

(* The key exchange is over: the k-th DATA number is that of the k-th      *)
(* command of the session.                                                 *)
Numbered(cl, st, d, calls, s) ==
    /\ calls = {} /\ ~st.keySent /\ Packet(0, s) \in Handled(st)
    /\ cl.p2pDataSeqNumber <= cl.seqNumber
    /\ d <= Len(st.results) /\ Len(st.results) <= cl.p2pDataSeqNumber
    /\ DOMAIN cl.p2pSeqMapping = d..(cl.p2pDataSeqNumber - 1)
    /\ \A k \in DOMAIN cl.p2pSeqMapping :
        /\ cl.p2pSeqMapping[k] \in Nat \ {0}
        /\ \E c \in Commands : Packet(cl.p2pSeqMapping[k], c) \in cl.wire
    /\ \A k, l \in DOMAIN cl.p2pSeqMapping :
        k < l => cl.p2pSeqMapping[k] < cl.p2pSeqMapping[l]
    /\ \A k \in d..(Len(st.results) - 1) :
        Packet(cl.p2pSeqMapping[k], st.results[k + 1].of) \in Executed(st)
    /\ \A w \in cl.wire \ Handled(st) :
        w.message \in Commands =>
            \E k \in Len(st.results)..(cl.p2pDataSeqNumber - 1) :
                cl.p2pSeqMapping[k] = w.sequence
    /\ \A w \in Handled(st) : \A k \in Len(st.results)..(cl.p2pDataSeqNumber - 1) :
        cl.p2pSeqMapping[k] # w.sequence

InSession(cl, st, d, calls, s) ==
    /\ TimersInFlight(cl)
    /\ OwnResults(cl)
    /\ Queued(cl) \cap Gateways = {}
    /\ WireInOrder(cl, st, s)
    /\ InFlightIsOnWire(cl, st)
    /\ StationInOrder(cl, st)
    /\ 0 \in DOMAIN cl.messageStates => KeyPending(cl, st, d, calls, s)
    /\ 0 \notin DOMAIN cl.messageStates => Numbered(cl, st, d, calls, s)

OutOfSession(cl) ==
    /\ TimersInFlight(cl)
    /\ OwnResults(cl)
    /\ Queued(cl) \cap Gateways = {}
    /\ DOMAIN cl.messageStates = {} /\ DOMAIN cl.p2pSeqMapping = {} /\ cl.wire = {}
    /\ cl.seqNumber = 0 /\ cl.p2pDataSeqNumber = 0

NumbersInv ==
    /\ connected => InSession(client, station, delivered, cipherCalls, sessions)
    /\ ~connected => /\ OutOfSession(client)
                     /\ station = InitialStation /\ delivered = 0 /\ cipherCalls = {}

(* Only the queue and the reports change.                                  *)
LEMMA SameWire ==
    ASSUME NEW cl, NEW new, NEW st, NEW d, NEW calls, NEW s, InSession(cl, st, d, calls, s),
           new.messageStates = cl.messageStates, new.state = cl.state,
           new.seqNumber = cl.seqNumber, new.p2pSeqMapping = cl.p2pSeqMapping,
           new.p2pDataSeqNumber = cl.p2pDataSeqNumber, new.wire = cl.wire,
           OwnResults(new), Queued(new) \cap Gateways = {}
    PROVE  InSession(new, st, d, calls, s)
<1>1. TimersInFlight(new) /\ InFlightIsOnWire(new, st)
  BY DEF InSession, TimersInFlight, NotInFlight, InFlightIsOnWire
<1>2. WireInOrder(new, st, s) /\ StationInOrder(new, st)
  BY DEF InSession, WireInOrder, StationInOrder
<1>3. KeyPending(cl, st, d, calls, s) => KeyPending(new, st, d, calls, s)
  BY DEF KeyPending
<1>4. Numbered(cl, st, d, calls, s) => Numbered(new, st, d, calls, s)
  BY DEF Numbered
<1> QED
  BY <1>1, <1>2, <1>3, <1>4 DEF InSession

(* Messages leave the flight that the station has executed.                *)
LEMMA SameNumbers ==
    ASSUME NEW cl, NEW new, NEW st, NEW d, NEW calls, NEW s, InSession(cl, st, d, calls, s),
           new.sendQueue = cl.sendQueue, new.emitted = cl.emitted,
           new.seqNumber = cl.seqNumber, new.p2pSeqMapping = cl.p2pSeqMapping,
           new.p2pDataSeqNumber = cl.p2pDataSeqNumber, new.wire = cl.wire,
           TimersInFlight(new), InFlightIsOnWire(new, st),
           0 \in DOMAIN cl.messageStates <=> 0 \in DOMAIN new.messageStates,
           \A w \in cl.wire \ Executed(st) : w.sequence \in DOMAIN new.messageStates
    PROVE  InSession(new, st, d, calls, s)
<1>1. WireInOrder(new, st, s)
  BY DEF InSession, WireInOrder
<1>2. StationInOrder(new, st) /\ OwnResults(new) /\ Queued(new) \cap Gateways = {}
  BY DEF InSession, StationInOrder, OwnResults, Queued
<1>3. KeyPending(cl, st, d, calls, s) => KeyPending(new, st, d, calls, s)
  BY DEF KeyPending
<1>4. Numbered(cl, st, d, calls, s) => Numbered(new, st, d, calls, s)
  BY DEF Numbered
<1> QED
  BY <1>1, <1>2, <1>3, <1>4 DEF InSession

LEMMA SendFirstFields ==
    ASSUME NEW cl, Typed(cl), NEW m \in Messages,
           cl.seqNumber < MAX_SEQUENCE_NUMBER, cl.p2pDataSeqNumber < MAX_SEQUENCE_NUMBER
    PROVE  LET new == SendFirst(cl, m)
               n   == cl.seqNumber
           IN  /\ new.messageStates = Put(cl.messageStates, n, m)
               /\ \A k \in Messages \ {m} : new.state[k] = cl.state[k]
               /\ ~new.state[m].failed /\ ~new.state[m].acknowledged
               /\ new.state[m].timeout = "acknowledge"
               /\ new.seqNumber = n + 1
               /\ new.wire = cl.wire \cup {Packet(n, m)}
               /\ new.p2pSeqMapping = IF m \in Pings THEN cl.p2pSeqMapping
                                      ELSE Put(cl.p2pSeqMapping, cl.p2pDataSeqNumber, n)
               /\ new.p2pDataSeqNumber = IF m \in Pings THEN cl.p2pDataSeqNumber
                                         ELSE cl.p2pDataSeqNumber + 1
               /\ new.sendQueue = cl.sendQueue /\ new.emitted = cl.emitted
<1> DEFINE n == cl.seqNumber
           a == [cl EXCEPT !.state[m] = NewMessageState(cl.seqNumber),
                           !.seqNumber = IncrementSequence(@)]
           new == Transmit(a, TRUE, m)
<1>1. SendFirst(cl, m) = new
  BY DEF SendFirst
<1>a. /\ IncrementSequence(cl.seqNumber) = cl.seqNumber + 1
      /\ IncrementSequence(cl.p2pDataSeqNumber) = cl.p2pDataSeqNumber + 1
  BY NextNumber DEF Typed
<1>2. /\ DOMAIN a = ClientFields /\ a.seqNumber = n + 1
      /\ a.state = [cl.state EXCEPT ![m] = NewMessageState(n)]
      /\ a.sendQueue = cl.sendQueue /\ a.emitted = cl.emitted
      /\ a.messageStates = cl.messageStates /\ a.p2pSeqMapping = cl.p2pSeqMapping
      /\ a.p2pDataSeqNumber = cl.p2pDataSeqNumber /\ a.wire = cl.wire
  BY <1>a DEF Typed, ClientFields
<1> HIDE DEF a
<1>3. /\ n \in Nat /\ NewMessageState(n) \in MessageState
      /\ NewMessageState(n).sequence = n
      /\ ~NewMessageState(n).failed /\ ~NewMessageState(n).acknowledged
  BY NewMessageStateTyped DEF Typed, NewMessageState
<1>4. a.state \in [Messages -> MessageState] /\ a.state[m] = NewMessageState(n)
  BY <1>2, <1>3 DEF Typed
<1>5. a.state[m].sequence = n
  BY <1>3, <1>4
<1>6. /\ new.messageStates = Put(cl.messageStates, n, m)
      /\ new.state = [a.state EXCEPT ![m].timeout = "acknowledge"]
      /\ new.seqNumber = n + 1
      /\ new.wire = cl.wire \cup {Packet(n, m)}
      /\ new.p2pSeqMapping = IF m \in Pings THEN cl.p2pSeqMapping
                             ELSE Put(cl.p2pSeqMapping, cl.p2pDataSeqNumber, n)
      /\ new.p2pDataSeqNumber = IF m \in Pings THEN cl.p2pDataSeqNumber
                                ELSE cl.p2pDataSeqNumber + 1
      /\ new.sendQueue = cl.sendQueue /\ new.emitted = cl.emitted
  BY <1>2, <1>5, <1>a DEF Transmit, ClientFields, Packet
<1> HIDE DEF new, n
<1>7. /\ \A k \in Messages \ {m} : new.state[k] = a.state[k]
      /\ ~new.state[m].failed /\ ~new.state[m].acknowledged
      /\ new.state[m].timeout = "acknowledge"
  BY <1>3, <1>4, <1>6 DEF MessageState
<1>8. \A k \in Messages \ {m} : a.state[k] = cl.state[k]
  BY <1>2 DEF Typed
<1> QED
  BY <1>1, <1>6, <1>7, <1>8 DEF n

(* Nothing is sent before all that was sent is executed.                   *)
LEMMA AllIsExecuted ==
    ASSUME NEW cl, NEW st, NEW d, NEW calls, NEW s \in Gateways,
           InSession(cl, st, d, calls, s), ~IsBlocked(cl)
    PROVE  0 \notin DOMAIN cl.messageStates /\ cl.wire \subseteq Executed(st)
<1>1. \A n \in DOMAIN cl.messageStates :
          /\ Packet(n, cl.messageStates[n]) \in Executed(st)
          /\ Packet(n, cl.messageStates[n]) \in cl.wire
          /\ cl.messageStates[n] \notin Gateways
  BY DEF IsBlocked, InSession, InFlightIsOnWire
<1>2. \A n, m : Packet(n, m).sequence = n /\ Packet(n, m).message = m
  BY DEF Packet
<1>3. ASSUME 0 \in DOMAIN cl.messageStates PROVE FALSE
  <2>1. Packet(0, cl.messageStates[0]) \in cl.wire /\ Packet(0, s) \in cl.wire
    BY <1>1, <1>3 DEF InSession, WireInOrder
  <2>2. Packet(0, cl.messageStates[0]) = Packet(0, s)
    BY <1>2, <2>1 DEF InSession, WireInOrder
  <2>3. cl.messageStates[0] = s
    BY <1>2, <2>2
  <2> QED
    BY <1>1, <1>3, <2>3
<1>4. ASSUME NEW w \in cl.wire PROVE w \in Executed(st)
  <2> SUFFICES ASSUME w \notin Executed(st) PROVE FALSE
    OBVIOUS
  <2>1. w.sequence \in DOMAIN cl.messageStates
    BY DEF InSession, WireInOrder
  <2>2. Packet(w.sequence, cl.messageStates[w.sequence]) = w
    BY <1>1, <1>2, <2>1 DEF InSession, WireInOrder
  <2> QED
    BY <1>1, <2>1, <2>2
<1> QED
  BY <1>3, <1>4

LEMMA SendFirstInSession ==
    ASSUME NEW known, NEW cl, Good(cl, known), NEW st \in StationType, NEW d \in Nat,
           NEW calls, NEW s \in Gateways,
           InSession(cl, st, d, calls, s), ~IsBlocked(cl), NEW m \in Commands \cup Pings,
           cl.seqNumber < MAX_SEQUENCE_NUMBER
    PROVE  InSession(SendFirst(cl, m), st, d, calls, s)
<1> DEFINE new == SendFirst(cl, m)
           n == cl.seqNumber
           D == cl.p2pDataSeqNumber
<1>1. /\ new.messageStates = Put(cl.messageStates, n, m)
      /\ \A k \in Messages \ {m} : new.state[k] = cl.state[k]
      /\ ~new.state[m].failed /\ ~new.state[m].acknowledged
      /\ new.state[m].timeout = "acknowledge"
      /\ new.seqNumber = n + 1
      /\ new.wire = cl.wire \cup {Packet(n, m)}
      /\ new.p2pSeqMapping = IF m \in Pings THEN cl.p2pSeqMapping ELSE Put(cl.p2pSeqMapping, D, n)
      /\ new.p2pDataSeqNumber = IF m \in Pings THEN D ELSE D + 1
      /\ new.sendQueue = cl.sendQueue /\ new.emitted = cl.emitted
  <2>1. Typed(cl) /\ m \in Messages
    BY DEF Good, Messages
  <2>2. cl.p2pDataSeqNumber <= cl.seqNumber
    BY AllIsExecuted DEF InSession, Numbered
  <2>3. cl.p2pDataSeqNumber < MAX_SEQUENCE_NUMBER
    BY <2>1, <2>2, CommandAssumption DEF Typed
  <2> QED
    BY <2>1, <2>3, SendFirstFields
<1> HIDE DEF new
<1>2. /\ \A k, l : Packet(k, l).sequence = k /\ Packet(k, l).message = l
      /\ n \in Nat /\ D \in Int /\ m \notin Gateways /\ m \in Messages
      /\ \A w \in cl.wire : w \in Packets /\ w.sequence \in Nat
      /\ m \in Pings => m \notin Commands
  BY CommandAssumption DEF Good, Typed, Packet, Packets, Messages
<1>3. /\ 0 \notin DOMAIN cl.messageStates /\ cl.wire \subseteq Executed(st)
      /\ Numbered(cl, st, d, calls, s)
  BY AllIsExecuted DEF InSession
<1>4. /\ n > 0 /\ \A w \in cl.wire : w.sequence < n
      /\ Packet(n, m) \notin cl.wire /\ n \notin DOMAIN cl.messageStates
  <2>1. Packet(0, s) \in cl.wire /\ \A w \in cl.wire : w.sequence < n
    BY DEF InSession, WireInOrder
  <2>2. \A k \in DOMAIN cl.messageStates : Packet(k, cl.messageStates[k]) \in cl.wire
    BY DEF InSession, InFlightIsOnWire
  <2> QED
    BY <1>2, <2>1, <2>2
<1>5. /\ DOMAIN new.messageStates = DOMAIN cl.messageStates \cup {n}
      /\ new.messageStates[n] = m
      /\ \A k \in DOMAIN cl.messageStates : new.messageStates[k] = cl.messageStates[k]
  BY <1>1, <1>4 DEF Put
<1>6. TimersInFlight(new)
  <2> SUFFICES ASSUME NEW k \in Messages
               PROVE  /\ ~new.state[k].failed
                      /\ new.state[k].timeout # "none" => ~NotInFlight(new, k)
                      /\ new.state[k].timeout = "result" => new.state[k].acknowledged
    BY DEF TimersInFlight
  <2>1. CASE k = m
    BY <1>1, <1>5, <2>1 DEF NotInFlight
  <2>2. CASE k # m
    BY <1>1, <1>5, <2>2 DEF InSession, TimersInFlight, NotInFlight
  <2> QED
    BY <2>1, <2>2
<1>7. OwnResults(new) /\ Queued(new) \cap Gateways = {}
  BY <1>1 DEF InSession, OwnResults, Queued
<1>8. WireInOrder(new, st, s)
  <2>1. Packet(0, s) \in new.wire
    BY <1>1 DEF InSession, WireInOrder
  <2>2. \A w \in new.wire :
            w.sequence < new.seqNumber /\ (w.message \in Gateways => w = Packet(0, s))
    <3>1. \A w \in cl.wire : w.sequence < n /\ (w.message \in Gateways => w = Packet(0, s))
      BY DEF InSession, WireInOrder
    <3> QED
      BY <1>1, <1>2, <3>1
  <2>3. \A v, w \in new.wire : v.sequence = w.sequence => v = w
    <3>1. \A v, w \in cl.wire : v.sequence = w.sequence => v = w
      BY DEF InSession, WireInOrder
    <3> QED
      BY <1>1, <1>2, <1>4, <3>1
  <2>4. \A w \in new.wire \ Executed(st) :
            w.sequence \in DOMAIN new.messageStates /\ w.sequence = new.seqNumber - 1
    BY <1>1, <1>2, <1>3, <1>5
  <2> QED
    BY <2>1, <2>2, <2>3, <2>4 DEF WireInOrder
<1>9. InFlightIsOnWire(new, st)
  <2> SUFFICES ASSUME NEW k \in DOMAIN new.messageStates
               PROVE  /\ Packet(k, new.messageStates[k]) \in new.wire
                      /\ new.state[new.messageStates[k]].acknowledged =>
                            Packet(k, new.messageStates[k]) \in Executed(st)
    BY DEF InFlightIsOnWire
  <2>1. CASE k = n
    BY <1>1, <1>5, <2>1
  <2>2. CASE k # n
    BY <1>1, <1>3, <1>5, <2>2 DEF InSession, InFlightIsOnWire
  <2> QED
    BY <2>1, <2>2
<1>10. StationInOrder(new, st)
  BY <1>1 DEF InSession, StationInOrder
<1>11. Numbered(new, st, d, calls, s)
  <2> DEFINE L == Len(st.results)
  <2>1. L \in Nat /\ d <= L /\ L <= D
    BY <1>3 DEF Numbered, StationType
  <2>a. new.p2pDataSeqNumber <= new.seqNumber
    <3>1. D <= n
      BY <1>3 DEF Numbered
    <3> QED
      BY <1>1, <1>2, <3>1
  <2>2. CASE m \in Pings
    <3>1. new.p2pSeqMapping = cl.p2pSeqMapping /\ new.p2pDataSeqNumber = D
      BY <1>1, <2>2
    <3>2. \A w \in new.wire \ Handled(st) : w.message \in Commands => w \in cl.wire
      BY <1>1, <1>2, <2>2
    <3>3. cl.wire \subseteq new.wire
      BY <1>1
    <3> HIDE DEF D
    <3>4. \A k \in DOMAIN new.p2pSeqMapping :
            /\ new.p2pSeqMapping[k] \in Nat \ {0}
            /\ \E c \in Commands : Packet(new.p2pSeqMapping[k], c) \in new.wire
      BY <1>3, <3>1, <3>3 DEF Numbered
    <3>5. \A w \in new.wire \ Handled(st) :
            w.message \in Commands =>
                \E k \in Len(st.results)..(new.p2pDataSeqNumber - 1) :
                    new.p2pSeqMapping[k] = w.sequence
      BY <1>3, <3>1, <3>2 DEF Numbered, D
    <3> QED
      BY <1>3, <2>a, <3>1, <3>4, <3>5 DEF Numbered, D
  <2>3. CASE m \notin Pings
    <3>1. new.p2pSeqMapping = Put(cl.p2pSeqMapping, D, n) /\ new.p2pDataSeqNumber = D + 1
      BY <1>1, <2>3
    <3>2. DOMAIN cl.p2pSeqMapping = d..(D - 1)
      BY <1>3 DEF Numbered
    <3>3. /\ DOMAIN new.p2pSeqMapping = d..D
          /\ new.p2pSeqMapping[D] = n
          /\ \A k \in d..(D - 1) : new.p2pSeqMapping[k] = cl.p2pSeqMapping[k]
      BY <1>2, <2>1, <3>1, <3>2 DEF Put
    <3>4. \A k \in d..D : k \in d..(D - 1) \/ k = D
      BY <1>2, <2>1
    <3>5. \A k \in d..(D - 1) :
            /\ cl.p2pSeqMapping[k] \in Nat \ {0}
            /\ cl.p2pSeqMapping[k] < n
            /\ \E c \in Commands : Packet(cl.p2pSeqMapping[k], c) \in cl.wire
      BY <1>2, <1>3, <1>4, <3>2 DEF Numbered
    <3>6. /\ calls = {} /\ ~st.keySent /\ Packet(0, s) \in Handled(st)
          /\ d <= L /\ L <= D + 1
      BY <1>2, <1>3, <2>1 DEF Numbered
    <3>7. \A k \in d..D :
            /\ new.p2pSeqMapping[k] \in Nat \ {0}
            /\ \E c \in Commands : Packet(new.p2pSeqMapping[k], c) \in new.wire
      <4>1. m \in Commands /\ Packet(n, m) \in new.wire /\ cl.wire \subseteq new.wire
        BY <1>1, <2>3
      <4>2. n \in Nat \ {0}
        BY <1>2, <1>4
      <4> QED
        BY <3>3, <3>4, <3>5, <4>1, <4>2
    <3>8. \A k, l \in d..D : k < l => new.p2pSeqMapping[k] < new.p2pSeqMapping[l]
      <4>1. \A k, l \in d..(D - 1) : k < l => cl.p2pSeqMapping[k] < cl.p2pSeqMapping[l]
        BY <1>3, <3>2 DEF Numbered
      <4> SUFFICES ASSUME NEW k \in d..D, NEW l \in d..D, k < l
                   PROVE  new.p2pSeqMapping[k] < new.p2pSeqMapping[l]
        OBVIOUS
      <4>2. k \in d..(D - 1)
        BY <1>2, <2>1
      <4> QED
        BY <3>3, <3>4, <3>5, <4>1, <4>2
    <3>9. \A k \in d..(L - 1) :
            Packet(new.p2pSeqMapping[k], st.results[k + 1].of) \in Executed(st)
      <4>1. \A k \in d..(L - 1) : k \in d..(D - 1)
        BY <1>2, <2>1
      <4> QED
        BY <1>3, <3>3, <4>1 DEF Numbered
    <3>10. \A w \in new.wire \ Handled(st) :
            w.message \in Commands => \E k \in L..D : new.p2pSeqMapping[k] = w.sequence
      <4> SUFFICES ASSUME NEW w \in new.wire \ Handled(st), w.message \in Commands
                   PROVE  \E k \in L..D : new.p2pSeqMapping[k] = w.sequence
        OBVIOUS
      <4>1. CASE w = Packet(n, m)
        <5>1. D \in L..D
          BY <1>2, <2>1
        <5> QED
          BY <1>2, <3>3, <4>1, <5>1
      <4>2. CASE w \in cl.wire
        <5>1. PICK k \in L..(D - 1) : cl.p2pSeqMapping[k] = w.sequence
          BY <1>3, <4>2 DEF Numbered
        <5>2. k \in d..(D - 1) /\ k \in L..D
          BY <1>2, <2>1
        <5> QED
          BY <3>3, <5>1, <5>2
      <4> QED
        BY <1>1, <4>1, <4>2
    <3>11. \A w \in Handled(st) : \A k \in L..D : new.p2pSeqMapping[k] # w.sequence
      <4> SUFFICES ASSUME NEW w \in Handled(st), NEW k \in L..D
                   PROVE  new.p2pSeqMapping[k] # w.sequence
        OBVIOUS
      <4>1. CASE k = D
        <5>1. w \in Executed(st)
          BY DEF Handled, Executed, InSession, StationInOrder, StationType
        <5>2. w \in cl.wire
          BY <5>1 DEF InSession, StationInOrder
        <5> QED
          BY <1>2, <1>4, <3>3, <4>1, <5>2
      <4>2. CASE k # D
        <5>1. k \in L..(D - 1) /\ k \in d..(D - 1)
          BY <1>2, <2>1, <4>2
        <5> QED
          BY <1>3, <3>3, <5>1 DEF Numbered
      <4> QED
        BY <4>1, <4>2
    <3>12. (D + 1) - 1 = D
      BY <1>2
    <3> HIDE DEF D
    <3> QED
      BY <2>a, <3>1, <3>3, <3>6, <3>7, <3>8, <3>9, <3>10, <3>11, <3>12 DEF Numbered
  <2> QED
    BY <2>2, <2>3
<1>12. 0 \notin DOMAIN new.messageStates
  BY <1>2, <1>3, <1>4, <1>5
<1>13. InSession(new, st, d, calls, s)
  BY <1>6, <1>7, <1>8, <1>9, <1>10, <1>11, <1>12 DEF InSession
<1> QED
  BY <1>13 DEF new

LEMMA EmitInSession ==
    ASSUME NEW known, NEW cl, Good(cl, known), NEW st, NEW d, NEW calls, NEW s,
           InSession(cl, st, d, calls, s),
           NEW m \in Messages, cl.emitted[m] = << >>,
           NEW o, o.kind = "result" => o.of = m
    PROVE  InSession(Emit(cl, m, o), st, d, calls, s)
<1> DEFINE new == Emit(cl, m, o)
<1>1. /\ new.messageStates = cl.messageStates /\ new.state = cl.state
      /\ new.seqNumber = cl.seqNumber /\ new.p2pDataSeqNumber = cl.p2pDataSeqNumber
      /\ new.p2pSeqMapping = cl.p2pSeqMapping /\ new.wire = cl.wire
      /\ new.sendQueue = cl.sendQueue
      /\ new.emitted = [cl.emitted EXCEPT ![m] = Append(@, o)]
  BY DEF Good, Typed, Emit, ClientFields
<1>2. cl.emitted \in [Messages -> Seq(Outcomes)]
  BY DEF Good, Typed
<1> HIDE DEF new
<1>3. OwnResults(new)
  <2> SUFFICES ASSUME NEW c \in Commands, NEW x \in ToSet(new.emitted[c]), x.kind = "result"
               PROVE  x.of = c
    BY DEF OwnResults
  <2>1. CASE c = m
    <3>1. new.emitted[c] = <<o>>
      BY <1>1, <1>2, <2>1
    <3>2. x = o
      BY <3>1 DEF ToSet
    <3> QED
      BY <2>1, <3>2
  <2>2. CASE c # m
    <3>1. new.emitted[c] = cl.emitted[c]
      BY <1>1, <1>2, <2>2 DEF Messages
    <3> QED
      BY <3>1 DEF InSession, OwnResults
  <2> QED
    BY <2>1, <2>2
<1>4. Queued(new) \cap Gateways = {}
  BY <1>1 DEF InSession, Queued
<1>5. InSession(new, st, d, calls, s)
  BY <1>1, <1>3, <1>4, SameWire
<1> QED
  BY <1>5 DEF new

LEMMA SendQueuedMessageInSession ==
    ASSUME NEW known, NEW cl, Good(cl, known), NEW st \in StationType, NEW d \in Nat,
           NEW calls, NEW s \in Gateways, InSession(cl, st, d, calls, s), NEW tooOld,
           cl.seqNumber < MAX_SEQUENCE_NUMBER
    PROVE  InSession(SendQueuedMessage(cl, TRUE, tooOld), st, d, calls, s)
<1>1. CASE cl.sendQueue = << >> \/ IsBlocked(cl)
  BY <1>1 DEF SendQueuedMessage
<1>2. CASE ~(cl.sendQueue = << >> \/ IsBlocked(cl))
  <2> DEFINE m == Head(cl.sendQueue)
             rest == [cl EXCEPT !.sendQueue = Tail(@)]
  <2>1. SendQueuedMessage(cl, TRUE, tooOld) =
            IF tooOld THEN AgeOut(rest, m) ELSE SendFirst(rest, m)
    BY <1>2 DEF SendQueuedMessage
  <2>2. cl.sendQueue \in Seq(Messages) /\ cl.sendQueue # << >> /\ NoDuplicates(cl.sendQueue)
    BY <1>2 DEF Good, Typed
  <2>3. /\ m \in Messages /\ m \in Queued(cl)
        /\ Tail(cl.sendQueue) \in Seq(Messages)
        /\ NoDuplicates(Tail(cl.sendQueue))
        /\ Elements(Tail(cl.sendQueue)) = Queued(cl) \ {m}
    BY <2>2, TailOfQueue DEF Queued
  <2>4. /\ DOMAIN rest = ClientFields
        /\ rest.sendQueue = Tail(cl.sendQueue)
        /\ rest.messageStates = cl.messageStates /\ rest.state = cl.state
        /\ rest.seqNumber = cl.seqNumber /\ rest.p2pDataSeqNumber = cl.p2pDataSeqNumber
        /\ rest.p2pSeqMapping = cl.p2pSeqMapping
        /\ rest.p2pKey = cl.p2pKey /\ rest.wire = cl.wire /\ rest.emitted = cl.emitted
    BY DEF Good, Typed, ClientFields
  <2> HIDE DEF rest, m
  <2>5. m \in Commands \cup Pings
    BY <2>3 DEF InSession, Messages
  <2>6. Queued(rest) = Queued(cl) \ {m} /\ Queued(rest) \cap Gateways = {}
    BY <2>3, <2>4 DEF Queued, InSession
  <2>7. Good(rest, known)
    <3>1. Typed(rest)
      BY <2>3, <2>4 DEF Good, Typed
    <3> QED
      BY <2>3, <2>4, <2>6, <3>1
      DEF Good, OnePlace, UnderItsNumber, IsFresh, IsReady, IsIdle, NotInFlight
  <2>8. InSession(rest, st, d, calls, s)
    <3>1. OwnResults(rest)
      BY <2>4 DEF InSession, OwnResults
    <3> QED
      BY <2>4, <2>6, <3>1, SameWire
  <2>9. ~IsBlocked(rest)
    BY <1>2, <2>4 DEF IsBlocked
  <2>10. InSession(SendFirst(rest, m), st, d, calls, s)
    BY <2>4, <2>5, <2>7, <2>8, <2>9, SendFirstInSession
  <2>11. InSession(AgeOut(rest, m), st, d, calls, s)
    <3>1. CASE m \in Pings
      BY <2>8, <3>1 DEF AgeOut
    <3>2. CASE m \notin Pings
      <4> DEFINE o == [kind |-> "connectTimeout"]
      <4>1. rest.emitted[m] = << >>
        BY <2>3, <2>4 DEF Good, OnePlace
      <4>2. o.kind # "result"
        OBVIOUS
      <4> HIDE DEF o
      <4>3. InSession(Emit(rest, m, o), st, d, calls, s)
        BY <2>3, <2>7, <2>8, <4>1, <4>2, EmitInSession
      <4> QED
        BY <3>2, <4>3 DEF AgeOut, o
    <3> QED
      BY <3>1, <3>2
  <2> QED
    BY <2>1, <2>10, <2>11
<1> QED
  BY <1>1, <1>2

LEMMA EmptyIsNothing ==
    ASSUME NEW st, st = InitialStation
    PROVE  /\ Executed(st) = {} /\ Handled(st) = {} /\ st.handled = 0
           /\ Len(st.executed) = 0 /\ st.results = << >> /\ ~st.keySent
  BY DEF InitialStation, Executed, Handled

LEMMA InitNumbers == Init => NumbersInv
<1> SUFFICES ASSUME Init PROVE NumbersInv
  OBVIOUS
<1>1. QueueInv
  BY InitQueue
<1>2. /\ client.sendQueue = << >> /\ client.messageStates = EmptyFunction
      /\ client.state = [m \in Messages |-> NewMessageState(0)]
      /\ client.p2pSeqMapping = EmptyFunction
      /\ client.seqNumber = 0 /\ client.p2pDataSeqNumber = 0 /\ client.wire = {}
      /\ client.emitted = [m \in Messages |-> << >>]
  BY DEF Init
<1>3. TimersInFlight(client)
  BY <1>2 DEF TimersInFlight, NewMessageState
<1>4. OwnResults(client)
  BY <1>2 DEF OwnResults, ToSet, Messages
<1>5. Queued(client) = {}
  BY <1>2 DEF Queued, Elements
<1>6. OutOfSession(client)
  BY <1>2, <1>3, <1>4, <1>5 DEF OutOfSession, EmptyFunction
<1> QED
  BY <1>6 DEF Init, NumbersInv

Reliable == Faults \subseteq {"aged"}

LEMMA SendCommandNumbers ==
    ASSUME QueueInv, NumbersInv, NumbersLast, NEW m \in Commands \cup Pings, NEW tooOld,
           SendCommand(m, tooOld)
    PROVE  NumbersInv'
<1> DEFINE appended == [client EXCEPT !.sendQueue = Append(client.sendQueue, m)]
<1>1. m \in Messages \ Known /\ m \notin Gateways
  BY CommandAssumption DEF SendCommand, Messages, Gateways, Known, QueueInv, SessionTyped
<1>2. Good(client, Known) /\ IsFresh(client, m) /\ client.sendQueue \in Seq(Messages)
      /\ NoDuplicates(client.sendQueue) /\ m \notin Elements(client.sendQueue)
  BY <1>1 DEF QueueInv, Good, Typed, IsFresh, IsReady, Queued
<1>3. /\ Append(client.sendQueue, m) \in Seq(Messages)
      /\ NoDuplicates(Append(client.sendQueue, m))
      /\ Elements(Append(client.sendQueue, m)) = Queued(client) \cup {m}
  BY <1>1, <1>2, AppendToQueue DEF Queued
<1>4. Good(appended, Known \cup {m})
  BY <1>1, <1>2, <1>3, EnqueuedGood
<1>5. client' = SendQueuedMessage(appended, connected, tooOld)
  BY DEF SendCommand
<1>6. /\ appended.sendQueue = Append(client.sendQueue, m)
      /\ appended.messageStates = client.messageStates /\ appended.state = client.state
      /\ appended.seqNumber = client.seqNumber
      /\ appended.p2pDataSeqNumber = client.p2pDataSeqNumber
      /\ appended.p2pSeqMapping = client.p2pSeqMapping
      /\ appended.wire = client.wire /\ appended.emitted = client.emitted
  BY <1>2 DEF Good, Typed, ClientFields
<1>7. UNCHANGED <<connected, sessions, station, delivered, cipherCalls>>
  BY DEF SendCommand
<1> HIDE DEF appended
<1>8. OwnResults(client) => OwnResults(appended)
  BY <1>6 DEF OwnResults
<1>9. Queued(client) \cap Gateways = {} => Queued(appended) \cap Gateways = {}
  BY <1>1, <1>3, <1>6 DEF Queued
<1>10. CASE connected
  <2>1. InSession(client, station, delivered, cipherCalls, sessions)
    BY <1>10 DEF NumbersInv
  <2>2. InSession(appended, station, delivered, cipherCalls, sessions)
    <3>1. OwnResults(appended) /\ Queued(appended) \cap Gateways = {}
      BY <1>8, <1>9, <2>1 DEF InSession
    <3> QED
      BY <1>6, <2>1, <3>1, SameWire
  <2>3. sessions \in Gateways /\ station \in StationType /\ delivered \in Nat
    BY <1>10 DEF QueueInv, SessionTyped, Gateways
  <2>4. client' = SendQueuedMessage(appended, TRUE, tooOld)
    BY <1>5, <1>10 DEF SendQueuedMessage
  <2>5. InSession(client', station, delivered, cipherCalls, sessions)
    BY <1>4, <1>6, <2>2, <2>3, <2>4, SendQueuedMessageInSession DEF NumbersLast
  <2> QED
    BY <1>7, <1>10, <2>5 DEF NumbersInv
<1>11. CASE ~connected
  <2>1. client' = appended
    BY <1>5, <1>11 DEF SendQueuedMessage
  <2>2. OutOfSession(client)
    BY <1>11 DEF NumbersInv
  <2>3. TimersInFlight(appended)
    BY <1>6, <2>2 DEF OutOfSession, TimersInFlight, NotInFlight
  <2>4. OutOfSession(appended)
    BY <1>6, <1>8, <1>9, <2>2, <2>3 DEF OutOfSession
  <2> QED
    BY <1>7, <1>11, <2>1, <2>4 DEF NumbersInv
<1> QED
  BY <1>10, <1>11

(* The last message sent is executed last.                                 *)
LEMMA StationExecutesNumbers ==
    ASSUME QueueInv, NumbersInv, NEW w \in client.wire, StationExecutes(w)
    PROVE  NumbersInv'
<1>1. /\ connected /\ w \notin Executed(station)
      /\ UNCHANGED <<connected, sessions, client, delivered, cipherCalls>>
      /\ station' = [station EXCEPT !.executed = Append(station.executed, w)]
  BY DEF StationExecutes, ToSet, Executed
<1>2. InSession(client, station, delivered, cipherCalls, sessions)
  BY <1>1 DEF NumbersInv
<1>3. station \in StationType /\ client.seqNumber \in Nat
      /\ \A v \in client.wire : v.sequence \in Nat
  BY DEF QueueInv, SessionTyped, Good, Typed, Packets
<1>4. /\ station'.executed = Append(station.executed, w)
      /\ station'.handled = station.handled /\ station'.results = station.results
      /\ station'.keySent = station.keySent
      /\ station.executed \in Seq(Packets) /\ station.handled \in Nat
  BY <1>1, <1>3 DEF StationType
<1>5. /\ Len(station.executed) \in Nat
      /\ Len(station'.executed) = Len(station.executed) + 1
      /\ \A i \in 1..Len(station.executed) : station'.executed[i] = station.executed[i]
      /\ station'.executed[Len(station.executed) + 1] = w
  BY <1>4
<1>6. \A i \in 1..Len(station.executed) + 1 :
          i \in 1..Len(station.executed) \/ i = Len(station.executed) + 1
  BY <1>5
<1>7. Executed(station') = Executed(station) \cup {w}
  BY <1>5, <1>6 DEF Executed
<1>8. Handled(station') = Handled(station)
  <2>1. station.handled <= Len(station.executed)
    BY <1>2 DEF InSession, StationInOrder
  <2>2. \A i \in 1..station.handled : station'.executed[i] = station.executed[i]
    BY <1>4, <1>5, <2>1
  <2> QED
    BY <1>4, <2>2 DEF Handled
<1>9. StationInOrder(client, station')
  <2>1. \A i \in 1..Len(station.executed) : station.executed[i].sequence < w.sequence
    <3> SUFFICES ASSUME NEW i \in 1..Len(station.executed)
                 PROVE  station.executed[i].sequence < w.sequence
      OBVIOUS
    <3>1. station.executed[i] \in client.wire /\ station.executed[i] # w
      BY <1>1, <1>2 DEF InSession, StationInOrder, Executed
    <3>2. /\ station.executed[i].sequence < client.seqNumber
          /\ station.executed[i].sequence # w.sequence
          /\ w.sequence = client.seqNumber - 1
      BY <1>1, <1>2, <3>1 DEF InSession, WireInOrder
    <3> QED
      BY <1>3, <3>1, <3>2
  <2>2. ASSUME NEW i \in 1..Len(station'.executed), NEW j \in 1..Len(station'.executed), i < j
        PROVE  station'.executed[i].sequence < station'.executed[j].sequence
    <3>1. i \in 1..Len(station.executed)
      BY <1>5, <2>2
    <3>2. CASE j = Len(station.executed) + 1
      BY <1>5, <2>1, <3>1, <3>2
    <3>3. CASE j \in 1..Len(station.executed)
      BY <1>2, <1>5, <2>2, <3>1, <3>3 DEF InSession, StationInOrder
    <3> QED
      BY <1>5, <1>6, <3>2, <3>3
  <2>3. Executed(station') \subseteq client.wire
    BY <1>2, <1>7 DEF InSession, StationInOrder
  <2>4. station'.handled <= Len(station'.executed)
    BY <1>2, <1>4, <1>5 DEF InSession, StationInOrder
  <2> QED
    BY <1>2, <1>4, <2>2, <2>3, <2>4 DEF InSession, StationInOrder
<1>10. WireInOrder(client, station', sessions) /\ InFlightIsOnWire(client, station')
  BY <1>2, <1>7 DEF InSession, WireInOrder, InFlightIsOnWire
<1>11. KeyPending(client, station, delivered, cipherCalls, sessions) =>
           KeyPending(client, station', delivered, cipherCalls, sessions)
  BY <1>4, <1>8 DEF KeyPending
<1>12. Numbered(client, station, delivered, cipherCalls, sessions) =>
           Numbered(client, station', delivered, cipherCalls, sessions)
  BY <1>4, <1>7, <1>8 DEF Numbered
<1>13. InSession(client, station', delivered, cipherCalls, sessions)
  BY <1>2, <1>9, <1>10, <1>11, <1>12 DEF InSession
<1> QED
  BY <1>1, <1>13 DEF NumbersInv

LEMMA ReceiveKeyNumbers ==
    ASSUME QueueInv, NumbersInv, ReceiveKey
    PROVE  NumbersInv'
<1>1. /\ connected /\ station.keySent
      /\ UNCHANGED <<connected, sessions, client, delivered>>
      /\ station' = [station EXCEPT !.keySent = FALSE]
      /\ cipherCalls' = cipherCalls \cup {sessions}
  BY DEF ReceiveKey
<1>2. InSession(client, station, delivered, cipherCalls, sessions)
  BY <1>1 DEF NumbersInv
<1>3. station \in StationType
  BY DEF QueueInv, SessionTyped
<1>4. /\ station'.executed = station.executed
      /\ station'.handled = station.handled /\ station'.results = station.results
      /\ station'.keySent = FALSE
  BY <1>1, <1>3 DEF StationType
<1>5. Executed(station') = Executed(station) /\ Handled(station') = Handled(station)
  BY <1>4 DEF Executed, Handled
<1>6. 0 \in DOMAIN client.messageStates
  BY <1>1, <1>2 DEF InSession, Numbered
<1>7. KeyPending(client, station', delivered, cipherCalls', sessions)
  BY <1>1, <1>2, <1>4, <1>5, <1>6 DEF InSession, KeyPending
<1>8. InSession(client, station', delivered, cipherCalls', sessions)
  BY <1>2, <1>4, <1>5, <1>6, <1>7
  DEF InSession, WireInOrder, InFlightIsOnWire, StationInOrder
<1> QED
  BY <1>1, <1>8 DEF NumbersInv

(* A result is given for the command with the next DATA number.            *)
LEMMA StationAnswersNumbers ==
    ASSUME Reliable, QueueInv, NumbersInv, StationAnswers
    PROVE  NumbersInv'
<1> DEFINE w == station.executed[station.handled + 1]
           m == w.message
           L == Len(station.results)
           D == client.p2pDataSeqNumber
           map == client.p2pSeqMapping
<1>1. /\ connected /\ station.handled < Len(station.executed)
      /\ UNCHANGED <<connected, sessions, client, delivered, cipherCalls>>
  BY DEF StationAnswers
<1>2. InSession(client, station, delivered, cipherCalls, sessions)
  BY <1>1 DEF NumbersInv
<1>3. /\ station \in StationType /\ station.handled \in Nat /\ station.executed \in Seq(Packets)
      /\ station.results \in Seq(Results) /\ L \in Nat /\ D \in Int
      /\ client.seqNumber \in Nat /\ delivered \in Nat
      /\ sessions \in Gateways /\ station.keySent \in BOOLEAN
  BY <1>1 DEF QueueInv, SessionTyped, Good, Typed, StationType, Gateways
<1>4. /\ station.handled + 1 \in 1..Len(station.executed)
      /\ w \in Packets /\ m \in Messages /\ w.sequence \in Nat
      /\ w \in Executed(station) /\ w \in client.wire
  <2>1. station.handled + 1 \in 1..Len(station.executed)
    BY <1>1, <1>3
  <2>2. w \in Packets
    BY <1>3, <2>1
  <2>3. m \in Messages /\ w.sequence \in Nat
    BY <2>2 DEF Packets
  <2>4. w \in Executed(station)
    BY <2>1 DEF Executed
  <2>5. w \in client.wire
    BY <1>2, <2>4 DEF InSession, StationInOrder
  <2> QED
    BY <2>1, <2>2, <2>3, <2>4, <2>5
<1>5. ASSUME NEW v \in Handled(station)
      PROVE  v \in Executed(station) /\ v.sequence < w.sequence
  <2>1. PICK i \in 1..station.handled : v = station.executed[i]
    BY DEF Handled
  <2>2. i \in 1..Len(station.executed) /\ i < station.handled + 1
    BY <1>1, <1>3
  <2> QED
    BY <1>2, <1>4, <2>1, <2>2 DEF InSession, StationInOrder, Executed
<1>6. w \notin Handled(station)
  BY <1>4, <1>5
<1>7. PICK code \in Answers(m) :
        station' = [station EXCEPT
            !.handled = @ + 1,
            !.keySent = @ \/ code = "key",
            !.results = IF code \in {"ok", "failed"}
                        THEN Append(@, [of |-> m, code |-> code]) ELSE @]
  BY DEF StationAnswers
<1>8. code = IF m \in Commands THEN "ok" ELSE IF m \in Gateways THEN "key" ELSE "none"
  BY <1>4, <1>7, CommandAssumption DEF Answers, Messages, Reliable
<1>9. /\ station'.executed = station.executed
      /\ station'.handled = station.handled + 1
      /\ station'.keySent = (station.keySent \/ m \in Gateways)
      /\ station'.results = IF m \in Commands
                            THEN Append(station.results, [of |-> m, code |-> "ok"])
                            ELSE station.results
  BY <1>3, <1>4, <1>7, <1>8, CommandAssumption DEF StationType
<1>10. Executed(station') = Executed(station) /\ Handled(station') = Handled(station) \cup {w}
  <2>1. \A i \in 1..station.handled + 1 : i \in 1..station.handled \/ i = station.handled + 1
    BY <1>3
  <2>2. \A i \in 1..station.handled : i \in 1..station.handled + 1
    BY <1>3
  <2>3. station.handled + 1 \in 1..station.handled + 1
    BY <1>3
  <2> QED
    BY <1>9, <2>1, <2>2, <2>3 DEF Executed, Handled
<1>11. m \in Gateways <=> w = Packet(0, sessions)
  BY <1>2, <1>3, <1>4 DEF InSession, WireInOrder, Packet
<1>12. StationInOrder(client, station')
  <2>1. Executed(station') \subseteq client.wire
    BY <1>2, <1>10 DEF InSession, StationInOrder
  <2>2. station'.handled <= Len(station'.executed)
    BY <1>1, <1>3, <1>9
  <2>3. \A i, j \in 1..Len(station'.executed) :
            i < j => station'.executed[i].sequence < station'.executed[j].sequence
    BY <1>2, <1>9 DEF InSession, StationInOrder
  <2>4. \A i \in 1..Len(station'.results) : station'.results[i].code = "ok"
    <3>1. \A i \in 1..L : station.results[i].code = "ok"
      BY <1>2 DEF InSession, StationInOrder
    <3>2. CASE m \in Commands
      <4> DEFINE r == [of |-> m, code |-> "ok"]
      <4>1. /\ Len(station'.results) = L + 1 /\ station'.results[L + 1] = r
            /\ \A i \in 1..L : station'.results[i] = station.results[i]
        BY <1>3, <1>9, <3>2
      <4>2. \A i \in 1..L + 1 : i \in 1..L \/ i = L + 1
        BY <1>3
      <4> QED
        BY <3>1, <4>1, <4>2
    <3>3. CASE m \notin Commands
      BY <1>9, <3>1, <3>3
    <3> QED
      BY <3>2, <3>3
  <2> QED
    BY <2>1, <2>2, <2>3, <2>4 DEF StationInOrder
<1>13. WireInOrder(client, station', sessions) /\ InFlightIsOnWire(client, station')
  BY <1>2, <1>10 DEF InSession, WireInOrder, InFlightIsOnWire
<1>14. CASE 0 \in DOMAIN client.messageStates
  <2>1. KeyPending(client, station, delivered, cipherCalls, sessions)
    BY <1>2, <1>14 DEF InSession
  <2>2. w = Packet(0, sessions)
    <3>1. w.sequence < 1
      BY <1>2, <1>4, <2>1 DEF InSession, WireInOrder, KeyPending
    <3>2. w.sequence = 0 /\ Packet(0, sessions).sequence = 0
      BY <1>4, <3>1 DEF Packet
    <3> QED
      BY <1>2, <1>4, <3>2 DEF InSession, WireInOrder
  <2>3. m \notin Commands /\ m \in Gateways
    BY <1>11, <2>2, CommandAssumption
  <2>4. KeyPending(client, station', delivered, cipherCalls, sessions)
    BY <1>6, <1>9, <1>10, <2>1, <2>2, <2>3 DEF KeyPending
  <2> QED
    BY <1>1, <1>2, <1>12, <1>13, <1>14, <2>4 DEF InSession, NumbersInv
<1>15. CASE 0 \notin DOMAIN client.messageStates
  <2>1. Numbered(client, station, delivered, cipherCalls, sessions)
    BY <1>2, <1>15 DEF InSession
  <2>2. m \notin Gateways
    BY <1>6, <1>11, <2>1 DEF Numbered
  <2>3. /\ delivered <= L /\ L <= D /\ DOMAIN map = delivered..(D - 1)
        /\ \A k \in DOMAIN map :
            /\ map[k] \in Nat
            /\ \E c \in Commands : Packet(map[k], c) \in client.wire
        /\ \A k, l \in DOMAIN map : k < l => map[k] < map[l]
    BY <2>1 DEF Numbered
  <2>4. \A k \in L..(D - 1) : k \in DOMAIN map
    BY <1>3, <2>3
  <2>5. CASE m \notin Commands
    <3>1. station'.results = station.results /\ station'.keySent = station.keySent
      BY <1>3, <1>9, <2>2, <2>5
    <3>2. \A v \in Handled(station') : \A k \in L..(D - 1) : map[k] # v.sequence
      <4> SUFFICES ASSUME NEW v \in Handled(station'), NEW k \in L..(D - 1)
                   PROVE  map[k] # v.sequence
        OBVIOUS
      <4>1. CASE v \in Handled(station)
        BY <2>1, <4>1 DEF Numbered
      <4>2. CASE v = w
        <5>1. PICK c \in Commands : Packet(map[k], c) \in client.wire
          BY <2>3, <2>4
        <5>2. Packet(map[k], c) # w /\ Packet(map[k], c).sequence = map[k]
          BY <2>5 DEF Packet
        <5> QED
          BY <1>2, <1>4, <4>2, <5>1, <5>2 DEF InSession, WireInOrder
      <4> QED
        BY <1>10, <4>1, <4>2
    <3>3. Numbered(client, station', delivered, cipherCalls, sessions)
      BY <1>10, <2>1, <3>1, <3>2 DEF Numbered
    <3> QED
      BY <1>1, <1>2, <1>12, <1>13, <1>15, <3>3 DEF InSession, NumbersInv
  <2>6. CASE m \in Commands
    <3>1. /\ station'.keySent = station.keySent
          /\ Len(station'.results) = L + 1
          /\ station'.results[L + 1].of = m
          /\ \A i \in 1..L : station'.results[i] = station.results[i]
      <4> DEFINE r == [of |-> m, code |-> "ok"]
      <4>1. station'.results = Append(station.results, r) /\ r.of = m
        BY <1>9, <2>6
      <4> HIDE DEF r
      <4> QED
        BY <1>3, <1>9, <2>2, <4>1
    <3>2. PICK k \in L..(D - 1) : map[k] = w.sequence
      BY <1>4, <1>6, <2>1, <2>6 DEF Numbered
    <3>3. L \in L..(D - 1) /\ L \in DOMAIN map /\ k \in DOMAIN map
      BY <1>3, <2>4
    (* An earlier number would be that of a command that was executed but  *)
    (* not answered before this one.                                       *)
    <3>4. k = L
      <4> SUFFICES ASSUME k # L PROVE FALSE
        OBVIOUS
      <4>1. L < k
        BY <1>3
      <4>2. map[L] < w.sequence /\ map[L] \in Nat
        BY <2>3, <3>2, <3>3, <4>1
      <4>3. PICK c \in Commands : Packet(map[L], c) \in client.wire
        BY <2>3, <3>3
      <4> DEFINE v == Packet(map[L], c)
      <4>4. v.sequence = map[L]
        BY DEF Packet
      <4> HIDE DEF v
      <4>5. v \in Executed(station)
        <5> SUFFICES ASSUME v \notin Executed(station) PROVE FALSE
          OBVIOUS
        <5>1. v.sequence = client.seqNumber - 1 /\ w.sequence < client.seqNumber
          BY <1>2, <1>4, <4>3 DEF InSession, WireInOrder, v
        <5> QED
          BY <1>3, <1>4, <4>2, <4>4, <5>1
      <4>6. PICK i \in 1..Len(station.executed) : v = station.executed[i]
        BY <4>5 DEF Executed
      <4>7. ~(station.handled + 1 < i) /\ i # station.handled + 1
        <5>1. CASE station.handled + 1 < i
          <6>1. w.sequence < v.sequence
            BY <1>2, <1>4, <4>6, <5>1 DEF InSession, StationInOrder
          <6> QED
            BY <1>4, <4>2, <4>4, <6>1
        <5>2. CASE i = station.handled + 1
          BY <1>4, <4>2, <4>4, <4>6, <5>2
        <5> QED
          BY <5>1, <5>2
      <4>8. i \in 1..station.handled
        BY <1>3, <4>7
      <4>9. v \in Handled(station)
        BY <4>6, <4>8 DEF Handled
      <4> QED
        BY <2>1, <3>3, <4>4, <4>9 DEF Numbered
    <3>5. map[L] = w.sequence /\ L + 1 <= D
      BY <1>3, <3>2, <3>4
    <3>6. \A j \in delivered..L : j \in delivered..(L - 1) \/ j = L
      BY <1>3, <2>3
    <3>7. \A j \in delivered..((L + 1) - 1) :
              Packet(map[j], station'.results[j + 1].of) \in Executed(station')
      <4> SUFFICES ASSUME NEW j \in delivered..((L + 1) - 1)
                   PROVE  Packet(map[j], station'.results[j + 1].of) \in Executed(station')
        OBVIOUS
      <4>1. CASE j = L
        <5>1. Packet(w.sequence, m) = w
          BY <1>4 DEF Packet, Packets
        <5> QED
          BY <1>4, <1>10, <3>1, <3>5, <4>1, <5>1
      <4>2. CASE j \in delivered..(L - 1)
        <5>1. j + 1 \in 1..L
          BY <1>3, <4>2
        <5> QED
          BY <1>10, <2>1, <3>1, <4>2, <5>1 DEF Numbered
      <4> QED
        BY <1>3, <3>6, <4>1, <4>2
    <3>8. \A v \in client.wire \ Handled(station') :
              v.message \in Commands => \E j \in (L + 1)..(D - 1) : map[j] = v.sequence
      <4> SUFFICES ASSUME NEW v \in client.wire \ Handled(station'), v.message \in Commands
                   PROVE  \E j \in (L + 1)..(D - 1) : map[j] = v.sequence
        OBVIOUS
      <4>1. PICK j \in L..(D - 1) : map[j] = v.sequence
        BY <1>10, <2>1 DEF Numbered
      <4>2. v.sequence # w.sequence
        BY <1>2, <1>4, <1>10 DEF InSession, WireInOrder
      <4>3. j # L
        BY <3>5, <4>1, <4>2
      <4>4. j \in (L + 1)..(D - 1)
        BY <1>3, <4>3
      <4> QED
        BY <4>1, <4>4
    <3>9. \A v \in Handled(station') : \A j \in (L + 1)..(D - 1) : map[j] # v.sequence
      <4> SUFFICES ASSUME NEW v \in Handled(station'), NEW j \in (L + 1)..(D - 1)
                   PROVE  map[j] # v.sequence
        OBVIOUS
      <4>1. j \in L..(D - 1) /\ L < j
        BY <1>3
      <4>2. CASE v \in Handled(station)
        BY <2>1, <4>1, <4>2 DEF Numbered
      <4>3. CASE v = w
        <5>1. map[L] < map[j] /\ map[L] \in Nat /\ map[j] \in Nat
          BY <2>3, <2>4, <3>3, <4>1
        <5> QED
          BY <3>5, <4>3, <5>1
      <4> QED
        BY <1>10, <4>2, <4>3
    <3>10. /\ cipherCalls = {} /\ ~station'.keySent
           /\ Packet(0, sessions) \in Handled(station')
           /\ delivered <= L + 1
      BY <1>3, <1>10, <2>1, <3>1 DEF Numbered
    <3>11. Numbered(client, station', delivered, cipherCalls, sessions)
      BY <2>1, <3>1, <3>5, <3>7, <3>8, <3>9, <3>10 DEF Numbered
    <3> QED
      BY <1>1, <1>2, <1>12, <1>13, <1>15, <3>11 DEF InSession, NumbersInv
  <2> QED
    BY <2>5, <2>6
<1> QED
  BY <1>14, <1>15

(* What an acknowledgement or the end of a command changes.                *)
LEMMA StopTimerFields ==
    ASSUME NEW known, NEW cl, Good(cl, known), NEW m \in Messages
    PROVE  LET new == StopTimer(cl, m)
           IN  /\ new.messageStates = cl.messageStates
               /\ \A k \in Messages \ {m} : new.state[k] = cl.state[k]
               /\ new.state[m].failed = cl.state[m].failed
               /\ new.state[m].acknowledged = cl.state[m].acknowledged
               /\ new.state[m].timeout = "none"
               /\ new.seqNumber = cl.seqNumber /\ new.p2pSeqMapping = cl.p2pSeqMapping
               /\ new.p2pDataSeqNumber = cl.p2pDataSeqNumber /\ new.wire = cl.wire
               /\ new.sendQueue = cl.sendQueue /\ new.emitted = cl.emitted
<1> DEFINE new == StopTimer(cl, m)
<1>1. /\ new.messageStates = cl.messageStates
      /\ new.state = [cl.state EXCEPT ![m].timeout = "none"]
      /\ new.seqNumber = cl.seqNumber /\ new.p2pSeqMapping = cl.p2pSeqMapping
      /\ new.p2pDataSeqNumber = cl.p2pDataSeqNumber /\ new.wire = cl.wire
      /\ new.sendQueue = cl.sendQueue /\ new.emitted = cl.emitted
  BY DEF Good, Typed, StopTimer, ClientFields
<1>2. cl.state \in [Messages -> MessageState]
  BY DEF Good, Typed
<1> HIDE DEF new
<1>3. /\ \A k \in Messages \ {m} : new.state[k] = cl.state[k]
      /\ new.state[m].failed = cl.state[m].failed
      /\ new.state[m].acknowledged = cl.state[m].acknowledged
      /\ new.state[m].timeout = "none"
  BY <1>1, <1>2 DEF MessageState
<1> QED
  BY <1>1, <1>3 DEF new

LEMMA ForgetFields ==
    ASSUME NEW known, NEW cl, Good(cl, known), NEW n
    PROVE  LET new == Forget(cl, n)
           IN  /\ DOMAIN new.messageStates = DOMAIN cl.messageStates \ {n}
               /\ \A k \in DOMAIN cl.messageStates \ {n} :
                      new.messageStates[k] = cl.messageStates[k]
               /\ new.state = cl.state
               /\ new.seqNumber = cl.seqNumber /\ new.p2pSeqMapping = cl.p2pSeqMapping
               /\ new.p2pDataSeqNumber = cl.p2pDataSeqNumber /\ new.wire = cl.wire
               /\ new.sendQueue = cl.sendQueue /\ new.emitted = cl.emitted
<1> DEFINE new == Forget(cl, n)
<1>1. /\ new.messageStates = Delete(cl.messageStates, n)
      /\ new.state = cl.state
      /\ new.seqNumber = cl.seqNumber /\ new.p2pSeqMapping = cl.p2pSeqMapping
      /\ new.p2pDataSeqNumber = cl.p2pDataSeqNumber /\ new.wire = cl.wire
      /\ new.sendQueue = cl.sendQueue /\ new.emitted = cl.emitted
  BY DEF Good, Typed, Forget, ClientFields
<1> HIDE DEF new
<1>2. /\ DOMAIN new.messageStates = DOMAIN cl.messageStates \ {n}
      /\ \A k \in DOMAIN cl.messageStates \ {n} : new.messageStates[k] = cl.messageStates[k]
  BY <1>1 DEF Delete, Restrict
<1> QED
  BY <1>1, <1>2 DEF new

(* A message leaves the flight when its timer is stopped and the station   *)
(* has executed it.                                                        *)
LEMMA EndInSession ==
    ASSUME NEW known, NEW cl, Good(cl, known), NEW st, NEW d, NEW calls, NEW s,
           InSession(cl, st, d, calls, s),
           NEW n \in DOMAIN cl.messageStates, n # 0,
           Packet(n, cl.messageStates[n]) \in Executed(st)
    PROVE  InSession(Forget(StopTimer(cl, cl.messageStates[n]), n), st, d, calls, s)
<1> DEFINE m == cl.messageStates[n]
           mid == StopTimer(cl, m)
           new == Forget(mid, n)
<1>1. m \in Messages
  BY InFlightIsReady
<1>2. /\ Good(mid, known)
      /\ mid.messageStates = cl.messageStates
      /\ \A k \in Messages \ {m} : mid.state[k] = cl.state[k]
      /\ mid.state[m].failed = cl.state[m].failed
      /\ mid.state[m].acknowledged = cl.state[m].acknowledged
      /\ mid.state[m].timeout = "none"
      /\ mid.seqNumber = cl.seqNumber /\ mid.p2pSeqMapping = cl.p2pSeqMapping
      /\ mid.p2pDataSeqNumber = cl.p2pDataSeqNumber /\ mid.wire = cl.wire
      /\ mid.sendQueue = cl.sendQueue /\ mid.emitted = cl.emitted
  BY <1>1, StopTimerGood, StopTimerFields
<1> HIDE DEF mid
<1>3. /\ DOMAIN new.messageStates = DOMAIN mid.messageStates \ {n}
      /\ \A k \in DOMAIN mid.messageStates \ {n} :
             new.messageStates[k] = mid.messageStates[k]
      /\ new.state = mid.state
      /\ new.seqNumber = mid.seqNumber /\ new.p2pSeqMapping = mid.p2pSeqMapping
      /\ new.p2pDataSeqNumber = mid.p2pDataSeqNumber /\ new.wire = mid.wire
      /\ new.sendQueue = mid.sendQueue /\ new.emitted = mid.emitted
  BY <1>2, ForgetFields
<1> HIDE DEF new
<1>4. /\ DOMAIN new.messageStates = DOMAIN cl.messageStates \ {n}
      /\ \A k \in DOMAIN new.messageStates : new.messageStates[k] = cl.messageStates[k]
  BY <1>2, <1>3
<1>5. TimersInFlight(new)
  <2> SUFFICES ASSUME NEW k \in Messages
               PROVE  /\ ~new.state[k].failed
                      /\ new.state[k].timeout # "none" => ~NotInFlight(new, k)
                      /\ new.state[k].timeout = "result" => new.state[k].acknowledged
    BY DEF TimersInFlight
  <2>1. CASE k = m
    BY <1>2, <1>3, <2>1 DEF InSession, TimersInFlight
  <2>2. CASE k # m
    <3>1. new.state[k] = cl.state[k]
      BY <1>2, <1>3, <2>2
    <3>2. ~NotInFlight(cl, k) => ~NotInFlight(new, k)
      BY <1>4, <2>2 DEF NotInFlight
    <3> QED
      BY <3>1, <3>2 DEF InSession, TimersInFlight
  <2> QED
    BY <2>1, <2>2
<1>6. InFlightIsOnWire(new, st)
  <2> SUFFICES ASSUME NEW k \in DOMAIN new.messageStates
               PROVE  /\ Packet(k, new.messageStates[k]) \in new.wire
                      /\ new.state[new.messageStates[k]].acknowledged =>
                            Packet(k, new.messageStates[k]) \in Executed(st)
    BY DEF InFlightIsOnWire
  <2>1. k \in DOMAIN cl.messageStates /\ new.messageStates[k] = cl.messageStates[k]
    BY <1>4
  <2>2. cl.messageStates[k] \in Messages
    BY <2>1, InFlightIsReady
  <2>3. new.state[cl.messageStates[k]].acknowledged = cl.state[cl.messageStates[k]].acknowledged
    BY <1>2, <1>3, <2>2
  <2> QED
    BY <1>2, <1>3, <2>1, <2>3 DEF InSession, InFlightIsOnWire
<1>7. \A w \in cl.wire \ Executed(st) : w.sequence \in DOMAIN new.messageStates
  <2> SUFFICES ASSUME NEW w \in cl.wire \ Executed(st), w.sequence = n PROVE FALSE
    BY <1>4 DEF InSession, WireInOrder
  <2>1. Packet(n, m) \in cl.wire /\ Packet(n, m).sequence = n
    BY DEF InSession, InFlightIsOnWire, Packet
  <2> QED
    BY <2>1 DEF InSession, WireInOrder
<1>8. InSession(new, st, d, calls, s)
  BY <1>2, <1>3, <1>4, <1>5, <1>6, <1>7, SameNumbers
<1> QED
  BY <1>8 DEF new, mid

LEMMA AcknowledgedInSession ==
    ASSUME NEW known, NEW cl, Good(cl, known), NEW st, NEW d, NEW calls, NEW s,
           InSession(cl, st, d, calls, s),
           NEW n \in DOMAIN cl.messageStates,
           Packet(n, cl.messageStates[n]) \in Executed(st)
    PROVE  InSession(Acknowledged(cl, cl.messageStates[n]), st, d, calls, s)
<1> DEFINE m == cl.messageStates[n]
           new == Acknowledged(cl, m)
<1>1. m \in Messages /\ cl.state[m].sequence = n
  BY InFlightIsReady
<1>2. /\ new.messageStates = cl.messageStates
      /\ new.state = [cl.state EXCEPT ![m] = [cl.state[m] EXCEPT !.acknowledged = TRUE,
                                                               !.timeout = "result"]]
      /\ new.seqNumber = cl.seqNumber /\ new.p2pSeqMapping = cl.p2pSeqMapping
      /\ new.p2pDataSeqNumber = cl.p2pDataSeqNumber /\ new.wire = cl.wire
      /\ new.sendQueue = cl.sendQueue /\ new.emitted = cl.emitted
  BY DEF Good, Typed, Acknowledged, ClientFields
<1>3. cl.state \in [Messages -> MessageState]
  BY DEF Good, Typed
<1> HIDE DEF new
<1>4. /\ \A k \in Messages \ {m} : new.state[k] = cl.state[k]
      /\ new.state[m].failed = cl.state[m].failed
      /\ new.state[m].acknowledged
  BY <1>1, <1>2, <1>3 DEF MessageState
<1>5. TimersInFlight(new)
  <2> SUFFICES ASSUME NEW k \in Messages
               PROVE  /\ ~new.state[k].failed
                      /\ new.state[k].timeout # "none" => ~NotInFlight(new, k)
                      /\ new.state[k].timeout = "result" => new.state[k].acknowledged
    BY DEF TimersInFlight
  <2>1. CASE k = m
    BY <1>2, <1>4, <2>1 DEF InSession, TimersInFlight, NotInFlight
  <2>2. CASE k # m
    BY <1>2, <1>4, <2>2 DEF InSession, TimersInFlight, NotInFlight
  <2> QED
    BY <2>1, <2>2
<1>6. InFlightIsOnWire(new, st)
  <2> SUFFICES ASSUME NEW k \in DOMAIN cl.messageStates
               PROVE  /\ Packet(k, cl.messageStates[k]) \in cl.wire
                      /\ new.state[cl.messageStates[k]].acknowledged =>
                            Packet(k, cl.messageStates[k]) \in Executed(st)
    BY <1>2 DEF InFlightIsOnWire
  <2>1. cl.messageStates[k] \in Messages /\ cl.state[cl.messageStates[k]].sequence = k
    BY InFlightIsReady
  <2>2. CASE cl.messageStates[k] = m
    BY <1>1, <2>1, <2>2 DEF InSession, InFlightIsOnWire
  <2>3. CASE cl.messageStates[k] # m
    BY <1>4, <2>1, <2>3 DEF InSession, InFlightIsOnWire
  <2> QED
    BY <2>2, <2>3
<1>7. \A w \in cl.wire \ Executed(st) : w.sequence \in DOMAIN new.messageStates
  BY <1>2 DEF InSession, WireInOrder
<1>8. InSession(new, st, d, calls, s)
  BY <1>2, <1>5, <1>6, <1>7, SameNumbers
<1> QED
  BY <1>8 DEF new

(* The gateway's command keeps number 0 until the key has come, and        *)
(* nothing else has it.                                                    *)
LEMMA NumberZero ==
    ASSUME NEW cl, NEW st, NEW d, NEW calls, NEW s, InSession(cl, st, d, calls, s),
           NEW n \in DOMAIN cl.messageStates
    PROVE  /\ n = 0 => cl.messageStates[n] = s
           /\ cl.messageStates[n] \in Gateways => n = 0 /\ cl.messageStates[n] = s
<1>1. \A k, m : Packet(k, m).sequence = k /\ Packet(k, m).message = m
  BY DEF Packet
<1>2. Packet(n, cl.messageStates[n]) \in cl.wire /\ Packet(0, s) \in cl.wire
  BY DEF InSession, InFlightIsOnWire, WireInOrder
<1>3. n = 0 => Packet(n, cl.messageStates[n]) = Packet(0, s)
  BY <1>1, <1>2 DEF InSession, WireInOrder
<1>4. cl.messageStates[n] \in Gateways => Packet(n, cl.messageStates[n]) = Packet(0, s)
  BY <1>1, <1>2 DEF InSession, WireInOrder
<1> QED
  BY <1>1, <1>3, <1>4

LEMMA ReceiveAckNumbers ==
    ASSUME QueueInv, NumbersInv, NumbersLast, NEW n \in DOMAIN client.messageStates,
           NEW tooOld, ReceiveAck(n, tooOld)
    PROVE  NumbersInv'
<1> DEFINE m == client.messageStates[n]
<1>1. /\ connected /\ UNCHANGED <<connected, sessions, station, delivered, cipherCalls>>
      /\ Good(client, Known)
      /\ InSession(client, station, delivered, cipherCalls, sessions)
  BY DEF QueueInv, NumbersInv, ReceiveAck
<1>2. m \in Messages \cap Known /\ IsReady(client, m)
  BY <1>1, InFlightIsReady
<1>3. sessions \in Gateways /\ station \in StationType /\ delivered \in Nat
  BY <1>1 DEF QueueInv, SessionTyped, Gateways
<1>4. Packet(n, m) \in Executed(station)
  <2>1. PICK w \in Executed(station) : w.sequence = n
    BY DEF ReceiveAck, ToSet, Executed
  <2>2. w \in client.wire /\ Packet(n, m) \in client.wire /\ Packet(n, m).sequence = n
    BY <1>1 DEF InSession, StationInOrder, InFlightIsOnWire, Packet
  <2> QED
    BY <1>1, <2>1, <2>2 DEF InSession, WireInOrder
<1>5. CASE m \in Pings
  <2>1. n # 0
    <3>1. m \notin Gateways
      BY <1>5, CommandAssumption
    <3> QED
      BY <1>1, <1>3, <3>1, NumberZero
  <2>2. InSession(Forget(StopTimer(client, m), n), station, delivered, cipherCalls, sessions)
    BY <1>1, <1>4, <2>1, EndInSession
  <2>3. Good(Forget(StopTimer(client, m), n), Known)
    BY <1>1, <1>2, StopTimerGood, ForgetGood
  <2>4. client' = SendQueuedMessage(Forget(StopTimer(client, m), n), TRUE, tooOld)
    BY <1>5 DEF ReceiveAck
  <2>a. Forget(StopTimer(client, m), n).seqNumber = client.seqNumber
    BY <1>1, <1>2, StopTimerGood, StopTimerFields, ForgetFields
  <2> HIDE DEF m
  <2>5. InSession(client', station, delivered, cipherCalls, sessions)
    BY <1>3, <2>2, <2>3, <2>4, <2>a, SendQueuedMessageInSession DEF NumbersLast
  <2> QED
    BY <1>1, <2>5 DEF NumbersInv
<1>6. CASE m \notin Pings
  <2>1. InSession(Acknowledged(client, m), station, delivered, cipherCalls, sessions)
    BY <1>1, <1>4, AcknowledgedInSession
  <2>2. Good(Acknowledged(client, m), Known)
    BY <1>1, <1>2, AcknowledgedGood
  <2>3. client' = SendQueuedMessage(Acknowledged(client, m), TRUE, tooOld)
    BY <1>6 DEF ReceiveAck
  <2>a. Acknowledged(client, m).seqNumber = client.seqNumber
    BY <1>1 DEF Good, Typed, ClientFields, Acknowledged
  <2> HIDE DEF m
  <2>4. InSession(client', station, delivered, cipherCalls, sessions)
    BY <1>3, <2>1, <2>2, <2>3, <2>a, SendQueuedMessageInSession DEF NumbersLast
  <2> QED
    BY <1>1, <2>4 DEF NumbersInv
<1> QED
  BY <1>5, <1>6

LEMMA SmallRemainder ==
    ASSUME NEW n \in Nat, NEW k \in Nat, n < k
    PROVE  n % (k + 1) = n
  OBVIOUS

(* The first DATA number that is not handled belongs to the command whose  *)
(* result comes next.                                                      *)
LEMMA ReceiveResultNumbers ==
    ASSUME QueueInv, NumbersInv, NumbersLast, NEW tooOld, ReceiveResult(tooOld)
    PROVE  NumbersInv'
<1> DEFINE d == delivered
           seqNo == d % (MAX_SEQUENCE_NUMBER + 1)
           r == station.results[d + 1]
           L == Len(station.results)
           D == client.p2pDataSeqNumber
           map == client.p2pSeqMapping
           n == map[d]
           cl == [client EXCEPT !.p2pSeqMapping = Delete(@, d)]
<1>1. /\ connected /\ d < L /\ delivered' = d + 1
      /\ UNCHANGED <<connected, sessions, station, cipherCalls>>
      /\ Good(client, Known)
      /\ InSession(client, station, d, cipherCalls, sessions)
  BY DEF QueueInv, NumbersInv, ReceiveResult
<1>2. /\ sessions \in Gateways /\ station \in StationType /\ d \in Nat /\ d + 1 \in Nat
      /\ L \in Nat /\ D \in Int /\ station.results # << >>
  BY <1>1 DEF QueueInv, SessionTyped, Gateways, StationType, Good, Typed
<1>3. 0 \notin DOMAIN client.messageStates
  BY <1>1, <1>2 DEF InSession, KeyPending
<1>4. Numbered(client, station, d, cipherCalls, sessions)
  BY <1>1, <1>3 DEF InSession
<1>5. /\ L <= D /\ DOMAIN map = d..(D - 1) /\ d \in DOMAIN map
      /\ n \in Nat \ {0}
      /\ Packet(n, r.of) \in Executed(station)
  <2>1. L <= D /\ DOMAIN map = d..(D - 1)
    BY <1>4 DEF Numbered
  <2>2. d \in d..(D - 1) /\ d \in d..(L - 1)
    BY <1>1, <1>2, <2>1
  <2>3. n \in Nat \ {0} /\ Packet(n, r.of) \in Executed(station)
    BY <1>4, <2>1, <2>2 DEF Numbered
  <2> QED
    BY <2>1, <2>2, <2>3
<1>6. /\ cl.messageStates = client.messageStates /\ cl.state = client.state
      /\ cl.seqNumber = client.seqNumber /\ cl.p2pDataSeqNumber = D
      /\ cl.p2pSeqMapping = Delete(map, d) /\ cl.wire = client.wire
      /\ cl.sendQueue = client.sendQueue /\ cl.emitted = client.emitted
      /\ cl.p2pKey = client.p2pKey /\ DOMAIN cl = ClientFields
  BY <1>1 DEF Good, Typed, ClientFields
<1>a. seqNo = d
  <2>1. D <= client.seqNumber /\ client.seqNumber \in Nat
    BY <1>1, <1>4 DEF Numbered, Good, Typed
  <2>2. client.seqNumber < MAX_SEQUENCE_NUMBER /\ MAX_SEQUENCE_NUMBER \in Nat
    BY CommandAssumption DEF NumbersLast
  <2>3. d < MAX_SEQUENCE_NUMBER
    BY <1>1, <1>2, <1>5, <2>1, <2>2
  <2> QED
    BY <1>2, <2>2, <2>3, SmallRemainder
<1> HIDE DEF seqNo
<1> DEFINE mapped == seqNo \in DOMAIN map /\ map[seqNo] # 0
           number == IF mapped THEN map[seqNo] ELSE seqNo
           rest == IF mapped THEN [client EXCEPT !.p2pSeqMapping = Delete(@, seqNo)]
                   ELSE client
           Handle(x, k, m) ==
               IF ~IsInFlight(x, k) THEN x
               ELSE IF m \notin Commands \/ TypeOf[m] # TypeOf[r.of] THEN Forget(x, k)
               ELSE IF r.code = "failed"
               THEN SendAgain([StopTimer(x, m) EXCEPT !.state[m].failed = TRUE], m, tooOld)
               ELSE SendQueuedMessage(
                      Emit(Forget(StopTimer(x, m), k), m, [kind |-> "result", of |-> r.of]),
                      TRUE, tooOld)
<1>7. client' = Handle(cl, n, cl.messageStates[n])
  <2>1. client' = Handle(rest, number, rest.messageStates[number])
    BY DEF ReceiveResult, seqNo
  <2>2. rest = cl /\ number = n
    BY <1>5, <1>a
  <2> HIDE DEF rest, number, Handle, cl, n
  <2> QED
    BY <2>1, <2>2
<1> HIDE DEF mapped, number, rest
<1>8. r \in Results /\ r.code = "ok"
  <2>1. station.results \in Seq(Results) /\ d + 1 \in 1..L
    BY <1>1, <1>2 DEF StationType
  <2> QED
    BY <1>1, <2>1 DEF InSession, StationInOrder
<1> HIDE DEF cl, n, map, L, D, r
<1>9. Good(cl, Known)
  <2>1. /\ cl.p2pDataSeqNumber \in Int /\ cl.p2pKey \in 0..MaxSessions
        /\ cl.wire \subseteq Packets
    BY <1>1, <1>6 DEF Good, Typed, D
  <2>2. \A x \in {"sendQueue", "messageStates", "state", "seqNumber", "emitted"} :
            cl[x] = client[x]
    BY <1>6
  <2> QED
    BY <1>1, <1>6, <2>1, <2>2, OtherFieldsGood
<1>10. InSession(cl, station, d + 1, cipherCalls, sessions)
  <2>1. /\ DOMAIN cl.p2pSeqMapping = (d + 1)..(D - 1)
        /\ \A k \in (d + 1)..(D - 1) : k \in DOMAIN map /\ cl.p2pSeqMapping[k] = map[k]
    BY <1>2, <1>5, <1>6 DEF Delete, Restrict
  <2>2. /\ \A k \in L..(D - 1) : k \in (d + 1)..(D - 1)
        /\ \A k \in (d + 1)..(L - 1) : k \in (d + 1)..(D - 1) /\ k \in d..(L - 1)
        /\ d + 1 <= L
    BY <1>1, <1>2, <1>5 DEF L
  <2>3. /\ cipherCalls = {} /\ ~station.keySent /\ Packet(0, sessions) \in Handled(station)
        /\ \A k \in (d + 1)..(D - 1) :
             /\ cl.p2pSeqMapping[k] \in Nat \ {0}
             /\ \E c \in Commands : Packet(cl.p2pSeqMapping[k], c) \in cl.wire
    BY <1>4, <1>6, <2>1 DEF Numbered, map
  <2>4. \A k, l \in (d + 1)..(D - 1) :
            k < l => cl.p2pSeqMapping[k] < cl.p2pSeqMapping[l]
    BY <1>4, <2>1 DEF Numbered, map
  <2>5. \A k \in (d + 1)..(L - 1) :
            Packet(cl.p2pSeqMapping[k], station.results[k + 1].of) \in Executed(station)
    BY <1>4, <2>1, <2>2 DEF Numbered, map, L
  <2>6. \A w \in cl.wire \ Handled(station) :
            w.message \in Commands => \E k \in L..(D - 1) : cl.p2pSeqMapping[k] = w.sequence
    BY <1>4, <1>6, <2>1, <2>2 DEF Numbered, map, L, D
  <2>7. \A w \in Handled(station) : \A k \in L..(D - 1) : cl.p2pSeqMapping[k] # w.sequence
    BY <1>4, <2>1, <2>2 DEF Numbered, map, L, D
  <2>8. Numbered(cl, station, d + 1, cipherCalls, sessions)
    BY <1>4, <1>5, <1>6, <2>1, <2>2, <2>3, <2>4, <2>5, <2>6, <2>7 DEF Numbered, L, D
  <2>9. /\ TimersInFlight(cl) /\ OwnResults(cl) /\ Queued(cl) \cap Gateways = {}
        /\ WireInOrder(cl, station, sessions) /\ InFlightIsOnWire(cl, station)
        /\ StationInOrder(cl, station)
    BY <1>1, <1>6
    DEF InSession, TimersInFlight, NotInFlight, OwnResults, Queued, WireInOrder,
        InFlightIsOnWire, StationInOrder
  <2> QED
    BY <1>3, <1>6, <2>8, <2>9 DEF InSession
<1>11. CASE ~IsInFlight(cl, n)
  BY <1>1, <1>7, <1>10, <1>11 DEF NumbersInv
<1>12. CASE IsInFlight(cl, n)
  <2> DEFINE m == cl.messageStates[n]
             ended == Forget(StopTimer(cl, m), n)
             report == [kind |-> "result", of |-> r.of]
  <2>1. n \in DOMAIN cl.messageStates
    BY <1>12 DEF IsInFlight
  <2>2. m \in Messages \cap Known /\ IsReady(cl, m)
    BY <1>9, <2>1, InFlightIsReady
  <2>3. m = r.of
    <3>1. Packet(n, m) \in client.wire /\ Packet(n, r.of) \in client.wire
      BY <1>1, <1>5, <1>6, <2>1 DEF InSession, InFlightIsOnWire, StationInOrder
    <3>2. /\ Packet(n, m).sequence = n /\ Packet(n, m).message = m
          /\ Packet(n, r.of).sequence = n /\ Packet(n, r.of).message = r.of
      BY DEF Packet
    <3> QED
      BY <1>1, <3>1, <3>2 DEF InSession, WireInOrder
  <2>4. m \in Commands
    BY <1>8, <2>3 DEF Results
  <2>5. client' = SendQueuedMessage(Emit(ended, m, report), TRUE, tooOld)
    BY <1>7, <1>8, <1>12, <2>3, <2>4
  <2>6. report.kind = "result" /\ report.of = m
    BY <2>3
  <2>7. report \in Outcomes
    BY <2>4, <2>3 DEF Outcomes
  <2> HIDE DEF report
  <2>8. InSession(ended, station, d + 1, cipherCalls, sessions)
    <3>1. Packet(n, cl.messageStates[n]) \in Executed(station) /\ n # 0
      BY <1>5, <2>3
    <3> QED
      BY <1>9, <1>10, <2>1, <3>1, EndInSession
  <2> HIDE DEF m
  <2>9. /\ Good(ended, Known) /\ IsReady(ended, m) /\ IsIdle(ended, m)
    <3>1. /\ Good(StopTimer(cl, m), Known) /\ IsReady(StopTimer(cl, m), m)
          /\ StopTimer(cl, m).state[m].timeout = "none"
          /\ StopTimer(cl, m).state[m].sequence = n
      BY <1>9, <2>1, <2>2, StopTimerGood, InFlightIsReady DEF m
    <3> QED
      BY <2>2, <3>1, ForgetGood DEF IsIdle
  <2>a. Emit(ended, m, report).seqNumber = client.seqNumber
    <3>1. Good(StopTimer(cl, m), Known) /\ StopTimer(cl, m).seqNumber = client.seqNumber
      BY <1>6, <1>9, <2>2, StopTimerGood, StopTimerFields
    <3>2. ended.seqNumber = client.seqNumber
      BY <3>1, ForgetFields
    <3> HIDE DEF ended
    <3> QED
      BY <2>9, <3>2 DEF Good, Typed, ClientFields, Emit
  <2> HIDE DEF ended
  <2>10. Good(Emit(ended, m, report), Known)
    BY <2>2, <2>7, <2>9, EmitGood
  <2>11. InSession(Emit(ended, m, report), station, d + 1, cipherCalls, sessions)
    BY <2>2, <2>6, <2>8, <2>9, EmitInSession DEF IsReady
  <2>12. InSession(client', station, d + 1, cipherCalls, sessions)
    BY <1>2, <2>5, <2>10, <2>11, <2>a, SendQueuedMessageInSession DEF NumbersLast
  <2> QED
    BY <1>1, <2>12 DEF NumbersInv
<1> QED
  BY <1>11, <1>12

(* The key is in use: from here on commands are numbered.                  *)
LEMMA CipherReturnsNumbers ==
    ASSUME QueueInv, NumbersInv, NumbersLast, NEW g \in cipherCalls, NEW tooOld,
           CipherReturns(g, tooOld)
    PROVE  NumbersInv'
<1> DEFINE stopped == StopTimer(client, g)
           taken == TakeBackDataNumber(stopped, 0)
           back == Forget(taken, 0)
           new == [back EXCEPT !.p2pKey = g]
<1>1. /\ UNCHANGED <<connected, sessions, station, delivered>>
      /\ cipherCalls' = cipherCalls \ {g}
      /\ Good(client, Known)
  BY DEF QueueInv, CipherReturns
<1>2. connected /\ InSession(client, station, delivered, cipherCalls, sessions)
  BY DEF NumbersInv
<1>3. /\ 0 \in DOMAIN client.messageStates
      /\ KeyPending(client, station, delivered, cipherCalls, sessions)
  BY <1>2 DEF InSession, Numbered
<1>4. /\ g = sessions /\ cipherCalls' = {} /\ ~station.keySent
      /\ Packet(0, g) \in Handled(station)
      /\ client.messageStates[0] = g
  BY <1>1, <1>2, <1>3, NumberZero DEF KeyPending
<1>5. /\ sessions \in Gateways /\ station \in StationType /\ delivered \in Nat
      /\ g \in Messages /\ g \in 0..MaxSessions /\ Handled(station) \subseteq Executed(station)
  <2>1. sessions \in Gateways /\ station \in StationType /\ delivered \in Nat
    BY <1>2 DEF QueueInv, SessionTyped, Gateways
  <2>2. station.handled \in Nat /\ station.handled <= Len(station.executed)
    BY <1>2, <2>1 DEF StationType, InSession, StationInOrder
  <2>3. \A i \in 1..station.handled : i \in 1..Len(station.executed)
    BY <2>1, <2>2 DEF StationType
  <2>4. g \in Messages /\ g \in 0..MaxSessions
    BY <1>4, <2>1, CommandAssumption DEF Messages, Gateways
  <2> QED
    BY <2>1, <2>3, <2>4 DEF Handled, Executed
<1>6. \A n \in DOMAIN client.messageStates : n = 0
  <2> SUFFICES ASSUME NEW n \in DOMAIN client.messageStates PROVE n = 0
    OBVIOUS
  <2>1. Packet(n, client.messageStates[n]) \in client.wire /\ n \in Nat
    BY <1>1, <1>2 DEF InSession, InFlightIsOnWire, Good, Typed
  <2>2. n < 1
    BY <1>2, <1>3, <2>1 DEF InSession, WireInOrder, KeyPending, Packet
  <2> QED
    BY <2>1, <2>2
<1>7. \A w \in client.wire : w = Packet(0, g)
  <2> SUFFICES ASSUME NEW w \in client.wire PROVE w = Packet(0, g)
    OBVIOUS
  <2>1. w.sequence \in Nat /\ w.sequence < 1
    BY <1>1, <1>2, <1>3 DEF InSession, WireInOrder, KeyPending, Good, Typed, Packets
  <2>2. w.sequence = 0 /\ Packet(0, g).sequence = 0
    BY <2>1 DEF Packet
  <2> QED
    BY <1>2, <1>4, <2>2 DEF InSession, WireInOrder
<1>8. client' = SendQueuedMessage(new, TRUE, tooOld)
  <2>1. client' = SendQueuedMessage(
            [Forget(TakeBackDataNumber(StopTimer(client, client.messageStates[0]), 0), 0)
                EXCEPT !.p2pKey = g],
            connected, tooOld)
    BY <1>3 DEF CipherReturns, IsInFlight
  <2> QED
    BY <1>2, <1>4, <2>1
<1>9. /\ Good(stopped, Known)
      /\ stopped.messageStates = client.messageStates
      /\ \A k \in Messages \ {g} : stopped.state[k] = client.state[k]
      /\ stopped.state[g].failed = client.state[g].failed
      /\ stopped.state[g].timeout = "none"
      /\ stopped.seqNumber = client.seqNumber
      /\ stopped.p2pSeqMapping = client.p2pSeqMapping
      /\ stopped.p2pDataSeqNumber = client.p2pDataSeqNumber /\ stopped.wire = client.wire
      /\ stopped.sendQueue = client.sendQueue /\ stopped.emitted = client.emitted
  BY <1>1, <1>5, StopTimerGood, StopTimerFields
<1> HIDE DEF stopped
<1>10. /\ Good(taken, Known)
       /\ taken.messageStates = stopped.messageStates /\ taken.state = stopped.state
       /\ taken.seqNumber = stopped.seqNumber
       /\ taken.p2pSeqMapping = DeleteValue(stopped.p2pSeqMapping, 0)
       /\ taken.p2pDataSeqNumber = stopped.p2pDataSeqNumber - 1
       /\ taken.wire = stopped.wire
       /\ taken.sendQueue = stopped.sendQueue /\ taken.emitted = stopped.emitted
  <2>1. Good(taken, Known)
    BY <1>9, TakeBackGood
  <2> QED
    BY <1>9, <2>1 DEF Good, Typed, ClientFields, TakeBackDataNumber
<1> HIDE DEF taken
<1>11. /\ Good(back, Known)
       /\ DOMAIN back.messageStates = DOMAIN taken.messageStates \ {0}
       /\ back.state = taken.state
       /\ back.seqNumber = taken.seqNumber /\ back.p2pSeqMapping = taken.p2pSeqMapping
       /\ back.p2pDataSeqNumber = taken.p2pDataSeqNumber /\ back.wire = taken.wire
       /\ back.sendQueue = taken.sendQueue /\ back.emitted = taken.emitted
  BY <1>10, ForgetGood, ForgetFields
<1> HIDE DEF back
<1>12. /\ DOMAIN new = ClientFields /\ new.p2pKey = g
       /\ new.messageStates = back.messageStates /\ new.state = back.state
       /\ new.seqNumber = back.seqNumber /\ new.p2pSeqMapping = back.p2pSeqMapping
       /\ new.p2pDataSeqNumber = back.p2pDataSeqNumber /\ new.wire = back.wire
       /\ new.sendQueue = back.sendQueue /\ new.emitted = back.emitted
  BY <1>11 DEF Good, Typed, ClientFields
<1> HIDE DEF new
<1>13. Good(new, Known)
  <2>1. \A x \in {"sendQueue", "messageStates", "state", "seqNumber", "emitted"} :
            new[x] = back[x]
    BY <1>12
  <2>2. /\ new.p2pDataSeqNumber \in Int /\ new.p2pKey \in 0..MaxSessions
        /\ new.wire \subseteq Packets
    BY <1>5, <1>11, <1>12 DEF Good, Typed
  <2> QED
    BY <1>11, <1>12, <2>1, <2>2, OtherFieldsGood
<1>14. /\ DOMAIN new.messageStates = {}
       /\ DOMAIN new.p2pSeqMapping = {}
       /\ new.p2pDataSeqNumber = 0 /\ new.seqNumber = 1 /\ new.wire = client.wire
       /\ new.sendQueue = client.sendQueue /\ new.emitted = client.emitted
  <2>1. DOMAIN DeleteValue(client.p2pSeqMapping, 0) = {}
    BY <1>3 DEF KeyPending, DeleteValue, Restrict
  <2> QED
    BY <1>3, <1>6, <1>9, <1>10, <1>11, <1>12, <2>1 DEF KeyPending
<1>15. TimersInFlight(new)
  <2> SUFFICES ASSUME NEW k \in Messages
               PROVE  ~new.state[k].failed /\ new.state[k].timeout = "none"
    BY DEF TimersInFlight
  <2>1. CASE k = g
    BY <1>2, <1>9, <1>10, <1>11, <1>12, <2>1 DEF InSession, TimersInFlight
  <2>2. CASE k # g
    <3>1. NotInFlight(client, k)
      BY <1>4, <1>6, <2>2 DEF NotInFlight
    <3> QED
      BY <1>2, <1>9, <1>10, <1>11, <1>12, <2>2, <3>1 DEF InSession, TimersInFlight
  <2> QED
    BY <2>1, <2>2
<1>16. OwnResults(new) /\ Queued(new) \cap Gateways = {}
  BY <1>2, <1>14 DEF InSession, OwnResults, Queued
<1>17. WireInOrder(new, station, sessions)
  BY <1>2, <1>3, <1>4, <1>5, <1>7, <1>14 DEF InSession, WireInOrder, KeyPending
<1>18. InFlightIsOnWire(new, station) /\ StationInOrder(new, station)
  BY <1>2, <1>14 DEF InSession, InFlightIsOnWire, StationInOrder
<1>19. Numbered(new, station, delivered, cipherCalls', sessions)
  <2>1. station.results = << >> /\ delivered = 0 /\ Len(station.results) = 0
    BY <1>3 DEF KeyPending
  <2>2. 0..(0 - 1) = {}
    OBVIOUS
  <2>3. \A w \in new.wire \ Handled(station) : FALSE
    BY <1>4, <1>7, <1>14
  <2> QED
    BY <1>4, <1>14, <2>1, <2>2, <2>3 DEF Numbered
<1>20. InSession(new, station, delivered, cipherCalls', sessions)
  BY <1>14, <1>15, <1>16, <1>17, <1>18, <1>19 DEF InSession
<1>21. InSession(client', station, delivered, cipherCalls', sessions)
  <2>1. new.seqNumber = client.seqNumber
    BY <1>3, <1>14 DEF KeyPending
  <2> QED
    BY <1>5, <1>8, <1>13, <1>20, <2>1, SendQueuedMessageInSession DEF NumbersLast
<1> QED
  BY <1>1, <1>2, <1>21 DEF NumbersInv

(* Acknowledgements are in time.                                           *)
LEMMA AcknowledgeTimeoutNumbers ==
    ASSUME Reliable, NumbersInv, NEW m \in Messages, NEW tooOld, AcknowledgeTimeout(m, tooOld)
    PROVE  FALSE
<1>1. ~client.state[m].failed
  BY DEF NumbersInv, InSession, OutOfSession, TimersInFlight, QueueInv, SessionTyped
<1> QED
  BY <1>1 DEF AcknowledgeTimeout, Reliable

(* A result that does not come in time is that of a command: the key       *)
(* exchange is waited for.                                                 *)
LEMMA ResultTimeoutNumbers ==
    ASSUME Reliable, QueueInv, NumbersInv, NumbersLast, NEW m \in Messages, NEW tooOld,
           ResultTimeout(m, tooOld)
    PROVE  NumbersInv'
<1> DEFINE n == client.state[m].sequence
           stopped == StopTimer(client, m)
           report == [kind |-> "commandTimeout"]
<1>1. /\ client.state[m].timeout = "result"
      /\ UNCHANGED <<connected, sessions, station, delivered, cipherCalls>>
      /\ Good(client, Known)
      /\ m \in Known /\ IsReady(client, m)
  BY TimedIsReady DEF QueueInv, ResultTimeout
<1>2. connected
  BY <1>1 DEF NumbersInv, OutOfSession, TimersInFlight, NotInFlight
<1>3. InSession(client, station, delivered, cipherCalls, sessions)
  BY <1>2 DEF NumbersInv
<1>4. sessions \in Gateways /\ station \in StationType /\ delivered \in Nat
  BY <1>2 DEF QueueInv, SessionTyped, Gateways
<1>5. n \in DOMAIN client.messageStates /\ client.messageStates[n] = m
  <2>1. PICK k \in DOMAIN client.messageStates : client.messageStates[k] = m
    BY <1>1, <1>3 DEF InSession, TimersInFlight, NotInFlight
  <2> QED
    BY <1>1, <2>1, InFlightIsReady
<1>6. Packet(n, m) \in Executed(station)
  BY <1>1, <1>3, <1>5 DEF InSession, TimersInFlight, InFlightIsOnWire
<1>7. m \notin Gateways
  <2> SUFFICES ASSUME m \in Gateways PROVE FALSE
    OBVIOUS
  <2>1. n = 0 /\ m = sessions
    BY <1>3, <1>5, NumberZero
  <2>2. KeyPending(client, station, delivered, cipherCalls, sessions)
    BY <1>3, <1>5, <2>1 DEF InSession
  <2>3. ~KeyIsOnItsWay(m)
    BY DEF ResultTimeout, Reliable
  <2>4. PICK i \in 1..station.handled : station.executed[i].message = m
    BY <2>3 DEF KeyIsOnItsWay
  <2>5. station.executed[i] \in Handled(station) /\ station.executed[i] \in client.wire
    <3>1. i \in 1..Len(station.executed)
      BY <1>3, <1>4 DEF InSession, StationInOrder, StationType
    <3> QED
      BY <1>3, <3>1 DEF InSession, StationInOrder, Handled, Executed
  <2>6. station.executed[i] = Packet(0, sessions)
    BY <1>3, <2>4, <2>5 DEF InSession, WireInOrder
  <2> QED
    BY <2>1, <2>2, <2>3, <2>5, <2>6 DEF KeyPending, KeyIsOnItsWay
<1>8. n # 0
  BY <1>3, <1>4, <1>5, <1>7, NumberZero
<1>9. client' = SendQueuedMessage(Forget(Emit(stopped, m, report), n), TRUE, tooOld)
  BY <1>2, <1>7 DEF ResultTimeout, StopTimer
<1>10. /\ Good(stopped, Known) /\ IsReady(stopped, m)
       /\ stopped.state[m].timeout = "none" /\ stopped.state[m].sequence = n
  BY <1>1, StopTimerGood
<1>11. InSession(Forget(stopped, n), station, delivered, cipherCalls, sessions)
  BY <1>1, <1>3, <1>5, <1>6, <1>8, EndInSession
<1>12. report \in Outcomes /\ report.kind # "result"
  BY DEF Outcomes
<1> HIDE DEF stopped, n, report
<1>13. /\ Good(Forget(stopped, n), Known) /\ IsReady(Forget(stopped, n), m)
       /\ Forget(stopped, n).state = stopped.state
       /\ NotInFlight(Forget(stopped, n), m)
  BY <1>10, ForgetGood
<1>14. Good(Emit(Forget(stopped, n), m, report), Known)
  BY <1>1, <1>10, <1>12, <1>13, EmitGood DEF IsIdle
<1>15. InSession(Emit(Forget(stopped, n), m, report), station, delivered, cipherCalls, sessions)
  BY <1>11, <1>12, <1>13, EmitInSession DEF IsReady
<1>16. Forget(Emit(stopped, m, report), n) = Emit(Forget(stopped, n), m, report)
  BY <1>10 DEF Good, Typed, ClientFields, Forget, Emit
<1>17. InSession(client', station, delivered, cipherCalls, sessions)
  <2>1. Forget(stopped, n).seqNumber = client.seqNumber
    <3>1. stopped.seqNumber = client.seqNumber
      BY <1>1, StopTimerFields DEF stopped
    <3> QED
      BY <1>10, <3>1, ForgetFields
  <2>2. Emit(Forget(stopped, n), m, report).seqNumber = client.seqNumber
    BY <1>13, <2>1 DEF Good, Typed, ClientFields, Emit
  <2> QED
    BY <1>4, <1>9, <1>14, <1>15, <1>16, <2>2, SendQueuedMessageInSession DEF NumbersLast
<1> QED
  BY <1>1, <1>2, <1>17 DEF NumbersInv

(* The session begins with the key exchange, under the numbers 0.          *)
LEMMA ConnectNumbers ==
    ASSUME QueueInv, NumbersInv, NEW tooOld, Connect(tooOld)
    PROVE  NumbersInv'
<1> DEFINE g == sessions + 1
           new == SendFirst(client, g)
<1>1. /\ ~connected /\ connected' /\ sessions' = g
      /\ UNCHANGED <<station, delivered, cipherCalls>>
      /\ g \in Gateways /\ g \in Messages
      /\ Good(client, Known)
  BY CommandAssumption DEF QueueInv, SessionTyped, Connect, Gateways, Messages
<1>2. OutOfSession(client) /\ station = InitialStation /\ delivered = 0 /\ cipherCalls = {}
  BY <1>1 DEF NumbersInv
<1>3. client' = SendQueuedMessage(new, TRUE, tooOld)
  <2>1. ~IsBlocked(client)
    BY <1>2 DEF OutOfSession, IsBlocked
  <2> QED
    BY <1>1, <2>1, KeyExchangeFirst
<1> HIDE DEF g
<1>4. /\ new.messageStates = Put(client.messageStates, client.seqNumber, g)
      /\ \A k \in Messages \ {g} : new.state[k] = client.state[k]
      /\ ~new.state[g].failed /\ ~new.state[g].acknowledged
      /\ new.state[g].timeout = "acknowledge"
      /\ new.seqNumber = client.seqNumber + 1
      /\ new.wire = client.wire \cup {Packet(client.seqNumber, g)}
      /\ new.p2pSeqMapping = IF g \in Pings THEN client.p2pSeqMapping
                             ELSE Put(client.p2pSeqMapping, client.p2pDataSeqNumber,
                                      client.seqNumber)
      /\ new.p2pDataSeqNumber = IF g \in Pings THEN client.p2pDataSeqNumber
                                ELSE client.p2pDataSeqNumber + 1
      /\ new.sendQueue = client.sendQueue /\ new.emitted = client.emitted
  BY <1>1, <1>2, CommandAssumption, SendFirstFields DEF Good, OutOfSession
<1> HIDE DEF new
<1>5. g \notin Pings
  BY <1>1, CommandAssumption
<1>6. /\ DOMAIN new.messageStates = {0} /\ new.messageStates[0] = g
      /\ new.seqNumber = 1 /\ new.wire = {Packet(0, g)}
      /\ DOMAIN new.p2pSeqMapping = {0} /\ new.p2pSeqMapping[0] = 0
      /\ new.p2pDataSeqNumber = 1
  BY <1>2, <1>4, <1>5 DEF OutOfSession, Put
<1>7. client' = new
  BY <1>1, <1>3, <1>6 DEF SendQueuedMessage, IsBlocked
<1>8. TimersInFlight(new)
  <2> SUFFICES ASSUME NEW k \in Messages
               PROVE  /\ ~new.state[k].failed
                      /\ new.state[k].timeout # "none" => ~NotInFlight(new, k)
                      /\ new.state[k].timeout = "result" => new.state[k].acknowledged
    BY DEF TimersInFlight
  <2>1. CASE k = g
    BY <1>4, <1>6, <2>1 DEF NotInFlight
  <2>2. CASE k # g
    BY <1>2, <1>4, <2>2 DEF OutOfSession, TimersInFlight, NotInFlight
  <2> QED
    BY <2>1, <2>2
<1>9. OwnResults(new) /\ Queued(new) \cap Gateways = {}
  BY <1>2, <1>4 DEF OutOfSession, OwnResults, Queued
<1>10. /\ Executed(station) = {} /\ Handled(station) = {} /\ station.handled = 0
       /\ Len(station.executed) = 0 /\ station.results = << >> /\ ~station.keySent
  BY <1>2, EmptyIsNothing
<1>11. WireInOrder(new, station, g) /\ InFlightIsOnWire(new, station)
  BY <1>4, <1>6, <1>10 DEF WireInOrder, InFlightIsOnWire, Packet
<1>12. StationInOrder(new, station)
  BY <1>10 DEF StationInOrder
<1>13. KeyPending(new, station, delivered, cipherCalls, g)
  BY <1>2, <1>6, <1>10 DEF KeyPending
<1>14. InSession(new, station, delivered, cipherCalls, g)
  BY <1>6, <1>8, <1>9, <1>11, <1>12, <1>13 DEF InSession
<1> QED
  BY <1>1, <1>7, <1>14 DEF NumbersInv

(* The timers of what was in flight are all there are.                     *)
LEMMA DisconnectNumbers ==
    ASSUME Reliable, QueueInv, NumbersInv, Disconnect
    PROVE  NumbersInv'
<1> DEFINE stopped == [m \in Messages |->
                         IF m \in Range(client.messageStates)
                         THEN [client.state[m] EXCEPT !.timeout = "none"]
                         ELSE client.state[m]]
<1>1. /\ connected /\ ~connected' /\ station' = InitialStation /\ delivered' = 0
      /\ cipherCalls' = {} /\ Good(client, Known) /\ DOMAIN client = ClientFields
      /\ InSession(client, station, delivered, cipherCalls, sessions)
  BY DEF Disconnect, Reliable, QueueInv, Good, Typed, NumbersInv
<1>2. /\ client'.sendQueue = WithoutPings(client.sendQueue)
      /\ client'.messageStates = EmptyFunction /\ client'.p2pSeqMapping = EmptyFunction
      /\ client'.state = stopped /\ client'.seqNumber = 0
      /\ client'.p2pDataSeqNumber = 0 /\ client'.wire = {}
      /\ client'.emitted = client.emitted
  BY <1>1 DEF Disconnect, Initialized, StopTimers, ClientFields
<1>3. \A m \in Messages : ~stopped[m].failed /\ stopped[m].timeout = "none"
  <2> SUFFICES ASSUME NEW m \in Messages
               PROVE  ~stopped[m].failed /\ stopped[m].timeout = "none"
    OBVIOUS
  <2>1. client.state[m] \in MessageState
    BY <1>1 DEF Good, Typed
  <2>2. CASE m \in Range(client.messageStates)
    BY <1>1, <2>1, <2>2 DEF InSession, TimersInFlight, MessageState
  <2>3. CASE m \notin Range(client.messageStates)
    <3>1. NotInFlight(client, m)
      BY <2>3 DEF NotInFlight, Range
    <3> QED
      BY <1>1, <2>3, <3>1 DEF InSession, TimersInFlight
  <2> QED
    BY <2>2, <2>3
<1> HIDE DEF stopped
<1>4. Queued(client') \subseteq Queued(client)
  <2>1. client.sendQueue \in Seq(Messages) /\ NoDuplicates(client.sendQueue)
    BY <1>1 DEF Good, Typed
  <2> QED
    BY <1>2, <2>1, WithoutPingsIsAQueue DEF Queued
<1>5. OutOfSession(client')
  BY <1>1, <1>2, <1>3, <1>4
  DEF InSession, OutOfSession, TimersInFlight, OwnResults, EmptyFunction
<1> QED
  BY <1>1, <1>5 DEF NumbersInv

LEMMA NextNumbers ==
    ASSUME Reliable
    PROVE  QueueInv /\ NumbersInv /\ NumbersLast /\ [Next]_vars => NumbersInv'
<1> SUFFICES ASSUME QueueInv, NumbersInv, NumbersLast, [Next]_vars PROVE NumbersInv'
  OBVIOUS
<1>1. CASE UNCHANGED vars
  BY <1>1
  DEF vars, NumbersInv, InSession, OutOfSession, TimersInFlight, NotInFlight, OwnResults,
      Queued, WireInOrder, InFlightIsOnWire, StationInOrder, KeyPending, Numbered
<1>2. CASE Next
  BY <1>2, SendCommandNumbers, StationExecutesNumbers, StationAnswersNumbers,
     ReceiveAckNumbers, ReceiveResultNumbers, ReceiveKeyNumbers, CipherReturnsNumbers,
     AcknowledgeTimeoutNumbers, ResultTimeoutNumbers, ConnectNumbers, DisconnectNumbers
  DEF Next
<1> QED
  BY <1>1, <1>2

(* When the station answers what it executed and acknowledgements are in   *)
(* time, then until a session has used up its numbers - however long       *)
(* commands wait in the queue, whatever was sent in between and however    *)
(* often the session is connected again - the result a command reports is  *)
(* the one the station gave for that very command (handleData with         *)
(* p2pSeqMapping).                                                         *)
THEOREM ResultsAreOwn ==
    ASSUME Faults \subseteq {"aged"}
    PROVE  Spec => ResultsAreOwnUntilWrap
<1>1. Reliable
  BY DEF Reliable
<1>2. Init => NumbersInv
  BY InitNumbers
<1>3. QueueInv /\ NumbersInv /\ NumbersLast /\ [Next]_vars => NumbersInv'
  BY <1>1, NextNumbers
<1>4. NumbersInv => ResultIsOwn
  BY DEF NumbersInv, InSession, OutOfSession, OwnResults, ResultIsOwn
<1> QED
  BY <1>2, <1>3, <1>4, QueueInvariance, PTL DEF Spec, ResultsAreOwnUntilWrap
=============================================================================
