------------------------ MODULE P2PDataChannelProofs ------------------------
(***************************************************************************)
(* Theorems about P2PDataChannel, for every MAX_SEQUENCE_NUMBER, boundary  *)
(* and length of the session.                                              *)
(***************************************************************************)
EXTENDS P2PDataChannel, SequenceTheorems, TLAPS

(***************************************************************************)
(* Arithmetic of sequence numbers.                                         *)
(***************************************************************************)
LEMMA TimesAtLeastOne ==
    ASSUME NEW m \in Nat \ {0}, NEW q \in Int, q >= 1
    PROVE  m * q >= m
OBVIOUS

LEMMA DivMod ==
    ASSUME NEW m \in Nat \ {0}, NEW a \in Nat
    PROVE  /\ a \div m \in Nat
           /\ a % m \in 0..(m - 1)
           /\ a = m * (a \div m) + (a % m)
OBVIOUS

LEMMA ModUnique ==
    ASSUME NEW m \in Nat \ {0}, NEW q \in Nat, NEW r \in 0..(m - 1)
    PROVE  (m * q + r) % m = r
OBVIOUS

(* Two numbers less than m apart with the same remainder are equal.        *)
LEMMA ModInjective ==
    ASSUME NEW m \in Nat \ {0}, NEW a \in Nat, NEW b \in Nat,
           a <= b, b - a < m, a % m = b % m
    PROVE  a = b
<1> DEFINE qa == a \div m
           qb == b \div m
<1>1. /\ qa \in Nat /\ qb \in Nat
      /\ a = m * qa + (a % m) /\ b = m * qb + (b % m)
  BY DivMod
<1>2. b - a = m * (qb - qa)
  BY <1>1
<1>3. ~(qb - qa >= 1)
  BY <1>1, <1>2, TimesAtLeastOne
<1>4. ~(qa - qb >= 1)
  BY <1>1, <1>2, TimesAtLeastOne
<1> QED
  BY <1>1, <1>3, <1>4

(* Reducing before adding changes nothing after the sum is reduced.        *)
LEMMA ModPlus ==
    ASSUME NEW m \in Nat \ {0}, NEW a \in Nat, NEW k \in Nat
    PROVE  ((a % m) + k) % m = (a + k) % m
<1> DEFINE q == a \div m
           r == a % m
           p == (r + k) \div m
           s == (r + k) % m
<1>1. /\ q \in Nat /\ r \in Nat /\ a = m * q + r
  BY DivMod
<1>2. r + k \in Nat
  BY <1>1
<1>3. /\ p \in Nat /\ s \in 0..(m - 1) /\ r + k = m * p + s
  BY <1>2, DivMod
<1> HIDE DEF q, r, p, s
<1>4. a + k = m * (q + p) + s
  BY <1>1, <1>3
<1>5. q + p \in Nat
  BY <1>1, <1>3
<1>6. (m * (q + p) + s) % m = s
  BY <1>3, <1>5, ModUnique, Zenon
<1>7. (a + k) % m = s
  BY <1>4, <1>6, Zenon
<1> QED
  BY <1>7 DEF r, s

(* The number after n + d steps, without a remainder.                      *)
LEMMA SeqNoPlus ==
    ASSUME NEW n \in Nat, NEW d \in 0..MAX_SEQUENCE_NUMBER
    PROVE  /\ SeqNo(n) \in 0..MAX_SEQUENCE_NUMBER
           /\ SeqNo(n + d) = IF SeqNo(n) + d <= MAX_SEQUENCE_NUMBER
                             THEN SeqNo(n) + d
                             ELSE SeqNo(n) + d - (MAX_SEQUENCE_NUMBER + 1)
<1> DEFINE m == MAX_SEQUENCE_NUMBER + 1
           r == n % m
<1>1. m \in Nat \ {0}
  BY SequenceAssumption
<1>2. r \in 0..(m - 1)
  BY <1>1, DivMod
<1>3. (r + d) % m = (n + d) % m
  BY <1>1, ModPlus
<1> HIDE DEF m, r
<1>4. ASSUME r + d < m
      PROVE  (r + d) % m = r + d
  <2>1. /\ r + d \in 0..(m - 1) /\ m * 0 + (r + d) = r + d
    BY <1>1, <1>2, <1>4, SequenceAssumption
  <2> QED
    BY <1>1, <2>1, ModUnique
<1>5. ASSUME ~(r + d < m)
      PROVE  (r + d) % m = r + d - m
  <2>1. /\ r + d - m \in 0..(m - 1) /\ m * 1 + (r + d - m) = r + d
    BY <1>1, <1>2, <1>5, SequenceAssumption DEF m
  <2> QED
    BY <1>1, <2>1, ModUnique
<1> QED
  BY <1>1, <1>2, <1>3, <1>4, <1>5, SequenceAssumption DEF SeqNo, m, r

(* IncrementSequence is the k-fold successor on sequence numbers.          *)
LEMMA IncrementIsNext ==
    ASSUME NEW n \in Nat, NEW k \in Nat
    PROVE  IncrementSequence(SeqNo(n), k) = SeqNo(n + k)
<1>1. MAX_SEQUENCE_NUMBER + 1 \in Nat \ {0}
  BY SequenceAssumption
<1> QED
  BY <1>1, ModPlus DEF IncrementSequence, SeqNo

(* One step of it is the conditional _incrementSequence computes.          *)
LEMMA IncrementIsWrappingSuccessor ==
    ASSUME NEW s \in 0..MAX_SEQUENCE_NUMBER
    PROVE  IncrementSequence(s, 1) =
               IF s < MAX_SEQUENCE_NUMBER THEN s + 1 ELSE 0
<1>1. s \in Nat /\ 1 \in 0..MAX_SEQUENCE_NUMBER
  BY SequenceAssumption
<1>2. SeqNo(s) = s
  <2>1. /\ MAX_SEQUENCE_NUMBER + 1 \in Nat \ {0}
        /\ s \in 0..((MAX_SEQUENCE_NUMBER + 1) - 1)
        /\ (MAX_SEQUENCE_NUMBER + 1) * 0 + s = s
    BY SequenceAssumption
  <2> QED
    BY <2>1, ModUnique DEF SeqNo
<1>3. IncrementSequence(s, 1) = SeqNo(s + 1)
  BY <1>1, <1>2, IncrementIsNext
<1>4. SeqNo(s + 1) = IF SeqNo(s) + 1 <= MAX_SEQUENCE_NUMBER
                     THEN SeqNo(s) + 1
                     ELSE SeqNo(s) + 1 - (MAX_SEQUENCE_NUMBER + 1)
  BY <1>1, SeqNoPlus
<1> QED
  BY <1>2, <1>3, <1>4, SequenceAssumption

LEMMA SeqNoInjective ==
    ASSUME NEW a \in Nat, NEW b \in Nat,
           a - b <= MAX_SEQUENCE_NUMBER, b - a <= MAX_SEQUENCE_NUMBER,
           SeqNo(a) = SeqNo(b)
    PROVE  a = b
<1> DEFINE m == MAX_SEQUENCE_NUMBER + 1
<1>1. /\ m \in Nat \ {0} /\ a % m = b % m
      /\ a - b < m /\ b - a < m
  BY SequenceAssumption DEF SeqNo
<1> HIDE DEF m
<1>2. CASE a <= b
  BY <1>1, <1>2, ModInjective
<1>3. CASE b <= a
  BY <1>1, <1>3, ModInjective
<1> QED
  BY <1>2, <1>3

(* A number returns after MAX_SEQUENCE_NUMBER + 1 packets.                 *)
LEMMA SeqNoCycle ==
    ASSUME NEW n \in Nat
    PROVE  SeqNo(n + MAX_SEQUENCE_NUMBER + 1) = SeqNo(n)
<1> DEFINE m == MAX_SEQUENCE_NUMBER + 1
           q == n \div m
           t == n % m
<1>1. m \in Nat \ {0}
  BY SequenceAssumption
<1>2. q \in Nat /\ t \in 0..(m - 1) /\ n = m * q + t
  BY <1>1, DivMod
<1>3. q + 1 \in Nat
  BY <1>2
<1>4. m * (q + 1) + t = n + m
  <2> HIDE DEF m, q, t
  <2> QED
    BY <1>1, <1>2
<1>5. (m * (q + 1) + t) % m = t
  <2> HIDE DEF m, q, t
  <2> QED
    BY <1>1, <1>2, <1>3, ModUnique, Zenon
<1>6. n + m = n + MAX_SEQUENCE_NUMBER + 1
  BY SequenceAssumption
<1> QED
  BY <1>4, <1>5, <1>6 DEF SeqNo

(***************************************************************************)
(* What _wasSequenceNumberAlreadyProcessed recognises.                     *)
(***************************************************************************)

(* A packet from at most SEQUENCE_PROCESSING_BOUNDARY positions back is    *)
(* recognised, unless it has the largest sequence number.                  *)
LEMMA ProcessedIsRecognised ==
    ASSUME NEW n \in Nat, NEW x \in Nat,
           n < x, x <= n + SEQUENCE_PROCESSING_BOUNDARY,
           SeqNo(n) # MAX_SEQUENCE_NUMBER
    PROVE  WasSequenceNumberAlreadyProcessed(SeqNo(x), SeqNo(n))
<1> DEFINE d == x - n
<1>1. d \in 1..SEQUENCE_PROCESSING_BOUNDARY /\ d \in 0..MAX_SEQUENCE_NUMBER /\ x = n + d
  BY SequenceAssumption
<1> HIDE DEF d
<1>2. /\ SeqNo(n) \in 0..MAX_SEQUENCE_NUMBER
      /\ SeqNo(x) = IF SeqNo(n) + d <= MAX_SEQUENCE_NUMBER
                    THEN SeqNo(n) + d
                    ELSE SeqNo(n) + d - (MAX_SEQUENCE_NUMBER + 1)
  BY <1>1, SeqNoPlus
<1> QED
  BY <1>1, <1>2, SequenceAssumption DEF WasSequenceNumberAlreadyProcessed, IsBetween

(* A packet less than Window positions ahead is not taken for one.         *)
LEMMA MissingIsRecognised ==
    ASSUME NEW n \in Nat, NEW x \in Nat,
           x <= n, n < x + Window
    PROVE  ~WasSequenceNumberAlreadyProcessed(SeqNo(x), SeqNo(n))
<1> DEFINE d == n - x
<1>1. d \in 0..(Window - 1) /\ d \in 0..MAX_SEQUENCE_NUMBER /\ n = x + d
  BY SequenceAssumption DEF Window
<1> HIDE DEF d
<1>2. /\ SeqNo(x) \in 0..MAX_SEQUENCE_NUMBER
      /\ SeqNo(n) = IF SeqNo(x) + d <= MAX_SEQUENCE_NUMBER
                    THEN SeqNo(x) + d
                    ELSE SeqNo(x) + d - (MAX_SEQUENCE_NUMBER + 1)
  BY <1>1, SeqNoPlus
<1> QED
  BY <1>1, <1>2, SequenceAssumption
     DEF WasSequenceNumberAlreadyProcessed, IsBetween, Window

(***************************************************************************)
(* The inductive invariant.  expectedSeqNo is the number of the next       *)
(* packet; the queue maps a number to the packet it belongs to, which is   *)
(* still to come or is the last one with the largest number; the station   *)
(* knows only of packets that arrived, so its window never leaves the      *)
(* packets the client can tell apart.                                      *)
(***************************************************************************)
ExpectsNext ==
    /\ expectedSeqNo = SeqNo(next)
    /\ \/ next <= sent
       \/ next = sent + 1 /\ SeqNo(sent) = MAX_SEQUENCE_NUMBER

IsStale(p) ==
    /\ SeqNo(p) = MAX_SEQUENCE_NUMBER
    /\ p < next
    /\ next <= p + MAX_SEQUENCE_NUMBER

QueueInv ==
    \A s \in DOMAIN queuedData :
        /\ SeqNo(queuedData[s]) = s
        /\ s # expectedSeqNo
        /\ queuedData[s] \in arrived
        /\ queuedData[s] > next \/ IsStale(queuedData[s])

ArrivedInv ==
    /\ arrived \subseteq 0..(sent - 1)
    /\ \A i \in arrived : i < next \/ SeqNo(i) \in DOMAIN queuedData
    /\ \A i \in 0..(next - 1) : i \in arrived \/ SeqNo(i) = MAX_SEQUENCE_NUMBER

WindowInv ==
    /\ acked \subseteq arrived
    /\ \A i \in Nat : i + Window < sent => i \in acked

IInv ==
    /\ TypeOK
    /\ ExpectsNext
    /\ DeliveredInOrder
    /\ QueueInv
    /\ ArrivedInv
    /\ WindowInv

LEMMA NextInType == TypeOK => next \in Nat
BY LenProperties DEF TypeOK, next

(* The newest packet is less than Window packets ahead of the client.      *)
LEMMA SentWithinWindow == IInv => sent <= next + Window
<1> SUFFICES ASSUME IInv, next + Window < sent
             PROVE  FALSE
  BY NextInType, SequenceAssumption DEF IInv, TypeOK, Window
<1>1. next \in arrived /\ next \in Nat
  BY NextInType DEF IInv, WindowInv
<1>2. SeqNo(next) \in DOMAIN queuedData
  BY <1>1 DEF IInv, ArrivedInv
<1> QED
  BY <1>2 DEF IInv, QueueInv, ExpectsNext

LEMMA InitInv == Init => IInv
<1> SUFFICES ASSUME Init PROVE IInv
  OBVIOUS
<1>1. Len(delivered) = 0 /\ delivered \in Seq(Nat)
  BY DEF Init
<1>2. SeqNo(0) = 0
  <2>1. /\ MAX_SEQUENCE_NUMBER + 1 \in Nat \ {0}
        /\ 0 \in 0..((MAX_SEQUENCE_NUMBER + 1) - 1)
        /\ (MAX_SEQUENCE_NUMBER + 1) * 0 + 0 = 0
    BY SequenceAssumption
  <2> QED
    BY <2>1, ModUnique DEF SeqNo
<1>3. TypeOK
  <2>1. DOMAIN queuedData = {} /\ queuedData \in [{} -> Nat]
    BY DEF Init
  <2>2. 0 \in 0..MAX_SEQUENCE_NUMBER
    BY SequenceAssumption
  <2> QED
    BY <1>1, <2>1, <2>2 DEF Init, TypeOK
<1>4. ExpectsNext /\ DeliveredInOrder
  BY <1>1, <1>2 DEF Init, ExpectsNext, DeliveredInOrder, next
<1>5. QueueInv /\ ArrivedInv
  BY <1>1 DEF Init, QueueInv, ArrivedInv, next
<1>6. WindowInv
  BY SequenceAssumption DEF Init, WindowInv, Window
<1> QED
  BY <1>3, <1>4, <1>5, <1>6 DEF IInv

(***************************************************************************)
(* The steps of the station, the network and the gap timer.                *)
(***************************************************************************)
LEMMA SendInv == IInv /\ Send => IInv'
<1> SUFFICES ASSUME IInv, Send PROVE IInv'
  OBVIOUS
<1> USE DEF IInv
<1>1. TypeOK' /\ next' = next /\ next \in Nat
  BY NextInType DEF TypeOK, Send, next
<1>2. ExpectsNext'
  BY <1>1 DEF ExpectsNext, Send, TypeOK
<1>3. DeliveredInOrder'
  BY DEF DeliveredInOrder, Send, TakesPlaceOf
<1>4. QueueInv' /\ ArrivedInv'
  BY <1>1 DEF QueueInv, ArrivedInv, Send, TypeOK, IsStale
<1>5. WindowInv'
  BY SequenceAssumption DEF WindowInv, Send, TypeOK, Window
<1> QED
  BY <1>1, <1>2, <1>3, <1>4, <1>5

LEMMA AckArrivesInv ==
    ASSUME IInv, NEW n \in 0..(sent - 1), AckArrives(n)
    PROVE  IInv'
<1> USE DEF IInv
<1>1. TypeOK' /\ next' = next
  BY DEF TypeOK, AckArrives, next
<1>2. ExpectsNext' /\ DeliveredInOrder' /\ QueueInv' /\ ArrivedInv'
  BY <1>1 DEF ExpectsNext, DeliveredInOrder, TakesPlaceOf, QueueInv, IsStale,
              ArrivedInv, AckArrives
<1>3. WindowInv'
  BY DEF WindowInv, AckArrives
<1> QED
  BY <1>1, <1>2, <1>3

LEMMA SameInv ==
    ASSUME IInv, UNCHANGED <<sent, arrived, acked, expectedSeqNo, queuedData, delivered>>,
           waitForSeqNoTimeout' \in BOOLEAN
    PROVE  IInv'
BY DEF IInv, TypeOK, ExpectsNext, DeliveredInOrder, TakesPlaceOf, QueueInv, IsStale,
       ArrivedInv, WindowInv, next

(***************************************************************************)
(* The steps of the client.                                                *)
(***************************************************************************)

(* Where an arriving packet can lie: a packet that arrives for the first   *)
(* time after its place was taken has the largest number.                  *)
LEMMA ArrivesInRange ==
    ASSUME IInv, NEW n \in 0..(sent - 1), Arrives(n)
    PROVE  /\ n \in Nat /\ next \in Nat /\ sent \in Nat
           /\ n < next + Window
           /\ next <= n + MAX_SEQUENCE_NUMBER
           /\ n < next => \/ SeqNo(n) = MAX_SEQUENCE_NUMBER
                          \/ next <= n + SEQUENCE_PROCESSING_BOUNDARY
           /\ SeqNo(n) \in 0..MAX_SEQUENCE_NUMBER
<1>1. n \in Nat /\ next \in Nat /\ sent <= next + Window /\ sent \in Nat
  BY SentWithinWindow, NextInType DEF IInv, TypeOK
<1>2. 0 \in 0..MAX_SEQUENCE_NUMBER
  BY SequenceAssumption
<1>3. SeqNo(n) \in 0..MAX_SEQUENCE_NUMBER
  BY <1>1, <1>2, SeqNoPlus
<1>4. n < next + Window
  BY <1>1, SequenceAssumption DEF Window
<1>5. CASE n \in arrived
  BY <1>1, <1>3, <1>4, <1>5, SequenceAssumption DEF Arrives
<1>6. CASE n \notin arrived
  <2>1. sent <= n + Window
    BY <1>1, <1>6, SequenceAssumption DEF IInv, WindowInv, Window
  <2>2. next <= sent + 1
    BY <1>1 DEF IInv, ExpectsNext
  <2>3. next <= n + MAX_SEQUENCE_NUMBER
    BY <1>1, <2>1, <2>2, SequenceAssumption DEF Window
  <2>4. n < next => SeqNo(n) = MAX_SEQUENCE_NUMBER
    BY <1>1, <1>6 DEF IInv, ArrivedInv
  <2> QED
    BY <1>1, <1>3, <1>4, <2>3, <2>4
<1> QED
  BY <1>5, <1>6

(* The packet with the expected number is the next packet.                 *)
LEMMA ExpectedIsNext ==
    ASSUME IInv, NEW n \in 0..(sent - 1), Arrives(n), SeqNo(n) = expectedSeqNo
    PROVE  n = next
<1>1. /\ n \in Nat /\ next \in Nat
      /\ n < next + Window
      /\ next <= n + MAX_SEQUENCE_NUMBER
  BY ArrivesInRange
<1>2. SeqNo(n) = SeqNo(next)
  BY DEF IInv, ExpectsNext
<1>3. n - next <= MAX_SEQUENCE_NUMBER /\ next - n <= MAX_SEQUENCE_NUMBER
  BY <1>1, SequenceAssumption DEF Window
<1> QED
  BY <1>1, <1>2, <1>3, SeqNoInjective

(* What the queue holds under the number i steps ahead is the packet i     *)
(* positions ahead, or the stale one that takes its place.                 *)
LEMMA QueuedAhead ==
    ASSUME IInv, NEW i \in 1..MAX_SEQUENCE_NUMBER,
           IncrementSequence(expectedSeqNo, i) \in DOMAIN queuedData
    PROVE  /\ TakesPlaceOf(queuedData[IncrementSequence(expectedSeqNo, i)], next + i)
           /\ queuedData[IncrementSequence(expectedSeqNo, i)] \in arrived
<1> DEFINE s == IncrementSequence(expectedSeqNo, i)
           q == queuedData[s]
<1>1. /\ next \in Nat /\ i \in Nat /\ sent \in Nat /\ sent <= next + Window
      /\ i >= 1 /\ i <= MAX_SEQUENCE_NUMBER
  BY SentWithinWindow, NextInType, SequenceAssumption DEF IInv, TypeOK
<1>2. s = SeqNo(next + i)
  BY <1>1, IncrementIsNext DEF IInv, ExpectsNext
<1>3. /\ SeqNo(q) = s /\ q \in Nat /\ q < sent /\ q \in arrived
      /\ q > next \/ IsStale(q)
  BY DEF IInv, QueueInv, TypeOK, ArrivedInv
<1> HIDE DEF q, s
<1>4. CASE q > next
  <2>1. q - (next + i) <= MAX_SEQUENCE_NUMBER /\ (next + i) - q <= MAX_SEQUENCE_NUMBER
    BY <1>1, <1>3, <1>4, SequenceAssumption DEF Window
  <2>2. next + i \in Nat /\ SeqNo(q) = SeqNo(next + i)
    BY <1>1, <1>2, <1>3
  <2>3. q = next + i
    BY <1>3, <2>1, <2>2, SeqNoInjective
  <2> QED
    BY <1>3, <2>3 DEF q, s, TakesPlaceOf
<1>5. CASE IsStale(q)
  <2> DEFINE u == q + MAX_SEQUENCE_NUMBER + 1
  <2>1. /\ u \in Nat /\ next + i \in Nat /\ SeqNo(u) = SeqNo(q)
    BY <1>1, <1>3, SeqNoCycle, SequenceAssumption
  <2>2. u - (next + i) <= MAX_SEQUENCE_NUMBER /\ (next + i) - u <= MAX_SEQUENCE_NUMBER
    BY <1>1, <1>3, <1>5, SequenceAssumption DEF IsStale
  <2>3. u = next + i
    <3> HIDE DEF u
    <3> QED
      BY <1>2, <1>3, <2>1, <2>2, SeqNoInjective
  <2>4. SeqNo(next + i) = MAX_SEQUENCE_NUMBER
    BY <1>2, <1>3, <1>5 DEF IsStale
  <2> QED
    BY <1>3, <2>3, <2>4 DEF q, s, TakesPlaceOf
<1> QED
  BY <1>3, <1>4, <1>5

(* A packet from beyond a gap lies ahead of the next packet, or is a copy  *)
(* of the last one with the largest number.                                *)
LEMMA UnexpectedIsAhead ==
    ASSUME IInv, NEW n \in 0..(sent - 1), Arrives(n),
           SeqNo(n) # expectedSeqNo,
           ~WasSequenceNumberAlreadyProcessed(expectedSeqNo, SeqNo(n))
    PROVE  n > next \/ IsStale(n)
<1>1. /\ n \in Nat /\ next \in Nat
      /\ next <= n + MAX_SEQUENCE_NUMBER
      /\ n < next => \/ SeqNo(n) = MAX_SEQUENCE_NUMBER
                     \/ next <= n + SEQUENCE_PROCESSING_BOUNDARY
  BY ArrivesInRange
<1>2. expectedSeqNo = SeqNo(next)
  BY DEF IInv, ExpectsNext
<1>3. n # next
  BY <1>2
<1>4. n < next => SeqNo(n) = MAX_SEQUENCE_NUMBER
  BY <1>1, <1>2, ProcessedIsRecognised
<1> QED
  BY <1>1, <1>3, <1>4 DEF IsStale

LEMMA ReceiveUnexpectedInv ==
    ASSUME IInv, NEW n \in 0..(sent - 1), ReceiveUnexpected(n)
    PROVE  IInv'
<1> USE DEF IInv
<1>1. n > next \/ IsStale(n)
  BY UnexpectedIsAhead DEF ReceiveUnexpected
<1>2. /\ n \in Nat /\ next \in Nat /\ n < sent /\ sent \in Nat
      /\ SeqNo(n) \in 0..MAX_SEQUENCE_NUMBER
      /\ SeqNo(n) # expectedSeqNo
      /\ arrived' = arrived \cup {n}
  BY ArrivesInRange DEF ReceiveUnexpected, Arrives
<1>3. /\ SeqNo(n) \in DOMAIN queuedData'
      /\ DOMAIN queuedData' = DOMAIN queuedData \cup {SeqNo(n)}
      /\ \A s \in DOMAIN queuedData : queuedData'[s] = queuedData[s]
      /\ \A s \in DOMAIN queuedData' \ DOMAIN queuedData : s = SeqNo(n) /\ queuedData'[s] = n
      /\ queuedData' \in [DOMAIN queuedData' -> Nat]
  BY <1>2 DEF ReceiveUnexpected, TypeOK
<1>4. TypeOK' /\ next' = next
  BY <1>2, <1>3 DEF TypeOK, ReceiveUnexpected, next
<1>5. ExpectsNext' /\ DeliveredInOrder'
  BY <1>4 DEF ExpectsNext, DeliveredInOrder, TakesPlaceOf, ReceiveUnexpected
<1>6. QueueInv'
  BY <1>1, <1>2, <1>3, <1>4 DEF QueueInv, IsStale, ReceiveUnexpected
<1>7. ArrivedInv'
  BY <1>2, <1>3, <1>4 DEF ArrivedInv, ReceiveUnexpected
<1>8. WindowInv'
  BY <1>2 DEF WindowInv, ReceiveUnexpected
<1> QED
  BY <1>4, <1>5, <1>6, <1>7, <1>8

LEMMA ReceiveProcessedInv ==
    ASSUME IInv, NEW n \in 0..(sent - 1), ReceiveProcessed(n)
    PROVE  IInv'
<1> USE DEF IInv
<1>1. /\ n \in Nat /\ next \in Nat /\ n < next + Window /\ n < sent
      /\ arrived' = arrived \cup {n}
  BY ArrivesInRange DEF ReceiveProcessed, Arrives
<1>2. n < next
  <2>1. next <= n => ~WasSequenceNumberAlreadyProcessed(SeqNo(next), SeqNo(n))
    BY <1>1, MissingIsRecognised
  <2> QED
    BY <1>1, <2>1 DEF ReceiveProcessed, ExpectsNext
<1>3. TypeOK' /\ next' = next
  BY <1>1 DEF TypeOK, ReceiveProcessed, next
<1>4. ExpectsNext' /\ DeliveredInOrder' /\ QueueInv'
  BY <1>1, <1>3 DEF ExpectsNext, DeliveredInOrder, TakesPlaceOf, QueueInv, IsStale,
                    ReceiveProcessed
<1>5. ArrivedInv' /\ WindowInv'
  BY <1>1, <1>2, <1>3 DEF ArrivedInv, WindowInv, ReceiveProcessed
<1> QED
  BY <1>3, <1>4, <1>5

(* The packets handed on by one arrival are the next one and the k that    *)
(* follow it.  Where an older packet takes the place of one of them, it    *)
(* may take the place of the next packet to be sent.                       *)
LEMMA ExpectedDelivers ==
    ASSUME IInv, NEW n \in 0..(sent - 1), ReceiveExpected(n)
    PROVE  \E k \in 0..MAX_SEQUENCE_NUMBER, run \in Seq(Nat) :
             /\ IsRun(k)
             /\ expectedSeqNo' = IncrementSequence(expectedSeqNo, k + 1)
             /\ Len(run) = k + 1
             /\ \A i \in 1..(k + 1) : TakesPlaceOf(run[i], next + i - 1)
             /\ \A i \in 1..(k + 1) : run[i] \in arrived \cup {n}
             /\ delivered' = delivered \o run
             /\ queuedData' = [s \in DOMAIN queuedData \
                                     {IncrementSequence(expectedSeqNo, i) : i \in 1..k}
                                |-> queuedData[s]]
             /\ next + k <= sent
             /\ next + k = sent => run[k + 1] # sent
             /\ n = next
             /\ arrived' = arrived \cup {n}
             /\ UNCHANGED <<sent, acked>>
             /\ waitForSeqNoTimeout' \in BOOLEAN
<1> DEFINE at(i)  == IncrementSequence(expectedSeqNo, i)
           run(k) == [i \in 1..(k + 1) |->
                        IF i = 1 THEN n ELSE queuedData[at(i - 1)]]
<1>1. PICK k \in 0..MAX_SEQUENCE_NUMBER :
        /\ IsRun(k)
        /\ expectedSeqNo' = at(k + 1)
        /\ delivered' = delivered \o run(k)
        /\ queuedData' = [s \in DOMAIN queuedData \ {at(i) : i \in 1..k} |-> queuedData[s]]
  BY DEF ReceiveExpected
<1>2. /\ n = next /\ n < sent /\ next \in Nat /\ k \in Nat /\ sent \in Nat
      /\ k <= MAX_SEQUENCE_NUMBER
      /\ arrived' = arrived \cup {n}
  <2>1. Arrives(n) /\ SeqNo(n) = expectedSeqNo
    BY DEF ReceiveExpected
  <2>2. n = next /\ next \in Nat /\ sent \in Nat
    BY <2>1, ExpectedIsNext, NextInType DEF IInv, TypeOK
  <2> QED
    BY <2>1, <2>2, SequenceAssumption DEF Arrives
<1>3. \A i \in 1..k : /\ at(i) \in DOMAIN queuedData
                      /\ TakesPlaceOf(queuedData[at(i)], next + i)
                      /\ queuedData[at(i)] \in arrived
                      /\ queuedData[at(i)] \in 0..(sent - 1)
  <2> SUFFICES ASSUME NEW i \in 1..k
               PROVE  /\ at(i) \in DOMAIN queuedData
                      /\ TakesPlaceOf(queuedData[at(i)], next + i)
                      /\ queuedData[at(i)] \in arrived
                      /\ queuedData[at(i)] \in 0..(sent - 1)
    OBVIOUS
  <2>1. at(i) \in DOMAIN queuedData
    BY <1>1 DEF IsRun
  <2>2. i \in 1..MAX_SEQUENCE_NUMBER
    BY <1>2, SequenceAssumption
  <2>3. TakesPlaceOf(queuedData[at(i)], next + i) /\ queuedData[at(i)] \in arrived
    BY <2>1, <2>2, QueuedAhead
  <2> QED
    BY <2>1, <2>3 DEF IInv, ArrivedInv
<1>4. \A i \in 1..(k + 1) : /\ run(k)[i] \in 0..(sent - 1)
                            /\ run(k)[i] \in arrived \cup {n}
                            /\ TakesPlaceOf(run(k)[i], next + i - 1)
  <2> SUFFICES ASSUME NEW i \in 1..(k + 1)
               PROVE  /\ run(k)[i] \in 0..(sent - 1)
                      /\ run(k)[i] \in arrived \cup {n}
                      /\ TakesPlaceOf(run(k)[i], next + i - 1)
    OBVIOUS
  <2>1. CASE i = 1
    <3>1. run(k)[i] = n /\ next + i - 1 = n
      BY <1>2, <2>1
    <3> QED
      BY <1>2, <3>1 DEF TakesPlaceOf
  <2>2. CASE i # 1
    <3>1. i - 1 \in 1..k /\ next + (i - 1) = next + i - 1
      BY <1>2, <2>2
    <3>2. run(k)[i] = queuedData[at(i - 1)]
      BY <2>2
    <3>3. /\ TakesPlaceOf(queuedData[at(i - 1)], next + (i - 1))
          /\ queuedData[at(i - 1)] \in arrived
          /\ queuedData[at(i - 1)] \in 0..(sent - 1)
      BY <1>3, <3>1
    <3> QED
      BY <3>1, <3>2, <3>3
  <2> QED
    BY <2>1, <2>2
<1>5. run(k) \in Seq(Nat) /\ Len(run(k)) = k + 1
  <2>1. \A i \in 1..(k + 1) : (IF i = 1 THEN n ELSE queuedData[at(i - 1)]) \in Nat
    BY <1>2, <1>4
  <2> QED
    BY <1>2, <2>1
<1>6. run(k)[k + 1] # sent
  <2>1. k + 1 \in 1..(k + 1)
    BY <1>2
  <2> QED
    BY <1>2, <1>4, <2>1
<1>7. next + k <= sent
  <2>1. CASE k = 0
    BY <1>2, <2>1
  <2>2. CASE k = 1
    BY <1>2, <2>2
  <2>3. CASE k > 1
    <3>1. k - 1 \in 1..k /\ k \in 1..k /\ k - 1 \in Nat
      BY <1>2, <2>3
    <3>2. CASE queuedData[at(k)] = next + k
      <4>1. queuedData[at(k)] \in 0..(sent - 1)
        BY <1>3, <3>1
      <4> QED
        BY <1>2, <3>2, <4>1
    <3>3. CASE queuedData[at(k)] # next + k
      <4>1. SeqNo(next + k) = MAX_SEQUENCE_NUMBER
        BY <1>3, <3>1, <3>3 DEF TakesPlaceOf
      <4>2. SeqNo(next + (k - 1)) # MAX_SEQUENCE_NUMBER
        <5>1. /\ next + k \in Nat /\ next + (k - 1) \in Nat
              /\ (next + k) - (next + (k - 1)) <= MAX_SEQUENCE_NUMBER
              /\ (next + (k - 1)) - (next + k) <= MAX_SEQUENCE_NUMBER
              /\ next + k # next + (k - 1)
          BY <1>2, <3>1, SequenceAssumption
        <5> QED
          BY <4>1, <5>1, SeqNoInjective
      <4>3. queuedData[at(k - 1)] = next + (k - 1) /\ queuedData[at(k - 1)] \in 0..(sent - 1)
        BY <1>3, <3>1, <4>2 DEF TakesPlaceOf
      <4> QED
        BY <1>2, <3>1, <4>3
    <3> QED
      BY <3>2, <3>3
  <2> QED
    BY <1>2, <2>1, <2>2, <2>3
<1>8. waitForSeqNoTimeout' \in BOOLEAN /\ UNCHANGED <<sent, acked>>
  BY DEF ReceiveExpected
<1> HIDE DEF run
<1> QED
  BY <1>1, <1>2, <1>4, <1>5, <1>6, <1>7, <1>8

LEMMA ReceiveExpectedInv ==
    ASSUME IInv, NEW n \in 0..(sent - 1), ReceiveExpected(n)
    PROVE  IInv'
<1> DEFINE at(i) == IncrementSequence(expectedSeqNo, i)
<1>1. PICK k \in 0..MAX_SEQUENCE_NUMBER, run \in Seq(Nat) :
        /\ IsRun(k)
        /\ expectedSeqNo' = at(k + 1)
        /\ Len(run) = k + 1
        /\ \A i \in 1..(k + 1) : TakesPlaceOf(run[i], next + i - 1)
        /\ \A i \in 1..(k + 1) : run[i] \in arrived \cup {n}
        /\ delivered' = delivered \o run
        /\ queuedData' = [s \in DOMAIN queuedData \ {at(i) : i \in 1..k} |-> queuedData[s]]
        /\ next + k <= sent
        /\ next + k = sent => run[k + 1] # sent
        /\ n = next
        /\ arrived' = arrived \cup {n}
        /\ UNCHANGED <<sent, acked>>
        /\ waitForSeqNoTimeout' \in BOOLEAN
  BY ExpectedDelivers
<1>2. /\ next \in Nat /\ k \in Nat /\ sent \in Nat /\ sent <= next + Window
      /\ k <= MAX_SEQUENCE_NUMBER
      /\ delivered \in Seq(Nat)
  BY NextInType, SentWithinWindow, SequenceAssumption DEF IInv, TypeOK
<1>3. \A i \in 1..(k + 1) : at(i) = SeqNo(next + i)
  BY <1>2, IncrementIsNext DEF IInv, ExpectsNext
<1>4. /\ delivered' \in Seq(Nat)
      /\ next' = next + k + 1
      /\ \A i \in 1..(next + k + 1) : TakesPlaceOf(delivered'[i], i - 1)
  <2>4. /\ delivered \o run \in Seq(Nat)
        /\ Len(delivered \o run) = Len(delivered) + Len(run)
        /\ \A i \in 1..(Len(delivered) + Len(run)) :
              (delivered \o run)[i] =
                  IF i <= Len(delivered) THEN delivered[i] ELSE run[i - Len(delivered)]
    BY <1>1, <1>2, ConcatProperties
  <2>5. \A i \in 1..next : TakesPlaceOf(delivered[i], i - 1)
    BY DEF IInv, DeliveredInOrder, next
  <2>6. /\ delivered' \in Seq(Nat)
        /\ Len(delivered') = next + k + 1
    BY <1>1, <1>2, <2>4 DEF next
  <2>7. ASSUME NEW i \in 1..(next + k + 1)
        PROVE  TakesPlaceOf(delivered'[i], i - 1)
    <3>1. CASE i <= next
      <4>1. i \in 1..next /\ i \in 1..(Len(delivered) + Len(run)) /\ i <= Len(delivered)
        BY <1>1, <1>2, <3>1 DEF next
      <4>2. delivered'[i] = delivered[i]
        BY <1>1, <2>4, <4>1
      <4> QED
        BY <2>5, <4>1, <4>2
    <3>2. CASE i > next
      <4>1. /\ i - next \in 1..(k + 1) /\ next + (i - next) - 1 = i - 1
            /\ i \in 1..(Len(delivered) + Len(run)) /\ ~(i <= Len(delivered))
        BY <1>1, <1>2, <3>2 DEF next
      <4>2. delivered'[i] = run[i - next]
        BY <1>1, <2>4, <4>1 DEF next
      <4>3. TakesPlaceOf(run[i - next], next + (i - next) - 1)
        BY <1>1, <4>1
      <4> QED
        BY <4>1, <4>2, <4>3
    <3> QED
      BY <1>2, <3>1, <3>2
  <2> QED
    BY <2>6, <2>7 DEF next
<1>5. /\ DOMAIN queuedData' = DOMAIN queuedData \ {at(i) : i \in 1..k}
      /\ \A s \in DOMAIN queuedData' : queuedData'[s] = queuedData[s]
  BY <1>1
<1>6. ExpectsNext'
  <2>1. expectedSeqNo' = SeqNo(next + k + 1)
    <3>1. k + 1 \in 1..(k + 1) /\ next + (k + 1) = next + k + 1
      BY <1>2
    <3> QED
      BY <1>1, <1>3, <3>1
  <2>2. next + k = sent => SeqNo(sent) = MAX_SEQUENCE_NUMBER
    <3>1. k + 1 \in 1..(k + 1) /\ next + (k + 1) - 1 = next + k
      BY <1>2
    <3>2. TakesPlaceOf(run[k + 1], next + (k + 1) - 1)
      BY <1>1, <3>1
    <3> QED
      BY <1>1, <3>1, <3>2 DEF TakesPlaceOf
  <2>3. \/ next + k + 1 <= sent
        \/ next + k + 1 = sent + 1 /\ SeqNo(sent) = MAX_SEQUENCE_NUMBER
    BY <1>1, <1>2, <2>2
  <2> QED
    BY <1>1, <1>4, <2>1, <2>3 DEF ExpectsNext
<1>7. TypeOK'
  <2>1. expectedSeqNo' \in 0..MAX_SEQUENCE_NUMBER
    <3>1. next + k + 1 \in Nat /\ 0 \in 0..MAX_SEQUENCE_NUMBER
      BY <1>2, SequenceAssumption
    <3>2. SeqNo(next + k + 1) \in 0..MAX_SEQUENCE_NUMBER
      BY <3>1, SeqNoPlus
    <3> QED
      BY <1>4, <1>6, <3>2 DEF ExpectsNext
  <2>2. queuedData' \in [DOMAIN queuedData' -> Nat]
    <3>1. \A s \in DOMAIN queuedData : queuedData[s] \in Nat
      BY DEF IInv, TypeOK
    <3> QED
      BY <1>1, <3>1
  <2>3. DOMAIN queuedData' \subseteq 0..MAX_SEQUENCE_NUMBER
    BY <1>5 DEF IInv, TypeOK
  <2>4. arrived' \subseteq Nat /\ acked' \subseteq Nat /\ sent' = sent
    BY <1>1, <1>2 DEF IInv, TypeOK
  <2>5. waitForSeqNoTimeout' \in BOOLEAN /\ delivered' \in Seq(Nat)
    BY <1>1, <1>4
  <2> QED
    BY <2>1, <2>2, <2>3, <2>4, <2>5 DEF IInv, TypeOK
<1>8. DeliveredInOrder'
  <2>1. Len(delivered') = next + k + 1
    BY <1>4 DEF next
  <2> QED
    BY <1>4, <2>1 DEF DeliveredInOrder, TakesPlaceOf
<1>9. QueueInv'
  <2> SUFFICES ASSUME NEW s \in DOMAIN queuedData'
               PROVE  /\ SeqNo(queuedData[s]) = s
                      /\ s # expectedSeqNo'
                      /\ queuedData[s] \in arrived'
                      /\ \/ queuedData[s] > next + k + 1
                         \/ /\ SeqNo(queuedData[s]) = MAX_SEQUENCE_NUMBER
                            /\ queuedData[s] < next + k + 1
                            /\ next + k + 1 <= queuedData[s] + MAX_SEQUENCE_NUMBER
    BY <1>1, <1>4, <1>5 DEF QueueInv, IsStale
  <2> DEFINE q == queuedData[s]
  <2>1. /\ SeqNo(q) = s /\ q \in Nat /\ q \in arrived
        /\ s \in DOMAIN queuedData
        /\ q > next \/ IsStale(q)
    BY <1>5 DEF IInv, QueueInv, TypeOK
  <2>2. s # expectedSeqNo'
    BY <1>1, <2>1 DEF IsRun
  <2>3. ASSUME NEW x \in Nat, x > next, SeqNo(x) = s
        PROVE  x > next + k + 1
    <3> SUFFICES ASSUME x <= next + k + 1 PROVE FALSE
      BY <1>2, <2>3
    <3>1. x - next \in 1..(k + 1) /\ next + (x - next) = x
      BY <1>2, <2>3
    <3>2. at(x - next) = s
      BY <1>3, <2>3, <3>1
    <3>3. x - next \in 1..k
      BY <1>1, <1>2, <2>2, <2>3, <3>1, <3>2
    <3> QED
      BY <1>5, <3>2, <3>3
  <2>4. CASE q > next
    <3>1. q > next + k + 1
      <4> HIDE DEF q
      <4> QED
        BY <2>1, <2>3, <2>4
    <3> QED
      BY <1>1, <2>1, <2>2, <3>1
  <2>5. CASE IsStale(q)
    <3> HIDE DEF q
    <3> DEFINE u == q + MAX_SEQUENCE_NUMBER + 1
    <3>1. u \in Nat /\ u > next /\ SeqNo(u) = s
      BY <1>2, <2>1, <2>5, SeqNoCycle, SequenceAssumption DEF IsStale
    <3>2. u > next + k + 1
      <4> HIDE DEF u
      <4> QED
        BY <2>3, <3>1
    <3>3. q < next + k + 1 /\ next + k + 1 <= q + MAX_SEQUENCE_NUMBER
      BY <1>2, <2>1, <2>5, <3>2, SequenceAssumption DEF IsStale
    <3>4. SeqNo(q) = MAX_SEQUENCE_NUMBER
      BY <2>5 DEF IsStale
    <3> QED
      BY <1>1, <2>1, <2>2, <3>3, <3>4 DEF q
  <2> QED
    BY <2>1, <2>4, <2>5
<1>10. ArrivedInv'
  <2>1. arrived' \subseteq 0..(sent' - 1)
    BY <1>1 DEF IInv, ArrivedInv
  <2>2. ASSUME NEW a \in arrived'
        PROVE  a < next + k + 1 \/ SeqNo(a) \in DOMAIN queuedData'
    <3>1. a \in Nat /\ a < sent
      BY <1>2, <2>1, <1>1
    <3>2. CASE a <= next
      BY <1>2, <3>1, <3>2
    <3>3. CASE a > next
      <4>1. SeqNo(a) \in DOMAIN queuedData
        BY <1>1, <1>2, <2>2, <3>1, <3>3 DEF IInv, ArrivedInv
      <4>2. CASE SeqNo(a) \in DOMAIN queuedData'
        BY <4>2
      <4>3. CASE SeqNo(a) \notin DOMAIN queuedData'
        <5>1. PICK i \in 1..k : SeqNo(a) = at(i)
          BY <1>5, <4>1, <4>3
        <5>2. i \in Nat /\ i \in 1..(k + 1) /\ i <= k
          BY <1>2
        <5>3. SeqNo(a) = SeqNo(next + i) /\ next + i \in Nat
          BY <1>2, <1>3, <5>1, <5>2
        <5>4. a - (next + i) <= MAX_SEQUENCE_NUMBER /\ (next + i) - a <= MAX_SEQUENCE_NUMBER
          BY <1>2, <3>1, <3>3, <5>2, SequenceAssumption DEF Window
        <5>5. a = next + i
          BY <3>1, <5>3, <5>4, SeqNoInjective
        <5> QED
          BY <1>2, <5>2, <5>5
      <4> QED
        BY <4>2, <4>3
    <3> QED
      BY <1>2, <3>1, <3>2, <3>3
  <2>3. ASSUME NEW a \in 0..(next + k)
        PROVE  a \in arrived' \/ SeqNo(a) = MAX_SEQUENCE_NUMBER
    <3>1. CASE a < next
      <4>1. a \in 0..(next - 1)
        BY <1>2, <3>1
      <4> QED
        BY <1>1, <4>1 DEF IInv, ArrivedInv
    <3>2. CASE a >= next
      <4>1. (a - next) + 1 \in 1..(k + 1) /\ next + ((a - next) + 1) - 1 = a
        BY <1>2, <3>2
      <4>2. /\ TakesPlaceOf(run[(a - next) + 1], next + ((a - next) + 1) - 1)
            /\ run[(a - next) + 1] \in arrived \cup {n}
        BY <1>1, <4>1
      <4> QED
        BY <1>1, <4>1, <4>2 DEF TakesPlaceOf
    <3> QED
      BY <1>2, <3>1, <3>2
  <2>4. next' - 1 = next + k
    BY <1>2, <1>4
  <2> QED
    BY <1>4, <2>1, <2>2, <2>3, <2>4 DEF ArrivedInv
<1>11. WindowInv'
  BY <1>1 DEF IInv, WindowInv
<1> QED
  BY <1>6, <1>7, <1>8, <1>9, <1>10, <1>11 DEF IInv

LEMMA NextInv == IInv /\ [Next]_vars => IInv'
<1> SUFFICES ASSUME IInv, [Next]_vars
             PROVE  IInv'
  OBVIOUS
<1>1. CASE Send
  BY <1>1, SendInv
<1>2. ASSUME NEW n \in 0..(sent - 1), AckArrives(n)
      PROVE  IInv'
  BY <1>2, AckArrivesInv
<1>3. ASSUME NEW n \in 0..(sent - 1), Receive(n)
      PROVE  IInv'
  <2>1. CASE ReceiveExpected(n)
    BY <2>1, ReceiveExpectedInv
  <2>2. CASE ReceiveProcessed(n)
    BY <2>2, ReceiveProcessedInv
  <2>3. CASE ReceiveUnexpected(n)
    BY <2>3, ReceiveUnexpectedInv
  <2> QED
    BY <1>3, <2>1, <2>2, <2>3 DEF Receive
<1>4. CASE SeqNoTimeout
  BY <1>4, SameInv DEF SeqNoTimeout
<1>5. CASE UNCHANGED vars
  BY <1>5, SameInv DEF vars, IInv, TypeOK
<1> QED
  BY <1>1, <1>2, <1>3, <1>4, <1>5 DEF Next

(***************************************************************************)
(* The theorems.                                                           *)
(***************************************************************************)

(* The inductive invariant holds.                                          *)
THEOREM Invariance == Spec => []IInv
<1>1. IInv /\ [Next]_vars => IInv'
  BY NextInv
<1> QED
  BY <1>1, InitInv, PTL DEF Spec

(* Every variable keeps the type the fields of session.ts have.            *)
THEOREM TypeCorrect == Spec => []TypeOK
<1>1. IInv => TypeOK
  BY DEF IInv
<1> QED
  BY <1>1, Invariance, PTL

(* Packets are parsed in the order sent, each once (DATA branch of         *)
(* handleMsg), for every sequence number space and boundary; only a        *)
(* packet with the largest number may be replaced by a second copy of the  *)
(* one that had this number a cycle before.                                *)
THEOREM InOrder == Spec => []DeliveredInOrder
<1>1. IInv => DeliveredInOrder
  BY DEF IInv
<1> QED
  BY <1>1, Invariance, PTL

(* The queue never holds a packet that was already parsed                  *)
(* (_wasSequenceNumberAlreadyProcessed), but for the last one with the     *)
(* largest number.                                                         *)
THEOREM QueueIsNew == Spec => []QueuedDataIsNew
<1>1. IInv => QueuedDataIsNew
  BY DEF IInv, QueueInv, QueuedDataIsNew, IsStale
<1> QED
  BY <1>1, Invariance, PTL

(* A missing packet inside the station's window is never taken for a       *)
(* processed one.                                                          *)
THEOREM MissingStaysMissing == Spec => []MissingIsNotProcessed
<1>1. IInv => MissingIsNotProcessed
  <2> SUFFICES ASSUME IInv, NEW n \in next..(sent - 1)
               PROVE  ~WasSequenceNumberAlreadyProcessed(expectedSeqNo, SeqNo(n))
    BY DEF MissingIsNotProcessed
  <2>1. /\ next \in Nat /\ sent \in Nat /\ sent <= next + Window
        /\ expectedSeqNo = SeqNo(next)
    BY NextInType, SentWithinWindow DEF IInv, TypeOK, ExpectsNext
  <2>2. n \in Nat /\ next <= n /\ n < next + Window
    BY <2>1, SequenceAssumption DEF Window
  <2> QED
    BY <2>1, <2>2, MissingIsRecognised
<1> QED
  BY <1>1, Invariance, PTL

LEMMA ExpectedIsDeliver ==
    ASSUME IInv, NEW n \in 0..(sent - 1), ReceiveExpected(n)
    PROVE  Ordered!Deliver
<1>1. PICK k \in 0..MAX_SEQUENCE_NUMBER, run \in Seq(Nat) :
        /\ Len(run) = k + 1
        /\ \A i \in 1..(k + 1) : TakesPlaceOf(run[i], next + i - 1)
        /\ delivered' = delivered \o run
        /\ next + k <= sent
        /\ next + k = sent => run[k + 1] # sent
        /\ UNCHANGED sent
  BY ExpectedDelivers
<1>2. next \in Nat /\ sent \in Nat /\ k \in Nat
  BY NextInType, SequenceAssumption DEF IInv, TypeOK
<1> DEFINE last  == next + k
           stale == {p \in next..last : run[p - next + 1] # p}
           there(i) == LET p == next + i - 1
                       IN  IF p \in stale THEN p - (MAX_SEQUENCE_NUMBER + 1) ELSE p
<1>3. last \in next..sent
  BY <1>1, <1>2
<1>4. \A p \in stale : /\ p \in Nat
                       /\ p >= MAX_SEQUENCE_NUMBER + 1
                       /\ SeqNo(p) = MAX_SEQUENCE_NUMBER
                       /\ run[p - next + 1] = p - (MAX_SEQUENCE_NUMBER + 1)
  <2> SUFFICES ASSUME NEW p \in stale
               PROVE  /\ p \in Nat
                      /\ p >= MAX_SEQUENCE_NUMBER + 1
                      /\ SeqNo(p) = MAX_SEQUENCE_NUMBER
                      /\ run[p - next + 1] = p - (MAX_SEQUENCE_NUMBER + 1)
    OBVIOUS
  <2>1. /\ p \in Nat /\ p - next + 1 \in 1..(k + 1) /\ next + (p - next + 1) - 1 = p
        /\ run[p - next + 1] # p
    BY <1>2
  <2>2. TakesPlaceOf(run[p - next + 1], next + (p - next + 1) - 1)
    BY <1>1, <2>1
  <2>3. run[p - next + 1] \in Nat
    BY <1>1, <2>1, ElementOfSeq
  <2> HIDE DEF stale, last
  <2> QED
    BY <2>1, <2>2, <2>3, SequenceAssumption DEF TakesPlaceOf
<1>5. \A i \in 1..(k + 1) : run[i] = there(i)
  <2> SUFFICES ASSUME NEW i \in 1..(k + 1) PROVE run[i] = there(i)
    OBVIOUS
  <2>1. next + i - 1 \in next..last /\ (next + i - 1) - next + 1 = i
    BY <1>2
  <2>2. CASE next + i - 1 \in stale
    <3>1. run[(next + i - 1) - next + 1] = (next + i - 1) - (MAX_SEQUENCE_NUMBER + 1)
      BY <1>4, <2>2
    <3> HIDE DEF stale
    <3> QED
      BY <2>1, <2>2, <3>1
  <2>3. CASE next + i - 1 \notin stale
    BY <2>1, <2>3
  <2> QED
    BY <2>2, <2>3
<1>6. run = [i \in 1..(last - next + 1) |-> there(i)]
  <2>1. last - next + 1 = k + 1
    BY <1>2
  <2>2. /\ DOMAIN run = 1..(k + 1)
        /\ run = [i \in DOMAIN run |-> run[i]]
    BY <1>1
  <2> HIDE DEF there, last
  <2> QED
    BY <1>5, <2>1, <2>2
<1>7. last < sent \/ last \in stale
  <2>1. CASE next + k < sent
    BY <2>1
  <2>2. CASE next + k = sent
    <3>1. last \in next..last /\ last - next + 1 = k + 1
      BY <1>2
    <3> QED
      BY <1>1, <2>2, <3>1
  <2> QED
    BY <1>1, <1>2, <2>1, <2>2
<1>8. stale \in SUBSET {p \in next..last :
                          /\ p >= MAX_SEQUENCE_NUMBER + 1
                          /\ Ordered!HasLastNumber(p)}
  <2>1. \A p \in stale : p \in next..last
    OBVIOUS
  <2>2. \A p \in stale : Ordered!HasLastNumber(p)
    <3> HIDE DEF stale
    <3> QED
      BY <1>4, SequenceAssumption DEF Ordered!HasLastNumber, SeqNo
  <2> HIDE DEF stale, last
  <2> QED
    BY <1>4, <2>1, <2>2
<1>9. delivered' = delivered \o [i \in 1..(last - next + 1) |-> there(i)]
  BY <1>1, <1>6, Zenon
<1>10. UNCHANGED sent
  BY <1>1
<1> HIDE DEF stale, last
<1> QED
  BY <1>3, <1>7, <1>8, <1>9, <1>10 DEF Ordered!Deliver, next

(* The session implements OrderedDelivery: an ordered, exactly-once        *)
(* channel but for the places with the largest number.                     *)
THEOREM Refinement == Spec => ImplementsOrderedDelivery
<1>1. Init => Ordered!Init
  BY DEF Init, Ordered!Init
<1>2. ASSUME IInv, [Next]_vars
      PROVE  [Ordered!Next]_<<sent, delivered>>
  <2>1. CASE Send
    BY <2>1 DEF Send, Ordered!Next, Ordered!Send
  <2>2. ASSUME NEW n \in 0..(sent - 1), ReceiveExpected(n)
        PROVE  Ordered!Deliver
    BY <1>2, <2>2, ExpectedIsDeliver
  <2>3. ASSUME NEW n \in 0..(sent - 1), Receive(n), ~ReceiveExpected(n)
        PROVE  UNCHANGED <<sent, delivered>>
    BY <2>3 DEF Receive, ReceiveProcessed, ReceiveUnexpected, vars
  <2>4. ASSUME NEW n \in 0..(sent - 1), AckArrives(n)
        PROVE  UNCHANGED <<sent, delivered>>
    BY <2>4 DEF AckArrives
  <2>5. CASE SeqNoTimeout
    BY <2>5 DEF SeqNoTimeout
  <2>6. CASE UNCHANGED vars
    BY <2>6 DEF vars
  <2> QED
    BY <1>2, <2>1, <2>2, <2>3, <2>4, <2>5, <2>6 DEF Next, Ordered!Next
<1> QED
  BY <1>1, <1>2, Invariance, PTL DEF Spec, ImplementsOrderedDelivery, Ordered!Spec
=============================================================================
