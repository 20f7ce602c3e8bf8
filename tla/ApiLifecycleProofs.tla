------------------------- MODULE ApiLifecycleProofs -------------------------
(***************************************************************************)
(* Proofs about ApiLifecycle, for any cloud (Faults, but where a theorem   *)
(* says otherwise), any number of events, boots and tasks, and any locks.  *)
(*                                                                         *)
(* The inductive invariant is about a client state and the kind of the     *)
(* request that is being dealt with: between Done, which takes a request   *)
(* off the bag, and what follows its answer, that request still counts.    *)
(***************************************************************************)
EXTENDS ApiLifecycle, TLAPS

(* A bag with one copy more, and with one less; what becomes of the set.   *)
OneMore(B, x) == B (+) SetToBag({x})
OneLess(B, x) == B (-) SetToBag({x})

LEMMA BagAdd ==
    ASSUME NEW B, IsABag(B), NEW x
    PROVE  /\ IsABag(OneMore(B, x))
           /\ BagToSet(OneMore(B, x)) = BagToSet(B) \cup {x}
<1>1. BagToSet(OneMore(B, x)) = BagToSet(B) \cup {x}
  BY DEF BagToSet, OneMore, (+), SetToBag
<1>2. \A e \in DOMAIN B : B[e] \in Nat /\ B[e] > 0
  BY DEF IsABag
<1>3. SUFFICES ASSUME NEW e \in DOMAIN OneMore(B, x)
               PROVE  OneMore(B, x)[e] \in {n \in Nat : n > 0}
  BY <1>1, <1>3 DEF IsABag, OneMore, (+)
<1>. QED
  BY <1>2 DEF OneMore, (+), SetToBag

LEMMA BagTake ==
    ASSUME NEW B, IsABag(B), NEW x
    PROVE  /\ IsABag(OneLess(B, x))
           /\ BagToSet(OneLess(B, x)) \subseteq BagToSet(B)
           /\ BagToSet(B) \subseteq BagToSet(OneLess(B, x)) \cup {x}
<1>2. \A e \in DOMAIN B : B[e] \in Nat /\ B[e] > 0
  BY DEF IsABag
<1>. DEFINE C == [e \in DOMAIN B |-> IF e \in {x} THEN B[e] - 1 ELSE B[e]]
            D == {d \in DOMAIN B : C[d] > 0}
<1>3. OneLess(B, x) = [e \in D |-> C[e]]
  BY DEF OneLess, (-), SetToBag
<1>4. \A e \in DOMAIN B : C[e] \in Int /\ (e # x => C[e] > 0)
  BY <1>2
<1>5. D \subseteq DOMAIN B /\ DOMAIN B \subseteq D \cup {x}
  BY <1>4
<1>6. \A e \in D : C[e] \in {n \in Nat : n > 0}
  <2>. SUFFICES ASSUME NEW e \in D PROVE C[e] \in Nat /\ C[e] > 0
    OBVIOUS
  <2>. HIDE DEF C
  <2>. QED
    BY <1>4
<1>. HIDE DEF C, D
<1>. QED
  BY <1>3, <1>5, <1>6 DEF IsABag, BagToSet

----------------------------------------------------------------------------
(* The MQTT service.                                                       *)

(* Only the latest client may connect.                                     *)
OnlyLatest(m) ==
    \A k \in DOMAIN m.clients : m.clients[k].status # "ended" => k = Latest(m)

(* As long as that is so, a connection has all the locks, and a client     *)
(* that will connect has them or finds them in the queue.                  *)
LatestHasLocks(m) ==
    m.clients # << >> =>
        LET latest == m.clients[Latest(m)]
        IN  /\ m.connected => latest.status = "up" /\ latest.topics = Locks
            /\ latest.status # "ended" => latest.topics = Locks \/ m.subscribeLocks = Locks

MqttInv(m) ==
    /\ m \in [connected : BOOLEAN, connecting : BOOLEAN,
              subscribeLocks : {{}, Locks}, clients : Seq(MqttClient)]
    /\ m.connected => m.clients # << >>
    /\ OnlyLatest(m) => LatestHasLocks(m)

(* A sequence whose elements were replaced.                                *)
LEMMA SameLength ==
    ASSUME NEW S, NEW T, NEW s \in Seq(S), NEW c \in [1..Len(s) -> T]
    PROVE  c \in Seq(T) /\ Len(c) = Len(s) /\ DOMAIN c = 1..Len(s)
<1>1. Len(s) \in Nat
  OBVIOUS
<1>2. c \in Seq(T)
  BY <1>1
<1>. QED
  BY <1>1, <1>2

LEMMA ConnectKeeps ==
    ASSUME NEW m, MqttInv(m)
    PROVE  MqttInv(MqttConnect(m))
<1>1. CASE m.connected \/ m.connecting \/ m.subscribeLocks = {}
  BY <1>1 DEF MqttConnect
<1>2. CASE ~(m.connected \/ m.connecting \/ m.subscribeLocks = {})
  <2>. DEFINE new == [status |-> "connecting", topics |-> {}]
              n == MqttConnect(m)
  <2>1. m.clients \in Seq(MqttClient) /\ new \in MqttClient
    BY DEF MqttInv, MqttClient
  <2>2. n = [m EXCEPT !.connecting = TRUE, !.clients = Append(m.clients, new)]
    BY <1>2 DEF MqttConnect
  <2>a. Append(m.clients, new) \in Seq(MqttClient)
    BY <2>1
  <2>b. m.connected = FALSE /\ m.subscribeLocks = Locks
    BY <1>2 DEF MqttInv
  <2>. HIDE DEF new, n
  <2>3. /\ n.clients = Append(m.clients, new)
        /\ n.connected = FALSE
        /\ n.subscribeLocks = Locks
        /\ n \in [connected : BOOLEAN, connecting : BOOLEAN,
                  subscribeLocks : {{}, Locks}, clients : Seq(MqttClient)]
    BY <2>a, <2>b, <2>2 DEF MqttInv
  <2>4. LatestHasLocks(n)
    BY <2>3 DEF LatestHasLocks
  <2>5. MqttInv(n)
    BY <2>3, <2>4 DEF MqttInv
  <2>. QED
    BY <2>5 DEF n
<1>. QED
  BY <1>1, <1>2

LEMMA SubscribeKeeps ==
    ASSUME NEW m, MqttInv(m)
    PROVE  MqttInv(SubscribeLocks(m, Locks))
<1>1. CASE m.connected
  <2>. DEFINE n == SubscribeLocks(m, Locks)
              k == Latest(m)
  <2>1. n = [m EXCEPT !.clients[k].topics = @ \cup Locks]
    BY <1>1 DEF SubscribeLocks
  <2>2. k \in DOMAIN m.clients /\ m.clients \in Seq(MqttClient)
    BY <1>1 DEF MqttInv, Latest
  <2>3. /\ n.clients = [m.clients EXCEPT ![k].topics = @ \cup Locks]
        /\ n.connected = m.connected
        /\ n.connecting = m.connecting
        /\ n.subscribeLocks = m.subscribeLocks
    BY <2>1, <2>2 DEF MqttInv
  <2>a. /\ DOMAIN m.clients = 1..Len(m.clients)
        /\ \A c \in DOMAIN m.clients : m.clients[c] \in MqttClient
    BY <2>2
  <2>b. n.clients \in [1..Len(m.clients) -> MqttClient]
    <3>1. m.clients \in [1..Len(m.clients) -> MqttClient]
      BY <2>2
    <3>2. [m.clients[k] EXCEPT !.topics = @ \cup Locks] \in MqttClient
      BY <2>2, <2>a DEF MqttClient
    <3>. HIDE DEF n
    <3>. QED
      BY <2>3, <3>1, <3>2
  <2>c. /\ \A c \in DOMAIN m.clients : n.clients[c].status = m.clients[c].status
        /\ n.clients[k].topics = Locks
    BY <2>2, <2>3, <2>a DEF MqttClient
  <2>. HIDE DEF n
  <2>4. /\ \A c \in DOMAIN m.clients : n.clients[c].status = m.clients[c].status
        /\ n.clients[k].topics = Locks
        /\ n.clients \in Seq(MqttClient)
        /\ Len(n.clients) = Len(m.clients)
        /\ DOMAIN n.clients = DOMAIN m.clients
    BY <2>2, <2>a, <2>b, <2>c, SameLength
  <2>5. n \in [connected : BOOLEAN, connecting : BOOLEAN,
              subscribeLocks : {{}, Locks}, clients : Seq(MqttClient)]
    BY <2>1, <2>3, <2>4 DEF MqttInv
  <2>6. OnlyLatest(n) => OnlyLatest(m)
    BY <2>4 DEF OnlyLatest, Latest
  <2>7. OnlyLatest(m) => m.clients[k].status = "up"
    BY <1>1 DEF MqttInv, LatestHasLocks, Latest
  <2>8. OnlyLatest(n) => LatestHasLocks(n)
    BY <2>2, <2>4, <2>6, <2>7 DEF LatestHasLocks, Latest
  <2>9. n.clients # << >>
    BY <2>2, <2>4
  <2>. QED
    BY <2>5, <2>8, <2>9 DEF MqttInv, n
<1>2. CASE ~m.connected
  <2>. DEFINE n == [m EXCEPT !.subscribeLocks = @ \cup Locks]
  <2>1. SubscribeLocks(m, Locks) = MqttConnect(n)
    BY <1>2 DEF SubscribeLocks
  <2>2. /\ n.clients = m.clients
        /\ n.connected = FALSE
        /\ n.subscribeLocks = Locks
        /\ n \in [connected : BOOLEAN, connecting : BOOLEAN,
                  subscribeLocks : {{}, Locks}, clients : Seq(MqttClient)]
    BY <1>2 DEF MqttInv
  <2>3. MqttInv(n)
    BY <2>2 DEF MqttInv, LatestHasLocks
  <2>. QED
    BY <2>1, <2>3, ConnectKeeps
<1>. QED
  BY <1>1, <1>2

(* A step that changes only the status of one client.                      *)
WithStatus(clients, k, status) == [clients EXCEPT ![k].status = status]

LEMMA StatusOfOne ==
    ASSUME NEW m, MqttInv(m), NEW k \in DOMAIN m.clients,
           NEW status \in {"connecting", "up", "ended"}
    PROVE  LET c == WithStatus(m.clients, k, status)
           IN  /\ c \in Seq(MqttClient)
               /\ Len(c) = Len(m.clients)
               /\ DOMAIN c = DOMAIN m.clients
               /\ c # << >>
               /\ c[k].status = status
               /\ \A o \in DOMAIN m.clients :
                    /\ c[o].topics = m.clients[o].topics
                    /\ o # k => c[o].status = m.clients[o].status
<1>. DEFINE c == [m.clients EXCEPT ![k].status = status]
<1>1. m.clients \in Seq(MqttClient)
  BY DEF MqttInv
<1>a. \A o \in 1..Len(m.clients) : m.clients[o] \in MqttClient
  BY <1>1
<1>b. DOMAIN m.clients = 1..Len(m.clients)
  BY <1>1
<1>c. c \in [1..Len(m.clients) -> MqttClient]
  BY <1>a, <1>b DEF MqttClient
<1>d. /\ c[k].status = status
      /\ \A o \in DOMAIN m.clients :
           /\ c[o].topics = m.clients[o].topics
           /\ o # k => c[o].status = m.clients[o].status
  BY <1>a, <1>b DEF MqttClient
<1>. HIDE DEF c
<1>2. /\ c \in Seq(MqttClient)
      /\ Len(c) = Len(m.clients)
      /\ DOMAIN c = DOMAIN m.clients
      /\ c[k].status = status
      /\ \A o \in DOMAIN m.clients :
           /\ c[o].topics = m.clients[o].topics
           /\ o # k => c[o].status = m.clients[o].status
  BY <1>1, <1>b, <1>c, <1>d, SameLength
<1>3. c # << >>
  BY <1>1, <1>2
<1>. QED
  BY <1>2, <1>3 DEF WithStatus, c

LEMMA MqttFacts ==
    ASSUME NEW m, MqttInv(m)
    PROVE  /\ m.clients \in Seq(MqttClient)
           /\ DOMAIN m.clients = 1..Len(m.clients)
           /\ Len(m.clients) \in Nat
           /\ m.subscribeLocks \subseteq Locks
           /\ \A o \in DOMAIN m.clients :
                /\ m.clients[o].topics \subseteq Locks
                /\ m.clients[o].status \in {"connecting", "up", "ended"}
<1>1. m.clients \in Seq(MqttClient) /\ m.subscribeLocks \in {{}, Locks}
  BY DEF MqttInv
<1>2. \A o \in DOMAIN m.clients : m.clients[o] \in MqttClient
  BY <1>1
<1>. QED
  BY <1>1, <1>2 DEF MqttClient

LEMMA CloseKeeps ==
    ASSUME NEW m, MqttInv(m)
    PROVE  MqttInv(MqttClose(m))
<1>1. CASE ~m.connected
  BY <1>1 DEF MqttClose
<1>2. CASE m.connected
  <2>. DEFINE k == Latest(m)
              n == MqttClose(m)
              c == WithStatus(m.clients, k, "ended")
  <2>1. k \in DOMAIN m.clients
    BY <1>2 DEF MqttInv, Latest
  <2>2. n = [m EXCEPT !.connected = FALSE, !.connecting = FALSE, !.clients = c]
    BY <1>2 DEF MqttClose, MqttInv, WithStatus
  <2>. HIDE DEF c
  <2>3. /\ n.clients = c
        /\ n.connected = FALSE
    BY <2>2 DEF MqttInv
  <2>4. c \in Seq(MqttClient) /\ Len(c) = Len(m.clients) /\ c[k].status = "ended"
    BY <2>1, StatusOfOne DEF c
  <2>5. n \in [connected : BOOLEAN, connecting : BOOLEAN,
              subscribeLocks : {{}, Locks}, clients : Seq(MqttClient)]
    BY <2>2, <2>4 DEF MqttInv
  <2>. QED
    BY <2>3, <2>4, <2>5 DEF MqttInv, LatestHasLocks, Latest
<1>. QED
  BY <1>1, <1>2

LEMMA OnConnectKeeps ==
    ASSUME NEW m, MqttInv(m), NEW k \in DOMAIN m.clients, m.clients[k].status = "connecting"
    PROVE  MqttInv(OnMqttConnect(m, k))
<1>. DEFINE n == OnMqttConnect(m, k)
            c == [o \in DOMAIN m.clients |->
                    [status |-> IF o = k THEN "up" ELSE m.clients[o].status,
                     topics |-> m.clients[o].topics
                                  \cup (IF o = Latest(m) THEN m.subscribeLocks ELSE {})]]
<1>1. n = [m EXCEPT !.connected = TRUE, !.connecting = FALSE, !.subscribeLocks = {},
                    !.clients = c]
  BY DEF OnMqttConnect
<1>2. /\ c \in Seq(MqttClient)
      /\ Len(c) = Len(m.clients)
      /\ DOMAIN c = DOMAIN m.clients
  <2>1. /\ m.clients \in Seq(MqttClient)
        /\ m.subscribeLocks \subseteq Locks
        /\ \A o \in 1..Len(m.clients) :
             /\ m.clients[o].topics \subseteq Locks
             /\ m.clients[o].status \in {"connecting", "up", "ended"}
    BY MqttFacts
  <2>2. c \in [1..Len(m.clients) -> MqttClient]
    BY <2>1 DEF MqttClient
  <2>3. DOMAIN m.clients = 1..Len(m.clients)
    BY <2>1
  <2>. HIDE DEF c
  <2>. QED
    BY <2>1, <2>2, <2>3, SameLength
<1>3. \A o \in DOMAIN m.clients :
        /\ o # k => c[o].status = m.clients[o].status
        /\ o = k => c[o].status = "up"
        /\ o = Latest(m) => c[o].topics = m.clients[o].topics \cup m.subscribeLocks
  OBVIOUS
<1>. HIDE DEF c
<1>4. /\ n.clients = c
      /\ n.connected = TRUE
      /\ n \in [connected : BOOLEAN, connecting : BOOLEAN,
                subscribeLocks : {{}, Locks}, clients : Seq(MqttClient)]
  BY <1>1, <1>2 DEF MqttInv
<1>5. n.clients # << >>
  BY <1>2, <1>4
<1>6. ASSUME OnlyLatest(n)
      PROVE  LatestHasLocks(n)
  <2>1. k = Latest(m) /\ Latest(n) = k
    BY <1>2, <1>3, <1>4, <1>6 DEF OnlyLatest, Latest
  <2>2. OnlyLatest(m)
    BY <1>2, <1>3, <1>4, <1>6, <2>1 DEF OnlyLatest, Latest
  <2>3. m.clients[k].topics = Locks \/ m.subscribeLocks = Locks
    BY <2>1, <2>2 DEF MqttInv, LatestHasLocks
  <2>4. m.clients[k].topics \subseteq Locks /\ m.subscribeLocks \subseteq Locks
    BY MqttFacts
  <2>5. c[k].topics = Locks /\ c[k].status = "up"
    BY <1>3, <2>1, <2>3, <2>4
  <2>. QED
    BY <1>4, <2>1, <2>5 DEF LatestHasLocks
<1>. QED
  BY <1>4, <1>5, <1>6 DEF MqttInv

LEMMA OnCloseKeeps ==
    ASSUME NEW m, MqttInv(m), NEW k \in DOMAIN m.clients, m.clients[k].status = "up"
    PROVE  MqttInv(OnMqttClose(m, k))
<1>. DEFINE n == OnMqttClose(m, k)
            c == WithStatus(m.clients, k, "connecting")
<1>1. n = [m EXCEPT !.connected = FALSE, !.clients = c]
  BY DEF OnMqttClose, MqttInv, WithStatus
<1>2. /\ c \in Seq(MqttClient)
      /\ Len(c) = Len(m.clients)
      /\ DOMAIN c = DOMAIN m.clients
      /\ c # << >>
      /\ c[k].status = "connecting"
      /\ \A o \in DOMAIN m.clients :
           /\ c[o].topics = m.clients[o].topics
           /\ o # k => c[o].status = m.clients[o].status
  BY StatusOfOne
<1>. HIDE DEF c
<1>3. /\ n.clients = c
      /\ n.connected = FALSE
      /\ n.subscribeLocks = m.subscribeLocks
      /\ n \in [connected : BOOLEAN, connecting : BOOLEAN,
                subscribeLocks : {{}, Locks}, clients : Seq(MqttClient)]
  BY <1>1, <1>2 DEF MqttInv
<1>4. ASSUME OnlyLatest(n)
      PROVE  LatestHasLocks(n)
  <2>1. k = Latest(m) /\ Latest(n) = k
    BY <1>2, <1>3, <1>4 DEF OnlyLatest, Latest
  <2>2. OnlyLatest(m)
    BY <1>2, <1>3, <1>4, <2>1 DEF OnlyLatest, Latest
  <2>3. m.clients[k].topics = Locks \/ m.subscribeLocks = Locks
    BY <2>1, <2>2 DEF MqttInv, LatestHasLocks
  <2>. QED
    BY <1>2, <1>3, <2>1, <2>3 DEF LatestHasLocks
<1>. QED
  BY <1>3, <1>4 DEF MqttInv

LEMMA OnErrorKeeps ==
    ASSUME NEW m, MqttInv(m), NEW k \in DOMAIN m.clients, m.clients[k].status = "connecting",
           NEW final \in BOOLEAN
    PROVE  MqttInv(OnMqttError(m, final))
<1>1. CASE ~final
  <2>. DEFINE n == OnMqttError(m, final)
  <2>1. /\ n.clients = m.clients
        /\ n.connected = m.connected
        /\ n.subscribeLocks = m.subscribeLocks
        /\ n \in [connected : BOOLEAN, connecting : BOOLEAN,
                  subscribeLocks : {{}, Locks}, clients : Seq(MqttClient)]
    BY <1>1 DEF OnMqttError, MqttInv
  <2>. QED
    BY <2>1 DEF MqttInv, OnlyLatest, LatestHasLocks, Latest
<1>2. CASE final
  <2>. DEFINE n == OnMqttError(m, final)
              l == Latest(m)
              c == WithStatus(m.clients, l, "ended")
  <2>0. l \in DOMAIN m.clients
    BY DEF MqttInv, Latest
  <2>1. n = [m EXCEPT !.connecting = FALSE, !.clients = c]
    BY <1>2 DEF OnMqttError, MqttInv, WithStatus
  <2>2. /\ c \in Seq(MqttClient)
        /\ Len(c) = Len(m.clients)
        /\ DOMAIN c = DOMAIN m.clients
        /\ c # << >>
        /\ c[l].status = "ended"
        /\ \A o \in DOMAIN m.clients :
             /\ c[o].topics = m.clients[o].topics
             /\ o # l => c[o].status = m.clients[o].status
    BY <2>0, StatusOfOne
  <2>. HIDE DEF c
  <2>3. /\ n.clients = c
        /\ n.connected = m.connected
        /\ n \in [connected : BOOLEAN, connecting : BOOLEAN,
                  subscribeLocks : {{}, Locks}, clients : Seq(MqttClient)]
    BY <2>1, <2>2 DEF MqttInv
  <2>4. ASSUME OnlyLatest(n)
        PROVE  LatestHasLocks(n)
    <3>1. k = l
      BY <2>2, <2>3, <2>4 DEF OnlyLatest, Latest
    <3>2. OnlyLatest(m)
      BY <2>2, <2>3, <2>4, <3>1 DEF OnlyLatest, Latest
    <3>3. ~m.connected
      BY <3>1, <3>2 DEF MqttInv, LatestHasLocks
    <3>. QED
      BY <2>2, <2>3, <3>3 DEF LatestHasLocks, Latest
  <2>. QED
    BY <2>2, <2>3, <2>4 DEF MqttInv
<1>. QED
  BY <1>1, <1>2

----------------------------------------------------------------------------
(* The client.                                                             *)

Fields ==
    {"running", "connected", "token", "renewal", "apiConnected", "serviceState", "retries",
     "interval", "timer", "asked", "stored", "saved", "objects", "loaded", "mqtt", "tasks"}

(* The tasks the system makes, and those whose answer is followed by       *)
(* something (Completed).                                                  *)
Proper(t) ==
    /\ t.kind \in TaskKinds
    /\ t.kind = "login" => t.stage = "request"
    /\ t.kind = "stop" => t.stage = "closing"
    /\ t.stage = "sleep" => t.kind = "startup"
    /\ t.stage = "closing" => t.kind \in {"logout", "stop"}

Requests == TaskKinds \ {"login", "stop"}

(* A record of the fields, with such tasks.                                *)
IsClient(s) ==
    /\ DOMAIN s = Fields
    /\ s.connected \in BOOLEAN
    /\ IsABag(s.tasks)
    /\ \A t \in BagToSet(s.tasks) : Proper(t)

HasTask(s, kinds) == \E t \in BagToSet(s.tasks) : t.kind \in kinds
IsClosing(s) == \E t \in BagToSet(s.tasks) : t.stage = "closing"

(* Polling goes on, with the timer or a request; kind is that of the       *)
(* request that is being dealt with.                                       *)
Polls(s, kind) ==
    s.apiConnected /\ s.interval > 0 /\ ~IsClosing(s) =>
        \/ s.timer
        \/ HasTask(s, {"refresh", "startup"})
        \/ kind \in {"refresh", "startup"}

(* What the Config object has is the token, and it was written to the file *)
(* unless that is still to come.                                           *)
KeepsToken(s, kind) ==
    s.connected =>
        /\ s.stored = s.token
        /\ s.saved = s.stored \/ HasTask(s, {"startup"}) \/ kind = "startup"

Good(s, kind) ==
    /\ IsClient(s)
    /\ Polls(s, kind)
    /\ "verifyAgain" \notin Faults => KeepsToken(s, kind)
    /\ MqttInv(s.mqtt)

APIInv ==
    /\ Good(client, "none")
    /\ disk = client.saved

LEMMA GoodAdd ==
    ASSUME NEW s, NEW kind, Good(s, kind), NEW task,
           Proper(task)
    PROVE  /\ Good(Add(s, task), kind)
           /\ (kind \in {"refresh", "startup"} => task.kind = kind) => Good(Add(s, task), "none")
           /\ Add(s, task).connected = s.connected
<1>. DEFINE n == Add(s, task)
<1>1. IsABag(s.tasks) /\ DOMAIN s = Fields
  BY DEF Good, IsClient
<1>2. /\ DOMAIN n = Fields
      /\ n.tasks = OneMore(s.tasks, task)
      /\ \A f \in Fields \ {"tasks"} : n[f] = s[f]
  BY <1>1 DEF Add, OneMore, Fields
<1>. HIDE DEF n
<1>3. /\ IsABag(n.tasks)
      /\ BagToSet(n.tasks) = BagToSet(s.tasks) \cup {task}
  BY <1>1, <1>2, BagAdd
<1>4. IsClient(n)
  BY <1>2, <1>3 DEF Good, IsClient, Fields
<1>5. \A k \in {kind, "none"} :
        (k = "none" /\ kind \in {"refresh", "startup"} => task.kind = kind) =>
            /\ Polls(n, k)
            /\ "verifyAgain" \notin Faults => KeepsToken(n, k)
  BY <1>2, <1>3 DEF Good, Polls, KeepsToken, HasTask, IsClosing, Fields
<1>6. n.mqtt = s.mqtt /\ n.connected = s.connected
  BY <1>2 DEF Fields
<1>. QED
  BY <1>4, <1>5, <1>6 DEF Good, n

LEMMA GoodDone ==
    ASSUME NEW s, Good(s, "none"), NEW task \in BagToSet(s.tasks)
    PROVE  /\ task.stage # "closing" => Good(Done(s, task), task.kind)
           /\ task.stage = "closing" => Good(Closed(Done(s, task)), "none")
           /\ Proper(task)
           /\ Done(s, task).connected = s.connected
<1>. DEFINE n == Done(s, task)
            c == Closed(n)
<1>1. IsABag(s.tasks) /\ DOMAIN s = Fields
  BY DEF Good, IsClient
<1>2. /\ DOMAIN n = Fields
      /\ n.tasks = OneLess(s.tasks, task)
      /\ \A f \in Fields \ {"tasks"} : n[f] = s[f]
  BY <1>1 DEF Done, OneLess, Fields
<1>. HIDE DEF n
<1>3. /\ IsABag(n.tasks)
      /\ BagToSet(n.tasks) \subseteq BagToSet(s.tasks)
      /\ BagToSet(s.tasks) \subseteq BagToSet(n.tasks) \cup {task}
  BY <1>1, <1>2, BagTake
<1>4. IsClient(n) /\ Proper(task)
  BY <1>2, <1>3 DEF Good, IsClient, Fields
<1>5. "verifyAgain" \notin Faults => KeepsToken(n, task.kind)
  BY <1>2, <1>3 DEF Good, KeepsToken, HasTask, Fields
<1>6. task.stage # "closing" => Polls(n, task.kind)
  BY <1>2, <1>3 DEF Good, Polls, HasTask, IsClosing, Fields
<1>7. n.mqtt = s.mqtt /\ n.connected = s.connected
  BY <1>2 DEF Fields
<1>8. ASSUME task.stage = "closing"
      PROVE  Good(c, "none")
  <2>1. task.kind \in {"logout", "stop"}
    BY <1>4, <1>8 DEF Proper
  <2>2. /\ DOMAIN c = Fields
        /\ c.apiConnected = FALSE
        /\ \A f \in Fields \ {"apiConnected"} : c[f] = n[f]
    BY <1>2 DEF Closed, Fields
  <2>. HIDE DEF c
  <2>3. IsClient(c)
    BY <1>4, <2>2 DEF IsClient, Fields
  <2>4. "verifyAgain" \notin Faults => KeepsToken(c, "none")
    BY <1>5, <2>1, <2>2 DEF KeepsToken, HasTask, Fields
  <2>5. MqttInv(c.mqtt)
    BY <1>7, <2>2 DEF Good, Fields
  <2>. QED
    BY <2>2, <2>3, <2>4, <2>5 DEF Good, Polls
<1>. QED
  BY <1>4, <1>5, <1>6, <1>7, <1>8 DEF Good, n

(* What the request that is dealt with promises can be had without it.     *)
LEMMA GoodWithout ==
    ASSUME NEW s, NEW kind, Good(s, kind), kind \notin {"refresh", "startup"}
    PROVE  Good(s, "none")
  BY DEF Good, Polls, KeepsToken

LEMMA GoodWritten ==
    ASSUME NEW s, NEW kind, Good(s, kind)
    PROVE  Good(Written(s), kind) /\ Written(s).connected = s.connected
<1>1. DOMAIN s = Fields
  BY DEF Good, IsClient
<1>. QED
  BY <1>1 DEF Good, IsClient, Polls, KeepsToken, HasTask, IsClosing, Written, Fields

LEMMA GoodInvalidateToken ==
    ASSUME NEW s, NEW kind, Good(s, kind)
    PROVE  Good(InvalidateToken(s), kind) /\ InvalidateToken(s).connected = FALSE
<1>1. DOMAIN s = Fields
  BY DEF Good, IsClient
<1>. QED
  BY <1>1 DEF Good, IsClient, Polls, KeepsToken, HasTask, IsClosing, Written, InvalidateToken, Fields

LEMMA GoodOnAPIConnect ==
    ASSUME NEW s, NEW kind, Good(s, kind), NEW token
    PROVE  Good(OnAPIConnect(s, token), "none")
<1>. DEFINE task == Task("startup", "sleep", NoToken, NoToken)
            m == MqttConnect(s.mqtt)
            n == [s EXCEPT !.connected = TRUE, !.token = token, !.renewal = TRUE,
                           !.apiConnected = TRUE, !.retries = 0, !.asked = {},
                           !.stored = token, !.mqtt = m, !.objects = @ + 1]
<1>1. DOMAIN s = Fields
  BY DEF Good, IsClient
<1>2. MqttInv(m)
  BY ConnectKeeps DEF Good
<1>3. OnAPIConnect(s, token) = Add(n, task)
  BY <1>1 DEF OnAPIConnect, Fields
<1>. HIDE DEF m
<1>4. Good(n, "startup")
  BY <1>1, <1>2 DEF Good, IsClient, Polls, KeepsToken, HasTask, IsClosing, Fields
<1>5. task.kind = "startup" /\ Proper(task)
  BY DEF Task, TaskKinds, Proper
<1>. HIDE DEF n, task
<1>. QED
  BY <1>3, <1>4, <1>5, GoodAdd

LEMMA GoodOnAuthTokenRenewed ==
    ASSUME NEW s, NEW kind, Good(s, kind), NEW token
    PROVE  Good(OnAuthTokenRenewed(s, token), kind)
<1>1. DOMAIN s = Fields
  BY DEF Good, IsClient
<1>. QED
  BY <1>1 DEF Good, IsClient, Polls, KeepsToken, HasTask, IsClosing, Written, OnAuthTokenRenewed, Fields

LEMMA GoodLogin ==
    ASSUME NEW s, NEW kind, Good(s, kind)
    PROVE  Good(Login(s), kind)
<1>1. ASSUME NEW k \in {"login", "profile"}, NEW sent
      PROVE  Good(Add(s, Task(k, "request", sent, NoToken)), kind)
  <2>. DEFINE task == Task(k, "request", sent, NoToken)
  <2>1. Proper(task)
    BY DEF Task, TaskKinds, Proper
  <2>. HIDE DEF task
  <2>2. Good(Add(s, task), kind)
    BY <2>1, GoodAdd
  <2>. QED
    BY <2>2 DEF task
<1>. QED
  BY <1>1 DEF Login

LEMMA GoodOnAPIClose ==
    ASSUME NEW s, NEW kind, Good(s, kind)
    PROVE  Good(OnAPIClose(s), kind)
<1>. DEFINE closed == [s EXCEPT !.timer = FALSE, !.apiConnected = FALSE,
                                !.serviceState = "disconnected"]
            n == [closed EXCEPT !.retries = @ + 1]
<1>1. DOMAIN s = Fields
  BY DEF Good, IsClient
<1>2. Good(closed, kind) /\ Good(n, kind)
  BY <1>1 DEF Good, IsClient, Polls, KeepsToken, HasTask, IsClosing, Fields
<1>3. OnAPIClose(s) = IF s.retries < MaxRetries THEN Login(n) ELSE closed
  BY <1>1 DEF OnAPIClose, Fields
<1>. HIDE DEF closed, n
<1>. QED
  BY <1>2, <1>3, GoodLogin

LEMMA GoodClosed ==
    ASSUME NEW s, NEW kind, Good(s, kind)
    PROVE  Good(Closed(s), kind)
<1>1. DOMAIN s = Fields
  BY DEF Good, IsClient
<1>. QED
  BY <1>1 DEF Good, IsClient, Polls, KeepsToken, HasTask, IsClosing, Closed, Fields

(* From the start of close() to its end polling need not go on.            *)
LEMMA GoodCloseStarts ==
    ASSUME NEW s, NEW kind, Good(s, kind), NEW what \in {"logout", "stop"}
    PROVE  Good(CloseStarts(s, what), kind)
<1>. DEFINE m == MqttClose(s.mqtt)
            task == Task(what, "closing", NoToken, NoToken)
            n == CloseStarts(s, what)
<1>1. IsABag(s.tasks) /\ DOMAIN s = Fields
  BY DEF Good, IsClient
<1>2. MqttInv(m)
  BY CloseKeeps DEF Good
<1>3. Proper(task) /\ task.stage = "closing"
  BY DEF Task, TaskKinds, Proper
<1>4. /\ DOMAIN n = Fields
      /\ n.tasks = OneMore(s.tasks, task)
      /\ n.mqtt = m
      /\ \A f \in Fields \ {"tasks", "timer", "mqtt"} : n[f] = s[f]
  BY <1>1 DEF CloseStarts, Add, OneMore, Fields
<1>. HIDE DEF n, m, task
<1>5. /\ IsABag(n.tasks)
      /\ BagToSet(n.tasks) = BagToSet(s.tasks) \cup {task}
  BY <1>1, <1>4, BagAdd
<1>6. IsClient(n)
  BY <1>3, <1>4, <1>5 DEF Good, IsClient, Fields
<1>7. Polls(n, kind)
  BY <1>3, <1>5 DEF Polls, IsClosing
<1>8. "verifyAgain" \notin Faults => KeepsToken(n, kind)
  BY <1>4, <1>5 DEF Good, KeepsToken, HasTask, Fields
<1>. QED
  BY <1>2, <1>4, <1>6, <1>7, <1>8 DEF Good, n

LEMMA GoodLoginAnswered ==
    ASSUME NEW s, NEW kind, Good(s, kind), s.connected = client.connected,
           NEW outcome \in Outcomes, NEW token
    PROVE  Good(LoginAnswered(s, outcome, token), kind)
<1>1. DOMAIN s = Fields
  BY DEF Good, IsClient
<1>2. outcome \in {"ok", "captcha", "verify", "verifyAgain", "loginFails"}
  BY DEF Outcomes
<1>3. CASE outcome = "ok"
  <2>1. Good(OnAPIConnect(s, token), "none")
    BY GoodOnAPIConnect
  <2>2. Good(OnAPIConnect(s, token), kind)
    BY <2>1 DEF Good, Polls, KeepsToken
  <2>. QED
    BY <1>3, <2>2, GoodOnAuthTokenRenewed DEF LoginAnswered
<1>4. CASE outcome = "captcha"
  <2>1. LoginAnswered(s, outcome, token) = [s EXCEPT !.asked = s.asked \cup {"captcha"}]
    BY <1>1, <1>4 DEF LoginAnswered, Fields
  <2>. QED
    BY <1>1, <2>1 DEF Good, IsClient, Polls, KeepsToken, HasTask, IsClosing, Fields
<1>5. CASE outcome \in {"verify", "verifyAgain"}
  <2>. DEFINE n == [s EXCEPT !.token = token, !.asked = s.asked \cup {"verify"}]
  <2>1. LoginAnswered(s, outcome, token) = n
    BY <1>1, <1>5 DEF LoginAnswered, Fields
  <2>2. "verifyAgain" \notin Faults => ~s.connected
    BY <1>5 DEF Outcomes
  <2>3. Good(n, kind)
    BY <1>1, <2>2 DEF Good, IsClient, Polls, KeepsToken, HasTask, IsClosing, Fields
  <2>. HIDE DEF n
  <2>. QED
    BY <2>1, <2>3
<1>6. CASE outcome = "loginFails"
  <2>1. LoginAnswered(s, outcome, token) = [s EXCEPT !.serviceState = "disconnected"]
    BY <1>6 DEF LoginAnswered
  <2>. QED
    BY <1>1, <2>1 DEF Good, IsClient, Polls, KeepsToken, HasTask, IsClosing, Fields
<1>. QED
  BY <1>2, <1>3, <1>4, <1>5, <1>6

LEMMA GoodRefreshed ==
    ASSUME NEW s, NEW kind, Good(s, kind)
    PROVE  Good(Refreshed(s), kind) /\ Refreshed(s).timer = (Refreshed(s).interval > 0)
<1>. DEFINE m == IF s.loaded < s.objects THEN SubscribeLocks(s.mqtt, Locks) ELSE s.mqtt
            n == [s EXCEPT !.loaded = s.objects, !.mqtt = m, !.timer = s.interval > 0]
<1>1. DOMAIN s = Fields
  BY DEF Good, IsClient
<1>2. MqttInv(m)
  BY SubscribeKeeps DEF Good
<1>3. Refreshed(s) = n
  BY <1>1 DEF Refreshed, Fields
<1>. HIDE DEF m
<1>4. Good(n, kind) /\ n.timer = (n.interval > 0)
  BY <1>1, <1>2 DEF Good, IsClient, Polls, KeepsToken, HasTask, IsClosing, Fields
<1>. HIDE DEF n
<1>. QED
  BY <1>3, <1>4

(* After the answer nothing is left to come for the request.               *)
LEMMA GoodCompleted ==
    ASSUME NEW s, NEW task, Good(s, task.kind), task.kind \in Requests,
           NEW successful \in BOOLEAN
    PROVE  Good(Completed(s, task, successful), "none")
<1>1. CASE task.kind = "refresh"
  <2>1. Completed(s, task, successful) = Refreshed(s)
    BY <1>1 DEF Completed
  <2>2. Good(Refreshed(s), "refresh") /\ Refreshed(s).timer = (Refreshed(s).interval > 0)
    BY <1>1, GoodRefreshed
  <2>3. Good(Refreshed(s), "none")
    BY <2>2 DEF Good, Polls, KeepsToken
  <2>. QED
    BY <2>1, <2>3
<1>2. CASE task.kind = "startup"
  <2>. DEFINE r == Refreshed(s)
              n == Written([r EXCEPT !.serviceState = "ok"])
  <2>1. Completed(s, task, successful) = n
    BY <1>2 DEF Completed
  <2>2. Good(r, "startup") /\ r.timer = (r.interval > 0)
    BY <1>2, GoodRefreshed
  <2>3. DOMAIN r = Fields
    BY <2>2 DEF Good, IsClient
  <2>. HIDE DEF r
  <2>4. Good(n, "none")
    BY <2>2, <2>3 DEF Good, IsClient, Polls, KeepsToken, HasTask, IsClosing, Written, Fields
  <2>. HIDE DEF n
  <2>. QED
    BY <2>1, <2>4
<1>3. CASE task.kind = "profile"
  <2>1. Good(s, "none")
    BY <1>3, GoodWithout
  <2>2. DOMAIN s = Fields
    BY DEF Good, IsClient
  <2>. DEFINE n == [s EXCEPT !.serviceState = "disconnected"]
  <2>3. Good(n, "none")
    BY <2>1, <2>2 DEF Good, IsClient, Polls, KeepsToken, HasTask, IsClosing, Fields
  <2>4. Good(OnAPIConnect(s, s.token), "none")
    BY <2>1, GoodOnAPIConnect
  <2>5. Completed(s, task, successful) \in {n, s, OnAPIConnect(s, s.token)}
    BY <1>3 DEF Completed
  <2>. HIDE DEF n
  <2>. QED
    BY <2>1, <2>3, <2>4, <2>5
<1>4. CASE task.kind = "logout"
  <2>1. Good(s, "none")
    BY <1>4, GoodWithout
  <2>2. Good(OnAPILogout(s), "none")
    BY <2>1, GoodInvalidateToken, GoodClosed, GoodCloseStarts DEF OnAPILogout
  <2>3. Completed(s, task, successful) \in {s, OnAPILogout(s)}
    BY <1>4 DEF Completed
  <2>. QED
    BY <2>1, <2>2, <2>3
<1>. QED
  BY <1>1, <1>2, <1>3, <1>4 DEF TaskKinds, Requests

LEMMA GoodUnauthorized ==
    ASSUME NEW s, NEW task, Good(s, task.kind), task.kind \in Requests
    PROVE  Good(Unauthorized(s, task), "none")
  BY GoodInvalidateToken, GoodOnAPIClose, GoodCompleted DEF Unauthorized

----------------------------------------------------------------------------
(* The steps.                                                              *)

LEMMA BecomesGood ==
    ASSUME NEW s, Good(s, "none"), Becomes(s)
    PROVE  APIInv'
  BY DEF Becomes, APIInv

LEMMA InitGood ==
    ASSUME NEW token, NEW interval
    PROVE  Good(InitialClient(token, interval), "none")
<1>. DEFINE n == InitialClient(token, interval)
<1>1. /\ DOMAIN n = Fields
      /\ n.connected = FALSE
      /\ n.apiConnected = FALSE
      /\ n.tasks = EmptyBag
      /\ n.mqtt = InitialMqtt
  BY DEF InitialClient, Fields
<1>2. IsABag(EmptyBag) /\ BagToSet(EmptyBag) = {}
  BY DEF EmptyBag, SetToBag, IsABag, BagToSet
<1>3. MqttInv(InitialMqtt)
  BY DEF MqttInv, InitialMqtt, LatestHasLocks
<1>. HIDE DEF n
<1>4. Good(n, "none")
  BY <1>1, <1>2, <1>3 DEF Good, IsClient, Polls, KeepsToken
<1>. QED
  BY <1>4 DEF n

(* A request is sent or repeated.                                          *)
LEMMA GoodSent ==
    ASSUME NEW s, NEW kind \in Requests, Good(s, kind),
           NEW stage \in {"request", "hook", "retry"}, NEW sent, NEW old
    PROVE  Good(Add(s, Task(kind, stage, sent, old)), "none")
<1>. DEFINE task == Task(kind, stage, sent, old)
<1>1. task.kind = kind /\ Proper(task)
  BY DEF Task, Proper, Requests
<1>. HIDE DEF task
<1>2. Good(Add(s, task), "none")
  BY <1>1, GoodAdd
<1>. QED
  BY <1>2 DEF task

LEMMA GoodLoginRequested ==
    ASSUME NEW s, Good(s, "none")
    PROVE  Good(Add(s, Task("login", "request", NoToken, NoToken)), "none")
<1>. DEFINE task == Task("login", "request", NoToken, NoToken)
<1>1. Proper(task)
  BY DEF Task, TaskKinds, Proper
<1>. HIDE DEF task
<1>2. Good(Add(s, task), "none")
  BY <1>1, GoodAdd
<1>. QED
  BY <1>2 DEF task

(* The state in which an answer is dealt with.                             *)
LEMMA Taken ==
    ASSUME APIInv, NEW task \in BagToSet(client.tasks)
    PROVE  /\ task.stage # "closing" => Good(Done(client, task), task.kind)
           /\ task.stage = "closing" => Good(Closed(Done(client, task)), "none")
           /\ Done(client, task).connected = client.connected
           /\ Proper(task)
  BY GoodDone DEF APIInv

LEMMA AwakeStep ==
    ASSUME APIInv, NEW task \in BagToSet(client.tasks), Awake(task)
    PROVE  APIInv'
<1>. DEFINE s == Done(client, task)
<1>1. Good(s, task.kind) /\ task.kind \in Requests
  BY Taken DEF Awake, Proper, Requests, TaskKinds
<1>. HIDE DEF s
<1>2. Good(Add(s, Task(task.kind, "request", client.token, NoToken)), "none")
  BY <1>1, GoodSent
<1>3. Good(Completed(s, task, FALSE), "none")
  BY <1>1, GoodCompleted
<1>. QED
  BY <1>2, <1>3, BecomesGood DEF Awake, Send, s

LEMMA CloseEndsStep ==
    ASSUME APIInv, NEW task \in BagToSet(client.tasks), CloseEnds(task)
    PROVE  APIInv'
<1>. DEFINE s == Closed(Done(client, task))
<1>1. Good(s, "none")
  BY Taken DEF CloseEnds
<1>. HIDE DEF s
<1>2. Good(Written(s), "none")
  BY <1>1, GoodWritten
<1>. QED
  BY <1>1, <1>2, BecomesGood DEF CloseEnds, s

LEMMA AnswerStep ==
    ASSUME APIInv, NEW task \in BagToSet(client.tasks), Answer(task)
    PROVE  APIInv'
<1>1. Good(Done(client, task), task.kind) /\ task.kind \in Requests
  BY Taken DEF Answer, Proper, Requests
<1>2. Good(Completed(Done(client, task), task, TRUE), "none")
  BY <1>1, GoodCompleted
<1>. QED
  BY <1>2, BecomesGood DEF Answer

LEMMA AnswerUndecryptableStep ==
    ASSUME APIInv, NEW task \in BagToSet(client.tasks), AnswerUndecryptable(task)
    PROVE  APIInv'
<1>1. Good(OnAPIClose(InvalidateToken(Done(client, task))), task.kind)
  BY Taken, GoodInvalidateToken, GoodOnAPIClose DEF AnswerUndecryptable
<1>2. task.kind \in Requests
  BY DEF AnswerUndecryptable, TaskKinds, Requests
<1>3. Good(Completed(OnAPIClose(InvalidateToken(Done(client, task))), task, FALSE), "none")
  BY <1>1, <1>2, GoodCompleted
<1>. QED
  BY <1>3, BecomesGood DEF AnswerUndecryptable

LEMMA Answer401Step ==
    ASSUME APIInv, NEW task \in BagToSet(client.tasks), Answer401(task)
    PROVE  APIInv'
<1>1. Good(InvalidateToken(Done(client, task)), task.kind)
  BY Taken, GoodInvalidateToken DEF Answer401
<1>2. task.kind \in Requests
  BY Taken DEF Answer401, Proper, Requests
<1>3. Good(Add(InvalidateToken(Done(client, task)),
               Task(task.kind, "hook", NoToken, client.token)), "none")
  BY <1>1, <1>2, GoodSent
<1>. QED
  BY <1>3, BecomesGood DEF Answer401

LEMMA Retry401Step ==
    ASSUME APIInv, NEW task \in BagToSet(client.tasks), Retry401(task)
    PROVE  APIInv'
<1>1. Good(Done(client, task), task.kind) /\ task.kind \in Requests
  BY Taken DEF Retry401, Proper, Requests
<1>2. Good(Unauthorized(Done(client, task), task), "none")
  BY <1>1, GoodUnauthorized
<1>. QED
  BY <1>2, BecomesGood DEF Retry401

LEMMA AnswerHookStep ==
    ASSUME APIInv, NEW task \in BagToSet(client.tasks), NEW outcome \in Outcomes,
           AnswerHook(task, outcome)
    PROVE  APIInv'
<1>. DEFINE s == LoginAnswered(Done(client, task), outcome, server'.issued)
<1>1. task.kind \in Requests
  BY Taken DEF AnswerHook, Proper, Requests
<1>2. Good(s, task.kind)
  BY Taken, GoodLoginAnswered DEF AnswerHook
<1>. HIDE DEF s
<1>3. Good(Add(s, Task(task.kind, "retry", s.token, NoToken)), "none")
  BY <1>1, <1>2, GoodSent
<1>4. Good(Unauthorized(s, task), "none")
  BY <1>1, <1>2, GoodUnauthorized
<1>. QED
  BY <1>3, <1>4, BecomesGood DEF AnswerHook, s

LEMMA AnswerLoginStep ==
    ASSUME APIInv, NEW task \in BagToSet(client.tasks), NEW outcome \in Outcomes,
           AnswerLogin(task, outcome)
    PROVE  APIInv'
<1>1. Good(LoginAnswered(Done(client, task), outcome, server'.issued), task.kind)
  <2>1. Good(Done(client, task), task.kind)
    BY Taken DEF AnswerLogin, Proper
  <2>. QED
    BY <2>1, Taken, GoodLoginAnswered
<1>2. Good(LoginAnswered(Done(client, task), outcome, server'.issued), "none")
  BY <1>1, GoodWithout DEF AnswerLogin
<1>. QED
  BY <1>2, BecomesGood DEF AnswerLogin

LEMMA TimerFiresStep ==
    ASSUME APIInv, TimerFires
    PROVE  APIInv'
<1>. DEFINE fired == [client EXCEPT !.timer = FALSE]
<1>1. DOMAIN client = Fields
  BY DEF APIInv, Good, IsClient
<1>2. Good(fired, "refresh")
  BY <1>1 DEF APIInv, Good, IsClient, Polls, KeepsToken, HasTask, IsClosing, Fields
<1>. HIDE DEF fired
<1>. DEFINE task == Task("refresh", "request", client.token, NoToken)
<1>3. Good(Add(fired, task), "none")
  BY <1>2, GoodSent DEF TaskKinds, Requests
<1>4. task.kind = "refresh" /\ "refresh" \in Requests
  BY DEF Task, TaskKinds, Requests
<1>5. Good(Completed(fired, task, FALSE), "none")
  BY <1>2, <1>4, GoodCompleted
<1>. QED
  BY <1>3, <1>5, BecomesGood DEF TimerFires, fired

LEMMA RenewalDueStep ==
    ASSUME APIInv, RenewalDue
    PROVE  APIInv'
<1>. DEFINE due == [client EXCEPT !.renewal = FALSE]
<1>1. DOMAIN client = Fields
  BY DEF APIInv, Good, IsClient
<1>2. Good(due, "none")
  BY <1>1 DEF APIInv, Good, IsClient, Polls, KeepsToken, HasTask, IsClosing, Fields
<1>. HIDE DEF due
<1>3. Good(Add(due, Task("login", "request", NoToken, NoToken)), "none")
  BY <1>2, GoodLoginRequested
<1>. QED
  BY <1>3, BecomesGood DEF RenewalDue, due

LEMMA UserStep ==
    ASSUME APIInv,
           \/ Logout \/ Stop
           \/ \E interval \in Intervals : Start(interval)
           \/ \E what \in client.asked : EnterCode(what)
    PROVE  APIInv'
<1>1. CASE Logout
  <2>1. Good(Add(client, Task("logout", "request", client.token, NoToken)), "none")
    <3>. DEFINE task == Task("logout", "request", client.token, NoToken)
    <3>1. Proper(task)
      BY DEF Task, TaskKinds, Proper
    <3>. HIDE DEF task
    <3>2. Good(Add(client, task), "none")
      BY <3>1, GoodAdd DEF APIInv
    <3>. QED
      BY <3>2 DEF task
  <2>. QED
    BY <1>1, <2>1, BecomesGood DEF Logout
<1>2. CASE Stop
  <2>. DEFINE n == [client EXCEPT !.serviceState = "shutdown", !.running = FALSE]
  <2>1. DOMAIN client = Fields
    BY DEF APIInv, Good, IsClient
  <2>2. Good(n, "none")
    BY <2>1 DEF APIInv, Good, IsClient, Polls, KeepsToken, HasTask, IsClosing, Fields
  <2>. HIDE DEF n
  <2>3. Good(CloseStarts(n, "stop"), "none")
    BY <2>2, GoodCloseStarts
  <2>. QED
    BY <1>2, <2>3, BecomesGood DEF Stop, n
<1>3. ASSUME NEW interval \in Intervals, Start(interval)
      PROVE  APIInv'
  <2>. DEFINE c == InitialClient(disk, interval)
              n == [c EXCEPT !.running = TRUE]
  <2>1. Good(c, "none")
    BY InitGood
  <2>. HIDE DEF c
  <2>2. DOMAIN c = Fields
    BY <2>1 DEF Good, IsClient
  <2>3. Good(n, "none")
    BY <2>1, <2>2 DEF Good, IsClient, Polls, KeepsToken, HasTask, IsClosing, Fields
  <2>4. Good(Login(n), "none")
    BY <2>3, GoodLogin
  <2>. QED
    BY <1>3, <2>4, BecomesGood DEF Start, c
<1>4. CASE \E what \in client.asked : EnterCode(what)
  <2>1. Good(Add(client, Task("login", "request", NoToken, NoToken)), "none")
    BY GoodLoginRequested DEF APIInv
  <2>. QED
    BY <1>4, <2>1, BecomesGood DEF EnterCode
<1>. QED
  BY <1>1, <1>2, <1>3, <1>4

LEMMA MqttStep ==
    ASSUME APIInv, NEW k \in DOMAIN client.mqtt.clients,
           MqttUp(k) \/ MqttDown(k) \/ MqttTakenOver(k)
              \/ (\E final \in BOOLEAN : MqttRefused(k, final))
    PROVE  APIInv'
<1>1. ASSUME NEW m, MqttInv(m), Becomes([client EXCEPT !.mqtt = m])
      PROVE  APIInv'
  <2>. DEFINE n == [client EXCEPT !.mqtt = m]
  <2>1. DOMAIN client = Fields
    BY DEF APIInv, Good, IsClient
  <2>2. Good(n, "none")
    BY <1>1, <2>1 DEF APIInv, Good, IsClient, Polls, KeepsToken, HasTask, IsClosing, Fields
  <2>3. Becomes(n)
    BY <1>1
  <2>. HIDE DEF n
  <2>. QED
    BY <2>2, <2>3, BecomesGood
<1>2. MqttInv(client.mqtt)
  BY DEF APIInv, Good
<1>3. CASE MqttUp(k)
  BY <1>1, <1>2, <1>3, OnConnectKeeps DEF MqttUp, WantsUp
<1>4. CASE MqttDown(k)
  BY <1>1, <1>2, <1>4, OnCloseKeeps DEF MqttDown, IsUp
<1>5. CASE MqttTakenOver(k)
  BY <1>1, <1>2, <1>5, OnCloseKeeps DEF MqttTakenOver, IsUp
<1>6. ASSUME NEW final \in BOOLEAN, MqttRefused(k, final)
      PROVE  APIInv'
  BY <1>1, <1>2, <1>6, OnErrorKeeps DEF MqttRefused, WantsUp
<1>. QED
  BY <1>3, <1>4, <1>5, <1>6

LEMMA APINext == APIInv /\ [Next]_vars => APIInv'
<1>. SUFFICES ASSUME APIInv, [Next]_vars
              PROVE  APIInv'
  OBVIOUS
<1>1. CASE \E task \in BagToSet(client.tasks) : Answers(task) \/ AnswerUndecryptable(task)
  BY <1>1, AwakeStep, CloseEndsStep, AnswerStep, Answer401Step, Retry401Step, AnswerHookStep,
     AnswerLoginStep, AnswerUndecryptableStep DEF Answers
<1>2. CASE TimerFires
  BY <1>2, TimerFiresStep
<1>3. CASE RenewalDue
  BY <1>3, RenewalDueStep
<1>4. CASE \/ Logout \/ Stop
           \/ \E interval \in Intervals : Start(interval)
           \/ \E what \in client.asked : EnterCode(what)
  BY <1>4, UserStep
<1>5. CASE \E token \in server.valid : Revoke(token)
  BY <1>5 DEF Revoke, APIInv
<1>6. CASE \E k \in DOMAIN client.mqtt.clients :
              \/ MqttUp(k) \/ MqttDown(k) \/ MqttTakenOver(k)
              \/ \E final \in BOOLEAN : MqttRefused(k, final)
  BY <1>6, MqttStep
<1>7. CASE UNCHANGED vars
  BY <1>7 DEF vars, APIInv
<1>. QED
  BY <1>1, <1>2, <1>3, <1>4, <1>5, <1>6, <1>7 DEF Next

LEMMA APIInvariant == Spec => []APIInv
<1>1. Init => APIInv
  <2>. SUFFICES ASSUME Init PROVE APIInv
    OBVIOUS
  <2>1. InitialClient(NoToken, 0).saved = NoToken
    BY DEF InitialClient
  <2>. QED
    BY <2>1, InitGood DEF Init, APIInv
<1>. QED
  BY <1>1, APINext, PTL DEF Spec

----------------------------------------------------------------------------
(* As long as the add-on counts as connected and nobody closes it, with an *)
(* interval in config.json, whatever the cloud answers and the user does,  *)
(* the timer of refreshCloudData() is set or a refresh is under way        *)
(* (PollingGoesOn).                                                        *)
THEOREM ApiPollingGoesOn == Spec => []PollingGoesOn
<1>1. APIInv => PollingGoesOn
  BY DEF APIInv, Good, Polls, HasTask, IsClosing, PollingGoesOn, Pending, Closing
<1>. QED
  BY <1>1, APIInvariant, PTL

(* The token in use is in config.json unless the first refresh of a login  *)
(* is still to come, provided a connected client is not asked for a verify *)
(* code (TokenIsStored).                                                   *)
THEOREM ApiTokenIsStored ==
    ASSUME "verifyAgain" \notin Faults
    PROVE  Spec => []TokenIsStored
<1>1. APIInv => TokenIsStored
  BY DEF APIInv, Good, KeepsToken, HasTask, IsClosing, TokenIsStored, Pending
<1>. QED
  BY <1>1, APIInvariant, PTL

(* With one MQTT client, every lock is heard whenever there is a           *)
(* connection (LocksAreHeard).                                             *)
THEOREM ApiLocksAreHeard == Spec => []LocksAreHeard
<1>1. APIInv => LocksAreHeard
  <2>. DEFINE m == client.mqtt
  <2>. SUFFICES ASSUME APIInv, OneMqttClient, m.connected
                PROVE  Heard(m) = Locks
    BY DEF LocksAreHeard
  <2>1. MqttInv(m) /\ OnlyLatest(m)
    BY DEF APIInv, Good, OneMqttClient, OnlyLatest
  <2>2. /\ Latest(m) \in DOMAIN m.clients
        /\ m.clients[Latest(m)].status = "up"
        /\ m.clients[Latest(m)].topics = Locks
    BY <2>1 DEF MqttInv, LatestHasLocks, Latest
  <2>3. \A k \in DOMAIN m.clients : m.clients[k].status = "up" => k = Latest(m)
    BY <2>1 DEF OnlyLatest
  <2>4. {k \in DOMAIN m.clients : m.clients[k].status = "up"} = {Latest(m)}
    BY <2>2, <2>3
  <2>5. Heard(m) = UNION {m.clients[k].topics : k \in {Latest(m)}}
    BY <2>4 DEF Heard
  <2>. QED
    BY <2>2, <2>5
<1>. QED
  BY <1>1, APIInvariant, PTL
----------------------------------------------------------------------------
(* The types.  A client whose fields have their types: no more objects     *)
(* have their stations than were made.  The MQTT service has its own part  *)
(* in APIInv.                                                              *)
Sound(s) ==
    /\ DOMAIN s = Fields
    /\ IsABag(s.tasks)
    /\ BagToSet(s.tasks) \subseteq Tasks
    /\ s.running \in BOOLEAN
    /\ s.connected \in BOOLEAN
    /\ s.token \in Nat
    /\ s.interval \in Nat
    /\ s.renewal \in BOOLEAN
    /\ s.apiConnected \in BOOLEAN
    /\ s.serviceState \in ServiceStates
    /\ s.retries \in 0..MaxRetries
    /\ s.timer \in BOOLEAN
    /\ s.asked \subseteq {"captcha", "verify"}
    /\ s.stored \in Nat
    /\ s.saved \in Nat
    /\ s.objects \in Nat
    /\ s.loaded \in 0..s.objects

SoundServer ==
    /\ server \in [valid : SUBSET Nat, issued : Nat]
    /\ server.valid \subseteq 1..server.issued

TypeInv ==
    /\ Sound(client)
    /\ SoundServer
    /\ disk = client.saved
    /\ boots \in 0..MaxBoots
    /\ events \in 0..MaxEvents

LEMMA SoundAdd ==
    ASSUME NEW s, Sound(s), NEW task \in Tasks
    PROVE  Sound(Add(s, task))
<1>. DEFINE n == Add(s, task)
<1>1. IsABag(s.tasks) /\ DOMAIN s = Fields
  BY DEF Sound
<1>2. /\ DOMAIN n = Fields
      /\ n.tasks = OneMore(s.tasks, task)
      /\ \A f \in Fields \ {"tasks"} : n[f] = s[f]
  BY <1>1 DEF Add, OneMore, Fields
<1>. HIDE DEF n
<1>3. /\ IsABag(n.tasks)
      /\ BagToSet(n.tasks) = BagToSet(s.tasks) \cup {task}
  BY <1>1, <1>2, BagAdd
<1>4. Sound(n)
  BY <1>2, <1>3 DEF Sound, Fields
<1>. QED
  BY <1>4 DEF n

LEMMA SoundDone ==
    ASSUME NEW s, Sound(s), NEW task \in BagToSet(s.tasks)
    PROVE  Sound(Done(s, task)) /\ task \in Tasks
<1>. DEFINE n == Done(s, task)
<1>1. IsABag(s.tasks) /\ DOMAIN s = Fields
  BY DEF Sound
<1>2. /\ DOMAIN n = Fields
      /\ n.tasks = OneLess(s.tasks, task)
      /\ \A f \in Fields \ {"tasks"} : n[f] = s[f]
  BY <1>1 DEF Done, OneLess, Fields
<1>. HIDE DEF n
<1>3. /\ IsABag(n.tasks)
      /\ BagToSet(n.tasks) \subseteq BagToSet(s.tasks)
  BY <1>1, <1>2, BagTake
<1>4. Sound(n)
  BY <1>2, <1>3 DEF Sound, Fields
<1>5. task \in Tasks
  BY DEF Sound
<1>. QED
  BY <1>4, <1>5 DEF n

(* A request the system sends is one of Tasks.                             *)
LEMMA TaskIsTask ==
    ASSUME NEW kind \in TaskKinds, NEW stage \in Stages,
           NEW sent \in Nat, NEW old \in Nat
    PROVE  Task(kind, stage, sent, old) \in Tasks
  BY DEF Task, Tasks

LEMMA SoundWritten ==
    ASSUME NEW s, Sound(s)
    PROVE  Sound(Written(s))
  BY DEF Sound, Written, Fields

LEMMA SoundInvalidateToken ==
    ASSUME NEW s, Sound(s)
    PROVE  Sound(InvalidateToken(s))
<1>. DEFINE n == [s EXCEPT !.connected = FALSE, !.token = NoToken, !.renewal = FALSE,
                           !.stored = NoToken, !.serviceState = "disconnected"]
<1>1. Sound(n)
  BY DEF Sound, Fields, NoToken, ServiceStates
<1>. HIDE DEF n
<1>2. Sound(Written(n))
  BY <1>1, SoundWritten
<1>. QED
  BY <1>2 DEF InvalidateToken, n

LEMMA SoundOnAPIConnect ==
    ASSUME NEW s, Sound(s), NEW token \in Nat
    PROVE  Sound(OnAPIConnect(s, token))
<1>. DEFINE m == MqttConnect(s.mqtt)
            n == [s EXCEPT !.connected = TRUE, !.token = token, !.renewal = TRUE,
                           !.apiConnected = TRUE, !.retries = 0, !.asked = {},
                           !.stored = token, !.mqtt = m, !.objects = s.objects + 1]
<1>1. OnAPIConnect(s, token) = Add(n, Task("startup", "sleep", NoToken, NoToken))
  BY DEF OnAPIConnect, Sound, Fields
<1>. HIDE DEF m
<1>2. Sound(n)
  <2>1. /\ DOMAIN s = Fields
        /\ s.objects + 1 \in Nat
        /\ s.loaded \in 0..(s.objects + 1)
    BY DEF Sound
  <2>2. /\ DOMAIN n = Fields
        /\ n.objects = s.objects + 1
        /\ n.connected = TRUE /\ n.renewal = TRUE /\ n.apiConnected = TRUE
        /\ n.token = token /\ n.stored = token
        /\ n.retries = 0 /\ n.asked = {}
        /\ \A f \in {"tasks", "running", "serviceState", "interval", "timer", "saved", "loaded"} :
             n[f] = s[f]
    BY <2>1 DEF Fields
  <2>. HIDE DEF n
  <2>3. /\ n.tasks = s.tasks /\ n.running = s.running /\ n.serviceState = s.serviceState
        /\ n.timer = s.timer /\ n.saved = s.saved /\ n.loaded = s.loaded
        /\ n.interval = s.interval
    BY <2>2
  <2>4. /\ IsABag(n.tasks) /\ BagToSet(n.tasks) \subseteq Tasks
        /\ n.running \in BOOLEAN /\ n.serviceState \in ServiceStates
        /\ n.timer \in BOOLEAN /\ n.saved \in Nat /\ n.interval \in Nat
    BY <2>3 DEF Sound
  <2>5. n.retries \in 0..MaxRetries
    BY <2>2 DEF MaxRetries
  <2>6. n.loaded \in 0..n.objects /\ n.objects \in Nat
    BY <2>1, <2>2, <2>3
  <2>. QED
    BY <2>2, <2>4, <2>5, <2>6 DEF Sound
<1>3. Task("startup", "sleep", NoToken, NoToken) \in Tasks
  BY TaskIsTask DEF TaskKinds, Stages, NoToken
<1>. HIDE DEF n
<1>. QED
  BY <1>1, <1>2, <1>3, SoundAdd

LEMMA SoundOnAuthTokenRenewed ==
    ASSUME NEW s, Sound(s), NEW token \in Nat
    PROVE  Sound(OnAuthTokenRenewed(s, token))
<1>. DEFINE n == [s EXCEPT !.token = token, !.renewal = TRUE, !.stored = token]
<1>1. Sound(n)
  BY DEF Sound, Fields
<1>. HIDE DEF n
<1>2. Sound(Written(n))
  BY <1>1, SoundWritten
<1>. QED
  BY <1>2 DEF OnAuthTokenRenewed, n

LEMMA SoundLogin ==
    ASSUME NEW s, Sound(s)
    PROVE  Sound(Login(s))
<1>1. Task("login", "request", NoToken, NoToken) \in Tasks
  BY TaskIsTask DEF TaskKinds, Stages, NoToken
<1>2. Task("profile", "request", s.token, NoToken) \in Tasks
  BY TaskIsTask DEF TaskKinds, Stages, NoToken, Sound
<1>. QED
  BY <1>1, <1>2, SoundAdd DEF Login

(* The login is tried again at most MaxRetries times.                      *)
LEMMA SoundOnAPIClose ==
    ASSUME NEW s, Sound(s)
    PROVE  Sound(OnAPIClose(s))
<1>. DEFINE closed == [s EXCEPT !.timer = FALSE, !.apiConnected = FALSE,
                                !.serviceState = "disconnected"]
            n == [closed EXCEPT !.retries = s.retries + 1]
<1>1. Sound(closed)
  BY DEF Sound, Fields, ServiceStates
<1>2. s.retries < MaxRetries => Sound(n)
  BY DEF Sound, Fields, ServiceStates, MaxRetries
<1>3. OnAPIClose(s) = IF s.retries < MaxRetries THEN Login(n) ELSE closed
  BY DEF OnAPIClose, Sound, Fields
<1>. HIDE DEF closed, n
<1>. QED
  BY <1>1, <1>2, <1>3, SoundLogin

LEMMA SoundClosed ==
    ASSUME NEW s, Sound(s)
    PROVE  Sound(Closed(s))
  BY DEF Closed, Sound, Fields

LEMMA SoundCloseStarts ==
    ASSUME NEW s, Sound(s), NEW what \in {"logout", "stop"}
    PROVE  Sound(CloseStarts(s, what))
<1>. DEFINE m == MqttClose(s.mqtt)
            n == [s EXCEPT !.timer = FALSE, !.mqtt = m]
            task == Task(what, "closing", NoToken, NoToken)
<1>1. CloseStarts(s, what) = Add(n, task)
  BY DEF CloseStarts, Sound, Fields
<1>. HIDE DEF m
<1>2. Sound(n)
  BY DEF Sound, Fields
<1>3. task \in Tasks
  BY TaskIsTask DEF TaskKinds, Stages, NoToken
<1>. HIDE DEF n, task
<1>. QED
  BY <1>1, <1>2, <1>3, SoundAdd

LEMMA SoundLoginAnswered ==
    ASSUME NEW s, Sound(s), NEW outcome \in Outcomes, NEW token \in Nat
    PROVE  Sound(LoginAnswered(s, outcome, token))
<1>1. outcome \in {"ok", "captcha", "verify", "verifyAgain", "loginFails"}
  BY DEF Outcomes
<1>2. CASE outcome = "ok"
  BY <1>2, SoundOnAPIConnect, SoundOnAuthTokenRenewed DEF LoginAnswered
<1>3. CASE outcome = "captcha"
  <2>1. LoginAnswered(s, outcome, token) = [s EXCEPT !.asked = s.asked \cup {"captcha"}]
    BY <1>3 DEF LoginAnswered, Sound, Fields
  <2>. QED
    BY <2>1 DEF Sound, Fields
<1>4. CASE outcome \in {"verify", "verifyAgain"}
  <2>1. LoginAnswered(s, outcome, token)
          = [s EXCEPT !.token = token, !.asked = s.asked \cup {"verify"}]
    BY <1>4 DEF LoginAnswered, Sound, Fields
  <2>. QED
    BY <2>1 DEF Sound, Fields
<1>5. CASE outcome = "loginFails"
  <2>1. LoginAnswered(s, outcome, token) = [s EXCEPT !.serviceState = "disconnected"]
    BY <1>5 DEF LoginAnswered
  <2>. QED
    BY <2>1 DEF Sound, Fields, ServiceStates
<1>. QED
  BY <1>1, <1>2, <1>3, <1>4, <1>5

LEMMA SoundRefreshed ==
    ASSUME NEW s, Sound(s)
    PROVE  Sound(Refreshed(s))
<1>. DEFINE m == IF s.loaded < s.objects THEN SubscribeLocks(s.mqtt, Locks) ELSE s.mqtt
            n == [s EXCEPT !.loaded = s.objects, !.mqtt = m, !.timer = s.interval > 0]
<1>1. Refreshed(s) = n
  BY DEF Refreshed, Sound, Fields
<1>. HIDE DEF m
<1>2. Sound(n)
  BY DEF Sound, Fields
<1>. HIDE DEF n
<1>. QED
  BY <1>1, <1>2

LEMMA SoundCompleted ==
    ASSUME NEW s, Sound(s), NEW task, task.kind \in Requests,
           NEW successful \in BOOLEAN
    PROVE  Sound(Completed(s, task, successful))
<1>1. CASE task.kind = "refresh"
  BY <1>1, SoundRefreshed DEF Completed
<1>2. CASE task.kind = "startup"
  <2>. DEFINE r == Refreshed(s)
              n == [r EXCEPT !.serviceState = "ok"]
  <2>1. Completed(s, task, successful) = Written(n)
    BY <1>2 DEF Completed
  <2>2. Sound(r)
    BY SoundRefreshed
  <2>. HIDE DEF r
  <2>3. Sound(n)
    BY <2>2 DEF Sound, Fields, ServiceStates
  <2>. HIDE DEF n
  <2>. QED
    BY <2>1, <2>3, SoundWritten
<1>3. CASE task.kind = "profile"
  <2>. DEFINE n == [s EXCEPT !.serviceState = "disconnected"]
  <2>1. Sound(n)
    BY DEF Sound, Fields, ServiceStates
  <2>2. Sound(OnAPIConnect(s, s.token))
    BY SoundOnAPIConnect DEF Sound
  <2>3. Completed(s, task, successful) \in {n, s, OnAPIConnect(s, s.token)}
    BY <1>3 DEF Completed
  <2>. HIDE DEF n
  <2>. QED
    BY <2>1, <2>2, <2>3
<1>4. CASE task.kind = "logout"
  <2>1. Sound(OnAPILogout(s))
    BY SoundInvalidateToken, SoundClosed, SoundCloseStarts DEF OnAPILogout
  <2>2. Completed(s, task, successful) \in {s, OnAPILogout(s)}
    BY <1>4 DEF Completed
  <2>. QED
    BY <2>1, <2>2
<1>. QED
  BY <1>1, <1>2, <1>3, <1>4 DEF TaskKinds, Requests

LEMMA SoundUnauthorized ==
    ASSUME NEW s, Sound(s), NEW task, task.kind \in Requests
    PROVE  Sound(Unauthorized(s, task))
  BY SoundInvalidateToken, SoundOnAPIClose, SoundCompleted DEF Unauthorized

LEMMA SoundInitial ==
    ASSUME NEW token \in Nat, NEW interval \in Nat
    PROVE  Sound(InitialClient(token, interval))
<1>1. IsABag(EmptyBag) /\ BagToSet(EmptyBag) = {}
  BY DEF EmptyBag, SetToBag, IsABag, BagToSet
<1>. QED
  BY <1>1 DEF InitialClient, Sound, Fields, ServiceStates, MaxRetries

(* Whatever a step makes of the client, it writes the file.                *)
LEMMA BecomesSound ==
    ASSUME NEW s, Sound(s), Becomes(s)
    PROVE  Sound(client)' /\ (disk = client.saved)'
  BY DEF Becomes

(* The tokens the cloud accepts are among those it has issued.             *)
LEMMA IssueSound ==
    ASSUME SoundServer, NEW outcome, Issue(outcome)
    PROVE  SoundServer' /\ server'.issued \in Nat
  BY DEF SoundServer, Issue
(* A step whose client is sound, as is the answer it came from.            *)
LEMMA TakenSound ==
    ASSUME APIInv, TypeInv, NEW task \in BagToSet(client.tasks)
    PROVE  /\ Sound(Done(client, task))
           /\ Proper(task)
           /\ client.token \in Nat
<1>1. Sound(client)
  BY DEF TypeInv
<1>. QED
  BY <1>1, Taken, SoundDone DEF Sound

LEMMA AnswersSound ==
    ASSUME APIInv, TypeInv, NEW task \in BagToSet(client.tasks),
           Answers(task) \/ AnswerUndecryptable(task)
    PROVE  TypeInv'
<1>. DEFINE s == Done(client, task)
<1>1. /\ Sound(s)
      /\ Proper(task)
      /\ task.kind \in TaskKinds
      /\ client.token \in Nat
  BY TakenSound DEF Proper
<1>2. ASSUME NEW kind \in TaskKinds, NEW stage \in Stages,
             NEW sent \in Nat, NEW old \in Nat, NEW n, Sound(n)
      PROVE  Sound(Add(n, Task(kind, stage, sent, old)))
  BY <1>2, SoundAdd, TaskIsTask
<1>3. ASSUME NEW n, Sound(n), Becomes(n), SoundServer', boots' = boots,
             events' \in 0..MaxEvents
      PROVE  TypeInv'
  BY <1>3, BecomesSound DEF TypeInv
<1>4. /\ events \in 0..MaxEvents
      /\ NoToken \in Nat
      /\ SoundServer
      /\ UNCHANGED server => SoundServer'
  BY DEF TypeInv, SoundServer, NoToken
<1>. HIDE DEF s
<1>5. ASSUME Awake(task)
      PROVE  TypeInv'
  <2>1. task.kind \in Requests
    BY <1>1, <1>5 DEF Awake, Proper, Requests, TaskKinds
  <2>2. Sound(Add(s, Task(task.kind, "request", client.token, NoToken)))
    BY <1>1, <1>2, <1>4 DEF Stages
  <2>3. Sound(Completed(s, task, FALSE))
    BY <1>1, <2>1, SoundCompleted
  <2>4. \/ Becomes(Add(s, Task(task.kind, "request", client.token, NoToken)))
        \/ Becomes(Completed(s, task, FALSE))
    BY <1>5 DEF Awake, Send, s
  <2>. QED
    BY <1>3, <1>4, <1>5, <2>2, <2>3, <2>4 DEF Awake
<1>6. ASSUME Answer(task)
      PROVE  TypeInv'
  <2>1. Sound(Completed(s, task, TRUE))
    <3>1. task.kind \in Requests
      BY <1>1, <1>6 DEF Answer, Proper, Requests
    <3>. QED
      BY <1>1, <3>1, SoundCompleted
  <2>. QED
    BY <1>3, <1>4, <1>6, <2>1 DEF Answer, s
<1>7. ASSUME AnswerUndecryptable(task)
      PROVE  TypeInv'
  <2>1. task.kind \in Requests
    BY <1>7 DEF AnswerUndecryptable, TaskKinds, Requests
  <2>2. Sound(Completed(OnAPIClose(InvalidateToken(s)), task, FALSE))
    BY <1>1, <2>1, SoundInvalidateToken, SoundOnAPIClose, SoundCompleted
  <2>3. events' \in 0..MaxEvents
    BY <1>4, <1>7, ApiAssumption DEF AnswerUndecryptable, Outside
  <2>. QED
    BY <1>3, <1>4, <1>7, <2>2, <2>3 DEF AnswerUndecryptable, s
<1>8. ASSUME Answer401(task)
      PROVE  TypeInv'
  <2>1. Sound(InvalidateToken(s))
    BY <1>1, SoundInvalidateToken
  <2>2. Sound(Add(InvalidateToken(s), Task(task.kind, "hook", NoToken, client.token)))
    BY <1>1, <1>2, <1>4, <2>1 DEF Stages
  <2>. QED
    BY <1>3, <1>4, <1>8, <2>2 DEF Answer401, s
<1>9. ASSUME Retry401(task)
      PROVE  TypeInv'
  <2>1. task.kind \in Requests
    BY <1>1, <1>9 DEF Retry401, Proper, Requests
  <2>2. Sound(Unauthorized(s, task))
    BY <1>1, <2>1, SoundUnauthorized
  <2>. QED
    BY <1>3, <1>4, <1>9, <2>2 DEF Retry401, s
<1>10. ASSUME NEW outcome \in Outcomes, AnswerHook(task, outcome)
       PROVE  TypeInv'
  <2>. DEFINE a == LoginAnswered(s, outcome, server'.issued)
  <2>1. task.kind \in Requests
    BY <1>1, <1>10 DEF AnswerHook, Proper, Requests
  <2>2. SoundServer' /\ server'.issued \in Nat
    BY <1>4, <1>10, IssueSound DEF AnswerHook
  <2>3. Sound(a)
    BY <1>1, <2>2, SoundLoginAnswered
  <2>4. \/ Becomes(Add(a, Task(task.kind, "retry", a.token, NoToken)))
        \/ Becomes(Unauthorized(a, task))
    BY <1>10 DEF AnswerHook, s
  <2>. HIDE DEF a
  <2>5. a.token \in Nat
    BY <2>3 DEF Sound
  <2>6. Sound(Add(a, Task(task.kind, "retry", a.token, NoToken)))
    BY <1>1, <1>2, <1>4, <2>3, <2>5 DEF Stages
  <2>7. Sound(Unauthorized(a, task))
    BY <2>1, <2>3, SoundUnauthorized
  <2>. QED
    BY <1>3, <1>4, <1>10, <2>2, <2>4, <2>6, <2>7 DEF AnswerHook
<1>11. ASSUME NEW outcome \in Outcomes, AnswerLogin(task, outcome)
       PROVE  TypeInv'
  <2>1. SoundServer' /\ server'.issued \in Nat
    BY <1>4, <1>11, IssueSound DEF AnswerLogin
  <2>2. Sound(LoginAnswered(s, outcome, server'.issued))
    BY <1>1, <2>1, SoundLoginAnswered
  <2>. QED
    BY <1>3, <1>4, <1>11, <2>1, <2>2 DEF AnswerLogin, s
<1>12. ASSUME CloseEnds(task)
       PROVE  TypeInv'
  <2>1. Sound(Closed(s)) /\ Sound(Written(Closed(s)))
    BY <1>1, SoundClosed, SoundWritten
  <2>. QED
    BY <1>3, <1>4, <1>12, <2>1 DEF CloseEnds, s
<1>. QED
  BY <1>5, <1>6, <1>7, <1>8, <1>9, <1>10, <1>11, <1>12 DEF Answers

LEMMA OtherStepsSound ==
    ASSUME TypeInv, NEW n, Becomes(n), Sound(client) => Sound(n),
           UNCHANGED server, boots' \in 0..MaxBoots, events' \in 0..MaxEvents
    PROVE  TypeInv'
<1>1. Sound(n)
  BY DEF TypeInv
<1>. QED
  BY <1>1, BecomesSound DEF TypeInv, SoundServer

LEMMA TypeStep ==
    ASSUME APIInv, TypeInv, [Next]_vars
    PROVE  TypeInv'
<1>1. /\ Sound(client)
      /\ client.token \in Nat
      /\ NoToken \in Nat
      /\ boots \in 0..MaxBoots
      /\ events \in 0..MaxEvents
      /\ Outside => events' \in 0..MaxEvents
  BY ApiAssumption DEF TypeInv, Sound, Outside, NoToken
<1>2. ASSUME NEW kind \in TaskKinds, NEW sent \in Nat, NEW n, Sound(n)
      PROVE  Sound(Add(n, Task(kind, "request", sent, NoToken)))
  BY <1>1, <1>2, SoundAdd, TaskIsTask DEF Stages
<1>3. {"login", "refresh", "logout"} \subseteq TaskKinds
  BY DEF TaskKinds
<1>4. CASE \E task \in BagToSet(client.tasks) : Answers(task) \/ AnswerUndecryptable(task)
  BY <1>4, AnswersSound
<1>5. CASE TimerFires
  <2>. DEFINE fired == [client EXCEPT !.timer = FALSE]
              task == Task("refresh", "request", client.token, NoToken)
  <2>1. Sound(fired)
    BY <1>1 DEF Sound, Fields
  <2>2. task.kind \in Requests
    BY DEF Task, TaskKinds, Requests
  <2>3. Becomes(Add(fired, task)) \/ Becomes(Completed(fired, task, FALSE))
    BY <1>5 DEF TimerFires
  <2>. HIDE DEF fired
  <2>4. Sound(Add(fired, task))
    BY <1>1, <1>2, <1>3, <2>1
  <2>. HIDE DEF task
  <2>5. Sound(Completed(fired, task, FALSE))
    BY <2>1, <2>2, SoundCompleted
  <2>. QED
    BY <1>1, <1>5, <2>3, <2>4, <2>5, OtherStepsSound DEF TimerFires
<1>6. CASE RenewalDue
  <2>. DEFINE due == [client EXCEPT !.renewal = FALSE]
  <2>1. Sound(due)
    BY <1>1 DEF Sound, Fields
  <2>2. Becomes(Add(due, Task("login", "request", NoToken, NoToken)))
    BY <1>6 DEF RenewalDue
  <2>. HIDE DEF due
  <2>3. Sound(Add(due, Task("login", "request", NoToken, NoToken)))
    BY <1>1, <1>2, <1>3, <2>1
  <2>. QED
    BY <1>1, <1>6, <2>2, <2>3, OtherStepsSound DEF RenewalDue
<1>7. CASE \E what \in client.asked : EnterCode(what)
  <2>1. Sound(Add(client, Task("login", "request", NoToken, NoToken)))
    BY <1>1, <1>2, <1>3
  <2>. QED
    BY <1>1, <1>7, <2>1, OtherStepsSound DEF EnterCode
<1>8. CASE Logout
  <2>1. Sound(Add(client, Task("logout", "request", client.token, NoToken)))
    BY <1>1, <1>2, <1>3
  <2>. QED
    BY <1>1, <1>8, <2>1, OtherStepsSound DEF Logout
<1>9. CASE Stop
  <2>. DEFINE n == [client EXCEPT !.serviceState = "shutdown", !.running = FALSE]
  <2>1. Becomes(CloseStarts(n, "stop"))
    BY <1>9 DEF Stop
  <2>2. Sound(n)
    BY <1>1 DEF Sound, Fields, ServiceStates
  <2>. HIDE DEF n
  <2>3. Sound(CloseStarts(n, "stop"))
    BY <2>2, SoundCloseStarts
  <2>. QED
    BY <1>1, <1>9, <2>1, <2>3, OtherStepsSound DEF Stop
<1>10. ASSUME NEW interval \in Intervals, Start(interval)
       PROVE  TypeInv'
  <2>. DEFINE c == InitialClient(disk, interval)
              n == [c EXCEPT !.running = TRUE]
  <2>1. Sound(c)
    <3>1. disk \in Nat /\ interval \in Nat
      BY ApiAssumption DEF TypeInv, Sound
    <3>. QED
      BY <3>1, SoundInitial
  <2>2. Becomes(Login(n))
    BY <1>10 DEF Start
  <2>. HIDE DEF c
  <2>3. Sound(n)
    BY <2>1 DEF Sound, Fields
  <2>. HIDE DEF n
  <2>4. Sound(Login(n))
    BY <2>3, SoundLogin
  <2>5. boots' \in 0..MaxBoots
    BY <1>1, <1>10, ApiAssumption DEF Start
  <2>. QED
    BY <1>1, <1>10, <2>2, <2>4, <2>5, OtherStepsSound DEF Start
<1>11. CASE \E token \in server.valid : Revoke(token)
  <2>1. SoundServer'
    BY <1>11 DEF TypeInv, SoundServer, Revoke
  <2>. QED
    BY <1>1, <1>11, <2>1 DEF TypeInv, Revoke
<1>12. CASE \E k \in DOMAIN client.mqtt.clients :
              \/ MqttUp(k) \/ MqttDown(k) \/ MqttTakenOver(k)
              \/ \E final \in BOOLEAN : MqttRefused(k, final)
  <2>1. PICK m : /\ Becomes([client EXCEPT !.mqtt = m])
                 /\ UNCHANGED <<server, boots>>
                 /\ events' = events \/ Outside
    BY <1>12 DEF MqttUp, MqttDown, MqttTakenOver, MqttRefused
  <2>2. Sound([client EXCEPT !.mqtt = m])
    BY <1>1 DEF Sound, Fields
  <2>. QED
    BY <1>1, <2>1, <2>2, OtherStepsSound
<1>13. CASE UNCHANGED vars
  BY <1>13 DEF vars, TypeInv, SoundServer
<1>. QED
  BY <1>4, <1>5, <1>6, <1>7, <1>8, <1>9, <1>10, <1>11, <1>12, <1>13 DEF Next

LEMMA APITypeInvariant == Spec => []TypeInv
<1>1. Init => TypeInv
  <2>. SUFFICES ASSUME Init PROVE TypeInv
    OBVIOUS
  <2>1. Sound(InitialClient(NoToken, 0)) /\ InitialClient(NoToken, 0).saved = NoToken
    BY SoundInitial DEF NoToken, InitialClient
  <2>. QED
    BY <2>1, ApiAssumption DEF Init, TypeInv, SoundServer
<1>2. APIInv /\ TypeInv /\ [Next]_vars => TypeInv'
  BY TypeStep
<1>. QED
  BY <1>1, <1>2, APIInvariant, PTL DEF Spec

(* Every variable has its type: among other things the login is tried      *)
(* again at most MaxRetries times, the file has what the process wrote     *)
(* last, and the cloud accepts only tokens it has issued (TypeOK).         *)
THEOREM ApiTypeCorrect == Spec => []TypeOK
<1>1. APIInv /\ TypeInv => TypeOK
  <2>. SUFFICES ASSUME APIInv, TypeInv PROVE TypeOK
    OBVIOUS
  <2>. DEFINE c == [f \in DOMAIN client \ {"tasks"} |-> client[f]]
  <2>1. Sound(client)
    BY DEF TypeInv
  <2>2. client.mqtt \in MqttType
    <3>. DEFINE m == client.mqtt
    <3>1. m \in [connected : BOOLEAN, connecting : BOOLEAN,
                 subscribeLocks : {{}, Locks}, clients : Seq(MqttClient)]
      BY DEF APIInv, Good, MqttInv
    <3>. HIDE DEF m
    <3>2. m \in MqttType
      BY <3>1 DEF MqttType
    <3>. QED
      BY <3>2 DEF m
  <2>3. client.loaded \in Nat
    BY <2>1 DEF Sound
  <2>4. c \in ClientType
    BY <2>1, <2>2, <2>3 DEF ClientType, Sound, Fields
  <2>5. client.loaded <= client.objects
    BY <2>1 DEF Sound
  <2>. HIDE DEF c
  <2>. QED
    BY <2>1, <2>4, <2>5 DEF TypeOK, TypeInv, SoundServer, Sound, c
<1>. QED
  BY <1>1, APIInvariant, APITypeInvariant, PTL
=============================================================================
