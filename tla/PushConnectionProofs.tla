------------------------ MODULE PushConnectionProofs -------------------------
(***************************************************************************)
(* Proofs about PushConnection for any number of clients and messages: its *)
(* types, that a message is given to the application once, whatever fails, *)
(* and that the service listens to one client and never ends the process,  *)
(* if open() and close() are called in turn.                               *)
(*                                                                         *)
(* The second part is about the parser of the same connection              *)
(* (PushClientParser), for any stream and any way to cut it: its types,    *)
(* that it passes on exactly what has arrived, and that it throws over bad *)
(* data only.                                                              *)
(***************************************************************************)
EXTENDS PushConnection, PushClientParser, FiniteSetTheorems, SequenceTheorems,
        WellFoundedInduction, TLAPS

(* Calls of _open() that have not returned. *)
Openings == fetching["open"] + fetching["renew"] + loading["open"] + loading["renew"]

(* TypeOK in two parts: the second is about the numbers of the clients.    *)
FieldsOK ==
    /\ service \in ServiceType
    /\ fetching \in [Reasons -> Nat]
    /\ loading \in [Reasons -> Nat]
    /\ clients \in [Created -> ClientType]
    /\ \A c \in Created : clients[c].loggedIn => clients[c].socket = "open"
    /\ running \in BOOLEAN
    /\ server \in [Clients -> ServerType]
    /\ heard \in [Messages -> Nat]
    /\ wanted \in BOOLEAN

Numbered == Created \in {1..n : n \in 0..MaxClients}

(* Types, and that there is room for every client that is being made. *)
TypeInv ==
    /\ FieldsOK
    /\ Numbered
    /\ service.pushClient \in Created \cup {0}
    /\ Cardinality(Created) + Openings <= MaxClients

LEMMA TypesInTwoParts == TypeOK <=> FieldsOK /\ Numbered
BY DEF TypeOK, FieldsOK, Numbered

LEMMA CreatedAreNumbered ==
    ASSUME Numbered
    PROVE  \E n \in 0..MaxClients : Created = 1..n /\ Cardinality(Created) = n
<1>1. PICK n \in 0..MaxClients : Created = 1..n
  BY DEF Numbered
<1>2. Cardinality(1..n) = n
  BY FS_Interval, PushAssumption
<1> QED
  BY <1>1, <1>2

LEMMA OpeningsAreCounted ==
    ASSUME FieldsOK, Numbered
    PROVE  /\ Openings \in Nat
           /\ (Openings = 0) <=> ~Opening
           /\ RoomForClient <=> Cardinality(Created) + Openings < MaxClients
<1>1. /\ fetching["open"] \in Nat /\ fetching["renew"] \in Nat
      /\ loading["open"] \in Nat /\ loading["renew"] \in Nat
  BY DEF FieldsOK, Reasons
<1>2. Cardinality(Created) \in Nat
  BY CreatedAreNumbered, PushAssumption
<1>3. Opening <=> \/ fetching["open"] > 0 \/ loading["open"] > 0
                  \/ fetching["renew"] > 0 \/ loading["renew"] > 0
  BY DEF Opening, Reasons
<1>4. Openings \in Nat /\ ((Openings = 0) <=> ~Opening)
  BY <1>1, <1>3 DEF Openings
<1>5. RoomForClient <=> Cardinality(Created) + Openings < MaxClients
  BY <1>1, <1>2, PushAssumption DEF Openings, RoomForClient
<1> QED
  BY <1>4, <1>5

(* How the number of openings changes with one counter.                    *)
LEMMA OpeningsChange ==
    ASSUME FieldsOK, NEW r \in Reasons, NEW d \in {-1, 1}
    PROVE  /\ fetching' = [fetching EXCEPT ![r] = @ + d] /\ loading' = loading
                => Openings' = Openings + d
           /\ fetching' = fetching /\ loading' = [loading EXCEPT ![r] = @ + d]
                => Openings' = Openings + d
<1>1. /\ fetching["open"] \in Nat /\ fetching["renew"] \in Nat
      /\ loading["open"] \in Nat /\ loading["renew"] \in Nat
      /\ DOMAIN fetching = Reasons /\ DOMAIN loading = Reasons
  BY DEF FieldsOK, Reasons
<1>2. ASSUME NEW f, DOMAIN f = Reasons
      PROVE  /\ [f EXCEPT ![r] = @ + d]["open"] = (IF r = "open" THEN f["open"] + d ELSE f["open"])
             /\ [f EXCEPT ![r] = @ + d]["renew"] = (IF r = "renew" THEN f["renew"] + d ELSE f["renew"])
  BY <1>2 DEF Reasons
<1>3. r = "open" \/ r = "renew"
  BY DEF Reasons
<1>4. ASSUME fetching' = [fetching EXCEPT ![r] = @ + d], loading' = loading
      PROVE  Openings' = Openings + d
  BY <1>1, <1>2, <1>3, <1>4 DEF Openings
<1>5. ASSUME fetching' = fetching, loading' = [loading EXCEPT ![r] = @ + d]
      PROVE  Openings' = Openings + d
  BY <1>1, <1>2, <1>3, <1>5 DEF Openings
<1> QED
  BY <1>4, <1>5

LEMMA InitTypes == Init => TypeInv
<1> SUFFICES ASSUME Init PROVE TypeInv
  OBVIOUS
<1> USE PushAssumption DEF Init
<1>1. Created = {} /\ Created = 1..0
  BY DEF Created
<1>2. FieldsOK
  <2>1. clients \in [Created -> ClientType] /\ \A c \in Created : clients[c].loggedIn => FALSE
    BY <1>1
  <2>2. service \in ServiceType /\ server \in [Clients -> ServerType]
    BY DEF ServiceType, ServerType
  <2>3. heard \in [Messages -> Nat] /\ fetching \in [Reasons -> Nat] /\ loading \in [Reasons -> Nat]
    OBVIOUS
  <2> QED
    BY <2>1, <2>2, <2>3 DEF FieldsOK
<1>3. Numbered
  BY <1>1 DEF Numbered
<1>4. Cardinality(Created) = 0
  BY <1>1, FS_EmptySet
<1>5. Openings = 0
  BY DEF Openings, Reasons
<1> QED
  BY <1>1, <1>2, <1>3, <1>4, <1>5 DEF TypeInv

(* A step that changes one client at most, and makes none. *)
LEMMA ClientStep ==
    ASSUME TypeInv, running' \in BOOLEAN, UNCHANGED <<fetching, loading>>,
           Created' = Created,
           clients' \in [Created -> ClientType],
           \A c \in Created : clients'[c].loggedIn => clients'[c].socket = "open",
           service' \in ServiceType, service'.pushClient = service.pushClient,
           server' \in [Clients -> ServerType],
           heard' \in [Messages -> Nat], wanted' \in BOOLEAN
    PROVE  TypeInv'
BY DEF TypeInv, FieldsOK, Numbered, Openings

(* One client is given another state. *)
LEMMA OneClientChanges ==
    ASSUME FieldsOK, NEW c \in Created, NEW k \in ClientType, k.loggedIn => k.socket = "open",
           clients' = [clients EXCEPT ![c] = k]
    PROVE  /\ Created' = Created
           /\ clients' \in [Created -> ClientType]
           /\ \A d \in Created : clients'[d].loggedIn => clients'[d].socket = "open"
           /\ clients'[c] = k
           /\ \A d \in Created \ {c} : clients'[d] = clients[d]
BY DEF FieldsOK, Created

(* What the operators on a client and on the service return.               *)
LEMMA ClientOperators ==
    ASSUME NEW k \in ClientType
    PROVE  /\ Initialized(k) \in ClientType /\ ~Initialized(k).loggedIn
           /\ Connected(k) \in ClientType /\ ~Connected(k).loggedIn
           /\ Lost(k) \in ClientType /\ ~Lost(k).loggedIn
           /\ Unlistened(k) \in ClientType /\ Unlistened(k).loggedIn = k.loggedIn
           /\ Unlistened(k).socket = k.socket
<1> USE DEF ClientType
<1>1. Initialized(k) \in ClientType /\ ~Initialized(k).loggedIn
  BY DEF Initialized
<1>2. Connected(k) \in ClientType /\ ~Connected(k).loggedIn
  BY <1>1 DEF Connected, Initialized
<1>3. Lost(k) \in ClientType /\ ~Lost(k).loggedIn
  <2>1. (IF k.heartbeatTimeouts > 0 THEN k.heartbeatTimeouts - 1 ELSE 0) \in Nat
    OBVIOUS
  <2> QED
    BY <2>1 DEF Lost
<1>4. Unlistened(k) \in ClientType /\ Unlistened(k).loggedIn = k.loggedIn
      /\ Unlistened(k).socket = k.socket
  BY DEF Unlistened
<1> QED
  BY <1>1, <1>2, <1>3, <1>4

LEMMA ServiceOperators ==
    ASSUME NEW s \in ServiceType
    PROVE  /\ OnConnect(s) \in ServiceType /\ OnConnect(s).pushClient = s.pushClient
           /\ OnClose(s) \in ServiceType /\ OnClose(s).pushClient = s.pushClient
BY DEF OnConnect, OnClose, ServiceType

LEMMA StartsOpenStep ==
    ASSUME TypeInv, NEW s \in ServiceType, s.pushClient = service.pushClient, StartsOpen(s),
           UNCHANGED <<loading, clients, running, server, heard>>, wanted' \in BOOLEAN
    PROVE  TypeInv'
<1> USE DEF TypeInv
<1>1. Created' = Created
  BY DEF Created
<1>2. service' \in ServiceType /\ service'.pushClient = service.pushClient
  BY DEF StartsOpen, ServiceType
<1>3. fetching' \in [Reasons -> Nat]
  BY DEF StartsOpen, FieldsOK
<1>4. FieldsOK' /\ Numbered'
  BY <1>1, <1>2, <1>3 DEF FieldsOK, Numbered
<1>5. Cardinality(Created) + Openings' <= MaxClients
  <2>1. CASE MayOpen
    <3>1. Openings' = Openings + 1
      BY <2>1, OpeningsChange DEF StartsOpen, Reasons
    <3> QED
      BY <2>1, <3>1, OpeningsAreCounted, CreatedAreNumbered, PushAssumption DEF StartsOpen
  <2>2. CASE ~MayOpen
    BY <2>2 DEF StartsOpen, Openings
  <2> QED
    BY <2>1, <2>2
<1> QED
  BY <1>1, <1>2, <1>4, <1>5

LEMMA ServiceStep ==
    ASSUME TypeInv, Open \/ Close \/ RetryTimeout \/ CredentialsTimeout
    PROVE  TypeInv'
<1> USE DEF TypeInv, EnvironmentUnchanged
<1>1. CASE Open
  <2>1. service \in ServiceType
    BY DEF FieldsOK
  <2> QED
    BY <1>1, <2>1, StartsOpenStep DEF Open
<1>2. CASE Close
  <2> DEFINE c == service.pushClient
             stopped == [service EXCEPT !.retryTimeout = FALSE, !.credentialsTimeout = FALSE]
  <2>1. stopped \in ServiceType /\ stopped.pushClient = c
    BY DEF FieldsOK, ServiceType
  <2>2. service' \in ServiceType /\ service'.pushClient = service.pushClient
    BY <1>2, <2>1, ServiceOperators DEF Close
  <2>3. Created' = Created /\ clients' \in [Created -> ClientType]
        /\ \A d \in Created : clients'[d].loggedIn => clients'[d].socket = "open"
    <3>1. CASE c = 0
      BY <1>2, <3>1 DEF Close, FieldsOK, Created
    <3>2. CASE c # 0
      <4>1. c \in Created /\ clients[c] \in ClientType
        BY <3>2 DEF FieldsOK
      <4>2. clients' = [clients EXCEPT ![c] = Initialized(clients[c])]
        BY <1>2, <3>2 DEF Close
      <4>3. Initialized(clients[c]) \in ClientType /\ ~Initialized(clients[c]).loggedIn
        BY <4>1, ClientOperators
      <4> HIDE DEF c
      <4> QED
        BY <4>1, <4>2, <4>3, OneClientChanges
    <3> QED
      BY <3>1, <3>2
  <2> QED
    BY <1>2, <2>2, <2>3, ClientStep DEF Close, FieldsOK
<1>3. CASE RetryTimeout
  <2> DEFINE s == [service EXCEPT !.retryTimeout = FALSE]
  <2>1. s \in ServiceType /\ s.pushClient = service.pushClient
    BY DEF FieldsOK, ServiceType
  <2>2. wanted' \in BOOLEAN
    BY <1>3 DEF RetryTimeout, FieldsOK
  <2>3. StartsOpen(s)
    BY <1>3 DEF RetryTimeout
  <2> QED
    BY <1>3, <2>1, <2>2, <2>3, StartsOpenStep DEF RetryTimeout
<1>4. CASE CredentialsTimeout
  <2>1. Created' = Created /\ service' \in ServiceType /\ service'.pushClient = service.pushClient
    BY <1>4 DEF CredentialsTimeout, FieldsOK, ServiceType, Created
  <2>2. fetching' \in [Reasons -> Nat]
    BY <1>4 DEF CredentialsTimeout, FieldsOK, Reasons
  <2>4. FieldsOK' /\ Numbered'
    BY <1>4, <2>1, <2>2 DEF CredentialsTimeout, FieldsOK, Numbered
  <2>3. Openings' = Openings + 1
    BY <1>4, OpeningsChange DEF CredentialsTimeout, Reasons
  <2> QED
    BY <1>4, <2>1, <2>3, <2>4, OpeningsAreCounted, CreatedAreNumbered, PushAssumption
    DEF CredentialsTimeout
<1> QED
  BY <1>1, <1>2, <1>3, <1>4

LEMMA OpenGoesOn ==
    ASSUME TypeInv, NEW r \in Reasons, Fetched(r) \/ Rejected(r) \/ Loaded(r)
    PROVE  TypeInv'
<1> USE DEF TypeInv, EnvironmentUnchanged
<1>1. CASE Fetched(r)
  <2>1. Created' = Created /\ service' \in ServiceType /\ service'.pushClient = service.pushClient
    BY <1>1 DEF Fetched, FieldsOK, ServiceType, Created
  <2>2. clients' \in [Created -> ClientType]
    <3>1. \A k \in ClientType : Unlistened(k) \in ClientType
      BY ClientOperators
    <3>2. clients \in [Created -> ClientType]
      BY DEF FieldsOK
    <3>3. \/ \E c \in Created : clients' = [clients EXCEPT ![c] = Unlistened(clients[c])]
          \/ clients' = clients
      BY <1>1, <3>2 DEF Fetched
    <3> QED
      BY <3>1, <3>2, <3>3
  <2>3. \A c \in Created : clients'[c].loggedIn => clients'[c].socket = "open"
    BY <1>1 DEF Fetched, FieldsOK, ClientType, Unlistened
  <2>4. fetching' \in [Reasons -> Nat] /\ loading' \in [Reasons -> Nat]
    BY <1>1 DEF Fetched, FieldsOK
  <2>5. FieldsOK' /\ Numbered'
    BY <1>1, <2>1, <2>2, <2>3, <2>4 DEF Fetched, FieldsOK, Numbered
  <2>6. Openings' = Openings
    BY <1>1 DEF Fetched, Openings, FieldsOK, Reasons
  <2> QED
    BY <2>1, <2>5, <2>6
<1>2. CASE Rejected(r)
  <2>1. Created' = Created /\ service' \in ServiceType /\ service'.pushClient = service.pushClient
    BY <1>2 DEF Rejected, Opened, OnClose, FieldsOK, ServiceType, Created
  <2>2. fetching' \in [Reasons -> Nat]
    BY <1>2 DEF Rejected, FieldsOK
  <2>3. FieldsOK' /\ Numbered'
    BY <1>2, <2>1, <2>2 DEF Rejected, FieldsOK, Numbered
  <2>4. Openings' = Openings - 1
    BY <1>2, OpeningsChange DEF Rejected
  <2> QED
    BY <2>1, <2>3, <2>4, OpeningsAreCounted, CreatedAreNumbered, PushAssumption
<1>3. CASE Loaded(r)
  <2>1. PICK n \in 0..MaxClients : Created = 1..n /\ Cardinality(Created) = n
    BY CreatedAreNumbered
  <2>2. Openings' = Openings - 1 /\ Openings \in Nat
    BY <1>3, OpeningsAreCounted, OpeningsChange DEF Loaded
  <2>10. Opening
    BY <1>3 DEF Loaded, Opening
  <2>3. n + 1 \in 0..MaxClients /\ n + 1 \in 1..MaxClients
    BY <2>1, <2>2, <2>10, OpeningsAreCounted, PushAssumption
  <2>4. Created' = 1..(n + 1)
    BY <1>3, <2>1 DEF Loaded, Created
  <2>5. Cardinality(Created') = n + 1
    BY <2>3, <2>4, FS_Interval, PushAssumption
  <2>6. clients' \in [Created' -> ClientType]
    <3>1. InitialClient \in ClientType
      BY DEF InitialClient, ClientType
    <3>2. [Connected(InitialClient) EXCEPT !.listeners = TRUE] \in ClientType
      BY DEF InitialClient, ClientType, Connected, Initialized
    <3> QED
      BY <1>3, <2>1, <2>4, <3>1, <3>2 DEF Loaded, FieldsOK, Created
  <2>7. \A c \in Created' : clients'[c].loggedIn => clients'[c].socket = "open"
    BY <1>3, <2>1, <2>4 DEF Loaded, FieldsOK, InitialClient, Connected, Initialized
  <2>8. service' \in ServiceType /\ service'.pushClient = n + 1
    BY <1>3, <2>1, <2>3 DEF Loaded, Opened, FieldsOK, ServiceType
  <2>9. FieldsOK' /\ Numbered'
    <3>1. loading' \in [Reasons -> Nat] /\ running' \in BOOLEAN
      BY <1>3 DEF Loaded, FieldsOK
    <3>2. Numbered'
      BY <2>3, <2>4 DEF Numbered
    <3> QED
      BY <1>3, <2>6, <2>7, <2>8, <3>1, <3>2 DEF Loaded, FieldsOK
  <2> QED
    BY <2>1, <2>2, <2>4, <2>5, <2>8, <2>9
<1> QED
  BY <1>1, <1>2, <1>3

LEMMA SocketStep ==
    ASSUME TypeInv, NEW c \in Created,
           \/ LoginResponse(c) \/ SocketCloses(c)
           \/ ReconnectTimeout(c) \/ HeartbeatWithoutLogin(c)
    PROVE  TypeInv'
<1> USE DEF TypeInv, EnvironmentUnchanged
<1>1. c \in Clients
  BY CreatedAreNumbered, PushAssumption DEF Clients
<1>2. service \in ServiceType /\ clients[c] \in ClientType
  BY DEF FieldsOK
<1>3. OnConnect(service) \in ServiceType /\ OnConnect(service).pushClient = service.pushClient
      /\ OnClose(service) \in ServiceType /\ OnClose(service).pushClient = service.pushClient
  BY <1>2, ServiceOperators
<1>4. service' \in ServiceType /\ service'.pushClient = service.pushClient
  BY <1>2, <1>3 DEF LoginResponse, SocketCloses, ReconnectTimeout, HeartbeatWithoutLogin, Hears
<1>5. server' \in [Clients -> ServerType]
  BY <1>1 DEF LoginResponse, SocketCloses, ReconnectTimeout, HeartbeatWithoutLogin,
              FieldsOK, ServerType
<1>6. \E k \in ClientType :
        (k.loggedIn => k.socket = "open") /\ clients' = [clients EXCEPT ![c] = k]
  <2>1. CASE LoginResponse(c)
    <3> DEFINE k == [clients[c] EXCEPT !.loggedIn = TRUE, !.persistentIds = {},
                                       !.heartbeatTimeouts = @ + 1]
    <3>3. clients[c].heartbeatTimeouts + 1 \in Nat
      BY <1>2 DEF ClientType
    <3>1. k \in ClientType /\ k.socket = "open"
      BY <1>2, <2>1, <3>3 DEF LoginResponse, ClientType
    <3>2. clients' = [clients EXCEPT ![c] = k]
      BY <1>2, <2>1 DEF LoginResponse, FieldsOK, ClientType
    <3> QED
      BY <3>1, <3>2
  <2>2. CASE SocketCloses(c)
    BY <1>2, <2>2, ClientOperators DEF SocketCloses
  <2>3. CASE ReconnectTimeout(c)
    BY <1>2, <2>3, ClientOperators DEF ReconnectTimeout
  <2>4. CASE HeartbeatWithoutLogin(c)
    <3> DEFINE k == [clients[c] EXCEPT !.heartbeatTimeouts = @ - 1, !.reconnectTimeout = TRUE]
    <3>3. clients[c].heartbeatTimeouts - 1 \in Nat
      BY <1>2, <2>4 DEF HeartbeatWithoutLogin, ClientType
    <3>1. k \in ClientType /\ ~k.loggedIn
      BY <1>2, <2>4, <3>3 DEF HeartbeatWithoutLogin, ClientType
    <3>2. clients' = [clients EXCEPT ![c] = k]
      BY <1>2, <2>4 DEF HeartbeatWithoutLogin, FieldsOK, ClientType
    <3> QED
      BY <3>1, <3>2
  <2> QED
    BY <2>1, <2>2, <2>3, <2>4
<1>7. Created' = Created /\ clients' \in [Created -> ClientType]
      /\ \A d \in Created : clients'[d].loggedIn => clients'[d].socket = "open"
  BY <1>6, OneClientChanges
<1> QED
  BY <1>4, <1>5, <1>7, ClientStep
  DEF LoginResponse, SocketCloses, ReconnectTimeout, HeartbeatWithoutLogin, FieldsOK

LEMMA MessageStep ==
    ASSUME TypeInv, NEW m \in Messages,
           (\E c \in Created : DataMessage(c, m)) \/ MessageSent(m)
    PROVE  TypeInv'
<1> USE DEF TypeInv
<1>1. CASE \E c \in Created : DataMessage(c, m)
  <2>1. PICK c \in Created : DataMessage(c, m)
    BY <1>1
  <2>2. c \in Clients
    BY CreatedAreNumbered, PushAssumption DEF Clients
  <2>3. Created' = Created /\ clients' \in [Created -> ClientType]
    BY <2>1 DEF DataMessage, FieldsOK, Created, ClientType
  <2>4. \A k \in Created : clients'[k].loggedIn => clients'[k].socket = "open"
    BY <2>1 DEF DataMessage, FieldsOK, Created, ClientType
  <2>5. server' \in [Clients -> ServerType] /\ heard' \in [Messages -> Nat]
    BY <2>1, <2>2 DEF DataMessage, FieldsOK, ServerType
  <2> QED
    BY <2>1, <2>3, <2>4, <2>5, ClientStep DEF DataMessage, FieldsOK
<1>2. CASE MessageSent(m)
  <2>1. service.pushClient \in Clients
    BY <1>2, CreatedAreNumbered, PushAssumption DEF MessageSent, Clients
  <2>2. server' \in [Clients -> ServerType]
    BY <1>2, <2>1 DEF MessageSent, FieldsOK, ServerType
  <2> QED
    BY <1>2, <2>2, ClientStep DEF MessageSent, FieldsOK, Created
<1> QED
  BY <1>1, <1>2

LEMMA StepTypes == TypeInv /\ [Next]_vars => TypeInv'
<1> SUFFICES ASSUME TypeInv, [Next]_vars PROVE TypeInv'
  OBVIOUS
<1>1. CASE UNCHANGED vars
  BY <1>1 DEF vars, TypeInv, FieldsOK, Numbered, Openings, Created
<1>2. CASE Next
  BY <1>2, ServiceStep, OpenGoesOn, SocketStep, MessageStep DEF Next
<1> QED
  BY <1>1, <1>2

----------------------------------------------------------------------------
(***************************************************************************)
(* Each message once.  The promise alone is not inductive: a message that  *)
(* the application has may be pending still, and is not given to it again  *)
(* because the client that got it keeps its id, until a login tells the    *)
(* server.                                                                 *)
(***************************************************************************)
PendingOnce ==
    \A c, d \in Clients, m \in Messages :
        m \in server[c].pending /\ m \in server[d].pending => c = d

HeardIsKept ==
    \A c \in Clients, m \in Messages :
        m \in server[c].pending =>
            c \in Created /\ (heard[m] > 0 => m \in clients[c].persistentIds)

KeptIsDelivered ==
    \A c \in Created :
        clients[c].loggedIn => clients[c].persistentIds \subseteq server[c].delivered

OnceInv == TypeInv /\ EachMessageOnce /\ PendingOnce /\ HeardIsKept /\ KeptIsDelivered

(* A step after which every client that was there has the same ids.        *)
LEMMA IdsAreKept ==
    ASSUME OnceInv, TypeInv', UNCHANGED <<server, heard>>, Created \subseteq Created',
           \A c \in Created :
                /\ clients'[c].persistentIds = clients[c].persistentIds
                /\ clients'[c].loggedIn => clients[c].loggedIn,
           \A c \in Created' \ Created : ~clients'[c].loggedIn
    PROVE  OnceInv'
<1> USE DEF OnceInv
<1>1. EachMessageOnce' /\ PendingOnce'
  BY DEF EachMessageOnce, PendingOnce
<1>2. HeardIsKept'
  BY DEF HeardIsKept
<1>3. KeptIsDelivered'
  BY DEF KeptIsDelivered
<1> QED
  BY <1>1, <1>2, <1>3

LEMMA OnceInit == Init => OnceInv
<1> SUFFICES ASSUME Init PROVE OnceInv
  OBVIOUS
<1>1. TypeInv
  BY InitTypes
<1>2. EachMessageOnce
  BY DEF Init, EachMessageOnce
<1>3. PendingOnce /\ HeardIsKept /\ KeptIsDelivered
  BY DEF Init, PendingOnce, HeardIsKept, KeptIsDelivered, Created
<1> QED
  BY <1>1, <1>2, <1>3 DEF OnceInv

LEMMA OnceStep == OnceInv /\ [Next]_vars => OnceInv'
<1> SUFFICES ASSUME OnceInv, [Next]_vars PROVE OnceInv'
  OBVIOUS
<1> USE DEF OnceInv, EnvironmentUnchanged
<1>1. TypeInv'
  BY StepTypes
<1>2. \A c \in Created : clients[c] \in ClientType
  BY DEF TypeInv, FieldsOK
<1>3. ASSUME UNCHANGED <<server, heard, clients>> PROVE OnceInv'
  <2>1. Created' = Created
    BY <1>3 DEF Created
  <2> QED
    BY <1>1, <1>3, <2>1, IdsAreKept
<1>4. CASE UNCHANGED vars
  BY <1>3, <1>4 DEF vars
<1>5. CASE Open \/ RetryTimeout \/ CredentialsTimeout
  BY <1>3, <1>5 DEF Open, RetryTimeout, CredentialsTimeout
<1>6. ASSUME NEW r \in Reasons, Rejected(r) PROVE OnceInv'
  BY <1>3, <1>6 DEF Rejected
<1>7. ASSUME NEW c \in Created, NEW k,
             clients' = [clients EXCEPT ![c] = k],
             k.persistentIds = clients[c].persistentIds, ~k.loggedIn,
             UNCHANGED <<server, heard>>
      PROVE  OnceInv'
  <2>1. Created' = Created
    BY <1>7 DEF Created
  <2>2. \A d \in Created :
          /\ clients'[d].persistentIds = clients[d].persistentIds
          /\ clients'[d].loggedIn => clients[d].loggedIn
    BY <1>7 DEF TypeInv, FieldsOK
  <2> QED
    BY <1>1, <1>7, <2>1, <2>2, IdsAreKept
<1>8. ASSUME NEW k \in ClientType
      PROVE  /\ Initialized(k).persistentIds = k.persistentIds
             /\ Connected(k).persistentIds = k.persistentIds
             /\ Lost(k).persistentIds = k.persistentIds
             /\ Unlistened(k).persistentIds = k.persistentIds
  BY DEF Initialized, Connected, Lost, Unlistened, ClientType
<1>9. CASE Close
  <2>1. CASE service.pushClient = 0
    BY <1>3, <1>9, <2>1 DEF Close
  <2>2. CASE service.pushClient # 0
    <3> DEFINE c == service.pushClient
    <3>1. c \in Created /\ clients[c] \in ClientType
      BY <1>2, <2>2 DEF TypeInv
    <3>2. clients' = [clients EXCEPT ![c] = Initialized(clients[c])] /\ UNCHANGED <<server, heard>>
      BY <1>9, <2>2 DEF Close
    <3>3. ~Initialized(clients[c]).loggedIn
      BY <3>1, ClientOperators
    <3>4. Initialized(clients[c]).persistentIds = clients[c].persistentIds
      BY <1>8, <3>1
    <3> HIDE DEF c
    <3> QED
      BY <1>7, <3>1, <3>2, <3>3, <3>4
  <2> QED
    BY <2>1, <2>2
<1>10. ASSUME NEW r \in Reasons, Fetched(r) PROVE OnceInv'
  <2>1. \A c \in Created : clients'[c] \in {clients[c], Unlistened(clients[c])}
    BY <1>10 DEF Fetched
  <2>2. Created' = Created /\ UNCHANGED <<server, heard>>
    BY <1>10 DEF Fetched, Created
  <2>3. \A c \in Created :
          /\ clients'[c].persistentIds = clients[c].persistentIds
          /\ clients'[c].loggedIn => clients[c].loggedIn
    BY <1>2, <1>8, <2>1, ClientOperators
  <2> QED
    BY <1>1, <2>2, <2>3, IdsAreKept
<1>11. ASSUME NEW r \in Reasons, Loaded(r) PROVE OnceInv'
  <2>1. PICK n \in 0..MaxClients : Created = 1..n /\ Cardinality(Created) = n
    BY CreatedAreNumbered DEF TypeInv
  <2>2. Created' = Created \cup {n + 1} /\ n + 1 \notin Created /\ UNCHANGED <<server, heard>>
    BY <1>11, <2>1, PushAssumption DEF Loaded, Created
  <2>3. \A c \in Created : clients'[c] = clients[c]
    BY <1>11, <2>1, <2>2 DEF Loaded
  <2>4. ~clients'[n + 1].loggedIn
    BY <1>11, <2>1 DEF Loaded, InitialClient, Connected, Initialized
  <2> QED
    BY <1>1, <2>2, <2>3, <2>4, IdsAreKept
<1>12. ASSUME NEW c \in Created, LoginResponse(c) PROVE OnceInv'
  <2>1. c \in Clients
    BY CreatedAreNumbered, PushAssumption DEF TypeInv, Clients
  <2>2. Created' = Created /\ heard' = heard
    BY <1>12 DEF LoginResponse, Created
  <2>3. /\ clients'[c].persistentIds = {}
        /\ \A d \in Created \ {c} : clients'[d] = clients[d]
    BY <1>2, <1>12 DEF LoginResponse, TypeInv, FieldsOK, ClientType
  <2>4. /\ server'[c].pending = server[c].pending \ clients[c].persistentIds
        /\ \A d \in Clients \ {c} : server'[d] = server[d]
    BY <1>12, <2>1 DEF LoginResponse, TypeInv, FieldsOK, ServerType
  <2>5. EachMessageOnce'
    BY <2>2 DEF EachMessageOnce
  <2>6. PendingOnce'
    <3>1. \A d \in Clients : server'[d].pending \subseteq server[d].pending
      BY <2>4
    <3> QED
      BY <3>1 DEF PendingOnce
  <2>7. HeardIsKept'
    <3>1. ASSUME NEW d \in Clients, NEW m \in Messages, m \in server'[d].pending
          PROVE  d \in Created /\ (heard[m] > 0 => m \in clients'[d].persistentIds)
      BY <2>3, <2>4, <3>1 DEF HeardIsKept
    <3> QED
      BY <2>2, <3>1 DEF HeardIsKept
  <2>8. KeptIsDelivered'
    <3>1. \A d \in Created : d \in Clients
      BY CreatedAreNumbered, PushAssumption DEF TypeInv, Clients
    <3> QED
      BY <2>2, <2>3, <2>4, <3>1 DEF KeptIsDelivered
  <2> QED
    BY <1>1, <2>5, <2>6, <2>7, <2>8
<1>13. ASSUME NEW c \in Created,
              SocketCloses(c) \/ ReconnectTimeout(c) \/ HeartbeatWithoutLogin(c)
       PROVE  OnceInv'
  <2>1. CASE SocketCloses(c)
    BY <1>2, <1>7, <1>8, <2>1, ClientOperators DEF SocketCloses
  <2>2. CASE ReconnectTimeout(c)
    BY <1>2, <1>7, <1>8, <2>2, ClientOperators DEF ReconnectTimeout
  <2>3. CASE HeartbeatWithoutLogin(c)
    <3> DEFINE k == [clients[c] EXCEPT !.heartbeatTimeouts = @ - 1, !.reconnectTimeout = TRUE]
    <3>1. ~k.loggedIn /\ k.persistentIds = clients[c].persistentIds
      BY <1>2, <2>3 DEF HeartbeatWithoutLogin, ClientType
    <3>2. clients' = [clients EXCEPT ![c] = k] /\ UNCHANGED <<server, heard>>
      BY <1>2, <2>3 DEF HeartbeatWithoutLogin, TypeInv, FieldsOK, ClientType
    <3> HIDE DEF k
    <3> QED
      BY <1>7, <3>1, <3>2
  <2> QED
    BY <1>13, <2>1, <2>2, <2>3
<1>14. ASSUME NEW c \in Created, NEW m \in Messages, DataMessage(c, m) PROVE OnceInv'
  <2>1. c \in Clients
    BY CreatedAreNumbered, PushAssumption DEF TypeInv, Clients
  <2>2. Created' = Created
    BY <1>14 DEF DataMessage, Created
  <2>3. /\ clients'[c].persistentIds = clients[c].persistentIds \cup {m}
        /\ clients'[c].loggedIn = clients[c].loggedIn
        /\ \A d \in Created \ {c} : clients'[d] = clients[d]
    BY <1>2, <1>14 DEF DataMessage, TypeInv, FieldsOK, ClientType
  <2>4. /\ server'[c].pending = server[c].pending
        /\ server'[c].delivered = server[c].delivered \cup {m}
        /\ \A d \in Clients \ {c} : server'[d] = server[d]
    BY <1>14, <2>1 DEF DataMessage, TypeInv, FieldsOK, ServerType
  <2>5. heard[m] = 0
    <3>1. m \in server[c].pending /\ m \notin server[c].delivered /\ clients[c].loggedIn
      BY <1>14 DEF DataMessage
    <3>2. m \notin clients[c].persistentIds
      BY <3>1 DEF KeptIsDelivered
    <3> QED
      BY <2>1, <3>1, <3>2 DEF HeardIsKept, TypeInv, FieldsOK
  <2>6. heard'[m] \in 0..1 /\ \A o \in Messages \ {m} : heard'[o] = heard[o]
    BY <1>14, <2>5 DEF DataMessage, TypeInv, FieldsOK
  <2>7. EachMessageOnce'
    BY <2>6 DEF EachMessageOnce
  <2>8. PendingOnce'
    <3>1. \A d \in Clients : server'[d].pending = server[d].pending
      BY <2>4
    <3> QED
      BY <3>1 DEF PendingOnce
  <2>9. HeardIsKept'
    <3>1. ASSUME NEW d \in Clients, NEW o \in Messages, o \in server'[d].pending
          PROVE  d \in Created /\ (heard'[o] > 0 => o \in clients'[d].persistentIds)
      <4>1. o \in server[d].pending
        BY <2>4, <3>1
      <4>2. m \in server[c].pending
        BY <1>14 DEF DataMessage
      <4>3. d \in Created
        BY <4>1 DEF HeardIsKept
      <4>4. CASE o = m
        BY <2>1, <2>3, <4>1, <4>2, <4>3, <4>4 DEF PendingOnce
      <4>5. CASE o # m
        BY <2>3, <2>6, <4>1, <4>3, <4>5 DEF HeardIsKept
      <4> QED
        BY <4>4, <4>5
    <3> QED
      BY <2>2, <3>1 DEF HeardIsKept
  <2>10. KeptIsDelivered'
    <3>1. \A d \in Created : d \in Clients
      BY CreatedAreNumbered, PushAssumption DEF TypeInv, Clients
    <3> QED
      BY <2>2, <2>3, <2>4, <3>1 DEF KeptIsDelivered
  <2> QED
    BY <1>1, <2>7, <2>8, <2>9, <2>10
<1>15. ASSUME NEW m \in Messages, MessageSent(m) PROVE OnceInv'
  <2> DEFINE p == service.pushClient
  <2>1. p \in Created /\ p \in Clients
    BY <1>15, CreatedAreNumbered, PushAssumption DEF MessageSent, TypeInv, Clients
  <2>2. Created' = Created /\ UNCHANGED <<clients, heard>>
    BY <1>15 DEF MessageSent, Created
  <2>3. /\ server'[p].pending = server[p].pending \cup {m}
        /\ server'[p].delivered = server[p].delivered
        /\ \A d \in Clients \ {p} : server'[d] = server[d]
    BY <1>15, <2>1 DEF MessageSent, TypeInv, FieldsOK, ServerType
  <2>4. heard[m] = 0 /\ \A d \in Clients : m \notin server[d].pending
    BY <1>15 DEF MessageSent
  <2> HIDE DEF p
  <2>5. EachMessageOnce'
    BY <2>2 DEF EachMessageOnce
  <2>6. PendingOnce'
    BY <2>3, <2>4 DEF PendingOnce
  <2>7. HeardIsKept'
    BY <2>1, <2>2, <2>3, <2>4 DEF HeardIsKept
  <2>8. KeptIsDelivered'
    <3>1. \A d \in Created : d \in Clients
      BY CreatedAreNumbered, PushAssumption DEF TypeInv, Clients
    <3>2. \A d \in Clients : server'[d].delivered = server[d].delivered
      BY <2>1, <2>3
    <3> QED
      BY <2>2, <3>1, <3>2 DEF KeptIsDelivered
  <2> QED
    BY <1>1, <2>5, <2>6, <2>7, <2>8
<1> QED
  BY <1>4, <1>5, <1>6, <1>9, <1>10, <1>11, <1>12, <1>13, <1>14, <1>15 DEF Next

(* The state of the push connection has its type, whatever fails.          *)
THEOREM PushTypeCorrect == Spec => []TypeOK
<1>1. TypeInv => TypeOK
  BY TypesInTwoParts DEF TypeInv
<1> QED
  BY <1>1, InitTypes, StepTypes, PTL DEF Spec

(* The application is given a message at most once, however often clients  *)
(* lose their connections, are replaced or connect again (persistentIds,   *)
(* onDataMessage and the login).                                           *)
THEOREM MessagesComeOnce == Spec => []EachMessageOnce
<1>1. OnceInv => EachMessageOnce
  BY DEF OnceInv
<1> QED
  BY <1>1, OnceInit, OnceStep, PTL DEF Spec

----------------------------------------------------------------------------
(***************************************************************************)
(* One client the service listens to, if open() is called after close()    *)
(* only, and close() when the connection is there.  Then at most one       *)
(* _open() is under way; what may start another - the two timers of the    *)
(* service and the application - has to wait until it ended.               *)
(***************************************************************************)
ListenedIsUsed ==
    \A c \in Created :
        clients[c].listeners => c = service.pushClient /\ \A r \in Reasons : loading[r] = 0

OneStart ==
    /\ service.retryTimeout => Openings = 0 /\ ~service.credentialsTimeout
    /\ service.credentialsTimeout => \A r \in Reasons : fetching[r] = 0
    /\ ~wanted => Openings = 0 /\ ~service.retryTimeout /\ ~service.credentialsTimeout

LoadsWithCredentials == \A r \in Reasons : loading[r] > 0 => service.credentials

OneInv ==
    /\ TypeInv
    /\ Openings <= 1
    /\ ListenedIsUsed
    /\ OneStart
    /\ LoadsWithCredentials
    /\ running

InTurn == {"reopen", "earlyClose"} \cap Faults = {}

LEMMA OneOpening ==
    ASSUME FieldsOK, Numbered, Openings <= 1
    PROVE  /\ (Openings = 0) <=> \A r \in Reasons : fetching[r] = 0 /\ loading[r] = 0
           /\ \A r \in Reasons : fetching[r] > 0 =>
                /\ fetching[r] = 1
                /\ \A q \in Reasons : loading[q] = 0 /\ (q # r => fetching[q] = 0)
           /\ \A r \in Reasons : loading[r] > 0 =>
                /\ loading[r] = 1
                /\ \A q \in Reasons : fetching[q] = 0 /\ (q # r => loading[q] = 0)
<1>1. /\ fetching["open"] \in Nat /\ fetching["renew"] \in Nat
      /\ loading["open"] \in Nat /\ loading["renew"] \in Nat
  BY DEF FieldsOK, Reasons
<1>2. fetching["open"] + fetching["renew"] + loading["open"] + loading["renew"] <= 1
  BY DEF Openings
<1>3. \A r \in Reasons : r = "open" \/ r = "renew"
  BY DEF Reasons
<1>4. (Openings = 0) <=> \A r \in Reasons : fetching[r] = 0 /\ loading[r] = 0
  <2>1. \A r \in Reasons : fetching[r] \in Nat /\ loading[r] \in Nat
    BY DEF FieldsOK
  <2>2. \A n \in Nat : ~(n > 0) <=> n = 0
    OBVIOUS
  <2>3. ~Opening <=> \A r \in Reasons : fetching[r] = 0 /\ loading[r] = 0
    BY <2>1, <2>2 DEF Opening
  <2> QED
    BY <2>3, OpeningsAreCounted
<1>5. \A a, b, c, d \in Nat :
        a + b + c + d <= 1 =>
            /\ a > 0 => a = 1 /\ b = 0 /\ c = 0 /\ d = 0
            /\ b > 0 => b = 1 /\ a = 0 /\ c = 0 /\ d = 0
            /\ c > 0 => c = 1 /\ a = 0 /\ b = 0 /\ d = 0
            /\ d > 0 => d = 1 /\ a = 0 /\ b = 0 /\ c = 0
  OBVIOUS
<1>6. /\ fetching["open"] > 0 => fetching["open"] = 1 /\ fetching["renew"] = 0
                                   /\ loading["open"] = 0 /\ loading["renew"] = 0
      /\ fetching["renew"] > 0 => fetching["renew"] = 1 /\ fetching["open"] = 0
                                   /\ loading["open"] = 0 /\ loading["renew"] = 0
      /\ loading["open"] > 0 => loading["open"] = 1 /\ fetching["open"] = 0
                                   /\ fetching["renew"] = 0 /\ loading["renew"] = 0
      /\ loading["renew"] > 0 => loading["renew"] = 1 /\ fetching["open"] = 0
                                   /\ fetching["renew"] = 0 /\ loading["open"] = 0
  BY <1>1, <1>2, <1>5
<1>7. ASSUME NEW r \in Reasons, fetching[r] > 0
      PROVE  /\ fetching[r] = 1
             /\ \A q \in Reasons : loading[q] = 0 /\ (q # r => fetching[q] = 0)
  <2>1. CASE r = "open"
    BY <1>3, <1>6, <1>7, <2>1
  <2>2. CASE r = "renew"
    BY <1>3, <1>6, <1>7, <2>2
  <2> QED
    BY <1>3, <2>1, <2>2
<1>8. ASSUME NEW r \in Reasons, loading[r] > 0
      PROVE  /\ loading[r] = 1
             /\ \A q \in Reasons : fetching[q] = 0 /\ (q # r => loading[q] = 0)
  <2>1. CASE r = "open"
    BY <1>3, <1>6, <1>8, <2>1
  <2>2. CASE r = "renew"
    BY <1>3, <1>6, <1>8, <2>2
  <2> QED
    BY <1>3, <2>1, <2>2
<1> QED
  BY <1>4, <1>7, <1>8

(* A step that concerns one connection only. *)
LEMMA ConnectionStep ==
    ASSUME OneInv, TypeInv', UNCHANGED <<fetching, loading, running, wanted>>,
           Created' = Created,
           \A c \in Created : clients'[c].listeners = clients[c].listeners,
           service'.pushClient = service.pushClient,
           service'.retryTimeout = service.retryTimeout,
           service'.credentialsTimeout = service.credentialsTimeout,
           service'.credentials = service.credentials
    PROVE  OneInv'
<1> USE DEF OneInv
<1>1. Openings' = Openings
  BY DEF Openings
<1>2. ListenedIsUsed'
  BY DEF ListenedIsUsed
<1>3. OneStart'
  BY <1>1 DEF OneStart
<1>4. LoadsWithCredentials'
  BY DEF LoadsWithCredentials
<1> QED
  BY <1>1, <1>2, <1>3, <1>4

LEMMA OneInit == Init => OneInv
<1> SUFFICES ASSUME Init PROVE OneInv
  OBVIOUS
<1>1. Openings = 0
  <2>1. \A r \in Reasons : fetching[r] = 0 /\ loading[r] = 0
    BY DEF Init
  <2> QED
    BY <2>1 DEF Openings, Reasons
<1>2. ListenedIsUsed /\ OneStart /\ LoadsWithCredentials /\ running
  <2>1. \A r \in Reasons : fetching[r] = 0 /\ loading[r] = 0
    BY DEF Init
  <2>2. Created = {}
    BY DEF Init, Created
  <2>3. ~service.retryTimeout /\ ~service.credentialsTimeout /\ running
    BY DEF Init
  <2> QED
    BY <1>1, <2>1, <2>2, <2>3 DEF ListenedIsUsed, OneStart, LoadsWithCredentials
<1> QED
  BY <1>1, <1>2, InitTypes DEF OneInv

LEMMA ServiceInTurn ==
    ASSUME InTurn, OneInv, TypeInv', Open \/ Close \/ RetryTimeout \/ CredentialsTimeout
    PROVE  OneInv'
<1> USE DEF OneInv, EnvironmentUnchanged
<1>1. FieldsOK /\ Numbered /\ service \in ServiceType
  BY DEF TypeInv, FieldsOK
(* One more opening, when there is none and both timers are over.          *)
<1>2. ASSUME NEW r \in Reasons, Openings = 0,
             fetching' = [fetching EXCEPT ![r] = @ + 1] \/ fetching' = fetching,
             UNCHANGED <<loading, clients, running>>, wanted',
             service'.pushClient = service.pushClient,
             ~service'.retryTimeout, ~service'.credentialsTimeout
      PROVE  OneInv'
  <2>1. Openings' <= 1
    BY <1>1, <1>2, OpeningsChange DEF Openings
  <2>2. Created' = Created
    BY <1>2 DEF Created
  <2>3. ListenedIsUsed' /\ OneStart'
    BY <1>2, <2>2 DEF ListenedIsUsed, OneStart
  <2>4. \A q \in Reasons : loading[q] = 0
    BY <1>1, <1>2, OneOpening
  <2>5. LoadsWithCredentials'
    BY <1>2, <2>4 DEF LoadsWithCredentials
  <2> QED
    BY <1>2, <2>1, <2>3, <2>5
<1>3. "open" \in Reasons /\ "renew" \in Reasons
  BY DEF Reasons
<1>4. CASE Open
  <2>1. Openings = 0 /\ ~service.retryTimeout /\ ~service.credentialsTimeout
    BY <1>4 DEF Open, InTurn, OneStart
  <2>2. /\ service'.pushClient = service.pushClient
        /\ ~service'.retryTimeout /\ ~service'.credentialsTimeout
    BY <1>1, <1>4, <2>1 DEF Open, StartsOpen, ServiceType
  <2> QED
    BY <1>2, <1>3, <1>4, <2>1, <2>2 DEF Open, StartsOpen
<1>5. CASE Close
  <2>1. Openings = 0
    BY <1>1, <1>5, OpeningsAreCounted DEF Close, InTurn, InUse
  <2>2. /\ service'.pushClient = service.pushClient
        /\ ~service'.retryTimeout /\ ~service'.credentialsTimeout
    BY <1>1, <1>5 DEF Close, OnClose, ServiceType
  <2>3. /\ Created' = Created
        /\ \A c \in Created : clients'[c].listeners = clients[c].listeners
    <3>1. \A c \in Created : clients[c] \in ClientType
      BY <1>1 DEF FieldsOK
    <3>2. \A k \in ClientType : Initialized(k).listeners = k.listeners
      BY DEF Initialized, ClientType
    <3>3. CASE service.pushClient = 0
      BY <1>5, <3>3 DEF Close, Created
    <3>4. CASE service.pushClient # 0
      <4>1. clients' = [clients EXCEPT ![service.pushClient] = Initialized(clients[service.pushClient])]
        BY <1>5, <3>4 DEF Close
      <4> QED
        BY <3>1, <3>2, <4>1 DEF Created
    <3> QED
      BY <3>3, <3>4
  <2>4. Openings' = 0
    BY <1>5, <2>1 DEF Close, Openings
  <2>5. ListenedIsUsed'
    BY <1>5, <2>2, <2>3 DEF Close, ListenedIsUsed
  <2>6. OneStart'
    BY <2>2, <2>4 DEF OneStart
  <2>7. LoadsWithCredentials'
    BY <1>1, <1>5, <2>1, OneOpening DEF Close, LoadsWithCredentials
  <2> QED
    BY <1>5, <2>4, <2>5, <2>6, <2>7 DEF Close
<1>6. CASE RetryTimeout
  <2>1. Openings = 0 /\ ~service.credentialsTimeout /\ wanted
    BY <1>6 DEF RetryTimeout, OneStart
  <2>2. /\ service'.pushClient = service.pushClient
        /\ ~service'.retryTimeout /\ ~service'.credentialsTimeout
    BY <1>1, <1>6, <2>1 DEF RetryTimeout, StartsOpen, ServiceType
  <2>3. fetching' = [fetching EXCEPT !["open"] = @ + 1] \/ fetching' = fetching
    BY <1>6 DEF RetryTimeout, StartsOpen
  <2>4. UNCHANGED <<loading, clients, running, wanted>>
    BY <1>6 DEF RetryTimeout
  <2> QED
    BY <1>2, <1>3, <2>1, <2>2, <2>3, <2>4
<1>7. CASE CredentialsTimeout
  <2>1. Openings = 0 /\ ~service.retryTimeout /\ wanted
    BY <1>1, <1>7, OpeningsAreCounted DEF CredentialsTimeout, OneStart
  <2>2. /\ service'.pushClient = service.pushClient
        /\ ~service'.retryTimeout /\ ~service'.credentialsTimeout
    BY <1>1, <1>7, <2>1 DEF CredentialsTimeout, ServiceType
  <2> QED
    BY <1>2, <1>3, <1>7, <2>1, <2>2 DEF CredentialsTimeout
<1> QED
  BY <1>4, <1>5, <1>6, <1>7

LEMMA OpenInTurn ==
    ASSUME OneInv, TypeInv', NEW r \in Reasons, Fetched(r) \/ Rejected(r) \/ Loaded(r)
    PROVE  OneInv'
<1> USE DEF OneInv, EnvironmentUnchanged
<1>1. FieldsOK /\ Numbered /\ service \in ServiceType
  BY DEF TypeInv, FieldsOK
<1>2. \A c \in Created : clients[c] \in ClientType
  BY <1>1 DEF FieldsOK
<1>3. Openings # 0
  <2>1. Opening
    BY DEF Fetched, Rejected, Loaded, Opening
  <2> QED
    BY <1>1, <2>1, OpeningsAreCounted
<1>4. wanted /\ ~service.retryTimeout
  BY <1>3 DEF OneStart
<1>5. CASE Fetched(r)
  <2>1. \A q \in Reasons : fetching[q] = IF q = r THEN 1 ELSE 0
    BY <1>1, <1>5, OneOpening DEF Fetched
  <2>2. \A q \in Reasons : fetching'[q] = 0
    BY <1>1, <1>5, <2>1 DEF Fetched, FieldsOK
  <2>3. Openings' = Openings
    BY <1>1, <1>5 DEF Fetched, Openings, FieldsOK, Reasons
  <2>4. /\ service'.credentials /\ ~service'.retryTimeout
        /\ service'.pushClient = service.pushClient /\ wanted' /\ running'
    BY <1>1, <1>4, <1>5 DEF Fetched, ServiceType
  <2>5. ListenedIsUsed'
    <3>1. Created' = Created
      BY <1>5 DEF Fetched, Created
    <3>2. \A k \in ClientType : ~Unlistened(k).listeners
      BY DEF Unlistened, ClientType
    <3>3. \A c \in Created : ~clients'[c].listeners
      BY <1>2, <1>5, <3>2 DEF Fetched, ListenedIsUsed
    <3> QED
      BY <3>1, <3>3 DEF ListenedIsUsed
  <2>6. OneStart' /\ LoadsWithCredentials'
    BY <2>2, <2>4 DEF OneStart, LoadsWithCredentials
  <2> QED
    BY <2>3, <2>4, <2>5, <2>6
<1>6. CASE Rejected(r)
  <2>1. fetching[r] > 0 /\ ~service.credentialsTimeout
    BY <1>6 DEF Rejected, OneStart
  <2>2. /\ ~service'.credentialsTimeout /\ service'.pushClient = service.pushClient
        /\ wanted' /\ running'
    BY <1>1, <1>4, <1>6, <2>1 DEF Rejected, Opened, OnClose, ServiceType
  <2>3. Openings' = 0
    <3>1. Openings' = Openings - 1
      BY <1>1, <1>6, OpeningsChange DEF Rejected
    <3> QED
      BY <1>1, <1>3, <3>1, OpeningsAreCounted
  <2>4. Created' = Created /\ UNCHANGED <<clients, loading>>
    BY <1>6 DEF Rejected, Created
  <2>5. ListenedIsUsed' /\ OneStart'
    BY <2>2, <2>3, <2>4 DEF ListenedIsUsed, OneStart
  <2>6. LoadsWithCredentials'
    BY <1>1, <2>1, <2>4, OneOpening DEF LoadsWithCredentials
  <2> QED
    BY <2>2, <2>3, <2>5, <2>6
<1>7. CASE Loaded(r)
  <2>1. loading[r] = 1 /\ \A q \in Reasons : fetching[q] = 0 /\ (q # r => loading[q] = 0)
    BY <1>1, <1>7, OneOpening DEF Loaded
  <2>2. \A q \in Reasons : fetching'[q] = 0 /\ loading'[q] = 0
    BY <1>1, <1>7, <2>1 DEF Loaded, FieldsOK
  <2>3. Openings' = 0
    BY <2>2 DEF Openings, Reasons
  <2>4. service.credentials
    BY <2>1 DEF LoadsWithCredentials
  <2>5. ~service'.retryTimeout /\ wanted' /\ running'
    BY <1>1, <1>4, <1>7, <2>4 DEF Loaded, Opened, ServiceType
  <2>6. ListenedIsUsed'
    <3>1. PICK n \in 0..MaxClients : Created = 1..n /\ Cardinality(Created) = n
      BY <1>1, CreatedAreNumbered
    <3>2. Created' = Created \cup {n + 1}
      BY <1>7, <3>1, PushAssumption DEF Loaded, Created
    <3>3. \A c \in Created : clients'[c] = clients[c] \/ c = n + 1
      BY <1>7, <3>1, <3>2 DEF Loaded
    <3>4. service'.pushClient = n + 1
      BY <1>1, <1>7, <3>1 DEF Loaded, Opened, ServiceType
    <3>5. \A c \in Created : ~clients[c].listeners
      BY <2>1 DEF ListenedIsUsed
    <3> QED
      BY <2>2, <3>2, <3>3, <3>4, <3>5 DEF ListenedIsUsed
  <2>7. OneStart' /\ LoadsWithCredentials'
    BY <2>2, <2>3, <2>5 DEF OneStart, LoadsWithCredentials
  <2> QED
    BY <2>3, <2>5, <2>6, <2>7
<1> QED
  BY <1>5, <1>6, <1>7

LEMMA OneStep == InTurn /\ OneInv /\ [Next]_vars => OneInv'
<1> SUFFICES ASSUME InTurn, OneInv, [Next]_vars PROVE OneInv'
  OBVIOUS
<1>1. TypeInv'
  BY StepTypes DEF OneInv
<1>2. service \in ServiceType /\ \A c \in Created : clients[c] \in ClientType
  BY DEF OneInv, TypeInv, FieldsOK
<1>3. ASSUME UNCHANGED <<fetching, loading, running, wanted>>,
             clients' = clients \/
                \E c \in Created : \E k :
                    k.listeners = clients[c].listeners /\ clients' = [clients EXCEPT ![c] = k],
             service' \in {service, OnConnect(service), OnClose(service)}
      PROVE  OneInv'
  <2>1. /\ Created' = Created
        /\ \A c \in Created : clients'[c].listeners = clients[c].listeners
    BY <1>3 DEF Created
  <2>2. /\ service'.pushClient = service.pushClient
        /\ service'.retryTimeout = service.retryTimeout
        /\ service'.credentialsTimeout = service.credentialsTimeout
        /\ service'.credentials = service.credentials
    BY <1>2, <1>3 DEF OnConnect, OnClose, ServiceType
  <2> QED
    BY <1>1, <1>3, <2>1, <2>2, ConnectionStep
<1>4. CASE UNCHANGED vars \/ \E m \in Messages : MessageSent(m)
  BY <1>3, <1>4 DEF vars, MessageSent
<1>5. ASSUME NEW c \in Created, LoginResponse(c) PROVE OneInv'
  <2> DEFINE k == [clients[c] EXCEPT !.loggedIn = TRUE, !.persistentIds = {},
                                     !.heartbeatTimeouts = @ + 1]
  <2>1. k.listeners = clients[c].listeners
    BY <1>2 DEF ClientType
  <2>2. clients' = [clients EXCEPT ![c] = k]
    BY <1>2, <1>5 DEF LoginResponse, OneInv, TypeInv, FieldsOK, ClientType
  <2>3. service' \in {service, OnConnect(service), OnClose(service)}
        /\ UNCHANGED <<fetching, loading, running, wanted>>
    BY <1>5 DEF LoginResponse, Hears
  <2> HIDE DEF k
  <2> QED
    BY <1>3, <2>1, <2>2, <2>3
<1>6. ASSUME NEW c \in Created, SocketCloses(c) \/ ReconnectTimeout(c) PROVE OneInv'
  <2>1. /\ Lost(clients[c]).listeners = clients[c].listeners
        /\ Connected(clients[c]).listeners = clients[c].listeners
    BY <1>2 DEF Lost, Connected, Initialized, ClientType
  <2>2. clients' = [clients EXCEPT ![c] = Lost(clients[c])]
        \/ clients' = [clients EXCEPT ![c] = Connected(clients[c])]
    BY <1>6 DEF SocketCloses, ReconnectTimeout
  <2>3. service' \in {service, OnConnect(service), OnClose(service)}
        /\ UNCHANGED <<fetching, loading, running, wanted>>
    BY <1>6 DEF SocketCloses, ReconnectTimeout, Hears
  <2> QED
    BY <1>3, <2>1, <2>2, <2>3
<1>7. ASSUME NEW c \in Created, HeartbeatWithoutLogin(c) PROVE OneInv'
  <2> DEFINE k == [clients[c] EXCEPT !.heartbeatTimeouts = @ - 1, !.reconnectTimeout = TRUE]
  <2>1. k.listeners = clients[c].listeners
    BY <1>2 DEF ClientType
  <2>2. clients' = [clients EXCEPT ![c] = k]
    BY <1>2, <1>7 DEF HeartbeatWithoutLogin, OneInv, TypeInv, FieldsOK, ClientType
  <2>3. UNCHANGED <<service, fetching, loading, running, wanted>>
    BY <1>7 DEF HeartbeatWithoutLogin
  <2> HIDE DEF k
  <2> QED
    BY <1>3, <2>1, <2>2, <2>3
<1>8. ASSUME NEW c \in Created, NEW m \in Messages, DataMessage(c, m) PROVE OneInv'
  <2> DEFINE k == [clients[c] EXCEPT !.persistentIds = @ \cup {m}]
  <2>1. k.listeners = clients[c].listeners
    BY <1>2 DEF ClientType
  <2>2. clients' = [clients EXCEPT ![c] = k]
    BY <1>2, <1>8 DEF DataMessage, OneInv, TypeInv, FieldsOK, ClientType
  <2>3. UNCHANGED <<service, fetching, loading, running, wanted>>
    BY <1>8 DEF DataMessage
  <2> HIDE DEF k
  <2> QED
    BY <1>3, <2>1, <2>2, <2>3
<1>9. CASE Open \/ Close \/ RetryTimeout \/ CredentialsTimeout
  BY <1>1, <1>9, ServiceInTurn
<1>10. ASSUME NEW r \in Reasons, Fetched(r) \/ Rejected(r) \/ Loaded(r) PROVE OneInv'
  BY <1>1, <1>10, OpenInTurn
<1> QED
  BY <1>4, <1>5, <1>6, <1>7, <1>8, <1>9, <1>10 DEF Next

(* When open() and close() are called in turn, the service listens to one  *)
(* client at most, the one in use (_open, renewal and removeAllListeners). *)
THEOREM OneClientIsHeard ==
    ASSUME InTurn
    PROVE  Spec => []OneListenedClient
<1>1. OneInv => OneListenedClient
  BY DEF OneInv, ListenedIsUsed, OneListenedClient
<1> QED
  BY <1>1, OneInit, OneStep, PTL DEF Spec

(* ... and no _open() throws because it finds no credentials: the process  *)
(* goes on (the renewal catches nothing).                                  *)
THEOREM RenewalNeverThrows ==
    ASSUME InTurn
    PROVE  Spec => []running
<1>1. OneInv => running
  BY DEF OneInv
<1> QED
  BY <1>1, OneInit, OneStep, PTL DEF Spec

----------------------------------------------------------------------------
(***************************************************************************)
(* The parser.                                                             *)
(***************************************************************************)
(* The bytes of a size, and where they are.                                *)
Width(n) == IF n < BASE THEN 1 ELSE 2

SizeAt(bytes, at, n) ==
    IF n < BASE THEN bytes[at + 1] = n
    ELSE bytes[at + 1] = BASE + (n % BASE) /\ bytes[at + 2] = n \div BASE

SentMessage == [tag : ServerTags, size : Sizes]

(* A number below BASE * BASE is its two digits.                           *)
LEMMA TwoDigits ==
    ASSUME NEW n \in Sizes, n >= BASE
    PROVE  /\ n \in Nat /\ BASE \in Nat /\ BASE > 1
           /\ n % BASE \in 0..(BASE - 1) /\ n \div BASE \in 1..(BASE - 1)
           /\ (BASE + (n % BASE)) % BASE = n % BASE
           /\ (n \div BASE) % BASE = n \div BASE
           /\ (n % BASE) + BASE * (n \div BASE) = n
<1>1. BASE \in Nat /\ BASE > 1 /\ n \in 0..(BASE * BASE - 1)
  BY ParserAssumption
<1>2. n \in Nat /\ n % BASE \in 0..(BASE - 1) /\ n \div BASE \in Nat
  BY <1>1
<1>3. (n % BASE) + BASE * (n \div BASE) = n
  BY <1>1, <1>2
<1>4. n \div BASE < BASE
  BY <1>1, <1>2, <1>3
<1>5. n \div BASE > 0
  BY <1>1, <1>2, <1>3
<1>6. (BASE + (n % BASE)) % BASE = n % BASE
  BY <1>1, <1>2
<1>7. (n \div BASE) % BASE = n \div BASE
  BY <1>1, <1>2, <1>4
<1> QED
  BY <1>1, <1>2, <1>3, <1>4, <1>5, <1>6, <1>7

LEMMA SizesAreSmall ==
    ASSUME NEW n \in Sizes, n < BASE
    PROVE  n \in Nat /\ BASE \in Nat /\ BASE > 1 /\ n % BASE = n
<1>1. BASE \in Nat /\ BASE > 1 /\ n \in 0..(BASE * BASE - 1)
  BY ParserAssumption
<1> QED
  BY <1>1

LEMMA OneByte ==
    ASSUME NEW x \in Nat
    PROVE  <<x>> \in Seq(Nat) /\ Len(<<x>>) = 1 /\ <<x>>[1] = x
  OBVIOUS

LEMMA Concatenated ==
    ASSUME NEW a \in Seq(Nat), NEW b \in Seq(Nat)
    PROVE  /\ a \o b \in Seq(Nat)
           /\ Len(a \o b) = Len(a) + Len(b)
           /\ \A i \in 1..Len(a) : (a \o b)[i] = a[i]
           /\ \A i \in 1..Len(b) : (a \o b)[Len(a) + i] = b[i]
  OBVIOUS

LEMMA MessageIs ==
    ASSUME NEW m \in SentMessage
    PROVE  /\ m.tag \in Nat /\ m.tag \in ServerTags
           /\ m.size \in Nat /\ m.size \in Sizes
           /\ Width(m.size) \in 1..2
<1>1. m.tag \in ServerTags /\ m.size \in Sizes
  BY DEF SentMessage
<1>2. ServerTags \subseteq Nat /\ Sizes \subseteq Nat
  BY ParserAssumption
<1>3. Width(m.size) \in 1..2
  BY DEF Width
<1> QED
  BY <1>1, <1>2, <1>3

(* What the server sends for a message: its tag, its size and its body.    *)
LEMMA EncodedIs ==
    ASSUME NEW m \in SentMessage
    PROVE  /\ Encoded(m) \in Seq(Nat)
           /\ Len(Encoded(m)) = 1 + Width(m.size) + m.size
           /\ Encoded(m)[1] = m.tag
           /\ SizeAt(Encoded(m), 1, m.size)
<1>1. m.tag \in Nat /\ m.size \in Nat
  BY MessageIs
<1> DEFINE body == [i \in 1..m.size |-> 0]
<1>2. body \in Seq(Nat) /\ Len(body) = m.size
  BY <1>1
<1> DEFINE digits == Varint(m.size)
<1>3. /\ digits \in Seq(Nat) /\ Len(digits) = Width(m.size)
      /\ SizeAt(digits, 0, m.size)
  <2>1. CASE m.size < BASE
    BY <1>1, <2>1 DEF Varint, Width, SizeAt
  <2>2. CASE ~(m.size < BASE)
    <3>1. BASE + (m.size % BASE) \in Nat /\ m.size \div BASE \in Nat /\ m.size >= BASE
      BY <1>1, <2>2, TwoDigits, ParserAssumption DEF SentMessage
    <3> QED
      BY <1>1, <2>2, <3>1 DEF Varint, Width, SizeAt
  <2> QED
    BY <2>1, <2>2
<1>4. Encoded(m) = <<m.tag>> \o digits \o body
  BY DEF Encoded
<1> HIDE DEF body, digits
<1>5. PICK head \in Seq(Nat) :
        /\ head = <<m.tag>> \o digits /\ Len(head) = 1 + Len(digits)
        /\ head[1] = m.tag
        /\ \A i \in 1..Len(digits) : head[1 + i] = digits[i]
  <2>1. PICK a \in Seq(Nat) : a = <<m.tag>> /\ Len(a) = 1 /\ a[1] = m.tag
    BY <1>1, OneByte
  <2>2. /\ a \o digits \in Seq(Nat) /\ Len(a \o digits) = 1 + Len(digits)
        /\ (a \o digits)[1] = m.tag
        /\ \A i \in 1..Len(digits) : (a \o digits)[1 + i] = digits[i]
    BY <1>3, <2>1, Concatenated
  <2> QED
    BY <2>1, <2>2
<1>6. /\ head \o body \in Seq(Nat) /\ Len(head \o body) = Len(head) + Len(body)
      /\ \A i \in 1..Len(head) : (head \o body)[i] = head[i]
  BY <1>2, <1>5, Concatenated
<1>7. SizeAt(head \o body, 1, m.size)
  BY <1>1, <1>3, <1>5, <1>6 DEF SizeAt, Width
<1> QED
  BY <1>1, <1>2, <1>3, <1>4, <1>5, <1>6, <1>7 DEF Width

(* The natural numbers are the least set with 0 and all successors.        *)
LEMMA CountingUp ==
    ASSUME NEW S, 0 \in S, \A n \in Nat : n \in S => n + 1 \in S
    PROVE  Nat \subseteq S
<1> SUFFICES ASSUME Nat \ S # {} PROVE FALSE
  OBVIOUS
<1>1. PICK x \in Nat \ S : \A y \in Nat \ S : <<y, x>> \notin OpToRel(<, Nat)
  BY NatLessThanWellFounded, WFMin
<1>2. x # 0
  OBVIOUS
<1>3. x - 1 \in Nat /\ x - 1 < x /\ (x - 1) + 1 = x
  BY <1>2
<1>4. <<x - 1, x>> \in OpToRel(<, Nat)
  BY <1>3 DEF OpToRel
<1>5. x - 1 \in S
  BY <1>1, <1>3, <1>4
<1> QED
  BY <1>3, <1>5

(* End is recursive: that its function exists, and what it computes, is    *)
(* shown by counting the messages.                                         *)
NextEnd(s, ends, i) ==
    IF i = 0 THEN 1 ELSE ends[i - 1] + Len(Encoded(s[i]))

LEMMA EndsExist ==
    ASSUME NEW s, NEW N \in Nat
    PROVE  \E ends : ends = [i \in 0..N |-> NextEnd(s, ends, i)]
<1> DEFINE Defined == {n \in Nat : \E ends : ends = [i \in 0..n |-> NextEnd(s, ends, i)]}
<1>1. 0 \in Defined
  <2>1. [i \in 0..0 |-> 1] = [i \in 0..0 |-> NextEnd(s, [j \in 0..0 |-> 1], i)]
    BY DEF NextEnd
  <2> QED
    BY <2>1
<1>2. ASSUME NEW n \in Nat, n \in Defined PROVE n + 1 \in Defined
  <2>1. PICK f : f = [i \in 0..n |-> NextEnd(s, f, i)]
    BY <1>2
  <2> DEFINE g == [i \in 0..(n + 1) |-> IF i = n + 1 THEN NextEnd(s, f, n + 1) ELSE f[i]]
  <2>2. ASSUME NEW i \in 0..(n + 1) PROVE g[i] = NextEnd(s, g, i)
    <3>1. CASE i = 0
      BY <2>1, <3>1 DEF NextEnd
    <3>2. CASE i # 0
      <4>1. i - 1 \in 0..n /\ i - 1 # n + 1
        BY <3>2
      <4>2. g[i - 1] = f[i - 1]
        BY <4>1
      <4>3. g[i] = NextEnd(s, f, i)
        <5>1. CASE i = n + 1
          BY <5>1
        <5>2. CASE i # n + 1
          <6>1. i \in 0..n
            BY <5>2
          <6> QED
            BY <2>1, <5>2, <6>1
        <5> QED
          BY <5>1, <5>2
      <4> HIDE DEF g
      <4> QED
        BY <4>2, <4>3 DEF NextEnd
    <3> QED
      BY <3>1, <3>2
  <2>3. g = [i \in 0..(n + 1) |-> NextEnd(s, g, i)]
    BY <2>2
  <2> HIDE DEF g
  <2>4. \E h : h = [i \in 0..(n + 1) |-> NextEnd(s, h, i)]
    BY <2>3
  <2> QED
    BY <2>4
<1> HIDE DEF Defined
<1>3. N \in Defined
  BY <1>1, <1>2, CountingUp
<1> QED
  BY <1>3 DEF Defined

LEMMA EndIsNext ==
    ASSUME NEW s, Len(s) \in Nat
    PROVE  \E ends : /\ ends = [i \in 0..Len(s) |-> NextEnd(s, ends, i)]
                     /\ \A k : End(s, k) = ends[k]
<1> DEFINE ends[i \in 0..Len(s)] ==
            IF i = 0 THEN 1 ELSE ends[i - 1] + Len(Encoded(s[i]))
<1>1. \A k : End(s, k) = ends[k]
  BY DEF End
<1>2. ends = [i \in 0..Len(s) |-> NextEnd(s, ends, i)]
  BY EndsExist DEF NextEnd
<1> QED
  BY <1>1, <1>2

LEMMA EndStep ==
    ASSUME NEW s \in Seq(SentMessage)
    PROVE  /\ End(s, 0) = 1
           /\ \A i \in 1..Len(s) :
                 End(s, i) = End(s, i - 1) + Len(Encoded(s[i]))
<1>1. Len(s) \in Nat
  OBVIOUS
<1>2. PICK ends : /\ ends = [i \in 0..Len(s) |-> NextEnd(s, ends, i)]
                  /\ \A k : End(s, k) = ends[k]
  BY <1>1, EndIsNext
<1>3. ends[0] = 1
  BY <1>1, <1>2 DEF NextEnd
<1>4. ASSUME NEW i \in 1..Len(s)
      PROVE  ends[i] = ends[i - 1] + Len(Encoded(s[i]))
  <2>1. i \in 0..Len(s) /\ i # 0
    BY <1>1
  <2> QED
    BY <1>2, <2>1 DEF NextEnd
<1> QED
  BY <1>2, <1>3, <1>4

(* The k-th message ends after its tag, its size and its body.             *)
LEMMA EndIs ==
    ASSUME NEW s \in Seq(SentMessage)
    PROVE  /\ End(s, 0) = 1
           /\ \A i \in 0..Len(s) : End(s, i) \in Nat /\ End(s, i) > 0
           /\ \A i \in 1..Len(s) :
                 /\ s[i] \in SentMessage /\ s[i].size \in Nat
                 /\ End(s, i)
                      = End(s, i - 1) + 1 + Width(s[i].size) + s[i].size
<1>1. ASSUME NEW i \in 1..Len(s)
      PROVE  /\ s[i] \in SentMessage /\ s[i].size \in Nat
             /\ Len(Encoded(s[i])) = 1 + Width(s[i].size) + s[i].size
  <2>1. s[i] \in SentMessage
    OBVIOUS
  <2>2. s[i].size \in Nat
    BY <2>1, MessageIs
  <2> QED
    BY <2>1, <2>2, EncodedIs
<1> DEFINE e(i) == End(s, i)
           Known == {n \in Nat : n \in 0..Len(s) => e(n) \in Nat /\ e(n) > 0}
<1>2. /\ e(0) = 1
      /\ \A i \in 1..Len(s) : e(i) = e(i - 1) + Len(Encoded(s[i]))
  BY EndStep
<1> HIDE DEF e
<1>3. 0 \in Known
  BY <1>2
<1>4. ASSUME NEW n \in Nat, n \in Known PROVE n + 1 \in Known
  <2> SUFFICES ASSUME n + 1 \in 0..Len(s)
               PROVE  e(n + 1) \in Nat /\ e(n + 1) > 0
    OBVIOUS
  <2>1. n + 1 \in 1..Len(s) /\ (n + 1) - 1 = n /\ n \in 0..Len(s)
    OBVIOUS
  <2>2. e(n) \in Nat /\ e(n) > 0
    BY <1>4, <2>1
  <2>3. e(n + 1) = e(n) + (1 + Width(s[n + 1].size) + s[n + 1].size)
    BY <1>1, <1>2, <2>1
  <2> QED
    BY <1>1, <2>1, <2>2, <2>3 DEF Width
<1> HIDE DEF Known
<1>5. Nat \subseteq Known
  BY <1>3, <1>4, CountingUp
<1>6. \A i \in 0..Len(s) : e(i) \in Nat /\ e(i) > 0
  BY <1>5 DEF Known
<1>7. ASSUME NEW i \in 1..Len(s)
      PROVE  e(i) = e(i - 1) + 1 + Width(s[i].size) + s[i].size
  <2>1. e(i - 1) \in Nat
    BY <1>6
  <2>2. e(i) = e(i - 1) + (1 + Width(s[i].size) + s[i].size)
    BY <1>1, <1>2
  <2>3. Width(s[i].size) \in 1..2 /\ s[i].size \in Nat
    BY <1>1, MessageIs
  <2> DEFINE w == Width(s[i].size)
             n == s[i].size
             before == e(i - 1)
  <2>4. before \in Nat /\ w \in Nat /\ n \in Nat /\ e(i) = before + (1 + w + n)
    BY <2>1, <2>2, <2>3
  <2> HIDE DEF w, n, before
  <2>5. e(i) = before + 1 + w + n
    BY <2>4
  <2> QED
    BY <2>5 DEF w, n, before
<1> QED
  BY <1>1, <1>2, <1>6, <1>7 DEF e

LEMMA Appended ==
    ASSUME NEW S, NEW s \in Seq(S), NEW m \in S
    PROVE  /\ Append(s, m) \in Seq(S) /\ Len(Append(s, m)) = Len(s) + 1
           /\ \A i \in 1..Len(s) : Append(s, m)[i] = s[i]
           /\ Append(s, m)[Len(s) + 1] = m
  OBVIOUS

(* A message more moves no end.                                            *)
LEMMA EndIsKept ==
    ASSUME NEW s \in Seq(SentMessage), NEW m \in SentMessage
    PROVE  \A i \in 0..Len(s) : End(Append(s, m), i) = End(s, i)
<1> DEFINE t == Append(s, m)
<1>1. /\ t \in Seq(SentMessage) /\ Len(t) = Len(s) + 1
      /\ \A i \in 1..Len(s) : t[i] = s[i]
  BY Appended
<1> HIDE DEF t
<1> DEFINE d(i) == End(t, i)
           e(i) == End(s, i)
           Known == {n \in Nat : n \in 0..Len(s) => d(n) = e(n)}
<1>2. /\ d(0) = 1 /\ e(0) = 1
      /\ \A i \in 1..Len(s) : e(i) = e(i - 1) + Len(Encoded(s[i]))
      /\ \A i \in 1..Len(t) : d(i) = d(i - 1) + Len(Encoded(t[i]))
  BY <1>1, EndStep
<1> HIDE DEF d, e
<1>3. 0 \in Known
  BY <1>2
<1>4. ASSUME NEW n \in Nat, n \in Known PROVE n + 1 \in Known
  <2> SUFFICES ASSUME n + 1 \in 0..Len(s)
               PROVE  d(n + 1) = e(n + 1)
    OBVIOUS
  <2>1. n + 1 \in 1..Len(s) /\ n + 1 \in 1..Len(t) /\ (n + 1) - 1 = n /\ n \in 0..Len(s)
    BY <1>1
  <2>2. d(n) = e(n)
    BY <1>4, <2>1
  <2> QED
    BY <1>1, <1>2, <2>1, <2>2
<1> HIDE DEF Known
<1>5. Nat \subseteq Known
  BY <1>3, <1>4, CountingUp
<1>6. \A i \in 0..Len(s) : d(i) = e(i)
  BY <1>5 DEF Known
<1> QED
  BY <1>1, <1>6 DEF d, e, t

(* One message ends after the other.                                       *)
LEMMA EndGrows ==
    ASSUME NEW s \in Seq(SentMessage)
    PROVE  \A i, j \in 0..Len(s) : i < j => End(s, i) < End(s, j)
<1> DEFINE e(i) == End(s, i)
           Known == {n \in Nat : n \in 0..Len(s) => \A i \in 0..Len(s) : i < n => e(i) < e(n)}
<1>1. /\ \A i \in 0..Len(s) : e(i) \in Nat
      /\ \A i \in 1..Len(s) : e(i - 1) < e(i)
  <2>1. /\ \A i \in 0..Len(s) : e(i) \in Nat
        /\ \A i \in 1..Len(s) : /\ s[i] \in SentMessage /\ s[i].size \in Nat
                                /\ e(i) = e(i - 1) + 1 + Width(s[i].size) + s[i].size
    BY EndIs
  <2> HIDE DEF e
  <2>2. ASSUME NEW i \in 1..Len(s) PROVE e(i - 1) < e(i)
    <3>1. i - 1 \in 0..Len(s) /\ e(i - 1) \in Nat
      BY <2>1
    <3>2. Width(s[i].size) \in 1..2
      BY <2>1, MessageIs
    <3> QED
      BY <2>1, <3>1, <3>2
  <2> QED
    BY <2>1, <2>2
<1> HIDE DEF e
<1>2. 0 \in Known
  OBVIOUS
<1>3. ASSUME NEW n \in Nat, n \in Known PROVE n + 1 \in Known
  <2> SUFFICES ASSUME n + 1 \in 0..Len(s), NEW i \in 0..Len(s), i < n + 1
               PROVE  e(i) < e(n + 1)
    OBVIOUS
  <2>1. n + 1 \in 1..Len(s) /\ (n + 1) - 1 = n /\ n \in 0..Len(s)
    OBVIOUS
  <2>2. e(n) < e(n + 1) /\ e(n) \in Nat /\ e(n + 1) \in Nat /\ e(i) \in Nat
    BY <1>1, <2>1
  <2>3. i < n => e(i) < e(n)
    BY <1>3, <2>1
  <2> QED
    BY <2>2, <2>3
<1> HIDE DEF Known
<1>4. Nat \subseteq Known
  BY <1>2, <1>3, CountingUp
<1>5. ASSUME NEW i \in 0..Len(s), NEW j \in 0..Len(s), i < j
      PROVE  e(i) < e(j)
  BY <1>4, <1>5 DEF Known
<1> QED
  BY <1>5 DEF e

(* The messages that have arrived are the first ones.                      *)
LEMMA ArrivedIs ==
    ASSUME sent \in Seq(SentMessage), received \in Nat,
           NEW k \in 0..Len(sent),
           k > 0 => End(sent, k) <= received,
           k < Len(sent) => received < End(sent, k + 1)
    PROVE  Arrived = k
<1> DEFINE e(i) == End(sent, i)
<1>1. /\ \A i \in 0..Len(sent) : e(i) \in Nat
      /\ \A i, j \in 0..Len(sent) : i < j => e(i) < e(j)
      /\ k > 0 => e(k) <= received
      /\ k < Len(sent) => received < e(k + 1)
  BY EndIs, EndGrows
<1> HIDE DEF e
<1>2. ASSUME NEW i \in 1..Len(sent)
      PROVE  e(i) <= received <=> i <= k
  <2>1. CASE i <= k
    <3>1. i = k \/ e(i) < e(k)
      BY <1>1, <2>1
    <3> QED
      BY <1>1, <2>1, <3>1
  <2>2. CASE i > k
    <3>1. k + 1 \in 0..Len(sent) /\ k < Len(sent)
      BY <2>2
    <3>2. i = k + 1 \/ e(k + 1) < e(i)
      BY <1>1, <2>2, <3>1
    <3> QED
      BY <1>1, <2>2, <3>1, <3>2
  <2> QED
    BY <2>1, <2>2
<1>3. {i \in 1..Len(sent) : e(i) <= received} = 1..k
  BY <1>2
<1>4. Cardinality(1..k) = k
  BY FS_Interval
<1> QED
  BY <1>3, <1>4 DEF Arrived, e

LEMMA ArrivedAtLeast ==
    ASSUME sent \in Seq(SentMessage), received \in Nat,
           NEW k \in 1..Len(sent), End(sent, k) <= received
    PROVE  k <= Arrived
<1> DEFINE e(i) == End(sent, i)
           arrived == {i \in 1..Len(sent) : e(i) <= received}
<1>1. /\ \A i \in 0..Len(sent) : e(i) \in Nat
      /\ \A i, j \in 0..Len(sent) : i < j => e(i) < e(j)
      /\ e(k) <= received
  BY EndIs, EndGrows
<1>2. Arrived = Cardinality(arrived)
  BY DEF Arrived
<1> HIDE DEF e
<1>3. ASSUME NEW i \in 1..k PROVE i \in arrived
  <2>1. i = k \/ e(i) < e(k)
    BY <1>1
  <2> QED
    BY <1>1, <2>1
<1>4. 1..k \subseteq arrived /\ arrived \subseteq 1..Len(sent)
  BY <1>3
<1>5. IsFiniteSet(1..Len(sent)) /\ Cardinality(1..k) = k
  BY FS_Interval
<1> HIDE DEF arrived
<1>6. IsFiniteSet(arrived)
  BY <1>4, <1>5, FS_Subset
<1>7. Cardinality(1..k) <= Cardinality(arrived)
  BY <1>4, <1>6, FS_Subset
<1> QED
  BY <1>2, <1>5, <1>7

(***************************************************************************)
(* What the parser reads at the head of its data.                          *)
(***************************************************************************)
(* The size is there with its last digit.                                  *)
LEMMA SizeEndIs ==
    ASSUME NEW d \in Seq(Nat), Len(d) > 0
    PROVE  /\ d[1] < BASE => SizeEnd(d) = 1
           /\ d[1] >= BASE /\ Len(d) = 1 => SizeEnd(d) = 0
           /\ d[1] >= BASE /\ Len(d) > 1 /\ d[2] < BASE => SizeEnd(d) = 2
<1> DEFINE ends == {i \in 1..Len(d) : d[i] < BASE}
           first == CHOOSE i \in ends : \A j \in ends : i <= j
<1>1. SizeEnd(d) = IF ends # {} THEN first ELSE 0
  BY DEF SizeEnd, SelectInSeq, Min
<1>2. BASE \in Nat /\ Len(d) \in Nat /\ \A i \in 1..Len(d) : d[i] \in Nat
  BY ParserAssumption
<1>3. ASSUME NEW e \in ends, \A j \in ends : e <= j
      PROVE  first = e
  <2>1. first \in ends /\ \A j \in ends : first <= j
    BY <1>3
  <2> QED
    BY <1>3, <2>1
<1>4. ASSUME d[1] < BASE PROVE SizeEnd(d) = 1
  <2>1. 1 \in ends /\ \A j \in ends : 1 <= j
    BY <1>2, <1>4
  <2> QED
    BY <1>1, <1>3, <2>1
<1>5. ASSUME d[1] >= BASE, Len(d) = 1 PROVE SizeEnd(d) = 0
  <2>1. ends = {}
    BY <1>2, <1>5
  <2> QED
    BY <1>1, <2>1
<1>6. ASSUME d[1] >= BASE, Len(d) > 1, d[2] < BASE PROVE SizeEnd(d) = 2
  <2>1. 2 \in ends /\ \A j \in ends : 2 <= j
    BY <1>2, <1>6
  <2> QED
    BY <1>1, <1>3, <2>1
<1> QED
  BY <1>4, <1>5, <1>6

Digit(d, e, value, i) ==
    (d[i] % BASE) + (IF i = e THEN 0 ELSE BASE * value[i + 1])

LEMMA DigitsExist ==
    ASSUME BASE \in Nat, NEW d, NEW e \in 1..2, \A i \in 1..e : d[i] % BASE \in Nat
    PROVE  \E f : f = [i \in 1..e |-> Digit(d, e, f, i)]
<1>1. CASE e = 1
  <2> DEFINE f == [i \in 1..e |-> d[1] % BASE]
  <2>1. ASSUME NEW i \in 1..e PROVE f[i] = Digit(d, e, f, i)
    <3>1. i = 1 /\ i = e
      BY <1>1
    <3>2. f[i] = d[1] % BASE /\ d[1] % BASE \in Nat
      BY <3>1
    <3> HIDE DEF f
    <3> QED
      BY <3>1, <3>2 DEF Digit
  <2>2. f = [i \in 1..e |-> Digit(d, e, f, i)]
    BY <2>1
  <2> QED
    BY <2>2
<1>2. CASE e = 2
  <2> DEFINE f == [i \in 1..e |-> IF i = 2 THEN d[2] % BASE
                                 ELSE (d[1] % BASE) + BASE * (d[2] % BASE)]
  <2>1. f[1] = (d[1] % BASE) + BASE * (d[2] % BASE) /\ f[2] = d[2] % BASE
    BY <1>2
  <2>2. ASSUME NEW i \in 1..e PROVE f[i] = Digit(d, e, f, i)
    <3>1. i = 1 \/ i = 2
      BY <1>2
    <3> HIDE DEF f
    <3>2. d[2] % BASE \in Nat
      BY <1>2
    <3>3. CASE i = 1
      BY <1>2, <2>1, <3>3 DEF Digit
    <3>4. CASE i = 2
      BY <1>2, <2>1, <3>2, <3>4 DEF Digit
    <3> QED
      BY <3>1, <3>3, <3>4
  <2>3. f = [i \in 1..e |-> Digit(d, e, f, i)]
    BY <2>2
  <2> QED
    BY <2>3
<1> QED
  BY <1>1, <1>2

LEMMA SizeValueIs ==
    ASSUME NEW d \in Seq(Nat)
    PROVE  /\ SizeEnd(d) = 1 /\ Len(d) > 0 => SizeValue(d) = d[1] % BASE
           /\ SizeEnd(d) = 2 /\ Len(d) > 1 =>
                 SizeValue(d) = (d[1] % BASE) + BASE * (d[2] % BASE)
<1> DEFINE e == SizeEnd(d)
           value[i \in 1..e] ==
               (d[i] % BASE) + (IF i = SizeEnd(d) THEN 0 ELSE BASE * value[i + 1])
<1>1. SizeValue(d) = value[1]
  BY DEF SizeValue
<1>2. BASE \in Nat /\ \A i \in 1..Len(d) : d[i] % BASE \in Nat
  BY ParserAssumption
<1>3. ASSUME e \in 1..2, e <= Len(d)
      PROVE  value = [i \in 1..e |-> Digit(d, e, value, i)]
  <2>1. \A i \in 1..e : d[i] % BASE \in Nat
    BY <1>2, <1>3
  <2>2. \E f : f = [i \in 1..e |-> Digit(d, e, f, i)]
    BY <1>2, <1>3, <2>1, DigitsExist
  <2> QED
    BY <2>2 DEF Digit
<1> HIDE DEF value
<1>4. ASSUME e = 1, Len(d) > 0
      PROVE  value[1] = d[1] % BASE
  <2>1. value = [i \in 1..e |-> Digit(d, e, value, i)]
    BY <1>3, <1>4
  <2>2. value[1] = Digit(d, e, value, 1)
    BY <1>4, <2>1
  <2> QED
    BY <1>2, <1>4, <2>2 DEF Digit
<1>5. ASSUME e = 2, Len(d) > 1
      PROVE  value[1] = (d[1] % BASE) + BASE * (d[2] % BASE)
  <2>1. value = [i \in 1..e |-> Digit(d, e, value, i)]
    BY <1>3, <1>5
  <2>2. value[1] = Digit(d, e, value, 1) /\ value[2] = Digit(d, e, value, 2)
    BY <1>5, <2>1
  <2>3. value[2] = d[2] % BASE
    BY <1>2, <1>5, <2>2 DEF Digit
  <2> QED
    BY <1>5, <2>2, <2>3 DEF Digit
<1> QED
  BY <1>1, <1>4, <1>5

LEMMA SomeBytes ==
    ASSUME NEW d \in Seq(Nat), Len(d) > 0
    PROVE  Len(d) \in Nat /\ (Len(d) = 1 \/ Len(d) > 1)
<1>1. Len(d) \in Nat
  OBVIOUS
<1>2. \A n \in Nat : n > 0 => n = 1 \/ n > 1
  OBVIOUS
<1> QED
  BY <1>1, <1>2

(* The parser reads the size of the message, as soon as all of it is       *)
(* there.                                                                  *)
LEMMA SizeIsRead ==
    ASSUME NEW m \in SentMessage, NEW d \in Seq(Nat), Len(d) > 0,
           NEW bytes, SizeAt(bytes, 0, m.size), \A i \in 1..Len(d) : bytes[i] = d[i]
    PROVE  /\ Len(d) >= Width(m.size) =>
                 SizeEnd(d) = Width(m.size) /\ SizeValue(d) = m.size
           /\ Len(d) < Width(m.size) => SizeEnd(d) = 0
<1>0. Len(d) \in Nat /\ (Len(d) = 1 \/ Len(d) > 1)
  BY SomeBytes
<1>1. m.size \in Sizes /\ m.size \in Nat /\ Len(d) \in Nat
  BY <1>0, MessageIs
<1>2. BASE \in Nat
  BY ParserAssumption
<1>3. CASE m.size < BASE
  <2>1. d[1] = m.size /\ m.size % BASE = m.size
    BY <1>1, <1>3, SizesAreSmall DEF SizeAt
  <2>2. SizeEnd(d) = 1
    BY <1>3, <2>1, SizeEndIs
  <2> QED
    BY <1>1, <1>3, <2>1, <2>2, SizeValueIs DEF Width
<1>4. CASE m.size >= BASE
  <2> DEFINE lo == m.size % BASE
             hi == m.size \div BASE
  <2>1. /\ lo \in 0..(BASE - 1) /\ hi \in 1..(BASE - 1)
        /\ (BASE + lo) % BASE = lo
        /\ hi % BASE = hi
        /\ lo + BASE * hi = m.size
    BY <1>1, <1>4, TwoDigits
  <2> HIDE DEF lo, hi
  <2>2. bytes[1] = BASE + lo /\ bytes[2] = hi
    <3>1. ~(m.size < BASE) /\ 0 + 1 = 1 /\ 0 + 2 = 2
      BY <1>1, <1>2, <1>4
    <3> QED
      BY <3>1 DEF SizeAt, lo, hi
  <2>3. /\ d[1] = BASE + lo /\ d[1] >= BASE
        /\ Len(d) > 1 => d[2] = hi /\ d[2] < BASE
    <3>1. 1 \in 1..Len(d) /\ (Len(d) > 1 => 2 \in 1..Len(d))
      BY <1>1
    <3>2. d[1] = bytes[1] /\ (Len(d) > 1 => d[2] = bytes[2])
      BY <3>1
    <3> QED
      BY <1>2, <2>1, <2>2, <3>2
  <2>4. Len(d) = 1 => SizeEnd(d) = 0
    BY <2>3, SizeEndIs
  <2>5. Len(d) > 1 => SizeEnd(d) = 2
    BY <2>3, SizeEndIs
  <2>6. ASSUME Len(d) > 1
        PROVE  SizeValue(d) = m.size
    <3>1. SizeValue(d) = (d[1] % BASE) + BASE * (d[2] % BASE)
      BY <2>5, <2>6, SizeValueIs
    <3>2. d[1] % BASE = lo /\ d[2] % BASE = hi
      BY <2>1, <2>3, <2>6
    <3> QED
      BY <2>1, <3>1, <3>2
  <2>7. Width(m.size) = 2
    BY <1>1, <1>2, <1>4 DEF Width
  <2>8. CASE Len(d) = 1
    BY <2>4, <2>7, <2>8
  <2>9. CASE Len(d) > 1
    BY <2>5, <2>6, <2>7, <2>9
  <2> QED
    BY <1>0, <2>8, <2>9
<1> QED
  BY <1>1, <1>2, <1>3, <1>4

(***************************************************************************)
(* Where the parser is in the stream.  c is the number of bytes it has     *)
(* consumed, bytes are those it has not: what it keeps and what is on its  *)
(* way.  The messages from the k-th on lie ahead.                          *)
(***************************************************************************)
MessageAt(bytes, at, m) ==
    at >= 0 /\ bytes[at + 1] = m.tag /\ SizeAt(bytes, at + 1, m.size)

Ahead(bytes, c, s, k) ==
    /\ c + Len(bytes) = End(s, Len(s))
    /\ \A j \in (k + 1)..Len(s) : MessageAt(bytes, End(s, j - 1) - c, s[j])

(* Room for the messages that lie ahead.                                   *)
LEMMA AheadHasRoom ==
    ASSUME NEW s \in Seq(SentMessage), NEW c \in Nat,
           NEW bytes \in Seq(Nat), c + Len(bytes) = End(s, Len(s)),
           NEW j \in 1..Len(s)
    PROVE  /\ End(s, j - 1) \in Nat
           /\ s[j] \in SentMessage /\ s[j].size \in Nat /\ Width(s[j].size) \in 1..2
           /\ End(s, j) = End(s, j - 1) + 1 + Width(s[j].size) + s[j].size
           /\ End(s, j) - c <= Len(bytes)
<1>1. j - 1 \in 0..Len(s) /\ j \in 0..Len(s) /\ Len(s) \in 0..Len(s)
  OBVIOUS
<1>2. /\ End(s, j - 1) \in Nat /\ End(s, j) \in Nat
      /\ End(s, Len(s)) \in Nat
      /\ s[j] \in SentMessage /\ s[j].size \in Nat
      /\ End(s, j) = End(s, j - 1) + 1 + Width(s[j].size) + s[j].size
  BY <1>1, EndIs
<1>3. Width(s[j].size) \in 1..2
  BY <1>2, MessageIs
<1>4. j = Len(s) \/ End(s, j) < End(s, Len(s))
  BY <1>1, EndGrows
<1>5. Len(bytes) \in Nat
  OBVIOUS
<1>6. End(s, j) - c <= Len(bytes)
  BY <1>2, <1>4, <1>5
<1> QED
  BY <1>2, <1>3, <1>6

(* n bytes more are consumed, at most up to the next message that lies     *)
(* ahead.                                                                  *)
LEMMA AheadMoves ==
    ASSUME NEW s \in Seq(SentMessage), NEW c \in Nat, NEW n \in Nat,
           NEW bytes \in Seq(Nat), NEW rest \in Seq(Nat), Len(bytes) = n + Len(rest),
           \A i \in 1..Len(rest) : rest[i] = bytes[n + i],
           NEW k \in 0..Len(s), NEW l \in 0..Len(s), k <= l,
           c + n <= End(s, l), Ahead(bytes, c, s, k)
    PROVE  Ahead(rest, c + n, s, l)
<1>1. Len(bytes) \in Nat /\ Len(rest) \in Nat
  OBVIOUS
<1>2. c + Len(bytes) = End(s, Len(s)) /\ End(s, Len(s)) \in Nat
  BY EndIs DEF Ahead
<1>3. (c + n) + Len(rest) = End(s, Len(s))
  BY <1>1, <1>2
<1>4. ASSUME NEW j \in (l + 1)..Len(s)
      PROVE  MessageAt(rest, End(s, j - 1) - (c + n), s[j])
  <2>1. j \in 1..Len(s) /\ j \in (k + 1)..Len(s) /\ j - 1 \in 0..Len(s)
    OBVIOUS
  <2> DEFINE e == End(s, j - 1)
             m == s[j]
             w == Width(m.size)
  <2>2. /\ e \in Nat
        /\ m \in SentMessage /\ m.size \in Nat /\ w \in 1..2
        /\ End(s, j) = e + 1 + w + m.size
        /\ End(s, j) - c <= Len(bytes)
    <3>1. j \in 1..Len(s) /\ c + Len(bytes) = End(s, Len(s))
      BY <1>2, <2>1
    <3> HIDE DEF e, m, w
    <3> QED
      BY <3>1, AheadHasRoom DEF e, m, w
  <2>3. MessageAt(bytes, e - c, m)
    BY <2>1 DEF Ahead
  <2>4. l = j - 1 \/ End(s, l) < e
    <3> DEFINE i == j - 1
    <3>1. l \in 0..Len(s) /\ i \in 0..Len(s) /\ (l = i \/ l < i)
      BY <2>1
    <3> HIDE DEF i, m
    <3>2. l < i => End(s, l) < End(s, i)
      BY <3>1, EndGrows
    <3> QED
      BY <3>1, <3>2 DEF i
  <2>5. End(s, l) \in Nat
    BY EndIs
  <2> HIDE DEF e, m
  <2>6. c + n <= e
    <3> DEFINE x == End(s, l)
    <3>1. x \in Nat /\ e \in Nat /\ c + n <= x /\ (x = e \/ x < e)
      BY <2>2, <2>4, <2>5 DEF e
    <3> HIDE DEF x
    <3> QED
      BY <3>1
  <2> HIDE DEF w
  <2>7. PICK at \in Nat : at = e - (c + n)
    BY <2>2, <2>6
  <2>8. e - c = n + at /\ at + 1 + w <= Len(rest)
    BY <1>1, <2>2, <2>7
  <2>9. rest[at + 1] = bytes[(n + at) + 1] /\ rest[(at + 1) + 1] = bytes[((n + at) + 1) + 1]
    <3>1. at + 1 \in 1..Len(rest) /\ (at + 1) + 1 \in 1..Len(rest)
      <4>1. w \in 1..2 /\ at \in Nat /\ Len(rest) \in Nat /\ at + 1 + w <= Len(rest)
        BY <1>1, <2>2, <2>8
      <4> QED
        BY ONLY <4>1
    <3>2. n + (at + 1) = (n + at) + 1 /\ n + ((at + 1) + 1) = ((n + at) + 1) + 1
      OBVIOUS
    <3> DEFINE a == at + 1
               b == (at + 1) + 1
               x == (n + at) + 1
               y == ((n + at) + 1) + 1
    <3>3. /\ a \in 1..Len(rest) /\ b \in 1..Len(rest) /\ n + a = x /\ n + b = y
          /\ \A i \in 1..Len(rest) : rest[i] = bytes[n + i]
      BY <3>1, <3>2
    <3> HIDE DEF a, b, x, y
    <3>4. rest[a] = bytes[x] /\ rest[b] = bytes[y]
      BY ONLY <3>3
    <3> QED
      BY <3>4 DEF a, b, x, y
  <2>10. ASSUME w = 2
         PROVE  rest[(at + 1) + 2] = bytes[((n + at) + 1) + 2]
    <3>1. (at + 1) + 2 \in 1..Len(rest)
      BY <1>1, <2>8, <2>10
    <3>2. n + ((at + 1) + 2) = ((n + at) + 1) + 2
      OBVIOUS
    <3> QED
      BY <3>1, <3>2
  <2>11. MessageAt(bytes, n + at, m)
    BY <2>3, <2>8
  <2>12. SizeAt(rest, at + 1, m.size)
    BY <2>9, <2>10, <2>11 DEF MessageAt, SizeAt, Width, w
  <2>13. MessageAt(rest, at, m)
    BY <2>9, <2>11, <2>12 DEF MessageAt
  <2> QED
    BY <2>7, <2>13 DEF e, m
<1> QED
  BY <1>3, <1>4 DEF Ahead

(* n bytes at the head of d are gone.                                      *)
Shortened(d, rest, n) ==
    /\ rest \in Seq(Nat) /\ Len(d) = n + Len(rest)
    /\ \A i \in 1..Len(rest) : rest[i] = d[n + i]

LEMMA SkipShortens ==
    ASSUME NEW d \in Seq(Nat), NEW n \in 0..Len(d)
    PROVE  Shortened(d, Skip(d, n), n)
<1>1. Skip(d, n) = SubSeq(d, n + 1, Len(d))
  BY DEF Skip
<1>2. Len(d) \in Nat /\ \A i \in (n + 1)..Len(d) : d[i] \in Nat
  OBVIOUS
<1>3. /\ SubSeq(d, n + 1, Len(d)) \in Seq(Nat)
      /\ Len(SubSeq(d, n + 1, Len(d))) = Len(d) - n
      /\ \A i \in 1..(Len(d) - n) : SubSeq(d, n + 1, Len(d))[i] = d[n + i]
  BY <1>2
<1> QED
  BY <1>1, <1>2, <1>3 DEF Shortened

LEMMA TailShortens ==
    ASSUME NEW d \in Seq(Nat), Len(d) > 0
    PROVE  Shortened(d, Tail(d), 1) /\ Head(d) = d[1] /\ Head(d) \in Nat
<1>1. d # << >> /\ Len(d) \in Nat
  OBVIOUS
<1>2. Tail(d) \in Seq(Nat) /\ Len(Tail(d)) = Len(d) - 1
  BY <1>1
<1>3. \A i \in 1..(Len(d) - 1) : Tail(d)[i] = d[i + 1] /\ i + 1 = 1 + i
  BY <1>1
<1>4. Head(d) = d[1] /\ d[1] \in Nat
  BY <1>1
<1> QED
  BY <1>1, <1>2, <1>3, <1>4 DEF Shortened

LEMMA ShortenedBytes ==
    ASSUME NEW d \in Seq(Nat), NEW rest, NEW n \in Nat, Shortened(d, rest, n),
           NEW f \in Seq(Nat)
    PROVE  d \o f \in Seq(Nat) /\ Shortened(d \o f, rest \o f, n)
<1>1. /\ rest \in Seq(Nat) /\ Len(d) = n + Len(rest) /\ Len(rest) \in Nat /\ Len(f) \in Nat
      /\ \A i \in 1..Len(rest) : rest[i] = d[n + i]
  BY DEF Shortened
<1> DEFINE before == d \o f
           after == rest \o f
<1>2. /\ before \in Seq(Nat) /\ Len(before) = Len(d) + Len(f)
      /\ \A i \in 1..Len(d) : before[i] = d[i]
      /\ \A i \in 1..Len(f) : before[Len(d) + i] = f[i]
  BY Concatenated
<1>3. /\ after \in Seq(Nat) /\ Len(after) = Len(rest) + Len(f)
      /\ \A i \in 1..Len(rest) : after[i] = rest[i]
      /\ \A i \in 1..Len(f) : after[Len(rest) + i] = f[i]
  BY <1>1, Concatenated
<1> HIDE DEF before, after
<1>4. ASSUME NEW i \in 1..Len(after)
      PROVE  after[i] = before[n + i]
  <2>1. CASE i <= Len(rest)
    <3>1. i \in 1..Len(rest) /\ n + i \in 1..Len(d)
      BY <1>1, <1>3, <2>1
    <3> QED
      BY <1>1, <1>2, <1>3, <3>1
  <2>2. CASE i > Len(rest)
    <3>1. PICK j \in 1..Len(f) : i = Len(rest) + j
      <4>1. i - Len(rest) \in 1..Len(f) /\ i = Len(rest) + (i - Len(rest))
        BY <1>1, <1>3, <2>2
      <4> QED
        BY <4>1
    <3>2. n + i = Len(d) + j
      BY <1>1, <3>1
    <3> QED
      BY <1>2, <1>3, <3>1, <3>2
  <2> QED
    BY <1>1, <1>3, <2>1, <2>2
<1>5. Len(before) = n + Len(after)
  BY <1>1, <1>2, <1>3
<1>6. before \in Seq(Nat) /\ Shortened(before, after, n)
  BY <1>2, <1>3, <1>4, <1>5 DEF Shortened
<1> QED
  BY <1>6 DEF before, after

(* What lies ahead of the parser: d is what it keeps of the r bytes that   *)
(* arrived, f is on its way.                                               *)
Facing(d, f, r, s, k) ==
    /\ d \in Seq(Nat) /\ f \in Seq(Nat) /\ r \in Nat /\ s \in Seq(SentMessage)
    /\ k \in 0..Len(s)
    /\ Len(d) <= r
    /\ Ahead(d \o f, r - Len(d), s, k)

LEMMA FacingMoves ==
    ASSUME NEW d, NEW f, NEW r, NEW s, NEW k, Facing(d, f, r, s, k),
           NEW rest, NEW n \in Nat, Shortened(d, rest, n),
           NEW l \in 0..Len(s), k <= l, (r - Len(d)) + n <= End(s, l)
    PROVE  Facing(rest, f, r, s, l) /\ r - Len(rest) = (r - Len(d)) + n
<1>1. /\ d \in Seq(Nat) /\ f \in Seq(Nat) /\ r \in Nat /\ s \in Seq(SentMessage)
      /\ k \in 0..Len(s) /\ Len(d) <= r /\ Ahead(d \o f, r - Len(d), s, k)
  BY DEF Facing
<1>2. rest \in Seq(Nat) /\ Len(d) = n + Len(rest) /\ Len(rest) \in Nat /\ Len(d) \in Nat
  BY <1>1 DEF Shortened
<1>3. /\ r - Len(d) \in Nat /\ Len(rest) <= r
      /\ r - Len(rest) = (r - Len(d)) + n
  BY <1>1, <1>2
<1>4. d \o f \in Seq(Nat) /\ Shortened(d \o f, rest \o f, n)
  BY <1>1, ShortenedBytes
<1> DEFINE c == r - Len(d)
           before == d \o f
           after == rest \o f
<1>5. /\ before \in Seq(Nat) /\ Shortened(before, after, n)
      /\ c \in Nat /\ c + n <= End(s, l) /\ Ahead(before, c, s, k)
  BY <1>1, <1>3, <1>4
<1> HIDE DEF c, before, after
<1>6. Ahead(after, c + n, s, l)
  BY <1>1, <1>5, AheadMoves DEF Shortened
<1>7. Ahead(rest \o f, r - Len(rest), s, l)
  BY <1>3, <1>6 DEF c, after
<1> QED
  BY <1>1, <1>2, <1>3, <1>7 DEF Facing

(***************************************************************************)
(* The states of the parser.                                               *)
(***************************************************************************)
ParserRecord ==
    [state : ProcessingState, data : Seq(Nat), isWaitingForData : BOOLEAN,
     sizePacketSoFar : Nat, messageSize : Nat, messageTag : Nat,
     messages : Seq(SentMessage), thrown : BOOLEAN]

(* The client has been given the first messages.                           *)
Passed(messages, s) ==
    /\ messages \in Seq(SentMessage) /\ Len(messages) <= Len(s)
    /\ \A i \in 1..Len(messages) : messages[i] = s[i]

AtVersion(p, f, r, s, v) ==
    /\ p.messages = << >>
    /\ Facing(p.data, f, r, s, 0)
    /\ Len(p.data) = r
    /\ (p.data \o f)[1] = v

AtTag(p, f, r, s) ==
    LET k == Len(p.messages)
    IN  Facing(p.data, f, r, s, k) /\ r - Len(p.data) = End(s, k)

AtSize(p, f, r, s) ==
    LET k == Len(p.messages)
    IN  /\ k < Len(s)
        /\ Facing(p.data, f, r, s, k + 1)
        /\ r - Len(p.data) = End(s, k) + 1
        /\ p.messageTag = s[k + 1].tag
        /\ SizeAt(p.data \o f, 0, s[k + 1].size)

AtBody(p, f, r, s) ==
    LET k == Len(p.messages)
    IN  /\ k < Len(s)
        /\ Facing(p.data, f, r, s, k + 1)
        /\ (r - Len(p.data)) + s[k + 1].size = End(s, k + 1)
        /\ p.messageTag = s[k + 1].tag
        /\ p.messageSize = s[k + 1].size

(* Of a size it has tried to read, something is missing.                   *)
Position(p, f, r, s, v) ==
    /\ p.state = "MCS_VERSION_TAG_AND_SIZE" => AtVersion(p, f, r, s, v)
    /\ p.state = "MCS_TAG_AND_SIZE" => AtTag(p, f, r, s)
    /\ p.state = "MCS_SIZE" =>
        /\ AtSize(p, f, r, s)
        /\ p.sizePacketSoFar < Width(s[Len(p.messages) + 1].size)
    /\ p.state = "MCS_PROTO_BYTES" => AtBody(p, f, r, s)

(* What a parser may throw over.                                           *)
BadData(p, r, s, v) ==
    \/ v < 41 /\ v # 38 /\ p.messages = << >>
    \/ LET next == Len(p.messages) + 1
       IN  /\ next <= Len(s) /\ End(s, next) <= r
           /\ s[next].tag \notin MessageTags

InStream(p, f, r, s, v) ==
    /\ p \in ParserRecord
    /\ Passed(p.messages, s)
    /\ p.messageSize > 0 => p.state = "MCS_PROTO_BYTES"
    /\ p.thrown => BadData(p, r, s, v)
    /\ ~p.thrown => Position(p, f, r, s, v)

(* One message more is passed on.                                          *)
LEMMA PassedOn ==
    ASSUME NEW s \in Seq(SentMessage), NEW messages, Passed(messages, s),
           Len(messages) < Len(s)
    PROVE  /\ Len(messages) + 1 \in 1..Len(s) /\ s[Len(messages) + 1] \in SentMessage
           /\ Passed(Append(messages, s[Len(messages) + 1]), s)
           /\ Len(Append(messages, s[Len(messages) + 1])) = Len(messages) + 1
<1> DEFINE m == s[Len(messages) + 1]
           more == Append(messages, m)
<1>1. /\ messages \in Seq(SentMessage) /\ Len(messages) \in Nat /\ Len(s) \in Nat
      /\ Len(messages) + 1 \in 1..Len(s)
  BY DEF Passed
<1>2. m \in SentMessage
  BY <1>1
<1> HIDE DEF m
<1>3. /\ more \in Seq(SentMessage) /\ Len(more) = Len(messages) + 1
      /\ \A i \in 1..Len(messages) : more[i] = messages[i]
      /\ more[Len(messages) + 1] = m
  BY <1>1, <1>2, Appended
<1> HIDE DEF more
<1>4. ASSUME NEW i \in 1..Len(more)
      PROVE  more[i] = s[i]
  <2>1. i \in 1..Len(messages) \/ i = Len(messages) + 1
    BY <1>1, <1>3
  <2> QED
    BY <1>3, <2>1 DEF Passed, m
<1>5. Passed(more, s)
  BY <1>1, <1>3, <1>4 DEF Passed
<1> QED
  BY <1>1, <1>2, <1>3, <1>5 DEF m, more

(* onGotMessageBytes(): the message is passed on, or its tag is unknown.   *)
LEMMA BodyIsRead ==
    ASSUME NEW p \in ParserRecord, NEW f, NEW r, NEW s, NEW v, Passed(p.messages, s),
           AtBody(p, f, r, s), Len(p.data) >= p.messageSize, ~p.thrown,
           p.messageSize > 0 => p.state = "MCS_PROTO_BYTES"
    PROVE  InStream(GotMessageBytes(p), f, r, s, v)
<1> DEFINE k == Len(p.messages)
           m == s[k + 1]
           q == GotMessageBytes(p)
<1>1. /\ k < Len(s) /\ Facing(p.data, f, r, s, k + 1)
      /\ (r - Len(p.data)) + m.size = End(s, k + 1)
      /\ p.messageTag = m.tag /\ p.messageSize = m.size
  BY DEF AtBody
<1>2. /\ p.data \in Seq(Nat) /\ f \in Seq(Nat) /\ r \in Nat /\ s \in Seq(SentMessage)
      /\ Len(p.data) <= r /\ Len(p.data) \in Nat /\ p.messageSize \in Nat
  BY <1>1 DEF Facing, ParserRecord
<1>3. k + 1 \in 1..Len(s) /\ m \in SentMessage /\ k \in Nat
  <2>1. k \in Nat
    BY DEF ParserRecord
  <2> QED
    BY <1>1, <1>2, <2>1
<1>4. CASE p.messageTag \in MessageTags
  <2> DEFINE rest == Skip(p.data, p.messageSize)
             more == Append(p.messages, m)
  <2>1. Shortened(p.data, rest, p.messageSize)
    <3>1. p.messageSize \in 0..Len(p.data)
      BY <1>2
    <3> QED
      BY <1>2, <3>1, SkipShortens
  <2>2. Facing(rest, f, r, s, k + 1) /\ r - Len(rest) = (r - Len(p.data)) + p.messageSize
    <3> DEFINE n == p.messageSize
               d == p.data
               l == k + 1
    <3>1. End(s, l) \in Nat /\ l \in 0..Len(s) /\ l <= l
      BY <1>2, <1>3, EndIs
    <3>2. /\ n \in Nat /\ Shortened(d, rest, n) /\ Facing(d, f, r, s, l)
          /\ (r - Len(d)) + n <= End(s, l)
      BY <1>1, <1>2, <2>1, <3>1
    <3> HIDE DEF n, d, l, rest
    <3>3. Facing(rest, f, r, s, l) /\ r - Len(rest) = (r - Len(d)) + n
      BY <3>1, <3>2, FacingMoves
    <3> QED
      BY <3>3 DEF n, d, l
  <2>3. Passed(more, s) /\ Len(more) = k + 1
    BY <1>1, <1>2, PassedOn
  <2>4. [tag |-> p.messageTag, size |-> p.messageSize] = m
    BY <1>1, <1>3 DEF SentMessage
  <2>5. q = [p EXCEPT !.messages = more, !.data = rest, !.messageTag = 0,
                      !.messageSize = 0, !.state = "MCS_TAG_AND_SIZE"]
    BY <1>4, <2>4 DEF GotMessageBytes, NextMessage, ParserRecord
  <2>6. rest \in Seq(Nat) /\ more \in Seq(SentMessage)
    BY <2>1, <2>3 DEF Shortened, Passed
  <2> HIDE DEF rest, more, m
  <2>7. /\ q \in ParserRecord /\ q.messages = more /\ q.data = rest
        /\ q.messageSize = 0 /\ q.state = "MCS_TAG_AND_SIZE" /\ q.thrown = FALSE
    <3>1. p.thrown = FALSE
      BY DEF ParserRecord
    <3>2. "MCS_TAG_AND_SIZE" \in ProcessingState /\ 0 \in Nat
      BY DEF ProcessingState
    <3> HIDE DEF q
    <3>3. q \in ParserRecord
      BY <2>5, <2>6, <3>2 DEF ParserRecord
    <3> QED
      BY <2>5, <3>1, <3>3 DEF ParserRecord
  <2> HIDE DEF q
  <2>8. AtTag(q, f, r, s)
    BY <1>1, <2>2, <2>3, <2>7 DEF AtTag
  <2>9. InStream(q, f, r, s, v)
    BY <2>3, <2>7, <2>8 DEF InStream, Position
  <2> QED
    BY <2>9 DEF q
<1>5. CASE p.messageTag \notin MessageTags
  <2>1. q = [p EXCEPT !.thrown = TRUE]
    BY <1>5 DEF GotMessageBytes, Throws
  <2>2. /\ q \in ParserRecord /\ q.messages = p.messages /\ q.thrown
        /\ q.messageSize = p.messageSize /\ q.state = p.state
    BY <2>1 DEF ParserRecord
  <2>3. End(s, k + 1) <= r
    BY <1>1, <1>2, <1>3
  <2> HIDE DEF q
  <2>4. BadData(q, r, s, v)
    BY <1>1, <1>2, <1>3, <1>5, <2>2, <2>3 DEF BadData
  <2>5. InStream(q, f, r, s, v)
    BY <2>2, <2>4 DEF InStream
  <2> QED
    BY <2>5 DEF q
<1> QED
  BY <1>4, <1>5

(* onGotMessageSize(): the size is there, or the rest of it is waited for. *)
LEMMA SizeIsGot ==
    ASSUME NEW p \in ParserRecord, NEW f, NEW r, NEW s, NEW v, Passed(p.messages, s),
           AtSize(p, f, r, s), Len(p.data) > 0, ~p.thrown, p.messageSize = 0
    PROVE  InStream(GotMessageSize(p), f, r, s, v)
<1> DEFINE k == Len(p.messages)
           m == s[k + 1]
           d == p.data
           w == Width(m.size)
           q == GotMessageSize(p)
<1>1. /\ k < Len(s) /\ Facing(d, f, r, s, k + 1)
      /\ r - Len(d) = End(s, k) + 1
      /\ p.messageTag = m.tag /\ SizeAt(d \o f, 0, m.size)
  BY DEF AtSize
<1>2. /\ d \in Seq(Nat) /\ f \in Seq(Nat) /\ r \in Nat /\ s \in Seq(SentMessage)
      /\ Len(d) <= r /\ Len(d) \in Nat /\ k \in Nat /\ Len(s) \in Nat
  BY <1>1 DEF Facing, ParserRecord
<1>3. /\ k + 1 \in 1..Len(s) /\ k + 1 \in 0..Len(s) /\ k \in 0..Len(s)
      /\ (k + 1) - 1 = k
  BY <1>1, <1>2
<1>4. /\ m \in SentMessage /\ m.size \in Nat /\ w \in 1..2
      /\ End(s, k) \in Nat
      /\ End(s, k + 1) = End(s, k) + 1 + w + m.size
  <2>1. m \in SentMessage /\ m.size \in Nat /\ End(s, k) \in Nat
    BY <1>2, <1>3, EndIs
  <2>2. End(s, k + 1) = End(s, k) + 1 + w + m.size
    BY <1>2, <1>3, EndIs
  <2>3. w \in 1..2
    BY <2>1, MessageIs
  <2> QED
    BY <2>1, <2>2, <2>3
<1>5. /\ Len(d) >= w => SizeEnd(d) = w /\ SizeValue(d) = m.size
      /\ Len(d) < w => SizeEnd(d) = 0
  <2> DEFINE bytes == d \o f
  <2>1. \A i \in 1..Len(d) : bytes[i] = d[i]
    BY <1>2, Concatenated
  <2>2. SizeAt(bytes, 0, m.size)
    BY <1>1
  <2> HIDE DEF bytes, m, d
  <2> QED
    BY <1>2, <1>4, <2>1, <2>2, SizeIsRead DEF d
<1> DEFINE rest == Skip(d, SizeEnd(d))
           sized == [p EXCEPT !.messageSize = SizeValue(d), !.data = rest,
                              !.sizePacketSoFar = 0]
<1>6. q = IF SizeEnd(d) = 0
          THEN [p EXCEPT !.sizePacketSoFar = Len(d), !.state = "MCS_SIZE"]
          ELSE IF sized.messageSize > 0
          THEN [sized EXCEPT !.state = "MCS_PROTO_BYTES"]
          ELSE GotMessageBytes(sized)
  BY DEF GotMessageSize
<1>7. p.thrown = FALSE
  BY DEF ParserRecord
<1>8. {"MCS_SIZE", "MCS_PROTO_BYTES"} \subseteq ProcessingState
  BY DEF ProcessingState
<1>9. CASE Len(d) < w
  <2>1. q = [p EXCEPT !.sizePacketSoFar = Len(d), !.state = "MCS_SIZE"]
    BY <1>5, <1>6, <1>9
  <2> HIDE DEF q
  <2>2. q \in ParserRecord
    BY <1>2, <1>8, <2>1 DEF ParserRecord
  <2>3. /\ q.messages = p.messages /\ q.data = p.data /\ q.messageTag = p.messageTag
        /\ q.messageSize = 0 /\ q.state = "MCS_SIZE" /\ q.thrown = FALSE
        /\ q.sizePacketSoFar = Len(d)
    BY <1>7, <2>1 DEF ParserRecord
  <2>4. AtSize(q, f, r, s)
    BY <2>3 DEF AtSize
  <2>5. InStream(q, f, r, s, v)
    BY <1>9, <2>2, <2>3, <2>4 DEF InStream, Position
  <2> QED
    BY <2>5 DEF q
<1>10. CASE Len(d) >= w
  <2>1. SizeEnd(d) = w /\ SizeValue(d) = m.size /\ w > 0
    BY <1>4, <1>5, <1>10
  <2>2. Shortened(d, rest, w)
    <3>1. w \in 0..Len(d)
      BY <1>2, <1>4, <1>10
    <3> HIDE DEF w, d
    <3> QED
      BY <1>2, <2>1, <3>1, SkipShortens
  <2>3. Facing(rest, f, r, s, k + 1) /\ r - Len(rest) = (r - Len(d)) + w
    <3> DEFINE l == k + 1
    <3>1. (r - Len(d)) + w <= End(s, l)
      BY <1>1, <1>2, <1>4
    <3>2. w \in Nat /\ l \in 0..Len(s) /\ l <= l /\ Facing(d, f, r, s, l)
      BY <1>1, <1>3, <1>4
    <3> HIDE DEF w, d, l, rest
    <3>3. Facing(rest, f, r, s, l) /\ r - Len(rest) = (r - Len(d)) + w
      BY <2>2, <3>1, <3>2, FacingMoves
    <3> QED
      BY <3>3 DEF l
  <2>4. (r - Len(rest)) + m.size = End(s, k + 1)
    BY <1>1, <1>2, <1>4, <2>3
  <2>5. rest \in Seq(Nat)
    BY <2>2 DEF Shortened
  <2>6. /\ sized \in ParserRecord /\ sized.messages = p.messages /\ sized.data = rest
        /\ sized.messageTag = m.tag /\ sized.messageSize = m.size
        /\ sized.thrown = FALSE /\ sized.state = p.state
    <3> HIDE DEF rest, d, m
    <3> QED
      BY <1>1, <1>4, <1>7, <2>1, <2>5 DEF ParserRecord
  <2> HIDE DEF sized
  <2>7. AtBody(sized, f, r, s)
    BY <1>1, <2>3, <2>4, <2>6 DEF AtBody
  <2>8. CASE m.size > 0
    <3>1. q = [sized EXCEPT !.state = "MCS_PROTO_BYTES"]
      BY <1>6, <2>1, <2>6, <2>8
    <3> HIDE DEF q, rest, m, d
    <3>2. /\ q \in ParserRecord /\ q.messages = sized.messages /\ q.data = sized.data
          /\ q.messageTag = sized.messageTag /\ q.messageSize = sized.messageSize
          /\ q.thrown = FALSE /\ q.state = "MCS_PROTO_BYTES"
      BY <1>8, <2>6, <3>1 DEF ParserRecord
    <3>3. AtBody(q, f, r, s)
      BY <2>7, <3>2 DEF AtBody
    <3>4. InStream(q, f, r, s, v)
      BY <2>6, <3>2, <3>3 DEF InStream, Position
    <3> QED
      BY <3>4 DEF q
  <2>9. CASE m.size = 0
    <3>1. q = GotMessageBytes(sized)
      BY <1>6, <2>1, <2>6, <2>9
    <3>2. Len(sized.data) >= sized.messageSize /\ ~(sized.messageSize > 0)
      BY <2>5, <2>6, <2>9
    <3> HIDE DEF q, rest, m, d
    <3>3. InStream(GotMessageBytes(sized), f, r, s, v)
      BY <2>6, <2>7, <3>2, BodyIsRead
    <3> QED
      BY <3>1, <3>3 DEF q
  <2> QED
    BY <1>4, <2>8, <2>9
<1> QED
  BY <1>2, <1>4, <1>9, <1>10

(* A tag is read: the size of its message is next.                         *)
LEMMA TagMoves ==
    ASSUME NEW d, NEW f, NEW r, NEW s, NEW k,
           Facing(d, f, r, s, k), r - Len(d) = End(s, k), Len(d) >= 2,
           NEW rest, Shortened(d, rest, 1)
    PROVE  /\ k < Len(s) /\ d[1] = s[k + 1].tag
           /\ Facing(rest, f, r, s, k + 1)
           /\ r - Len(rest) = End(s, k) + 1
           /\ SizeAt(rest \o f, 0, s[k + 1].size)
<1>1. /\ d \in Seq(Nat) /\ f \in Seq(Nat) /\ r \in Nat /\ s \in Seq(SentMessage)
      /\ k \in 0..Len(s) /\ Len(d) <= r /\ Ahead(d \o f, r - Len(d), s, k)
  BY DEF Facing
<1>2. /\ rest \in Seq(Nat) /\ Len(d) = 1 + Len(rest) /\ Len(rest) \in Nat
      /\ Len(d) \in Nat /\ Len(f) \in Nat /\ Len(s) \in Nat
  BY <1>1 DEF Shortened
<1>3. d \o f \in Seq(Nat) /\ Shortened(d \o f, rest \o f, 1)
  BY <1>1, ShortenedBytes
<1>4. Len(d \o f) = Len(d) + Len(f) /\ (d \o f)[1] = d[1]
  <2>1. 1 \in 1..Len(d)
    BY <1>2
  <2> QED
    BY <1>1, <2>1, Concatenated
<1> DEFINE c == r - Len(d)
           bytes == d \o f
           after == rest \o f
           m == s[k + 1]
<1>5. /\ bytes \in Seq(Nat) /\ Shortened(bytes, after, 1) /\ c \in Nat
      /\ c = End(s, k) /\ bytes[1] = d[1] /\ Len(bytes) = Len(d) + Len(f)
      /\ Ahead(bytes, c, s, k)
  BY <1>1, <1>2, <1>3, <1>4
<1> HIDE DEF c, bytes, after
<1>6. c + Len(bytes) = End(s, Len(s))
  BY <1>5 DEF Ahead
<1>7. k < Len(s)
  <2>1. k # Len(s)
    BY <1>2, <1>5, <1>6
  <2> QED
    BY <1>1, <1>2, <2>1
<1>8. /\ k + 1 \in 1..Len(s) /\ k + 1 \in (k + 1)..Len(s) /\ (k + 1) - 1 = k
      /\ k + 1 \in 0..Len(s) /\ k <= k + 1
  BY <1>1, <1>2, <1>7
<1>9. MessageAt(bytes, 0, m)
  <2>1. MessageAt(bytes, End(s, (k + 1) - 1) - c, s[k + 1])
    BY <1>5, <1>8 DEF Ahead
  <2>2. End(s, (k + 1) - 1) - c = 0
    BY <1>5, <1>8
  <2> QED
    BY <2>1, <2>2
<1>10. /\ m \in SentMessage /\ m.size \in Nat /\ Width(m.size) \in 1..2
       /\ End(s, k + 1) = c + 1 + Width(m.size) + m.size
       /\ End(s, k + 1) - c <= Len(bytes)
  <2> DEFINE j == k + 1
  <2>1. j \in 1..Len(s) /\ j - 1 = k
    BY <1>8
  <2> HIDE DEF m, j
  <2>2. /\ End(s, j - 1) \in Nat
        /\ s[j] \in SentMessage /\ s[j].size \in Nat /\ Width(s[j].size) \in 1..2
        /\ End(s, j) = End(s, j - 1) + 1 + Width(s[j].size) + s[j].size
        /\ End(s, j) - c <= Len(bytes)
    BY <1>1, <1>5, <1>6, <2>1, AheadHasRoom
  <2> QED
    BY <1>5, <2>1, <2>2 DEF m, j
<1>11. SizeAt(after, 0, m.size)
  <2>1. Len(bytes) = 1 + Len(after) /\ \A i \in 1..Len(after) : after[i] = bytes[1 + i]
    BY <1>5 DEF Shortened
  <2>2. Len(after) \in Nat /\ 1 + Width(m.size) <= Len(bytes)
    <3> DEFINE w == Width(m.size)
               e == End(s, k + 1)
    <3>1. /\ e = c + 1 + w + m.size /\ e - c <= Len(bytes) /\ w \in 1..2
          /\ m.size \in Nat /\ Len(bytes) \in Nat /\ c \in Nat
      BY <1>2, <1>5, <1>10
    <3>2. Len(after) = Len(bytes) - 1
      <4>1. after \in Seq(Nat) /\ Len(after) \in Nat
        BY <1>5 DEF Shortened
      <4> QED
        BY <2>1, <3>1, <4>1
    <3> HIDE DEF w, e, m
    <3>3. Len(bytes) >= 1 + w
      BY <3>1
    <3> QED
      BY <3>1, <3>2, <3>3 DEF w
  <2>3. after[1] = bytes[2]
    <3>1. 1 \in 1..Len(after) /\ 1 + 1 = 2
      BY <1>10, <2>1, <2>2
    <3> QED
      BY <2>1, <3>1
  <2>4. ASSUME Width(m.size) = 2 PROVE after[2] = bytes[3]
    <3>1. 2 \in 1..Len(after) /\ 1 + 2 = 3
      BY <2>1, <2>2, <2>4
    <3> QED
      BY <2>1, <3>1
  <2>5. SizeAt(bytes, 1, m.size)
    BY <1>9 DEF MessageAt
  <2> HIDE DEF m
  <2> QED
    BY <2>3, <2>4, <2>5 DEF SizeAt, Width
<1>12. Facing(rest, f, r, s, k + 1) /\ r - Len(rest) = (r - Len(d)) + 1
  <2> DEFINE l == k + 1
  <2>1. /\ l \in 0..Len(s) /\ k <= l /\ 1 \in Nat
        /\ (r - Len(d)) + 1 <= End(s, l)
    <3> DEFINE w == Width(m.size)
               e == End(s, l)
    <3>1. e = c + 1 + w + m.size /\ w \in 1..2 /\ m.size \in Nat /\ c \in Nat
      BY <1>5, <1>10
    <3> HIDE DEF w, e, m
    <3>2. c + 1 <= e
      BY <3>1
    <3> QED
      BY <1>8, <3>2 DEF c, e
  <2> HIDE DEF l
  <2>2. Facing(rest, f, r, s, l) /\ r - Len(rest) = (r - Len(d)) + 1
    BY <2>1, FacingMoves
  <2> QED
    BY <2>2 DEF l
<1>13. d[1] = m.tag
  BY <1>5, <1>9 DEF MessageAt
<1> QED
  BY <1>5, <1>7, <1>11, <1>12, <1>13 DEF c, after

(* onGotMessageTag(): the tag is there, and the first byte of the size.    *)
LEMMA TagIsGot ==
    ASSUME NEW p \in ParserRecord, NEW f, NEW r, NEW s, NEW v, Passed(p.messages, s),
           AtTag(p, f, r, s), Len(p.data) >= 2, ~p.thrown, p.messageSize = 0
    PROVE  InStream(GotMessageTag(p), f, r, s, v)
<1> DEFINE k == Len(p.messages)
           d == p.data
           rest == Tail(d)
           tagged == [p EXCEPT !.messageTag = Head(d), !.data = rest]
<1>1. Facing(d, f, r, s, k) /\ r - Len(d) = End(s, k)
  BY DEF AtTag
<1>2. d \in Seq(Nat) /\ Len(d) \in Nat
  BY DEF ParserRecord
<1>3. Shortened(d, rest, 1) /\ Head(d) = d[1] /\ Head(d) \in Nat
  <2>1. Len(d) > 0
    BY <1>2
  <2> HIDE DEF d
  <2> QED
    BY <1>2, <2>1, TailShortens
<1>4. /\ k < Len(s) /\ d[1] = s[k + 1].tag
      /\ Facing(rest, f, r, s, k + 1)
      /\ r - Len(rest) = End(s, k) + 1
      /\ SizeAt(rest \o f, 0, s[k + 1].size)
  <2> HIDE DEF k, d, rest
  <2> QED
    BY <1>1, <1>3, TagMoves DEF d
<1>5. rest \in Seq(Nat) /\ Len(rest) > 0
  BY <1>2, <1>3 DEF Shortened
<1>6. p.thrown = FALSE
  BY DEF ParserRecord
<1>7. GotMessageTag(p) = GotMessageSize(tagged)
  BY DEF GotMessageTag
<1>8. /\ tagged \in ParserRecord /\ tagged.messages = p.messages /\ tagged.data = rest
      /\ tagged.messageTag = Head(d) /\ tagged.messageSize = 0 /\ tagged.thrown = FALSE
  <2> HIDE DEF d, rest
  <2> QED
    BY <1>3, <1>5, <1>6 DEF ParserRecord
<1> HIDE DEF tagged
<1>9. AtSize(tagged, f, r, s)
  BY <1>3, <1>4, <1>8 DEF AtSize
<1> HIDE DEF rest, d, k
<1>10. InStream(GotMessageSize(tagged), f, r, s, v)
  BY <1>5, <1>8, <1>9, SizeIsGot
<1> QED
  BY <1>7, <1>10

(* onGotVersion(): the version is there, and the first two bytes of a      *)
(* message.                                                                *)
LEMMA VersionIsGot ==
    ASSUME NEW p \in ParserRecord, NEW f, NEW r, NEW s, NEW v,
           AtVersion(p, f, r, s, v), Len(p.data) >= 3, ~p.thrown, p.messageSize = 0
    PROVE  InStream(GotVersion(p), f, r, s, v)
<1> DEFINE d == p.data
           rest == Tail(d)
           read == [p EXCEPT !.data = rest]
<1>1. /\ p.messages = << >> /\ Facing(d, f, r, s, 0) /\ Len(d) = r
      /\ (d \o f)[1] = v
  BY DEF AtVersion
<1>2. /\ d \in Seq(Nat) /\ Len(d) \in Nat /\ f \in Seq(Nat) /\ s \in Seq(SentMessage)
      /\ Len(s) \in Nat /\ r \in Nat
  BY <1>1 DEF ParserRecord, Facing
<1>3. Shortened(d, rest, 1) /\ Head(d) = d[1] /\ Head(d) \in Nat
  <2>1. Len(d) > 0
    BY <1>2
  <2> HIDE DEF d
  <2> QED
    BY <1>2, <2>1, TailShortens
<1>4. Head(d) = v
  <2>1. (d \o f)[1] = d[1]
    <3>1. 1 \in 1..Len(d)
      BY <1>2
    <3> HIDE DEF d
    <3> QED
      BY <1>2, <3>1, Concatenated
  <2> QED
    BY <1>1, <1>3, <2>1
<1>5. Facing(rest, f, r, s, 0) /\ r - Len(rest) = End(s, 0)
  <2>1. End(s, 0) = 1
    BY <1>2, EndIs
  <2>2. 0 \in 0..Len(s) /\ 0 <= 0 /\ 1 \in Nat /\ (r - Len(d)) + 1 <= End(s, 0)
    BY <1>1, <1>2, <2>1
  <2> HIDE DEF d, rest
  <2>3. Facing(rest, f, r, s, 0) /\ r - Len(rest) = (r - Len(d)) + 1
    BY <1>1, <1>3, <2>2, FacingMoves
  <2> QED
    BY <1>1, <1>2, <2>1, <2>3
<1>6. rest \in Seq(Nat) /\ Len(rest) >= 2
  BY <1>2, <1>3 DEF Shortened
<1>7. p.thrown = FALSE
  BY DEF ParserRecord
<1>8. /\ read \in ParserRecord /\ read.messages = << >> /\ read.data = rest
      /\ read.messageSize = 0 /\ read.thrown = FALSE
  <2> HIDE DEF d, rest
  <2> QED
    BY <1>1, <1>6, <1>7 DEF ParserRecord
<1>9. GotVersion(p) = IF v < 41 /\ v # 38 THEN Throws(read)
                             ELSE GotMessageTag(read)
  BY <1>4 DEF GotVersion
<1> HIDE DEF read, rest, d
<1>10. Passed(read.messages, s)
  BY <1>2, <1>8 DEF Passed
<1>11. CASE v < 41 /\ v # 38
  <2> DEFINE q == Throws(read)
  <2>1. q = [read EXCEPT !.thrown = TRUE]
    BY DEF Throws
  <2> HIDE DEF q
  <2>2. /\ q \in ParserRecord /\ q.messages = << >> /\ q.thrown = TRUE
        /\ q.messageSize = 0
    BY <1>8, <2>1 DEF ParserRecord
  <2>3. BadData(q, r, s, v)
    BY <1>11, <2>2 DEF BadData
  <2>4. InStream(q, f, r, s, v)
    BY <1>8, <1>10, <2>2, <2>3 DEF InStream
  <2> QED
    BY <1>9, <1>11, <2>4 DEF q
<1>12. CASE ~(v < 41 /\ v # 38)
  <2>1. AtTag(read, f, r, s)
    BY <1>5, <1>8 DEF AtTag
  <2>2. InStream(GotMessageTag(read), f, r, s, v)
    BY <1>6, <1>8, <1>10, <2>1, TagIsGot
  <2> QED
    BY <1>9, <1>12, <2>2
<1> QED
  BY <1>11, <1>12

LEMMA Associative ==
    ASSUME NEW a \in Seq(Nat), NEW b \in Seq(Nat), NEW c \in Seq(Nat)
    PROVE  (a \o b) \o c = a \o (b \o c)
  BY ConcatAssociative

Chunk(f, n) == SubSeq(f, 1, n)

(* A chunk of n bytes goes from what is on its way to what is kept.        *)
LEMMA ChunkMoves ==
    ASSUME NEW d \in Seq(Nat), NEW f \in Seq(Nat), NEW n \in 1..Len(f)
    PROVE  /\ d \o Chunk(f, n) \in Seq(Nat) /\ Skip(f, n) \in Seq(Nat)
           /\ (d \o Chunk(f, n)) \o Skip(f, n) = d \o f
           /\ Len(d \o Chunk(f, n)) = Len(d) + n
<1> DEFINE chunk == Chunk(f, n)
<1> DEFINE rest == Skip(f, n)
<1>1. Len(f) \in Nat /\ \A i \in 1..Len(f) : f[i] \in Nat
  OBVIOUS
<1>2. chunk \in Seq(Nat) /\ Len(chunk) = n
  BY <1>1 DEF Chunk
<1>3. rest = SubSeq(f, n + 1, Len(f))
  BY DEF Skip
<1>4. rest \in Seq(Nat)
  BY <1>1, <1>3
<1>5. chunk \o rest = f
  <2>1. 1 \in 1..(Len(f) + 1) /\ n \in (1 - 1)..Len(f) /\ Len(f) \in n..Len(f)
    BY <1>1
  <2>2. SubSeq(f, 1, n) \o SubSeq(f, n + 1, Len(f)) = SubSeq(f, 1, Len(f))
    BY <2>1, ConcatAdjacentSubSeq
  <2>3. SubSeq(f, 1, Len(f)) = f
    BY SubSeqFull
  <2> QED
    BY <1>3, <2>2, <2>3 DEF Chunk
<1> HIDE DEF rest, chunk
<1>6. (d \o chunk) \o rest = d \o (chunk \o rest)
  BY <1>2, <1>4, Associative
<1>7. d \o chunk \in Seq(Nat) /\ Len(d \o chunk) = Len(d) + n
  BY <1>2, Concatenated
<1> QED
  BY <1>2, <1>4, <1>5, <1>6, <1>7 DEF rest, chunk

(* The parser stays where it is in the stream while bytes arrive and while *)
(* the server sends more of them.                                          *)
LEMMA FacingMore ==
    ASSUME NEW d, NEW f \in Seq(Nat), NEW r \in Nat, NEW s, NEW k, Facing(d, f, r, s, k),
           NEW n \in 1..Len(f)
    PROVE  /\ Facing(d \o Chunk(f, n), Skip(f, n), r + n, s, k)
           /\ (d \o Chunk(f, n)) \o Skip(f, n) = d \o f
           /\ Len(d \o Chunk(f, n)) = Len(d) + n
           /\ (r + n) - Len(d \o Chunk(f, n)) = r - Len(d)
<1>1. /\ d \in Seq(Nat) /\ f \in Seq(Nat) /\ r \in Nat /\ s \in Seq(SentMessage)
      /\ k \in 0..Len(s) /\ Len(d) <= r /\ Len(d) \in Nat
      /\ Ahead(d \o f, r - Len(d), s, k)
  BY DEF Facing
<1> DEFINE kept == d \o Chunk(f, n)
           rest == Skip(f, n)
<1>2. /\ kept \in Seq(Nat) /\ rest \in Seq(Nat)
      /\ kept \o rest = d \o f
      /\ Len(kept) = Len(d) + n
  <2>1. d \in Seq(Nat) /\ f \in Seq(Nat)
    BY <1>1
  <2> QED
    BY <2>1, ChunkMoves
<1>3. n \in Nat
  OBVIOUS
<1> HIDE DEF kept, rest
<1>4. r + n \in Nat /\ Len(kept) <= r + n /\ (r + n) - Len(kept) = r - Len(d)
  BY <1>1, <1>2, <1>3
<1>5. Facing(kept, rest, r + n, s, k)
  BY <1>1, <1>2, <1>4 DEF Facing
<1> QED
  BY <1>2, <1>4, <1>5 DEF kept, rest

(* More bytes behind a message do not change it.                           *)
LEMMA SizeAtKept ==
    ASSUME NEW m \in Nat, NEW bytes, NEW longer, NEW at \in Nat, NEW n \in Nat,
           SizeAt(bytes, at, m), at + Width(m) <= n,
           \A i \in 1..n : longer[i] = bytes[i]
    PROVE  SizeAt(longer, at, m)
<1>1. at + 1 \in 1..n
  BY DEF Width
<1>2. CASE m < BASE
  BY <1>1, <1>2 DEF SizeAt
<1>3. CASE ~(m < BASE)
  <2>1. at + 2 \in 1..n
    BY <1>3 DEF Width
  <2> QED
    BY <1>1, <1>3, <2>1 DEF SizeAt
<1> QED
  BY <1>2, <1>3

LEMMA AheadGrows ==
    ASSUME NEW s \in Seq(SentMessage), NEW c \in Nat,
           NEW bytes \in Seq(Nat), NEW k \in 0..Len(s), Ahead(bytes, c, s, k),
           NEW m \in SentMessage
    PROVE  Ahead(bytes \o Encoded(m), c, Append(s, m), k)
<1> DEFINE t == Append(s, m)
           e == Encoded(m)
           longer == bytes \o e
           N == Len(s)
<1>1. /\ t \in Seq(SentMessage) /\ Len(t) = N + 1 /\ N \in Nat
      /\ \A i \in 1..N : t[i] = s[i]
      /\ t[N + 1] = m
  BY Appended
<1>2. /\ e \in Seq(Nat) /\ Len(e) = 1 + Width(m.size) + m.size
      /\ e[1] = m.tag /\ SizeAt(e, 1, m.size)
      /\ m.size \in Nat /\ Width(m.size) \in 1..2
  BY EncodedIs, MessageIs
<1>3. /\ Len(longer) = Len(bytes) + Len(e)
      /\ \A i \in 1..Len(bytes) : longer[i] = bytes[i]
      /\ \A i \in 1..Len(e) : longer[Len(bytes) + i] = e[i]
  <2> HIDE DEF e
  <2> QED
    BY <1>2, Concatenated
<1>4. /\ \A i \in 0..N : End(t, i) = End(s, i)
      /\ End(t, N + 1) = End(t, N) + Len(e)
      /\ End(s, N) \in Nat
  <2>1. \A i \in 0..N : End(t, i) = End(s, i)
    BY EndIsKept
  <2>2. N + 1 \in 1..Len(t) /\ (N + 1) - 1 = N /\ N \in 0..N
    BY <1>1
  <2>3. End(t, N + 1) = End(t, (N + 1) - 1) + Len(Encoded(t[N + 1]))
    BY <1>1, <2>2, EndStep
  <2>4. End(s, N) \in Nat
    BY <2>2, EndIs
  <2> QED
    BY <1>1, <2>1, <2>2, <2>3, <2>4
<1> HIDE DEF t, e, longer
<1>5. c + Len(bytes) = End(s, N) /\ Len(bytes) \in Nat /\ Len(e) \in Nat
  BY <1>2 DEF Ahead
<1>6. c + Len(longer) = End(t, Len(t))
  <2>1. End(t, N) = End(s, N)
    BY <1>1, <1>4
  <2> QED
    BY <1>1, <1>3, <1>4, <1>5, <2>1
<1>7. ASSUME NEW j \in (k + 1)..Len(t)
      PROVE  MessageAt(longer, End(t, j - 1) - c, t[j])
  <2>1. CASE j <= N
    <3>1. /\ j \in (k + 1)..N /\ j \in 1..N /\ j - 1 \in 0..N /\ t[j] = s[j]
          /\ End(t, j - 1) = End(s, j - 1)
      BY <1>1, <1>4, <2>1
    <3> DEFINE x == End(s, j - 1)
               y == s[j]
               w == Width(y.size)
    <3>2. /\ x \in Nat /\ y \in SentMessage /\ y.size \in Nat /\ w \in 1..2
          /\ End(s, j) = x + 1 + w + y.size
          /\ End(s, j) - c <= Len(bytes)
      <4>1. c + Len(bytes) = End(s, Len(s))
        BY <1>5
      <4> HIDE DEF x, y, w, N
      <4> QED
        BY <3>1, <4>1, AheadHasRoom DEF x, y, w, N
    <3>3. MessageAt(bytes, x - c, y)
      BY <3>1 DEF Ahead
    <3> HIDE DEF x, y
    <3>4. x - c >= 0 /\ bytes[(x - c) + 1] = y.tag /\ SizeAt(bytes, (x - c) + 1, y.size)
      BY <3>3 DEF MessageAt
    <3> HIDE DEF w
    <3>5. PICK at \in Nat : at = x - c
      BY <3>2, <3>4
    <3>6. at + 1 + w <= Len(bytes)
      BY <1>5, <3>2, <3>5
    <3>7. at + 1 \in 1..Len(bytes) /\ (at + 1) + w <= Len(bytes) /\ at + 1 \in Nat
      BY <1>5, <3>2, <3>6
    <3>8. SizeAt(longer, at + 1, y.size)
      <4> DEFINE from == at + 1
                 n == Len(bytes)
                 z == y.size
      <4>1. /\ z \in Nat /\ from \in Nat /\ n \in Nat /\ SizeAt(bytes, from, z)
            /\ from + Width(z) <= n /\ \A i \in 1..n : longer[i] = bytes[i]
        BY <1>3, <1>5, <3>2, <3>4, <3>5, <3>7 DEF w
      <4> HIDE DEF from, n, z
      <4>2. SizeAt(longer, from, z)
        BY <4>1, SizeAtKept
      <4> QED
        BY <4>2 DEF from, z
    <3>9. MessageAt(longer, at, y)
      BY <1>3, <3>4, <3>5, <3>7, <3>8 DEF MessageAt
    <3> QED
      BY <3>1, <3>5, <3>9 DEF x, y
  <2>2. CASE j = N + 1
    <3> DEFINE at == Len(bytes)
    <3>1. End(t, j - 1) - c = at /\ t[j] = m
      <4>1. j - 1 = N /\ N \in 0..N
        BY <1>1, <2>2
      <4> QED
        BY <1>1, <1>4, <1>5, <2>2, <4>1
    <3>2. /\ longer[at + 1] = e[1] /\ longer[(at + 1) + 1] = e[2]
          /\ Width(m.size) = 2 => longer[(at + 1) + 2] = e[3]
      <4>1. 1 \in 1..Len(e) /\ 2 \in 1..Len(e) /\ (Width(m.size) = 2 => 3 \in 1..Len(e))
        BY <1>2, <1>5
      <4>2. (at + 1) + 1 = at + 2 /\ (at + 1) + 2 = at + 3
        BY <1>5
      <4> QED
        BY <1>3, <4>1, <4>2
    <3>3. SizeAt(longer, at + 1, m.size)
      <4>1. /\ m.size < BASE => e[2] = m.size
            /\ ~(m.size < BASE) => /\ e[2] = BASE + (m.size % BASE)
                                   /\ e[3] = m.size \div BASE
        BY <1>2 DEF SizeAt
      <4>2. ~(m.size < BASE) => Width(m.size) = 2
        BY DEF Width
      <4> HIDE DEF at
      <4> QED
        BY <3>2, <4>1, <4>2 DEF SizeAt
    <3>4. at >= 0
      BY <1>5
    <3> HIDE DEF at
    <3>5. MessageAt(longer, at, m)
      BY <1>2, <3>2, <3>3, <3>4 DEF MessageAt
    <3> QED
      BY <3>1, <3>5
  <2>3. j <= N \/ j = N + 1
    BY <1>1
  <2> QED
    BY <2>1, <2>2, <2>3
<1>8. Ahead(longer, c, t, k)
  BY <1>6, <1>7 DEF Ahead
<1> QED
  BY <1>8 DEF longer, e, t

LEMMA FacingGrows ==
    ASSUME NEW d, NEW f, NEW r, NEW s, NEW k, Facing(d, f, r, s, k), NEW m \in SentMessage
    PROVE  /\ Facing(d, f \o Encoded(m), r, Append(s, m), k)
           /\ \A i \in 1..Len(d \o f) :
                 (d \o (f \o Encoded(m)))[i] = (d \o f)[i]
<1>1. /\ d \in Seq(Nat) /\ f \in Seq(Nat) /\ r \in Nat /\ s \in Seq(SentMessage)
      /\ k \in 0..Len(s) /\ Len(d) <= r /\ Len(d) \in Nat
      /\ Ahead(d \o f, r - Len(d), s, k)
  BY DEF Facing
<1> DEFINE e == Encoded(m)
           bytes == d \o f
           c == r - Len(d)
           t == Append(s, m)
<1>2. e \in Seq(Nat)
  BY EncodedIs
<1>3. bytes \in Seq(Nat) /\ c \in Nat /\ Ahead(bytes, c, s, k)
  BY <1>1, Concatenated
<1>4. t \in Seq(SentMessage) /\ k \in 0..Len(t)
  <2>1. t \in Seq(SentMessage) /\ Len(t) = Len(s) + 1 /\ Len(s) \in Nat
    BY <1>1, Appended
  <2> QED
    BY <1>1, <2>1
<1>5. f \o e \in Seq(Nat)
  <2> HIDE DEF e
  <2> QED
    BY <1>1, <1>2, Concatenated
<1>6. bytes \o e = d \o (f \o e)
  <2> HIDE DEF e
  <2> QED
    BY <1>1, <1>2, Associative
<1>7. \A i \in 1..Len(bytes) : (bytes \o e)[i] = bytes[i]
  <2> HIDE DEF e, bytes
  <2> QED
    BY <1>2, <1>3, Concatenated
<1>8. Ahead(bytes \o e, c, t, k)
  <2> HIDE DEF bytes, c
  <2> QED
    BY <1>1, <1>3, AheadGrows
<1> HIDE DEF e, t
<1>9. Facing(d, f \o e, r, t, k)
  BY <1>1, <1>4, <1>5, <1>6, <1>8 DEF Facing
<1> QED
  BY <1>6, <1>7, <1>9 DEF e, t

(* ServerSends: the parser is where it was.                                *)
LEMMA StreamGrows ==
    ASSUME NEW p, NEW f, NEW r, NEW s, NEW v, InStream(p, f, r, s, v),
           p.thrown = FALSE, s \in Seq(SentMessage), NEW m \in SentMessage
    PROVE  InStream(p, f \o Encoded(m), r, Append(s, m), v)
<1> DEFINE g == f \o Encoded(m)
           t == Append(s, m)
           d == p.data
           k == Len(p.messages)
<1>1. /\ p \in ParserRecord /\ Passed(p.messages, s) /\ Position(p, f, r, s, v)
      /\ p.messageSize > 0 => p.state = "MCS_PROTO_BYTES"
  BY DEF InStream
<1>2. /\ t \in Seq(SentMessage) /\ Len(t) = Len(s) + 1 /\ Len(s) \in Nat
      /\ \A i \in 1..Len(s) : t[i] = s[i]
      /\ \A i \in 0..Len(s) : End(t, i) = End(s, i)
  BY Appended, EndIsKept
<1>3. ASSUME NEW j, Facing(d, f, r, s, j)
      PROVE  /\ Facing(d, g, r, t, j)
             /\ \A i \in 1..Len(d \o f) : (d \o g)[i] = (d \o f)[i]
  <2> HIDE DEF d
  <2>1. /\ Facing(d, f \o Encoded(m), r, Append(s, m), j)
        /\ \A i \in 1..Len(d \o f) :
              (d \o (f \o Encoded(m)))[i] = (d \o f)[i]
    BY <1>3, FacingGrows
  <2> QED
    BY <2>1
<1>4. Passed(p.messages, t)
  <2>1. p.messages \in Seq(SentMessage) /\ k \in Nat /\ k <= Len(s)
    BY <1>1 DEF Passed
  <2>2. \A i \in 1..k : i \in 1..Len(s)
    BY <1>2, <2>1
  <2> QED
    BY <1>1, <1>2, <2>1, <2>2 DEF Passed
<1>5. /\ k \in Nat
      /\ k <= Len(s) => End(t, k) = End(s, k)
      /\ k < Len(s) => /\ k < Len(t) /\ t[k + 1] = s[k + 1]
                       /\ End(t, k + 1) = End(s, k + 1)
  <2>1. k \in Nat
    BY <1>1 DEF ParserRecord
  <2>2. /\ k <= Len(s) => k \in 0..Len(s)
        /\ k < Len(s) => k < Len(t) /\ k + 1 \in 1..Len(s) /\ k + 1 \in 0..Len(s)
    BY <1>2, <2>1
  <2> HIDE DEF t
  <2> QED
    BY <1>2, <2>1, <2>2
<1> HIDE DEF g, t, d
<1>6. ASSUME p.state = "MCS_VERSION_TAG_AND_SIZE"
      PROVE  AtVersion(p, g, r, t, v)
  <2>1. /\ p.messages = << >> /\ Facing(d, f, r, s, 0) /\ Len(d) = r
        /\ (d \o f)[1] = v
    BY <1>1, <1>6 DEF Position, AtVersion, d
  <2>2. /\ Facing(d, g, r, t, 0)
        /\ \A i \in 1..Len(d \o f) : (d \o g)[i] = (d \o f)[i]
    BY <1>3, <2>1
  <2>3. 1 \in 1..Len(d \o f)
    <3>1. /\ d \in Seq(Nat) /\ f \in Seq(Nat) /\ r \in Nat
          /\ (r - Len(d)) + Len(d \o f) = End(s, Len(s))
      BY <2>1 DEF Facing, Ahead
    <3>2. Len(d \o f) \in Nat /\ Len(d) \in Nat
      <4>1. d \o f \in Seq(Nat)
        BY <3>1, Concatenated
      <4> QED
        BY <3>1, <4>1
    <3>3. End(s, Len(s)) \in Nat /\ End(s, Len(s)) > 0
      BY <1>2, EndIs
    <3> QED
      BY <2>1, <3>1, <3>2, <3>3
  <2> QED
    BY <2>1, <2>2, <2>3 DEF AtVersion, d
<1>7. ASSUME p.state = "MCS_TAG_AND_SIZE"
      PROVE  AtTag(p, g, r, t)
  <2>1. Facing(d, f, r, s, k) /\ r - Len(d) = End(s, k)
    BY <1>1, <1>7 DEF Position, AtTag, d
  <2>2. Facing(d, g, r, t, k)
    BY <1>3, <2>1
  <2>3. k <= Len(s)
    BY <1>1 DEF Passed
  <2> QED
    BY <1>5, <2>1, <2>2, <2>3 DEF AtTag, d
<1>8. ASSUME p.state = "MCS_SIZE"
      PROVE  AtSize(p, g, r, t) /\ p.sizePacketSoFar < Width(t[k + 1].size)
  <2>1. /\ k < Len(s) /\ Facing(d, f, r, s, k + 1)
        /\ r - Len(d) = End(s, k) + 1
        /\ p.messageTag = s[k + 1].tag /\ SizeAt(d \o f, 0, s[k + 1].size)
        /\ p.sizePacketSoFar < Width(s[k + 1].size)
    BY <1>1, <1>8 DEF Position, AtSize, d
  <2>2. /\ Facing(d, g, r, t, k + 1)
        /\ \A i \in 1..Len(d \o f) : (d \o g)[i] = (d \o f)[i]
    BY <1>3, <2>1
  <2>3. /\ s[k + 1].size \in Nat /\ 0 + Width(s[k + 1].size) <= Len(d \o f)
        /\ Len(d \o f) \in Nat
    <3> DEFINE j == k + 1
               bytes == d \o f
               c == r - Len(d)
               x == End(s, j)
               y == s[j].size
    <3>1. /\ j \in 1..Len(s) /\ j - 1 = k
      BY <1>2, <1>5, <2>1
    <3>2. /\ d \in Seq(Nat) /\ f \in Seq(Nat) /\ r \in Nat /\ Len(d) <= r
          /\ c + Len(bytes) = End(s, Len(s))
      BY <2>1 DEF Facing, Ahead
    <3>3. bytes \in Seq(Nat) /\ c \in Nat /\ Len(bytes) \in Nat
      <4>1. Len(d) \in Nat
        BY <3>2
      <4>2. bytes \in Seq(Nat)
        BY <3>2, Concatenated
      <4> QED
        BY <3>2, <4>1, <4>2
    <3> HIDE DEF j, bytes, c
    <3>4. /\ End(s, j - 1) \in Nat
          /\ y \in Nat /\ Width(y) \in 1..2
          /\ x = End(s, j - 1) + 1 + Width(y) + y
          /\ x - c <= Len(bytes)
      BY <3>1, <3>2, <3>3, AheadHasRoom
    <3>5. c = End(s, j - 1) + 1
      BY <2>1, <3>1 DEF c
    <3> HIDE DEF x, y
    <3>6. 0 + Width(y) <= Len(bytes)
      BY <3>3, <3>4, <3>5
    <3> QED
      BY <3>3, <3>4, <3>6 DEF bytes, y, j
  <2>4. SizeAt(d \o g, 0, s[k + 1].size)
    <3> DEFINE bytes == d \o f
               longer == d \o g
               z == s[k + 1].size
               n == Len(bytes)
    <3>1. /\ z \in Nat /\ n \in Nat /\ SizeAt(bytes, 0, z) /\ 0 + Width(z) <= n
          /\ 0 \in Nat /\ \A i \in 1..n : longer[i] = bytes[i]
      BY <2>1, <2>2, <2>3
    <3> HIDE DEF bytes, longer, z, n
    <3>2. SizeAt(longer, 0, z)
      BY <3>1, SizeAtKept
    <3> QED
      BY <3>2 DEF longer, z
  <2> QED
    BY <1>5, <2>1, <2>2, <2>4 DEF AtSize, d
<1>9. ASSUME p.state = "MCS_PROTO_BYTES"
      PROVE  AtBody(p, g, r, t)
  <2>1. /\ k < Len(s) /\ Facing(d, f, r, s, k + 1)
        /\ (r - Len(d)) + s[k + 1].size = End(s, k + 1)
        /\ p.messageTag = s[k + 1].tag /\ p.messageSize = s[k + 1].size
    BY <1>1, <1>9 DEF Position, AtBody, d
  <2>2. Facing(d, g, r, t, k + 1)
    BY <1>3, <2>1
  <2> QED
    BY <1>5, <2>1, <2>2 DEF AtBody, d
<1>10. InStream(p, g, r, t, v)
  BY <1>1, <1>4, <1>6, <1>7, <1>8, <1>9 DEF InStream, Position
<1> QED
  BY <1>10 DEF g, t

(* HandleData: the parser is where it was.                                 *)
LEMMA StreamMoves ==
    ASSUME NEW p, NEW f \in Seq(Nat), NEW r \in Nat, NEW s, NEW v, InStream(p, f, r, s, v),
           p.thrown = FALSE, NEW n \in 1..Len(f), NEW q,
           q = [p EXCEPT !.data = p.data \o Chunk(f, n), !.isWaitingForData = FALSE]
    PROVE  InStream(q, Skip(f, n), r + n, s, v)
<1> DEFINE g == Skip(f, n)
           kept == p.data \o Chunk(f, n)
           d == p.data
           k == Len(p.messages)
<1>1. /\ p \in ParserRecord /\ Passed(p.messages, s) /\ Position(p, f, r, s, v)
      /\ p.messageSize > 0 => p.state = "MCS_PROTO_BYTES"
  BY DEF InStream
<1>2. kept \in Seq(Nat) /\ Len(kept) = Len(d) + n
  <2>1. d \in Seq(Nat)
    BY <1>1 DEF ParserRecord
  <2> HIDE DEF d
  <2> QED
    BY <2>1, ChunkMoves DEF d
<1>3. ASSUME NEW j, Facing(d, f, r, s, j)
      PROVE  /\ Facing(kept, g, r + n, s, j) /\ kept \o g = d \o f
             /\ (r + n) - Len(kept) = r - Len(d)
  <2> HIDE DEF d
  <2>1. /\ Facing(d \o Chunk(f, n), Skip(f, n), r + n, s, j)
        /\ (d \o Chunk(f, n)) \o Skip(f, n) = d \o f
        /\ Len(d \o Chunk(f, n)) = Len(d) + n
        /\ (r + n) - Len(d \o Chunk(f, n)) = r - Len(d)
    BY <1>3, FacingMore
  <2> QED
    BY <2>1 DEF d
<1> HIDE DEF kept, g
<1>4. /\ q \in ParserRecord /\ q.data = kept /\ q.messages = p.messages
      /\ q.state = p.state /\ q.thrown = FALSE /\ q.messageSize = p.messageSize
      /\ q.messageTag = p.messageTag /\ q.sizePacketSoFar = p.sizePacketSoFar
      /\ q.isWaitingForData = FALSE
  BY <1>1, <1>2 DEF ParserRecord, kept
<1>5. ASSUME p.state = "MCS_VERSION_TAG_AND_SIZE"
      PROVE  AtVersion(q, g, r + n, s, v)
  <2>1. /\ p.messages = << >> /\ Facing(d, f, r, s, 0) /\ Len(d) = r
        /\ (d \o f)[1] = v
    BY <1>1, <1>5 DEF Position, AtVersion
  <2>2. Facing(kept, g, r + n, s, 0) /\ kept \o g = d \o f
    BY <1>3, <2>1
  <2> QED
    BY <1>2, <1>4, <2>1, <2>2 DEF AtVersion
<1>6. ASSUME p.state = "MCS_TAG_AND_SIZE"
      PROVE  AtTag(q, g, r + n, s)
  <2>1. Facing(d, f, r, s, k) /\ r - Len(d) = End(s, k)
    BY <1>1, <1>6 DEF Position, AtTag
  <2> QED
    BY <1>3, <1>4, <2>1 DEF AtTag
<1>7. ASSUME p.state = "MCS_SIZE"
      PROVE  AtSize(q, g, r + n, s) /\ q.sizePacketSoFar < Width(s[k + 1].size)
  <2>1. /\ k < Len(s) /\ Facing(d, f, r, s, k + 1)
        /\ r - Len(d) = End(s, k) + 1
        /\ p.messageTag = s[k + 1].tag /\ SizeAt(d \o f, 0, s[k + 1].size)
        /\ p.sizePacketSoFar < Width(s[k + 1].size)
    BY <1>1, <1>7 DEF Position, AtSize
  <2>2. /\ Facing(kept, g, r + n, s, k + 1) /\ kept \o g = d \o f
        /\ (r + n) - Len(kept) = r - Len(d)
    BY <1>3, <2>1
  <2> QED
    BY <1>4, <2>1, <2>2 DEF AtSize
<1>8. ASSUME p.state = "MCS_PROTO_BYTES"
      PROVE  AtBody(q, g, r + n, s)
  <2>1. /\ k < Len(s) /\ Facing(d, f, r, s, k + 1)
        /\ (r - Len(d)) + s[k + 1].size = End(s, k + 1)
        /\ p.messageTag = s[k + 1].tag /\ p.messageSize = s[k + 1].size
    BY <1>1, <1>8 DEF Position, AtBody
  <2>2. /\ Facing(kept, g, r + n, s, k + 1)
        /\ (r + n) - Len(kept) = r - Len(d)
    BY <1>3, <2>1
  <2> QED
    BY <1>4, <2>1, <2>2 DEF AtBody
<1>9. InStream(q, g, r + n, s, v)
  BY <1>1, <1>4, <1>5, <1>6, <1>7, <1>8 DEF InStream, Position
<1> QED
  BY <1>9 DEF g

(***************************************************************************)
(* The invariant: the parser is where the stream is, and it waits only for *)
(* what it misses.                                                         *)
(***************************************************************************)
WaitsForMore(p) ==
    p.isWaitingForData =>
        p.thrown = FALSE /\ ~(Len(p.data) >= MinBytesNeeded(p))

ParserInv ==
    /\ InStream(parser, inFlight, received, sent, version)
    /\ WaitsForMore(parser)
    /\ inFlight \in Seq(Nat) /\ sent \in Seq(SentMessage) /\ received \in Nat
    /\ version \in Versions /\ connections \in 1..MaxConnections

(* A connection starts: the version is on its way.                         *)
LEMMA FreshStream ==
    ASSUME NEW v \in Versions, NEW x
    PROVE  /\ InStream(ResetState(x), <<v>>, 0, << >>, v)
           /\ WaitsForMore(ResetState(x))
           /\ <<v>> \in Seq(Nat) /\ << >> \in Seq(SentMessage)
<1> DEFINE p == ResetState(x)
           s == << >>
           f == <<v>>
<1>1. p = [state |-> "MCS_VERSION_TAG_AND_SIZE", data |-> << >>,
           isWaitingForData |-> TRUE, sizePacketSoFar |-> 0, messageSize |-> 0,
           messageTag |-> 0, messages |-> << >>, thrown |-> FALSE]
  BY DEF ResetState
<1> HIDE DEF p
<1>2. p \in ParserRecord
  <2>1. /\ "MCS_VERSION_TAG_AND_SIZE" \in ProcessingState /\ 0 \in Nat
        /\ << >> \in Seq(Nat) /\ << >> \in Seq(SentMessage)
    BY DEF ProcessingState
  <2> QED
    BY <1>1, <2>1 DEF ParserRecord
<1>3. /\ p.state = "MCS_VERSION_TAG_AND_SIZE" /\ p.data = << >> /\ p.messageSize = 0
      /\ p.messages = << >> /\ p.thrown = FALSE
  BY <1>1
<1>4. /\ v \in Nat /\ f \in Seq(Nat) /\ Len(f) = 1 /\ f[1] = v
      /\ s \in Seq(SentMessage) /\ Len(s) = 0 /\ << >> \in Seq(Nat)
  BY ParserAssumption
<1>5. << >> \o f = f
  BY <1>4, ConcatEmptySeq
<1>6. End(s, 0) = 1
  BY <1>4, EndIs
<1> HIDE DEF s, f
<1>7. Ahead(f, 0, s, 0)
  BY <1>4, <1>6 DEF Ahead
<1>8. Facing(<< >>, f, 0, s, 0)
  BY <1>4, <1>5, <1>7 DEF Facing
<1>9. AtVersion(p, f, 0, s, v)
  BY <1>3, <1>4, <1>5, <1>8 DEF AtVersion
<1>10. Passed(p.messages, s)
  BY <1>3, <1>4 DEF Passed, s
<1>11. InStream(p, f, 0, s, v)
  BY <1>2, <1>3, <1>9, <1>10 DEF InStream, Position
<1>12. WaitsForMore(p)
  BY <1>3 DEF WaitsForMore, MinBytesNeeded
<1> QED
  BY <1>4, <1>11, <1>12 DEF p, s, f

LEMMA InvInit == ParserInit => ParserInv
<1> SUFFICES ASSUME ParserInit PROVE ParserInv
  OBVIOUS
<1>1. /\ version \in Versions /\ parser = ResetState([data |-> << >>])
      /\ sent = << >> /\ inFlight = <<version>> /\ received = 0 /\ connections = 1
  BY DEF ParserInit
<1>2. /\ InStream(parser, inFlight, received, sent, version) /\ WaitsForMore(parser)
      /\ inFlight \in Seq(Nat) /\ sent \in Seq(SentMessage)
  BY <1>1, FreshStream
<1> QED
  BY <1>1, <1>2, ParserAssumption DEF ParserInv

(* The handlers do not touch isWaitingForData.                             *)
LEMMA KeepsRunning ==
    ASSUME NEW p \in ParserRecord, p.isWaitingForData = FALSE
    PROVE  /\ GotMessageBytes(p).isWaitingForData = FALSE
           /\ GotMessageSize(p).isWaitingForData = FALSE
           /\ GotMessageTag(p).isWaitingForData = FALSE
           /\ GotVersion(p).isWaitingForData = FALSE
<1> DEFINE Fields == {"state", "data", "isWaitingForData", "sizePacketSoFar",
                      "messageSize", "messageTag", "messages", "thrown"}
           Quiet(q) == q = [i \in Fields |-> q[i]] /\ q.isWaitingForData = FALSE
<1>1. Quiet(p)
  BY DEF ParserRecord
<1>2. ASSUME NEW q, Quiet(q)
      PROVE  Quiet(GotMessageBytes(q))
  BY <1>2 DEF GotMessageBytes, Throws, NextMessage
<1>3. ASSUME NEW q, Quiet(q)
      PROVE  Quiet(GotMessageSize(q))
  <2> DEFINE sized == [q EXCEPT !.messageSize = SizeValue(q.data),
                                !.data = Skip(q.data, SizeEnd(q.data)),
                                !.sizePacketSoFar = 0]
             short == [q EXCEPT !.sizePacketSoFar = Len(q.data), !.state = "MCS_SIZE"]
  <2>1. GotMessageSize(q) = IF SizeEnd(q.data) = 0 THEN short
                                   ELSE IF sized.messageSize > 0
                                   THEN [sized EXCEPT !.state = "MCS_PROTO_BYTES"]
                                   ELSE GotMessageBytes(sized)
    BY DEF GotMessageSize
  <2>2. Quiet(sized) /\ Quiet(short) /\ Quiet([sized EXCEPT !.state = "MCS_PROTO_BYTES"])
    BY <1>3
  <2> HIDE DEF sized, short, Quiet
  <2>3. Quiet(GotMessageBytes(sized))
    BY <1>2, <2>2
  <2> QED
    BY <2>1, <2>2, <2>3
<1>4. ASSUME NEW q, Quiet(q)
      PROVE  Quiet(GotMessageTag(q))
  <2> DEFINE tagged == [q EXCEPT !.messageTag = Head(q.data), !.data = Tail(q.data)]
  <2>1. Quiet(tagged)
    BY <1>4
  <2>2. GotMessageTag(q) = GotMessageSize(tagged)
    BY DEF GotMessageTag
  <2> HIDE DEF tagged, Quiet
  <2> QED
    BY <1>3, <2>1, <2>2
<1>5. ASSUME NEW q, Quiet(q)
      PROVE  Quiet(GotVersion(q))
  <2> DEFINE read == [q EXCEPT !.data = Tail(q.data)]
  <2>1. Quiet(read) /\ Quiet(Throws(read))
    BY <1>5 DEF Throws
  <2>2. \/ GotVersion(q) = GotMessageTag(read)
        \/ GotVersion(q) = Throws(read)
    BY DEF GotVersion
  <2> HIDE DEF read, Quiet
  <2> QED
    BY <1>4, <2>1, <2>2
<1> HIDE DEF Fields
<1> QED
  BY <1>1, <1>2, <1>3, <1>4, <1>5

LEMMA InvStep == ParserInv /\ [ParserNext]_parserVars => ParserInv'
<1> SUFFICES ASSUME ParserInv, [ParserNext]_parserVars
             PROVE  ParserInv'
  OBVIOUS
<1>1. /\ InStream(parser, inFlight, received, sent, version) /\ WaitsForMore(parser)
      /\ inFlight \in Seq(Nat) /\ sent \in Seq(SentMessage) /\ received \in Nat
      /\ version \in Versions /\ connections \in 1..MaxConnections
  BY DEF ParserInv
<1>2. /\ parser \in ParserRecord /\ Passed(parser.messages, sent)
      /\ parser.messageSize > 0 => parser.state = "MCS_PROTO_BYTES"
      /\ parser.thrown = FALSE => Position(parser, inFlight, received, sent, version)
      /\ parser.thrown \in BOOLEAN /\ parser.isWaitingForData \in BOOLEAN
      /\ parser.messageSize \in Nat /\ parser.state \in ProcessingState
      /\ Len(parser.data) \in Nat
  BY <1>1 DEF InStream, ParserRecord
<1>3. ASSUME NEW tag \in ServerTags, NEW size \in Sizes,
             ServerSends([tag |-> tag, size |-> size])
      PROVE  ParserInv'
  <2> DEFINE m == [tag |-> tag, size |-> size]
  <2>1. m \in SentMessage
    BY DEF SentMessage
  <2> HIDE DEF m
  <2>2. /\ parser.isWaitingForData /\ sent' = Append(sent, m)
        /\ inFlight' = inFlight \o Encoded(m)
        /\ UNCHANGED <<parser, received, version, connections>>
    BY <1>3 DEF ServerSends, m
  <2>3. parser.thrown = FALSE
    BY <1>1, <2>2 DEF WaitsForMore
  <2>4. InStream(parser, inFlight \o Encoded(m), received, Append(sent, m), version)
    BY <1>1, <2>1, <2>3, StreamGrows
  <2>5. inFlight \o Encoded(m) \in Seq(Nat) /\ Append(sent, m) \in Seq(SentMessage)
    <3>1. Encoded(m) \in Seq(Nat)
      BY <2>1, EncodedIs
    <3> QED
      BY <1>1, <2>1, <3>1, Concatenated, Appended
  <2> QED
    BY <1>1, <2>2, <2>4, <2>5 DEF ParserInv
<1>4. ASSUME NEW n \in 1..Len(inFlight), HandleData(n)
      PROVE  ParserInv'
  <2>1. /\ parser.isWaitingForData
        /\ parser' = [parser EXCEPT !.data = parser.data \o Chunk(inFlight, n),
                                    !.isWaitingForData = FALSE]
        /\ inFlight' = Skip(inFlight, n) /\ received' = received + n
        /\ UNCHANGED <<sent, version, connections>>
    BY <1>4 DEF HandleData, Chunk
  <2>2. parser.thrown = FALSE
    BY <1>1, <2>1 DEF WaitsForMore
  <2>3. InStream(parser', Skip(inFlight, n), received + n, sent, version)
    <3> DEFINE q == parser'
    <3>1. q = [parser EXCEPT !.data = parser.data \o Chunk(inFlight, n),
                             !.isWaitingForData = FALSE]
      BY <2>1
    <3> HIDE DEF q
    <3>2. InStream(q, Skip(inFlight, n), received + n, sent, version)
      BY <1>1, <2>2, <3>1, StreamMoves
    <3> QED
      BY <3>2 DEF q
  <2>4. Skip(inFlight, n) \in Seq(Nat) /\ received + n \in Nat
    <3>1. << >> \in Seq(Nat)
      OBVIOUS
    <3>2. Skip(inFlight, n) \in Seq(Nat)
      BY <1>1, <3>1, ChunkMoves
    <3> QED
      BY <1>1, <3>2
  <2>5. WaitsForMore(parser')
    BY <1>2, <2>1 DEF WaitsForMore, ParserRecord
  <2> QED
    BY <1>1, <2>1, <2>3, <2>4, <2>5 DEF ParserInv
<1>5. CASE WaitForData
  <2>1. /\ ~parser.isWaitingForData /\ ~parser.thrown
        /\ ~(Len(parser.data) >= MinBytesNeeded(parser))
        /\ parser' = [parser EXCEPT !.isWaitingForData = TRUE]
        /\ UNCHANGED <<sent, inFlight, received, version, connections>>
    BY <1>5 DEF WaitForData, Running, Enough
  <2> DEFINE q == parser'
  <2>2. /\ q \in ParserRecord /\ q.state = parser.state /\ q.data = parser.data
        /\ q.messages = parser.messages /\ q.messageSize = parser.messageSize
        /\ q.messageTag = parser.messageTag
        /\ q.sizePacketSoFar = parser.sizePacketSoFar /\ q.thrown = FALSE
    BY <1>2, <2>1 DEF ParserRecord
  <2> HIDE DEF q
  <2>3. Position(parser, inFlight, received, sent, version)
    BY <1>2, <2>1
  <2>4. Position(q, inFlight, received, sent, version)
    <3>1. /\ AtVersion(parser, inFlight, received, sent, version)
                => AtVersion(q, inFlight, received, sent, version)
          /\ AtTag(parser, inFlight, received, sent) => AtTag(q, inFlight, received, sent)
          /\ AtSize(parser, inFlight, received, sent) => AtSize(q, inFlight, received, sent)
          /\ AtBody(parser, inFlight, received, sent) => AtBody(q, inFlight, received, sent)
      BY <2>2 DEF AtVersion, AtTag, AtSize, AtBody
    <3> QED
      BY <2>2, <2>3, <3>1 DEF Position
  <2>5. InStream(q, inFlight, received, sent, version)
    BY <1>2, <2>2, <2>4 DEF InStream
  <2>6. MinBytesNeeded(q) = MinBytesNeeded(parser)
    BY <2>2 DEF MinBytesNeeded
  <2>7. WaitsForMore(q)
    BY <2>1, <2>2, <2>6 DEF WaitsForMore
  <2> QED
    BY <1>1, <2>1, <2>5, <2>7 DEF ParserInv, q
<1>6. CASE HandleFullMessage
  <2>1. /\ ~parser.isWaitingForData /\ ~parser.thrown
        /\ Len(parser.data) >= MinBytesNeeded(parser)
        /\ UNCHANGED <<sent, inFlight, received, version, connections>>
    BY <1>6 DEF HandleFullMessage, Running, Enough
  <2>2. /\ parser.state = "MCS_VERSION_TAG_AND_SIZE" => parser' = GotVersion(parser)
        /\ parser.state = "MCS_TAG_AND_SIZE" => parser' = GotMessageTag(parser)
        /\ parser.state = "MCS_SIZE" => parser' = GotMessageSize(parser)
        /\ parser.state = "MCS_PROTO_BYTES" => parser' = GotMessageBytes(parser)
    BY <1>6 DEF HandleFullMessage
  <2>3. /\ parser.state = "MCS_VERSION_TAG_AND_SIZE" => Len(parser.data) >= 3
        /\ parser.state = "MCS_TAG_AND_SIZE" => Len(parser.data) >= 2
        /\ parser.state = "MCS_SIZE" => Len(parser.data) >= parser.sizePacketSoFar + 1
        /\ parser.state = "MCS_PROTO_BYTES" => Len(parser.data) >= parser.messageSize
    BY <2>1 DEF MinBytesNeeded
  <2>4. Position(parser, inFlight, received, sent, version) /\ parser.isWaitingForData = FALSE
    BY <1>2, <2>1
  <2>5. /\ GotMessageBytes(parser).isWaitingForData = FALSE
        /\ GotMessageSize(parser).isWaitingForData = FALSE
        /\ GotMessageTag(parser).isWaitingForData = FALSE
        /\ GotVersion(parser).isWaitingForData = FALSE
    BY <1>2, <2>4, KeepsRunning
  <2>6. CASE parser.state = "MCS_VERSION_TAG_AND_SIZE"
    <3>1. AtVersion(parser, inFlight, received, sent, version) /\ parser.messageSize = 0
      BY <1>2, <2>4, <2>6 DEF Position
    <3>2. InStream(GotVersion(parser), inFlight, received, sent, version)
      BY <1>2, <2>1, <2>3, <2>6, <3>1, VersionIsGot
    <3> QED
      BY <1>1, <2>1, <2>2, <2>5, <2>6, <3>2 DEF ParserInv, WaitsForMore
  <2>7. CASE parser.state = "MCS_TAG_AND_SIZE"
    <3>1. AtTag(parser, inFlight, received, sent) /\ parser.messageSize = 0
      BY <1>2, <2>4, <2>7 DEF Position
    <3>2. InStream(GotMessageTag(parser), inFlight, received, sent, version)
      BY <1>2, <2>1, <2>3, <2>7, <3>1, TagIsGot
    <3> QED
      BY <1>1, <2>1, <2>2, <2>5, <2>7, <3>2 DEF ParserInv, WaitsForMore
  <2>8. CASE parser.state = "MCS_SIZE"
    <3>1. AtSize(parser, inFlight, received, sent) /\ parser.messageSize = 0
      BY <1>2, <2>4, <2>8 DEF Position
    <3>2. Len(parser.data) > 0
      <4>1. parser.sizePacketSoFar \in Nat
        BY <1>2 DEF ParserRecord
      <4> QED
        BY <1>2, <2>3, <2>8, <4>1
    <3>3. InStream(GotMessageSize(parser), inFlight, received, sent, version)
      BY <1>2, <2>1, <3>1, <3>2, SizeIsGot
    <3> QED
      BY <1>1, <2>1, <2>2, <2>5, <2>8, <3>3 DEF ParserInv, WaitsForMore
  <2>9. CASE parser.state = "MCS_PROTO_BYTES"
    <3>1. AtBody(parser, inFlight, received, sent)
      BY <2>4, <2>9 DEF Position
    <3>2. InStream(GotMessageBytes(parser), inFlight, received, sent, version)
      BY <1>2, <2>1, <2>3, <2>9, <3>1, BodyIsRead
    <3> QED
      BY <1>1, <2>1, <2>2, <2>5, <2>9, <3>2 DEF ParserInv, WaitsForMore
  <2> QED
    BY <1>2, <2>6, <2>7, <2>8, <2>9 DEF ProcessingState
<1>7. CASE Reconnect
  <2>1. /\ connections < MaxConnections /\ connections' = connections + 1
        /\ version' \in Versions /\ parser' = ResetState(parser)
        /\ sent' = << >> /\ inFlight' = <<version'>> /\ received' = 0
    BY <1>7 DEF Reconnect
  <2>2. connections' \in 1..MaxConnections
    BY <1>1, <2>1, ParserAssumption
  <2> DEFINE w == version'
  <2>3. w \in Versions
    BY <2>1
  <2> HIDE DEF w
  <2>4. /\ InStream(ResetState(parser), <<w>>, 0, << >>, w)
        /\ WaitsForMore(ResetState(parser))
        /\ <<w>> \in Seq(Nat) /\ << >> \in Seq(SentMessage)
    BY <2>3, FreshStream
  <2> QED
    BY <2>1, <2>2, <2>4 DEF ParserInv, w
<1>8. CASE UNCHANGED parserVars
  BY <1>1, <1>8 DEF ParserInv, parserVars
<1> QED
  BY <1>3, <1>4, <1>5, <1>6, <1>7, <1>8 DEF ParserNext

(* Types of the parser (PushClientParser).                                 *)
THEOREM ParserTypeCorrect == ParserSpec => []ParserTypeOK
<1>1. ParserInv => ParserTypeOK
  <2> SUFFICES ASSUME ParserInv PROVE ParserTypeOK
    OBVIOUS
  <2>1. /\ parser \in ParserRecord /\ (parser.messageSize > 0 => parser.state = "MCS_PROTO_BYTES")
        /\ inFlight \in Seq(Nat) /\ sent \in Seq(SentMessage) /\ received \in Nat
        /\ version \in Versions /\ connections \in 1..MaxConnections
    BY DEF ParserInv, InStream
  <2>2. SentMessage \subseteq Message
    <3>1. ServerTags \subseteq Nat /\ Sizes \subseteq Nat
      BY ParserAssumption
    <3> QED
      BY <3>1 DEF SentMessage, Message
  <2>3. Seq(SentMessage) \subseteq Seq(Message)
    BY <2>2
  <2> QED
    BY <2>1, <2>3 DEF ParserTypeOK, ParserRecord
<1> QED
  BY <1>1, InvInit, InvStep, PTL DEF ParserSpec

LEMMA PassedIsAPrefix ==
    ASSUME NEW messages, NEW s \in Seq(SentMessage), Passed(messages, s)
    PROVE  messages = SubSeq(s, 1, Len(messages))
<1> DEFINE k == Len(messages)
<1>1. /\ messages \in Seq(SentMessage) /\ k \in Nat /\ k <= Len(s)
      /\ \A i \in 1..k : messages[i] = s[i]
  BY DEF Passed
<1>2. Len(s) \in Nat /\ \A i \in 1..k : s[i] \in SentMessage
  BY <1>1
<1>3. /\ SubSeq(s, 1, k) \in Seq(SentMessage) /\ Len(SubSeq(s, 1, k)) = k
      /\ \A i \in 1..k : SubSeq(s, 1, k)[i] = s[i]
  BY <1>1, <1>2
<1> QED
  BY <1>1, <1>3, SeqEqual

(* However the stream is cut, a parser that waits has passed on exactly    *)
(* the messages that have arrived (handleData and the states).             *)
THEOREM EmittedIsArrived == ParserSpec => []EmitsWhatArrived
<1>1. ParserInv => EmitsWhatArrived
  <2> SUFFICES ASSUME ParserInv, parser.isWaitingForData
               PROVE  parser.messages = SubSeq(sent, 1, Arrived)
    BY DEF EmitsWhatArrived
  <2> DEFINE k == Len(parser.messages)
             d == parser.data
  <2>1. /\ InStream(parser, inFlight, received, sent, version)
        /\ parser.thrown = FALSE /\ ~(Len(d) >= MinBytesNeeded(parser))
        /\ inFlight \in Seq(Nat) /\ sent \in Seq(SentMessage) /\ received \in Nat
    BY DEF ParserInv, WaitsForMore
  <2>2. /\ parser \in ParserRecord /\ Passed(parser.messages, sent)
        /\ Position(parser, inFlight, received, sent, version)
    BY <2>1 DEF InStream
  <2>3. /\ k \in Nat /\ k <= Len(sent) /\ Len(sent) \in Nat /\ Len(d) \in Nat
        /\ parser.state \in ProcessingState
        /\ parser.sizePacketSoFar \in Nat /\ parser.messageSize \in Nat
        /\ parser.messages = SubSeq(sent, 1, k)
    <3>1. parser.messages = SubSeq(sent, 1, k)
      BY <2>1, <2>2, PassedIsAPrefix
    <3> QED
      BY <2>1, <2>2, <3>1 DEF ParserRecord, Passed
  <2> DEFINE before == End(sent, k)
             after == End(sent, k + 1)
             size == sent[k + 1].size
  <2>4. /\ before \in Nat
        /\ k = 0 => before = 1
        /\ k < Len(sent) => /\ after \in Nat /\ size \in Nat /\ Width(size) \in 1..2
                            /\ after = before + 1 + Width(size) + size
    <3>1. before \in Nat /\ (k = 0 => before = 1)
      <4>1. k \in 0..Len(sent)
        BY <2>3
      <4> QED
        BY <2>1, <4>1, EndIs
    <3>2. ASSUME k < Len(sent)
          PROVE  /\ after \in Nat /\ size \in Nat /\ Width(size) \in 1..2
                 /\ after = before + 1 + Width(size) + size
      <4>1. k + 1 \in 0..Len(sent) /\ k + 1 \in 1..Len(sent) /\ (k + 1) - 1 = k
        BY <2>3, <3>2
      <4>2. after \in Nat /\ sent[k + 1] \in SentMessage
        BY <2>1, <4>1, EndIs
      <4>3. size \in Nat /\ Width(size) \in 1..2
        BY <4>2, MessageIs
      <4>4. after = before + 1 + Width(size) + size
        BY <2>1, <4>1, EndIs
      <4> QED
        BY <4>2, <4>3, <4>4
    <3> QED
      BY <3>1, <3>2
  <2>5. /\ k > 0 => before <= received
        /\ k < Len(sent) => received < after
    <3>0. /\ parser.state = "MCS_VERSION_TAG_AND_SIZE" => Len(d) < 3
          /\ parser.state = "MCS_TAG_AND_SIZE" => Len(d) < 2
          /\ parser.state = "MCS_SIZE" => Len(d) < parser.sizePacketSoFar + 1
          /\ parser.state = "MCS_PROTO_BYTES" => Len(d) < parser.messageSize
      BY <2>1, <2>3 DEF MinBytesNeeded
    <3> DEFINE w == Width(size)
               n == Len(d)
               N == Len(sent)
               r == received
    <3>5. /\ k \in Nat /\ N \in Nat /\ n \in Nat /\ r \in Nat /\ before \in Nat
          /\ k = 0 => before = 1
          /\ k < N => /\ after \in Nat /\ size \in Nat /\ w \in 1..2
                      /\ after = before + 1 + w + size
      BY <2>1, <2>3, <2>4
    <3>1. CASE parser.state = "MCS_VERSION_TAG_AND_SIZE"
      <4>1. k = 0 /\ n = r /\ n < 3
        BY <2>2, <3>0, <3>1 DEF Position, AtVersion
      <4> HIDE DEF before, after, size, k, d, w, n, N, r
      <4>2. (k > 0 => before <= r) /\ (k < N => r < after)
        BY ONLY <3>5, <4>1
      <4> QED
        BY <4>2 DEF N, r
    <3>2. CASE parser.state = "MCS_TAG_AND_SIZE"
      <4>1. r - n = before /\ n < 2
        BY <2>2, <3>0, <3>2 DEF Position, AtTag
      <4> HIDE DEF before, after, size, k, d, w, n, N, r
      <4>2. (k > 0 => before <= r) /\ (k < N => r < after)
        BY ONLY <3>5, <4>1
      <4> QED
        BY <4>2 DEF N, r
    <3>3. CASE parser.state = "MCS_SIZE"
      <4> DEFINE known == parser.sizePacketSoFar
      <4>1. r - n = before + 1 /\ n < known + 1 /\ known < w /\ k < N /\ known \in Nat
        BY <2>2, <2>3, <3>0, <3>3 DEF Position, AtSize
      <4> HIDE DEF before, after, size, k, d, w, n, N, r, known
      <4>2. (k > 0 => before <= r) /\ (k < N => r < after)
        BY ONLY <3>5, <4>1
      <4> QED
        BY <4>2 DEF N, r
    <3>4. CASE parser.state = "MCS_PROTO_BYTES"
      <4>1. (r - n) + size = after /\ k < N /\ n < size
        BY <2>2, <3>0, <3>4 DEF Position, AtBody
      <4> HIDE DEF before, after, size, k, d, w, n, N, r
      <4>2. (k > 0 => before <= r) /\ (k < N => r < after)
        BY ONLY <3>5, <4>1
      <4> QED
        BY <4>2 DEF N, r
    <3> QED
      BY <2>3, <3>1, <3>2, <3>3, <3>4 DEF ProcessingState
  <2>6. Arrived = k
    <3>1. k \in 0..Len(sent)
      BY <2>3
    <3> HIDE DEF k
    <3> QED
      BY <2>1, <2>5, <3>1, ArrivedIs
  <2> QED
    BY <2>3, <2>6
<1> QED
  BY <1>1, InvInit, InvStep, PTL DEF ParserSpec

(* The parser throws over a bad version or an unknown tag only, and has    *)
(* passed on all that came before (onGotVersion, buildProtobufFromTag).    *)
THEOREM ThrownOverBadData == ParserSpec => []ThrowsOnlyOverBadData
<1>1. ParserInv => ThrowsOnlyOverBadData
  <2> SUFFICES ASSUME ParserInv, parser.thrown
               PROVE  /\ IsPrefix(parser.messages, sent)
                      /\ \/ version < 41 /\ version # 38 /\ parser.messages = << >>
                         \/ LET next == Len(parser.messages) + 1
                            IN  next <= Arrived /\ sent[next].tag \notin MessageTags
    BY DEF ThrowsOnlyOverBadData
  <2>1. /\ Passed(parser.messages, sent) /\ BadData(parser, received, sent, version)
        /\ sent \in Seq(SentMessage) /\ received \in Nat
    BY DEF ParserInv, InStream
  <2>2. IsPrefix(parser.messages, sent)
    <3>1. parser.messages = SubSeq(sent, 1, Len(parser.messages))
      BY <2>1, PassedIsAPrefix
    <3> QED
      BY <2>1, <3>1 DEF IsPrefix, Passed
  <2> DEFINE next == Len(parser.messages) + 1
  <2>3. CASE next <= Len(sent) /\ End(sent, next) <= received
             /\ sent[next].tag \notin MessageTags
    <3>1. next \in 1..Len(sent)
      BY <2>1, <2>3 DEF Passed
    <3> HIDE DEF next
    <3>2. next <= Arrived
      BY <2>1, <2>3, <3>1, ArrivedAtLeast
    <3> QED
      BY <2>2, <2>3, <3>2 DEF next
  <2> QED
    BY <2>1, <2>2, <2>3 DEF BadData
<1> QED
  BY <1>1, InvInit, InvStep, PTL DEF ParserSpec
=============================================================================
