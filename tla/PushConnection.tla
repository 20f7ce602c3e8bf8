---------------------------- MODULE PushConnection ---------------------------
(***************************************************************************)
(* The push connection: the service, which registers with the cloud and    *)
(* renews its credentials (push/service.ts), and its clients, each with a  *)
(* TLS connection, a heartbeat and a reconnect timer of its own            *)
(* (push/client.ts).  The service refers to one client; one it has         *)
(* replaced goes on by itself.                                             *)
(*                                                                         *)
(* _open() waits twice: for the credentials (fetching) and for the         *)
(* protocol files a new client loads (loading).  It is called by open(),   *)
(* on behalf of the application or of the retry timer, and by the timer    *)
(* that renews the credentials.                                            *)
(*                                                                         *)
(* Left out: the length of the delays, the contents of credentials, tokens *)
(* and messages, stream ids, and the frames (see PushClientParser).        *)
(***************************************************************************)
EXTENDS Integers, FiniteSets

CONSTANTS
    Messages,     \* push messages
    MaxClients,   \* bound: clients that are created
    Faults        \* what may happen apart from lost connections

FaultKinds ==
    { "rejected",     \* the registration with the cloud fails
      "renewal",      \* the credentials expire while they are in use
      "reopen",       \* open() is called although close() was not
      "earlyClose",   \* close() is called while the connection is being made
      "leftover" }    \* a heartbeat that outlived its connection fires

Clients == 1..MaxClients
Reasons == {"open", "renew"}

ASSUME PushAssumption ==
    /\ MaxClients \in Nat \ {0}
    /\ Faults \subseteq FaultKinds

VARIABLES
    service,    \* the fields of PushNotificationService (ServiceType)
    fetching,   \* [Reasons -> Nat]: _open() calls that wait for credentials
    loading,    \* [Reasons -> Nat]: _open() calls that wait for a new client
    clients,    \* the fields of the clients created so far (ClientType)
    running,    \* FALSE after an exception nobody catches: the process ended
    server,     \* environment, per client: messages not yet acknowledged
    heard,      \* history: how often the application was given a message
    wanted      \* history: did the application last call open() or close()?

vars == <<service, fetching, loading, clients, running, server, heard, wanted>>

----------------------------------------------------------------------------
ServiceType ==
    [credentials : BOOLEAN, connecting : BOOLEAN, connected : BOOLEAN,
     retryTimeout : BOOLEAN, credentialsTimeout : BOOLEAN,
     pushClient : 0..MaxClients]    \* 0: none yet

ClientType ==
    [socket : {"none", "open", "closed"}, loggedIn : BOOLEAN,
     heartbeatTimeouts : Nat, reconnectTimeout : BOOLEAN,
     listeners : BOOLEAN,           \* those of the service
     persistentIds : SUBSET Messages]

(* What a server knows of the device of a client: messages to deliver, and *)
(* those it has delivered in the connection that is open.                  *)
ServerType == [pending : SUBSET Messages, delivered : SUBSET Messages]

Created == DOMAIN clients

InitialClient ==
    [socket |-> "none", loggedIn |-> FALSE, heartbeatTimeouts |-> 0,
     reconnectTimeout |-> FALSE, listeners |-> FALSE, persistentIds |-> {}]

Init ==
    /\ service = [credentials |-> FALSE, connecting |-> FALSE, connected |-> FALSE,
                  retryTimeout |-> FALSE, credentialsTimeout |-> FALSE, pushClient |-> 0]
    /\ fetching = [r \in Reasons |-> 0]
    /\ loading = [r \in Reasons |-> 0]
    /\ clients = [c \in {} |-> InitialClient]
    /\ running = TRUE
    /\ server = [c \in Clients |-> [pending |-> {}, delivered |-> {}]]
    /\ heard = [m \in Messages |-> 0]
    /\ wanted = FALSE

Opening == \E r \in Reasons : fetching[r] > 0 \/ loading[r] > 0

(* The connection is there, and no other is being made. *)
InUse ==
    service.pushClient # 0 /\ clients[service.pushClient].loggedIn /\ ~Opening

(* Every creation under way ends in a new client at most once. *)
RoomForClient ==
    Cardinality(Created) + fetching["open"] + fetching["renew"]
        + loading["open"] + loading["renew"] < MaxClients

----------------------------------------------------------------------------
(* Helpers: a client, and the service, after a call. *)

(* Mutant: the ids of the messages that came are forgotten. *)
InitializedForgetting(client) ==
    [client EXCEPT !.loggedIn = FALSE, !.socket = "none", !.reconnectTimeout = FALSE,
                   !.persistentIds = {}]

(* initialize(): the heartbeat is not stopped. *)
Initialized(client) ==
    [client EXCEPT !.loggedIn = FALSE, !.socket = "none", !.reconnectTimeout = FALSE]

(* PushClient.connect() *)
Connected(client) == [Initialized(client) EXCEPT !.socket = "open"]

(* Mutant: the connection is lost and the client stays logged in. *)
LostLoggedIn(client) ==
    [client EXCEPT !.socket = "closed",
                   !.heartbeatTimeouts = IF @ > 0 THEN @ - 1 ELSE 0,
                   !.reconnectTimeout = TRUE]

(* onSocketClose() *)
Lost(client) ==
    [client EXCEPT !.socket = "closed", !.loggedIn = FALSE,
                   !.heartbeatTimeouts = IF @ > 0 THEN @ - 1 ELSE 0,
                   !.reconnectTimeout = TRUE]

(* Mutant: the service goes on listening to the client it replaces. *)
StillListened(client) == client

(* removeAllListeners() *)
Unlistened(client) == [client EXCEPT !.listeners = FALSE]

(* The events of a client, if the service still listens to it. *)
OnConnect(s) == [s EXCEPT !.connected = TRUE, !.connecting = FALSE]
OnClose(s) == [s EXCEPT !.connected = FALSE, !.connecting = FALSE]

Hears(c, s) == IF clients[c].listeners THEN s ELSE service

EnvironmentUnchanged == UNCHANGED <<server, heard>>

----------------------------------------------------------------------------
(* Calls of the application and timers of the service. *)

MayOpen == ~service.connecting /\ ~service.connected

StartsOpen(s) ==
    IF MayOpen
    THEN /\ RoomForClient
         /\ service' = [s EXCEPT !.connecting = TRUE]
         /\ fetching' = [fetching EXCEPT !["open"] = @ + 1]
    ELSE /\ service' = s
         /\ UNCHANGED fetching

Open ==
    /\ running
    /\ ~wanted \/ "reopen" \in Faults
    /\ StartsOpen(service)
    /\ wanted' = TRUE
    /\ UNCHANGED <<loading, clients, running>>
    /\ EnvironmentUnchanged

Close ==
    /\ running
    /\ InUse \/ "earlyClose" \in Faults
    /\ wanted' = FALSE
    /\ LET c       == service.pushClient
           stopped == [service EXCEPT !.retryTimeout = FALSE, !.credentialsTimeout = FALSE]
       IN  IF c = 0
           THEN /\ service' = stopped
                /\ UNCHANGED clients
           ELSE /\ clients' = [clients EXCEPT ![c] = Initialized(@)]
                /\ service' = IF clients[c].loggedIn /\ clients[c].listeners
                              THEN OnClose(stopped) ELSE stopped
    /\ UNCHANGED <<fetching, loading, running>>
    /\ EnvironmentUnchanged

RetryTimeout ==
    /\ running
    /\ service.retryTimeout
    /\ StartsOpen([service EXCEPT !.retryTimeout = FALSE])
    /\ UNCHANGED <<loading, clients, running, wanted>>
    /\ EnvironmentUnchanged

(* The credentials expire: _open(true).  They last for days, an _open()   *)
(* takes seconds.                                                          *)
CredentialsTimeout ==
    /\ running
    /\ "renewal" \in Faults
    /\ service.credentialsTimeout
    /\ ~Opening
    /\ RoomForClient
    /\ service' = [service EXCEPT !.credentialsTimeout = FALSE]
    /\ fetching' = [fetching EXCEPT !["renew"] = @ + 1]
    /\ UNCHANGED <<loading, clients, running, wanted>>
    /\ EnvironmentUnchanged

----------------------------------------------------------------------------
(* _open() goes on. *)

(* The cloud gave credentials. *)
Fetched(r) ==
    /\ running
    /\ fetching[r] > 0
    /\ fetching' = [fetching EXCEPT ![r] = @ - 1]
    /\ loading' = [loading EXCEPT ![r] = @ + 1]
    /\ service' = [service EXCEPT !.credentials = TRUE, !.credentialsTimeout = TRUE]
    /\ clients' = [c \in Created |->
            IF c = service.pushClient THEN Unlistened(clients[c]) ELSE clients[c]]
    /\ UNCHANGED <<running, wanted>>
    /\ EnvironmentUnchanged

(* Mutant: a failed open() is not tried again. *)
OpenedOnce(r, s) == s

(* open() after _open(): a retry is scheduled, unless there are credentials. *)
Opened(r, s) ==
    IF r = "open" THEN [s EXCEPT !.retryTimeout = ~s.credentials] ELSE s

(* The cloud refused or could not be reached. *)
Rejected(r) ==
    /\ running
    /\ "rejected" \in Faults
    /\ fetching[r] > 0
    /\ fetching' = [fetching EXCEPT ![r] = @ - 1]
    /\ service' = Opened(r, OnClose([service EXCEPT !.credentials = FALSE]))
    /\ UNCHANGED <<loading, clients, running, wanted>>
    /\ EnvironmentUnchanged

(* The new client is there.  Without credentials - another _open() lost    *)
(* them meanwhile - reading them throws: open() catches that, the renewal  *)
(* does not.                                                               *)
Loaded(r) ==
    /\ running
    /\ loading[r] > 0
    /\ loading' = [loading EXCEPT ![r] = @ - 1]
    /\ LET c      == Cardinality(Created) + 1
           client == IF service.credentials
                     THEN [Connected(InitialClient) EXCEPT !.listeners = TRUE]
                     ELSE InitialClient
       IN  /\ clients' = [k \in Created \cup {c} |-> IF k = c THEN client ELSE clients[k]]
           /\ service' = Opened(r, [service EXCEPT !.pushClient = c])
    /\ running' = (r = "open" \/ service.credentials)
    /\ UNCHANGED <<fetching, wanted>>
    /\ EnvironmentUnchanged

----------------------------------------------------------------------------
(* A client: what comes from its socket, and its timers. *)

(* LoginResponse: the ids that were sent with the login are forgotten, the *)
(* server has dropped the messages.                                        *)
LoginResponse(c) ==
    /\ running
    /\ clients[c].socket = "open" /\ ~clients[c].loggedIn
    /\ clients' = [clients EXCEPT ![c].loggedIn = TRUE, ![c].persistentIds = {},
                                  ![c].heartbeatTimeouts = @ + 1]
    /\ server' = [server EXCEPT ![c].pending = @ \ clients[c].persistentIds,
                                ![c].delivered = {}]
    /\ service' = Hears(c, OnConnect(service))
    /\ UNCHANGED <<fetching, loading, running, heard, wanted>>

DataMessage(c, m) ==
    /\ running
    /\ clients[c].loggedIn
    /\ m \in server[c].pending \ server[c].delivered
    /\ server' = [server EXCEPT ![c].delivered = @ \cup {m}]
    /\ clients' = [clients EXCEPT ![c].persistentIds = @ \cup {m}]
    /\ heard' = IF clients[c].listeners THEN [heard EXCEPT ![m] = @ + 1] ELSE heard
    /\ UNCHANGED <<service, fetching, loading, running, wanted>>

(* onSocketClose(), also when no connection could be made. *)
SocketCloses(c) ==
    /\ running
    /\ clients[c].socket = "open"
    /\ clients' = [clients EXCEPT ![c] = Lost(@)]
    /\ service' = Hears(c, OnClose(service))
    /\ UNCHANGED <<fetching, loading, running, wanted>>
    /\ EnvironmentUnchanged

ReconnectTimeout(c) ==
    /\ running
    /\ clients[c].reconnectTimeout
    /\ clients' = [clients EXCEPT ![c] = Connected(@)]
    /\ UNCHANGED <<service, fetching, loading, running, wanted>>
    /\ EnvironmentUnchanged

(* scheduleHeartbeat(): without a login a reconnect is scheduled.  While    *)
(* the client is logged in its heartbeat starts the next one, no change.   *)
HeartbeatWithoutLogin(c) ==
    /\ running
    /\ "leftover" \in Faults
    /\ clients[c].heartbeatTimeouts > 0
    /\ ~clients[c].loggedIn
    /\ clients' = [clients EXCEPT ![c].heartbeatTimeouts = @ - 1,
                                  ![c].reconnectTimeout = TRUE]
    /\ UNCHANGED <<service, fetching, loading, running, wanted>>
    /\ EnvironmentUnchanged

----------------------------------------------------------------------------
(* Somebody sends a message to the device of the client in use (external). *)
MessageSent(m) ==
    /\ running
    /\ service.pushClient # 0
    /\ \A c \in Clients : m \notin server[c].pending
    /\ heard[m] = 0
    /\ server' = [server EXCEPT ![service.pushClient].pending = @ \cup {m}]
    /\ UNCHANGED <<service, fetching, loading, clients, running, heard, wanted>>

Next ==
    \/ Open \/ Close \/ RetryTimeout \/ CredentialsTimeout
    \/ \E r \in Reasons : Fetched(r) \/ Rejected(r) \/ Loaded(r)
    \/ \E c \in Created : LoginResponse(c) \/ SocketCloses(c)
    \/ \E c \in Created : ReconnectTimeout(c) \/ HeartbeatWithoutLogin(c)
    \/ \E c \in Created, m \in Messages : DataMessage(c, m)
    \/ \E m \in Messages : MessageSent(m)

Spec == Init /\ [][Next]_vars

(* Timers fire, the cloud and the push server can be reached again and     *)
(* again.                                                                  *)
Fairness ==
    /\ WF_vars(RetryTimeout)
    /\ \A r \in Reasons : SF_vars(Fetched(r)) /\ WF_vars(Fetched(r) \/ Rejected(r)) /\ WF_vars(Loaded(r))
    /\ \A c \in Clients :
        /\ SF_vars(c \in Created /\ LoginResponse(c))
        /\ WF_vars(c \in Created /\ ReconnectTimeout(c))

FairSpec == Spec /\ Fairness

----------------------------------------------------------------------------
TypeOK ==
    /\ service \in ServiceType
    /\ fetching \in [Reasons -> Nat]
    /\ loading \in [Reasons -> Nat]
    /\ Created \in {1..n : n \in 0..MaxClients}
    /\ clients \in [Created -> ClientType]
    /\ \A c \in Created : clients[c].loggedIn => clients[c].socket = "open"
    /\ running \in BOOLEAN
    /\ server \in [Clients -> ServerType]
    /\ heard \in [Messages -> Nat]
    /\ wanted \in BOOLEAN

(* The application is given a message once, although the server delivers   *)
(* again after every login what it does not know to be received: the ids   *)
(* the client keeps outlive its connections (persistentIds).               *)
EachMessageOnce == \A m \in Messages : heard[m] <= 1

(* The service listens to one client: one it has replaced, which stays     *)
(* connected by itself, no longer changes what the service reports.        *)
OneListenedClient ==
    \A a, b \in Created : clients[a].listeners /\ clients[b].listeners => a = b

Receiving ==
    /\ service.pushClient # 0
    /\ clients[service.pushClient].loggedIn
    /\ clients[service.pushClient].listeners

(* Notifications that are wanted come again and again, whatever failed,    *)
(* until close() is called.                                                *)
ComesBack == wanted ~> Receiving \/ ~wanted
=============================================================================
