------------------------------ MODULE ApiLifecycle ------------------------------
(***************************************************************************)
(* The life of a login: HTTPApi with its token, the hook that logs in      *)
(* again when a request is answered 401, the renewal of the token          *)
(* (http/api.ts), and EufySecurityApi, which on every login makes new      *)
(* Stations and Devices objects, starts the services and polls the cloud   *)
(* (eufySecurityApi.ts).  The MQTT service is the module MqttService.      *)
(*                                                                         *)
(* All handlers run on one event loop.  What is asynchronous is a task: a  *)
(* request that has not been answered, together with what follows its      *)
(* answer.  refreshAllData() asks for houses, stations and devices one     *)
(* after the other; here that is one request.                              *)
(*                                                                         *)
(* External: the cloud, which answers every request in the end; it accepts *)
(* a token until it is revoked or expires.  Faults widens that.            *)
(***************************************************************************)
EXTENDS MqttService, Bags

CONSTANTS
    Faults,       \* what the cloud may do
    Intervals,    \* what config.json may hold: minutes between two refreshes, 0: none
    MaxEvents,    \* bound: events from outside (Outside)
    MaxBoots,     \* bound: starts of the process
    MaxTasks      \* bound: requests at the same time

FaultKinds ==
    { "loginFails",     \* a login is answered with an error
      "captcha",        \* a login asks for a captcha
      "verify",         \* a login of a client that is not connected asks for a code
      "verifyAgain",    \* ... and so may one of a client that is connected
      "undecryptable",  \* an answer cannot be decrypted with the server's key
      "mqttLost",       \* the MQTT connection is lost
      "mqttRefused" }   \* the MQTT broker refuses a connection

ASSUME ApiAssumption ==
    /\ Faults \subseteq FaultKinds
    /\ Intervals \subseteq Nat
    /\ MaxEvents \in Nat
    /\ MaxBoots \in Nat
    /\ MaxTasks \in Nat

VARIABLES
    client,    \* the process: HTTPApi and EufySecurityApi (ClientType)
    disk,      \* the token in config.json
    server,    \* the tokens the cloud accepts, and the number it has issued
    boots,     \* number of starts of the process
    events     \* number of events from outside

vars == <<client, disk, server, boots, events>>

NoToken == 0
MaxRetries == 3

TaskKinds == {"login", "profile", "refresh", "startup", "logout", "stop"}
Stages == {"sleep", "request", "hook", "retry", "closing"}

(* sent: the token the request was sent with; old: oldToken of the hook.   *)
Task(kind, stage, sent, old) == [kind |-> kind, stage |-> stage, sent |-> sent, old |-> old]

Tasks ==
    [kind : TaskKinds, stage : Stages, sent : Nat, old : Nat]

InitialClient(token, interval) ==
    [running |-> FALSE,          \* was the process started, and not shut down?
     connected |-> FALSE,        \* of HTTPApi
     token |-> token,
     interval |-> interval,      \* getUpdateDeviceDataIntervall()
     renewal |-> FALSE,          \* is renewAuthTokenJob scheduled?
     apiConnected |-> FALSE,     \* connected of EufySecurityApi
     serviceState |-> "init",
     retries |-> 0,
     timer |-> FALSE,            \* refreshEufySecurityCloudTimeout
     asked |-> {},               \* is a captcha or a verify code asked for?
     stored |-> token,           \* the token in the Config object
     saved |-> token,            \* ... and what was last written to the file
     objects |-> 0,              \* number of Stations and Devices objects made
     loaded |-> 0,               \* how many of them have their stations
     mqtt |-> InitialMqtt,
     tasks |-> EmptyBag]

Init ==
    /\ client = InitialClient(NoToken, 0)
    /\ disk = NoToken
    /\ server = [valid |-> {}, issued |-> 0]
    /\ boots = 0
    /\ events = 0

----------------------------------------------------------------------------
(* The handlers of EufySecurityApi and the methods of HTTPApi.             *)

Add(s, task) == [s EXCEPT !.tasks = @ (+) SetToBag({task})]
Done(s, task) == [s EXCEPT !.tasks = @ (-) SetToBag({task})]

(* writeCurrentConfig() *)
Written(s) == [s EXCEPT !.saved = s.stored]

(* invalidateToken(), and onAuthTokenInvalidated().                        *)
InvalidateToken(s) ==
    Written([s EXCEPT !.connected = FALSE, !.token = NoToken, !.renewal = FALSE,
                      !.stored = NoToken, !.serviceState = "disconnected"])

(* Mutant: nobody fetches the data of the new login. *)
ConnectedWithoutRefresh(s, token) ==
    [s EXCEPT !.connected = TRUE, !.token = token, !.renewal = TRUE,
              !.apiConnected = TRUE, !.retries = 0, !.asked = {}, !.stored = token,
              !.mqtt = MqttConnect(@), !.objects = @ + 1]

(* "connect" is emitted: onAPIConnect() up to its sleep, and               *)
(* scheduleRenewAuthToken().                                               *)
OnAPIConnect(s, token) ==
    Add([s EXCEPT !.connected = TRUE, !.token = token, !.renewal = TRUE,
                  !.apiConnected = TRUE, !.retries = 0, !.asked = {}, !.stored = token,
                  !.mqtt = MqttConnect(@), !.objects = @ + 1],
        Task("startup", "sleep", NoToken, NoToken))

(* onAuthTokenRenewed() and scheduleRenewAuthToken().                      *)
OnAuthTokenRenewed(s, token) ==
    Written([s EXCEPT !.token = token, !.renewal = TRUE, !.stored = token])

(* login() without options.                                                *)
Login(s) ==
    IF s.token = NoToken THEN Add(s, Task("login", "request", NoToken, NoToken))
    ELSE IF ~s.connected THEN Add(s, Task("profile", "request", s.token, NoToken))
    ELSE s

(* onAPIClose() *)
OnAPIClose(s) ==
    LET closed == [s EXCEPT !.timer = FALSE, !.apiConnected = FALSE,
                            !.serviceState = "disconnected"]
    IN  IF s.retries < MaxRetries THEN Login([closed EXCEPT !.retries = @ + 1]) ELSE closed

(* close() up to the wait for the stations to close ...                    *)
CloseStarts(s, kind) ==
    Add([s EXCEPT !.timer = FALSE, !.mqtt = MqttClose(@)],
        Task(kind, "closing", NoToken, NoToken))

(* ... and after it: whoever logged in meanwhile is forgotten.             *)
Closed(s) == [s EXCEPT !.apiConnected = FALSE]

(* invalidateToken() and onAPILogout().                                    *)
OnAPILogout(s) == CloseStarts(Closed(InvalidateToken(s)), "logout")

(* What a login can be answered.                                           *)
Outcomes ==
    {"ok"} \cup (Faults \cap (IF client.connected
                             THEN {"loginFails", "captcha", "verifyAgain"}
                             ELSE {"loginFails", "captcha", "verify"}))

(* Mutant: a new token is not stored. *)
LoginAnsweredUnstored(s, outcome, token) ==
    CASE outcome = "ok" -> IF s.connected THEN [s EXCEPT !.token = token, !.renewal = TRUE]
                           ELSE OnAPIConnect(s, token)
      [] outcome = "captcha" -> [s EXCEPT !.asked = @ \cup {"captcha"}]
      [] outcome \in {"verify", "verifyAgain"} ->
            [s EXCEPT !.token = token, !.asked = @ \cup {"verify"}]
      [] outcome = "loginFails" -> [s EXCEPT !.serviceState = "disconnected"]

(* login() with the answer of the cloud.  The token that comes with the    *)
(* request for a verify code is good for nothing else.                     *)
LoginAnswered(s, outcome, token) ==
    CASE outcome = "ok" -> IF s.connected THEN OnAuthTokenRenewed(s, token)
                           ELSE OnAPIConnect(s, token)
      [] outcome = "captcha" -> [s EXCEPT !.asked = @ \cup {"captcha"}]
      [] outcome \in {"verify", "verifyAgain"} ->
            [s EXCEPT !.token = token, !.asked = @ \cup {"verify"}]
      [] outcome = "loginFails" -> [s EXCEPT !.serviceState = "disconnected"]

(* refreshAllData() emits "hubs" and "devices", whatever was answered, and *)
(* the new Devices objects subscribe their locks.  Then the timer is       *)
(* cleared, and set again if there is an interval.                         *)
Refreshed(s) ==
    [s EXCEPT !.loaded = s.objects,
              !.mqtt = IF s.loaded < s.objects THEN SubscribeLocks(@, Locks) ELSE @,
              !.timer = s.interval > 0]

(* What follows the answer of a request (and its end, if it failed).       *)
Completed(s, task, successful) ==
    CASE task.kind = "refresh" -> Refreshed(s)
      [] task.kind = "startup" -> Written([Refreshed(s) EXCEPT !.serviceState = "ok"])
      [] task.kind = "profile" ->
            IF ~successful THEN [s EXCEPT !.serviceState = "disconnected"]
            ELSE IF s.connected THEN s
            ELSE OnAPIConnect(s, s.token)
      [] task.kind = "logout" -> IF successful THEN OnAPILogout(s) ELSE s

(* A request ends with 401 after all.                                      *)
Unauthorized(s, task) == Completed(OnAPIClose(InvalidateToken(s)), task, FALSE)

----------------------------------------------------------------------------
(* Steps of the process.  Its file is what it wrote last.                  *)

(* Mutant: the file is not written. *)
BecomesUnsaved(s) ==
    /\ client' = s
    /\ UNCHANGED disk

Becomes(s) ==
    /\ client' = s
    /\ disk' = s.saved

Outside ==
    /\ events < MaxEvents
    /\ events' = events + 1

HasRoom == BagCardinality(client.tasks) < MaxTasks

(* A request of refreshAllData() is sent only when HTTPApi is connected.   *)
Send(task) ==
    LET s == Done(client, task)
    IN  IF client.connected
        THEN Becomes(Add(s, Task(task.kind, "request", client.token, NoToken)))
        ELSE Becomes(Completed(s, task, FALSE))

(* The sleep in onAPIConnect() is over.                                    *)
Awake(task) ==
    /\ task.stage = "sleep"
    /\ Send(task)
    /\ UNCHANGED <<server, boots, events>>

(* The timer of refreshCloudData() fires.                                  *)
TimerFires ==
    /\ client.timer
    /\ HasRoom
    /\ LET fired == [client EXCEPT !.timer = FALSE]
           task  == Task("refresh", "request", client.token, NoToken)
       IN  Becomes(IF client.connected THEN Add(fired, task)
                   ELSE Completed(fired, task, FALSE))
    /\ UNCHANGED <<server, boots, events>>

IsAccepted(token) == token \in server.valid

(* A request is answered ... *)
Answer(task) ==
    /\ task.stage \in {"request", "retry"}
    /\ task.kind # "login"
    /\ IsAccepted(task.sent)
    /\ Becomes(Completed(Done(client, task), task, TRUE))
    /\ UNCHANGED <<server, boots, events>>

(* ... with data that decryptAPIData() cannot decrypt ... *)
AnswerUndecryptable(task) ==
    /\ "undecryptable" \in Faults
    /\ task.kind \in {"refresh", "startup", "profile"}
    /\ task.stage \in {"request", "retry"}
    /\ IsAccepted(task.sent)
    /\ Outside
    /\ Becomes(Completed(OnAPIClose(InvalidateToken(Done(client, task))), task, FALSE))
    /\ UNCHANGED <<server, boots>>

(* Mutant: the hook does not know the answer 401. *)
Answer401Ignored(task) ==
    /\ task.stage = "request"
    /\ task.kind # "login"
    /\ ~IsAccepted(task.sent)
    /\ Becomes(Completed(Done(client, task), task, FALSE))
    /\ UNCHANGED <<server, boots, events>>

(* ... or with 401 the first time: the hook logs in ... *)
Answer401(task) ==
    /\ task.stage = "request"
    /\ task.kind # "login"
    /\ ~IsAccepted(task.sent)
    /\ Becomes(Add(InvalidateToken(Done(client, task)),
                   Task(task.kind, "hook", NoToken, client.token)))
    /\ UNCHANGED <<server, boots, events>>

(* ... or again.                                                           *)
Retry401(task) ==
    /\ task.stage = "retry"
    /\ ~IsAccepted(task.sent)
    /\ Becomes(Unauthorized(Done(client, task), task))
    /\ UNCHANGED <<server, boots, events>>

Issue(outcome) ==
    IF outcome \in {"ok", "verify", "verifyAgain"}
    THEN server' = [issued |-> server.issued + 1,
                    valid  |-> server.valid \cup
                                (IF outcome = "ok" THEN {server.issued + 1} ELSE {})]
    ELSE UNCHANGED server

(* The login of the hook is answered: the request is repeated if there is  *)
(* a new token.                                                            *)
AnswerHook(task, outcome) ==
    /\ task.stage = "hook"
    /\ Issue(outcome)
    /\ LET s == LoginAnswered(Done(client, task), outcome, server'.issued)
       IN  Becomes(IF s.token # NoToken /\ s.token # task.old
                   THEN Add(s, Task(task.kind, "retry", s.token, NoToken))
                   ELSE Unauthorized(s, task))
    /\ UNCHANGED <<boots, events>>

(* Any other login is answered.                                            *)
AnswerLogin(task, outcome) ==
    /\ task.kind = "login"
    /\ Issue(outcome)
    /\ Becomes(LoginAnswered(Done(client, task), outcome, server'.issued))
    /\ UNCHANGED <<boots, events>>

(* renewAuthTokenJob runs, a day before the token expires.                 *)
RenewalDue ==
    /\ client.renewal
    /\ HasRoom
    /\ Outside
    /\ Becomes(Add([client EXCEPT !.renewal = FALSE],
                   Task("login", "request", NoToken, NoToken)))
    /\ UNCHANGED <<server, boots>>

----------------------------------------------------------------------------
(* The user and the cloud.                                                 *)

(* setCaptchaCode() and setTfaCode().                                      *)
EnterCode(what) ==
    /\ what \in client.asked
    /\ HasRoom
    /\ Outside
    /\ Becomes(Add(client, Task("login", "request", NoToken, NoToken)))
    /\ UNCHANGED <<server, boots>>

(* logout() *)
Logout ==
    /\ client.apiConnected
    /\ HasRoom
    /\ Outside
    /\ Becomes(Add(client, Task("logout", "request", client.token, NoToken)))
    /\ UNCHANGED <<server, boots>>

(* stopAddOn() *)
Stop ==
    /\ client.running
    /\ HasRoom
    /\ Outside
    /\ Becomes(CloseStarts([client EXCEPT !.serviceState = "shutdown", !.running = FALSE],
                           "stop"))
    /\ UNCHANGED <<server, boots>>

(* The stations of the present Stations object are closed, or have had ten *)
(* seconds for it; stopAddOn() goes on and writes the file.                *)
CloseEnds(task) ==
    /\ task.stage = "closing"
    /\ LET s == Closed(Done(client, task))
       IN  Becomes(IF task.kind = "stop" THEN Written(s) ELSE s)
    /\ UNCHANGED <<server, boots, events>>

(* The process starts, for the first time, after a stop or after a crash:  *)
(* initialize().                                                           *)
Start(interval) ==
    /\ boots < MaxBoots
    /\ boots' = boots + 1
    /\ Becomes(Login([InitialClient(disk, interval) EXCEPT !.running = TRUE]))
    /\ UNCHANGED <<server, events>>

(* The cloud does not accept the token any more.                           *)
Revoke(token) ==
    /\ Outside
    /\ server' = [server EXCEPT !.valid = @ \ {token}]
    /\ UNCHANGED <<client, disk, boots>>

----------------------------------------------------------------------------
(* The MQTT library.                                                       *)

IsUp(k) == client.mqtt.clients[k].status = "up"
WantsUp(k) == client.mqtt.clients[k].status = "connecting"

MqttUp(k) ==
    /\ WantsUp(k)
    /\ \A other \in DOMAIN client.mqtt.clients : ~IsUp(other)
    /\ Becomes([client EXCEPT !.mqtt = OnMqttConnect(@, k)])
    /\ UNCHANGED <<server, boots, events>>

(* The connection is lost ... *)
MqttDown(k) ==
    /\ "mqttLost" \in Faults
    /\ IsUp(k)
    /\ Outside
    /\ Becomes([client EXCEPT !.mqtt = OnMqttClose(@, k)])
    /\ UNCHANGED <<server, boots>>

(* ... or cut by the broker for another client.                            *)
MqttTakenOver(k) ==
    /\ IsUp(k)
    /\ \E other \in DOMAIN client.mqtt.clients : WantsUp(other)
    /\ Becomes([client EXCEPT !.mqtt = OnMqttClose(@, k)])
    /\ UNCHANGED <<server, boots, events>>

MqttRefused(k, final) ==
    /\ "mqttRefused" \in Faults
    /\ WantsUp(k)
    /\ Outside
    /\ Becomes([client EXCEPT !.mqtt = OnMqttError(@, final)])
    /\ UNCHANGED <<server, boots>>

----------------------------------------------------------------------------
Answers(task) ==
    \/ Awake(task)
    \/ CloseEnds(task)
    \/ Answer(task)
    \/ Answer401(task)
    \/ Retry401(task)
    \/ \E outcome \in Outcomes : AnswerHook(task, outcome) \/ AnswerLogin(task, outcome)

Next ==
    \/ \E task \in BagToSet(client.tasks) : Answers(task) \/ AnswerUndecryptable(task)
    \/ TimerFires
    \/ RenewalDue
    \/ \E what \in client.asked : EnterCode(what)
    \/ Logout
    \/ Stop
    \/ \E interval \in Intervals : Start(interval)
    \/ \E token \in server.valid : Revoke(token)
    \/ \E k \in DOMAIN client.mqtt.clients :
        \/ MqttUp(k)
        \/ MqttDown(k)
        \/ MqttTakenOver(k)
        \/ \E final \in BOOLEAN : MqttRefused(k, final)

Spec == Init /\ [][Next]_vars

(* The cloud answers, timers fire, and close() waits only so long.         *)
Fairness ==
    /\ WF_vars(\E task \in BagToSet(client.tasks) : Answers(task))
    /\ WF_vars(TimerFires)

FairSpec == Spec /\ Fairness

----------------------------------------------------------------------------
ServiceStates == {"init", "disconnected", "ok", "shutdown"}

ClientType ==
    [running : BOOLEAN, connected : BOOLEAN, token : Nat, interval : Nat,
     renewal : BOOLEAN, apiConnected : BOOLEAN, serviceState : ServiceStates,
     retries : 0..MaxRetries, timer : BOOLEAN, asked : SUBSET {"captcha", "verify"},
     stored : Nat, saved : Nat, objects : Nat, loaded : Nat, mqtt : MqttType]

TypeOK ==
    /\ [f \in DOMAIN client \ {"tasks"} |-> client[f]] \in ClientType
    /\ BagToSet(client.tasks) \subseteq Tasks
    /\ client.loaded <= client.objects
    /\ disk = client.saved
    /\ server.valid \subseteq 1..server.issued
    /\ boots \in 0..MaxBoots
    /\ events \in 0..MaxEvents

Pending(kinds) == \E task \in BagToSet(client.tasks) : task.kind \in kinds

(* The token a restart finds is the one in use, "so there is no need to    *)
(* login every time" (README.md), except while a login is being dealt with *)
(* (saveCloudToken, setTokenData and the places that write the file).      *)
TokenIsStored == client.connected /\ ~Pending({"startup"}) => disk = client.token

Closing == \E task \in BagToSet(client.tasks) : task.stage = "closing"

(* As long as the add-on counts as connected, it goes on polling the       *)
(* cloud, if config.json has an interval and until somebody closes it      *)
(* (refreshCloudData, onAPIConnect and whoever stops the timer).           *)
PollingGoesOn ==
    client.apiConnected /\ client.interval > 0 /\ ~Closing
        => client.timer \/ Pending({"refresh", "startup"})

(* A token that is not accepted any more is replaced, or the add-on knows  *)
(* that it is not connected (the hook for 401, request() and the polling). *)
StaleTokenIsNoticed ==
    client.connected /\ client.interval > 0 /\ client.token \notin server.valid
        ~> \/ client.token \in server.valid
           \/ ~client.apiConnected

(* With a connection to the broker, every lock of the account is heard     *)
(* (subscribeLock and the queue it shares with connect).  connect() makes  *)
(* a second client when it finds the first one disconnected; then nothing  *)
(* is promised.                                                            *)
OneMqttClient ==
    \A k \in DOMAIN client.mqtt.clients :
        client.mqtt.clients[k].status # "ended" => k = Latest(client.mqtt)

LocksAreHeard ==
    OneMqttClient /\ client.mqtt.connected => Heard(client.mqtt) = Locks
=================================================================================
