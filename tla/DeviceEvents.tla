----------------------------- MODULE DeviceEvents ----------------------------
(***************************************************************************)
(* A device of http/device.ts between the messages it gets: what a push    *)
(* message detects is shown until its timer is over, the picture of an     *)
(* event is fetched from the cloud or asked of the station, and a lock     *)
(* shows the status that push, MQTT, P2P and the cloud report.             *)
(*                                                                         *)
(* A message is what its handler does: the detections it raises, those     *)
(* whose timer it starts, those among them whose timer also clears the     *)
(* name of the person (only they set a name), and how often the handlers   *)
(* of the classes call loadEventImage.                                     *)
(*                                                                         *)
(* One event is watched, any one: what is said of it holds of all.         *)
(*                                                                         *)
(* External: the push service, the cloud, and the bolt of the lock.  The   *)
(* lock's reports are assumed to arrive in order and without loss by push, *)
(* MQTT and P2P together: the code does not look at event_time, and shows  *)
(* what comes last.                                                        *)
(***************************************************************************)
EXTENDS Naturals, Sequences

CONSTANTS
    Kinds,         \* the classes of devices that are looked at
    Seen,          \* bound: the detections that occur (many are alike)
    Simultaneous,  \* config.simultaneousDetections
    HasQuery,      \* does the station know StationDatabaseQueryLatestInfo?
    MaxRequests,   \* bound: images asked of the cloud at a time
    MaxReports     \* bound: reports of a lock that are on their way

AllKinds ==
    {"camera", "solo", "wallLight", "indoor", "doorbell", "motionSensor",
     "smartSafe", "smartDrop", "lock"}

Detections ==
    {"motion", "person", "identity", "stranger", "ringing", "crying", "sound", "pet",
     "vehicle", "dog", "dogLick", "dogPoop", "packageDelivered", "packageStranded",
     "packageTaken", "loitering", "radar", "going", "shake", "alarm911", "jammed",
     "wrongTry", "longOpen", "lid", "pin", "lowTemperature", "highTemperature",
     "tampering", "batteryFull", "lowBattery", "lockEvent"}

ASSUME DeviceAssumption ==
    /\ Kinds \subseteq AllKinds
    /\ Seen \subseteq Detections
    /\ Simultaneous \in BOOLEAN
    /\ HasQuery \in BOOLEAN
    /\ MaxRequests \in Nat
    /\ MaxReports \in Nat

VARIABLES
    kind,          \* the class of the device
    detected,      \* the detections that are shown
    timers,        \* eventTimeouts: "none", "plain", or "naming" if it clears the name
    named,         \* is personName set?
    destroyed,     \* was destroy() called?
    pictureTimer,  \* pictureEventTimeouts: is the station to be asked?
    requests,      \* getImage calls that have not returned: of events before the
                   \* watched one, of its own and of newer ones
    watched,       \* history: is there a watched event, and has it a picture?
    raw,           \* the raw property of the lock's status, with its source
    locked,        \* the property "locked"
    bolt,          \* external: the status of the lock itself
    reports,       \* external: reports of the lock on their way
    poll,          \* external: what the cloud's answer on its way says
    heard          \* history: has the lock reported a status?

eventVars == <<detected, timers, named>>
pictureVars == <<pictureTimer, requests, watched>>
lockVars == <<raw, locked, bolt, reports, poll, heard>>
vars == <<kind, destroyed, eventVars, pictureVars, lockVars>>

----------------------------------------------------------------------------
(* Messages.                                                               *)

Message ==
    [raises : SUBSET Detections, starts : SUBSET Detections,
     naming : SUBSET Detections, pictures : 0..2]

Plain(ds, pictures) ==
    [raises |-> ds, starts |-> ds, naming |-> {}, pictures |-> pictures]

Named(d, also, pictures) ==
    [raises |-> {d} \cup also, starts |-> {d} \cup also,
     naming |-> {d}, pictures |-> pictures]

Motion == IF Simultaneous THEN {"motion"} ELSE {}
PersonAndMotion == IF Simultaneous THEN {"person", "motion"} ELSE {}

(* CusPushEvent.SECURITY, with and without a fetch_id.                     *)
Security(pictures) ==
    {Plain({"motion"}, pictures), Named("person", {"motion"}, pictures)}

(* A message of a HomeBase 3; one that is not known still loads a picture. *)
HomeBase3Messages(pictures) ==
    {Plain({d}, pictures) : d \in {"motion", "ringing", "crying", "dog", "dogLick",
                                   "dogPoop", "sound"}}
        \cup {Plain({d} \cup Motion, pictures) : d \in {"pet", "vehicle"}}
        \cup {Named("person", Motion, pictures), Plain({}, pictures)}
        \cup {Named(d, PersonAndMotion, pictures) : d \in {"identity", "stranger"}}

(* Camera itself, and any class but WallLightCam and SmartDrop behind a    *)
(* HomeBase 3, which leave its messages to Camera.                         *)
CameraMessages == Security(1) \cup HomeBase3Messages(1)

(* SoloCamera and FloodlightCamera; a message they do not know still loads *)
(* a picture.                                                              *)
SoloMessages ==
    Security(2) \cup {Plain({}, 1), Plain({"motion"}, 1), Named("person", Motion, 1)}

(* WallLightCam and SmartDrop handle a message of a HomeBase 3 once more.  *)
WallLightMessages == SoloMessages \cup HomeBase3Messages(2)

IndoorMessages ==
    SoloMessages \cup {Plain({"crying", "sound"}, 1), Plain({"sound"}, 1),
                       Plain({"pet"} \cup Motion, 1)}

(* SOMEONE_LOITERING and AWAY_FROM_HOME start the timer of a person they   *)
(* do not raise.                                                           *)
Passing(d) ==
    [raises |-> {d} \cup Motion, starts |-> {d, "person"} \cup Motion,
     naming |-> {}, pictures |-> 1]

DoorbellMessages ==
    SoloMessages
        \cup {Plain({d}, 1) : d \in {"ringing", "packageDelivered", "packageStranded",
                                     "packageTaken", "radar"}}
        \cup {Passing(d) : d \in {"loitering", "going"}}

SmartSafeMessages ==
    {Plain({d}, 0) : d \in {"shake", "alarm911", "jammed", "lowBattery",
                            "wrongTry", "longOpen"}}

(* OPEN and CLOSED detect nothing.                                         *)
SmartDropMessages ==
    Security(2) \cup HomeBase3Messages(2) \cup {Plain({}, 1)}
        \cup {Plain({d}, 1) : d \in {"lid", "pin", "longOpen", "lowTemperature",
                "lowBattery", "highTemperature", "tampering", "batteryFull"}}
        \cup {Named("person", {}, 1)}

MessagesOf(k) ==
    CASE k = "camera"       -> CameraMessages
      [] k = "solo"         -> SoloMessages
      [] k = "wallLight"    -> WallLightMessages
      [] k = "indoor"       -> IndoorMessages
      [] k = "doorbell"     -> DoorbellMessages
      [] k = "motionSensor" -> {Plain({"motion"}, 0)}
      [] k = "smartSafe"    -> SmartSafeMessages
      [] k = "smartDrop"    -> SmartDropMessages
      [] k = "lock"         -> {Plain({"lowBattery"}, 0)}

Statuses == {"unlocked", "locked", "faulty"}      \* 3, 4 and 5
Sources == {"http", "push", "mqtt", "p2p"}

Unknown == [value |-> "undefined", source |-> "none"]

(* What became of the watched event: none is watched, it has no picture    *)
(* yet, one came or the station was asked, or its query was stopped.       *)
Fates == {"none", "open", "pictured", "lost"}

Origins == {"older", "own", "newer"}

Init ==
    /\ kind \in Kinds
    /\ destroyed = FALSE
    /\ detected = {}
    /\ timers = [d \in Detections |-> "none"]
    /\ named = FALSE
    /\ pictureTimer = FALSE
    /\ requests = [origin \in Origins |-> 0]
    /\ watched = "none"
    /\ raw = Unknown
    /\ locked = FALSE
    /\ bolt \in IF kind = "lock" THEN Statuses ELSE {"locked"}
    /\ reports = << >>
    /\ poll = "none"
    /\ heard = FALSE

----------------------------------------------------------------------------
(* Detections.                                                             *)

TimerOf(m, d) == IF d \in m.naming THEN "naming" ELSE "plain"

(* Mutant: the timer of the person is not started with that of the motion. *)
StartedOnce(m) ==
    [d \in Detections |->
        IF d \in m.starts \ {"motion"} \/ (d \in m.starts /\ timers["person"] = "none")
        THEN TimerOf(m, d) ELSE timers[d]]

(* clearEventTimeout() and eventTimeouts.set() for every detection.        *)
Started(m) ==
    [d \in Detections |-> IF d \in m.starts THEN TimerOf(m, d) ELSE timers[d]]

Shows(m) ==
    /\ detected' = detected \cup m.raises
    /\ timers' = Started(m)
    /\ named' = (named \/ m.naming # {})

(* Mutant: the name is cleared with the identity only. *)
TimerFiresKeepingName(d) ==
    /\ timers[d] # "none"
    /\ timers' = [timers EXCEPT ![d] = "none"]
    /\ detected' = detected \ {d}
    /\ named' = (named /\ d # "identity")
    /\ UNCHANGED <<kind, destroyed, pictureVars, lockVars>>

(* The duration of an event is over.                                       *)
TimerFires(d) ==
    /\ timers[d] # "none"
    /\ timers' = [timers EXCEPT ![d] = "none"]
    /\ detected' = detected \ {d}
    /\ named' = (named /\ timers[d] # "naming")
    /\ UNCHANGED <<kind, destroyed, pictureVars, lockVars>>

----------------------------------------------------------------------------
(* Pictures.                                                               *)

Asked == requests["older"] + requests["own"] + requests["newer"]

(* Where the requests of a message count that arrives now.                 *)
OriginOf(watch) ==
    IF watch THEN "own" ELSE IF watched = "none" THEN "older" ELSE "newer"

(* loadEventImage() is called times; efficient says that the message has   *)
(* no picture, so loadImageOverP2P() sets the timer unless it runs.  The   *)
(* event may be the one that is watched.                                   *)
LoadsPicture(times, efficient, watch) ==
    /\ watch => watched = "none" /\ times > 0
    /\ watched' = IF watch THEN "open" ELSE watched
    /\ pictureTimer' = (pictureTimer \/ (efficient /\ times > 0 /\ HasQuery))
    /\ requests' = IF efficient THEN requests
                   ELSE [requests EXCEPT ![OriginOf(watch)] = @ + times]

(* An image is the picture of the watched event if it is its own or that   *)
(* of a newer one.  That of an older one is not, and it stops the query    *)
(* the event may have left, which is then lost.                            *)
FateAfterImage(from) ==
    CASE watched # "open" -> watched
      [] watched = "open" /\ from # "older" -> "pictured"
      [] watched = "open" /\ from = "older" ->
            IF pictureTimer /\ requests["own"] = 0 THEN "lost" ELSE "open"

(* Mutant: the timer is stopped before it is known that there is an image. *)
ImageReturnsTrusted(from, found) ==
    /\ requests[from] > 0
    /\ requests' = [requests EXCEPT ![from] = @ - 1]
    /\ pictureTimer' = FALSE
    /\ watched' = IF found THEN FateAfterImage(from) ELSE watched
    /\ UNCHANGED <<kind, destroyed, eventVars, lockVars>>

(* getImage() returns, with an image or without: then the station is asked *)
(* instead.                                                                *)
ImageReturns(from, found) ==
    /\ requests[from] > 0
    /\ requests' = [requests EXCEPT ![from] = @ - 1]
    /\ pictureTimer' = IF found THEN FALSE ELSE pictureTimer \/ HasQuery
    /\ watched' = IF found THEN FateAfterImage(from) ELSE watched
    /\ UNCHANGED <<kind, destroyed, eventVars, lockVars>>

(* databaseQueryLatestInfo()                                               *)
PictureTimerFires ==
    /\ pictureTimer
    /\ pictureTimer' = FALSE
    /\ watched' = IF watched = "open" THEN "pictured" ELSE watched
    /\ UNCHANGED <<kind, destroyed, eventVars, requests, lockVars>>

(* processPushNotification(), or an event method of SmartSafe.             *)
ProcessPushNotification(m, efficient, watch) ==
    /\ m \in MessagesOf(kind)
    /\ m.starts \subseteq Seen
    /\ Asked + m.pictures <= MaxRequests
    /\ Shows(m)
    /\ LoadsPicture(m.pictures, efficient, watch)
    /\ UNCHANGED <<kind, destroyed, lockVars>>

(* destroy(): the detections stay as they are.                             *)
Destroy ==
    /\ ~destroyed
    /\ destroyed' = TRUE
    /\ timers' = [d \in Detections |-> "none"]
    /\ pictureTimer' = FALSE
    /\ UNCHANGED <<kind, detected, named, requests, watched, lockVars>>

----------------------------------------------------------------------------
(* The status of a lock.                                                   *)

(* Mutant: what comes last counts. *)
IsAnySource(current, update) == TRUE

IsPrioritySource(current, update) == update # "http" \/ current \in {"http", "none"}

(* updateRawProperty(), and handlePropertyChange() for the status.         *)
UpdateRaw(value, source) ==
    IF /\ value # raw.value
       /\ raw = Unknown \/ IsPrioritySource(raw.source, source)
    THEN /\ raw' = [value |-> value, source |-> source]
         /\ locked' = IF raw = Unknown \/ (raw.value = "locked") # (value = "locked")
                      THEN value = "locked" ELSE locked
    ELSE UNCHANGED <<raw, locked>>

(* The lock is turned or fails, and reports it.                            *)
Turn(status) ==
    /\ kind = "lock"
    /\ status # bolt
    /\ Len(reports) < MaxReports
    /\ bolt' = status
    /\ reports' = Append(reports, status)
    /\ UNCHANGED <<kind, destroyed, eventVars, pictureVars, raw, locked, poll, heard>>

(* processNotification(), processMQTTNotification() or a P2P parameter: a  *)
(* message that names a person starts the timer of the lock's event.       *)
ReportArrives(source, person) ==
    /\ reports # << >>
    /\ person => source # "p2p" /\ Head(reports) # "faulty"
    /\ reports' = Tail(reports)
    /\ heard' = TRUE
    /\ UpdateRaw(Head(reports), source)
    /\ IF person THEN Shows(Named("lockEvent", {}, 0)) ELSE UNCHANGED eventVars
    /\ UNCHANGED <<kind, destroyed, pictureVars, bolt, poll>>

(* The cloud is asked, and its answer arrives later (update).              *)
AskCloud ==
    /\ kind = "lock"
    /\ poll = "none"
    /\ poll' = bolt
    /\ UNCHANGED <<kind, destroyed, eventVars, pictureVars, raw, locked, bolt, reports, heard>>

CloudAnswers ==
    /\ poll # "none"
    /\ poll' = "none"
    /\ UpdateRaw(poll, "http")
    /\ UNCHANGED <<kind, destroyed, eventVars, pictureVars, bolt, reports, heard>>

----------------------------------------------------------------------------
Next ==
    \/ \E m \in MessagesOf(kind), efficient, watch \in BOOLEAN :
        ProcessPushNotification(m, efficient, watch)
    \/ \E d \in Detections : TimerFires(d)
    \/ \E from \in Origins, found \in BOOLEAN : ImageReturns(from, found)
    \/ PictureTimerFires
    \/ Destroy
    \/ \E status \in Statuses : Turn(status)
    \/ \E source \in Sources \ {"http"}, person \in BOOLEAN : ReportArrives(source, person)
    \/ AskCloud
    \/ CloudAnswers

Spec == Init /\ [][Next]_vars

----------------------------------------------------------------------------
TypeOK ==
    /\ kind \in Kinds
    /\ destroyed \in BOOLEAN
    /\ detected \subseteq Detections
    /\ timers \in [Detections -> {"none", "plain", "naming"}]
    /\ named \in BOOLEAN
    /\ pictureTimer \in BOOLEAN
    /\ requests \in [Origins -> 0..MaxRequests]
    /\ watched \in Fates
    /\ raw \in [value : Statuses, source : Sources] \cup {Unknown}
    /\ locked \in BOOLEAN
    /\ bolt \in Statuses
    /\ reports \in Seq(Statuses)
    /\ poll \in Statuses \cup {"none"}
    /\ heard \in BOOLEAN

(* Nothing is shown as detected for ever: as long as the device is in use, *)
(* a timer runs for every detection, also when several messages raise it   *)
(* and several timers are started and replaced (processPushNotification of *)
(* the classes of AllKinds, clearEventTimeout; GarageCamera, which is not  *)
(* among them, shows a low battery without a timer).                       *)
DetectionHasTimer == ~destroyed => \A d \in detected : timers[d] # "none"

(* The name of a person does not outlast the detections: a timer runs that *)
(* clears it.  A doorbell is an exception: SOMEONE_LOITERING and           *)
(* AWAY_FROM_HOME replace the timer of the person by one that does not.    *)
NameIsCleared ==
    named /\ ~destroyed /\ kind # "doorbell" => \E d \in Detections : timers[d] = "naming"

(* Any event gets a picture, whatever the cloud answers and in whatever    *)
(* order: as long as neither its image or that of a newer event came nor   *)
(* the station was asked since, its image is still to come or the station  *)
(* is still to be asked (loadEventImage, loadImageOverP2P).  The exception *)
(* is an event that left a query when the image of an older one came,      *)
(* which stops the timer that all events share.                            *)
PictureIsOnItsWay ==
    watched = "open" /\ HasQuery /\ ~destroyed => pictureTimer \/ requests["own"] > 0

(* Once a lock was heard, its status and "locked" are what the last report *)
(* said, and no answer of the cloud that was on its way for longer changes *)
(* that (isPrioritySourceType, updateRawProperty, handlePropertyChange),   *)
(* provided that the reports themselves do not overtake each other.        *)
StatusIsTheLocks ==
    heard /\ reports = << >> => raw.value = bolt /\ (locked <=> bolt = "locked")
=============================================================================
