-------------------------- MODULE DeviceEventsProofs -------------------------
(***************************************************************************)
(* Proofs about DeviceEvents, for every class of device and every          *)
(* configuration: the types, that a detection has a timer, that the name   *)
(* of a person is cleared, that any event gets its picture unless an older *)
(* image stops its query, and that a lock shows what it reported last.     *)
(***************************************************************************)
EXTENDS DeviceEvents, TLAPS

(* The detections whose timer may clear the name of a person.              *)
Namers == {"person", "identity", "stranger", "lockEvent"}

(* What holds of every message: each detection that is raised has its      *)
(* timer started.                                                          *)
Sensible(m) ==
    /\ m \in Message
    /\ m.raises \subseteq m.starts
    /\ m.naming \subseteq m.starts \cap Namers

(* A message without a name leaves the timers alone that clear one.        *)
KeepsName(m) == m.naming = {} => m.starts \cap Namers = {}

LEMMA PlainIsSensible ==
    ASSUME NEW ds \in SUBSET Detections, NEW pictures \in 0..2
    PROVE  /\ Sensible(Plain(ds, pictures))
           /\ ds \cap Namers = {} => KeepsName(Plain(ds, pictures))
  BY DEF Sensible, KeepsName, Plain, Message

LEMMA NamedIsSensible ==
    ASSUME NEW d \in Namers, NEW also \in SUBSET Detections, NEW pictures \in 0..2
    PROVE  Sensible(Named(d, also, pictures)) /\ KeepsName(Named(d, also, pictures))
<1>1. d \in Detections
  BY DEF Namers, Detections
<1> QED
  BY <1>1 DEF Sensible, KeepsName, Named, Message

LEMMA PassingIsSensible ==
    ASSUME NEW d \in {"loitering", "going"}
    PROVE  Sensible(Passing(d))
<1>1. {d, "person", "motion"} \subseteq Detections
  BY DEF Detections
<1> QED
  BY <1>1 DEF Sensible, Passing, Message, Motion

LEMMA MotionIsPlain ==
    /\ Motion \subseteq Detections
    /\ Motion \cap Namers = {}
    /\ PersonAndMotion \subseteq Detections
    /\ {"motion"} \subseteq Detections
    /\ {"motion"} \cap Namers = {}
  BY DEF Motion, PersonAndMotion, Detections, Namers

(* The messages of a class, one lemma for each.                            *)
Fine(M) == \A m \in M : Sensible(m) /\ KeepsName(m)

LEMMA SecurityIsFine ==
    ASSUME NEW pictures \in 0..2
    PROVE  Fine(Security(pictures))
  BY PlainIsSensible, NamedIsSensible, MotionIsPlain DEF Fine, Security, Namers

LEMMA HomeBase3IsFine ==
    ASSUME NEW pictures \in 0..2
    PROVE  Fine(HomeBase3Messages(pictures))
<1> DEFINE Simple == {"motion", "ringing", "crying", "dog", "dogLick", "dogPoop", "sound"}
<1>1. ASSUME NEW d \in Simple
      PROVE  {d} \subseteq Detections /\ {d} \cap Namers = {}
  BY DEF Detections, Namers
<1>2. ASSUME NEW d \in {"pet", "vehicle"}
      PROVE  {d} \cup Motion \subseteq Detections /\ ({d} \cup Motion) \cap Namers = {}
  BY MotionIsPlain DEF Detections, Namers
<1>3. Fine({Plain({d}, pictures) : d \in Simple})
  BY <1>1, PlainIsSensible DEF Fine
<1>4. Fine({Plain({d} \cup Motion, pictures) : d \in {"pet", "vehicle"}})
  BY <1>2, PlainIsSensible DEF Fine
<1>5. Fine({Named("person", Motion, pictures), Plain({}, pictures)})
  <2>1. {} \subseteq Detections /\ {} \cap Namers = {}
    OBVIOUS
  <2> QED
    BY <2>1, PlainIsSensible, NamedIsSensible, MotionIsPlain DEF Fine, Namers
<1>6. Fine({Named(d, PersonAndMotion, pictures) : d \in {"identity", "stranger"}})
  BY NamedIsSensible, MotionIsPlain DEF Fine, Namers
<1> QED
  BY <1>3, <1>4, <1>5, <1>6 DEF Fine, HomeBase3Messages

LEMMA CameraIsFine == Fine(CameraMessages)
  BY SecurityIsFine, HomeBase3IsFine DEF Fine, CameraMessages

LEMMA SoloIsFine == Fine(SoloMessages)
<1>1. {} \subseteq Detections /\ {} \cap Namers = {}
  OBVIOUS
<1>2. Fine({Plain({}, 1), Plain({"motion"}, 1), Named("person", Motion, 1)})
  BY <1>1, PlainIsSensible, NamedIsSensible, MotionIsPlain DEF Fine, Namers
<1> QED
  BY <1>2, SecurityIsFine DEF Fine, SoloMessages

LEMMA WallLightIsFine == Fine(WallLightMessages)
  BY SoloIsFine, HomeBase3IsFine DEF Fine, WallLightMessages

LEMMA IndoorIsFine == Fine(IndoorMessages)
<1>1. /\ {"crying", "sound"} \subseteq Detections /\ {"crying", "sound"} \cap Namers = {}
      /\ {"sound"} \subseteq Detections /\ {"sound"} \cap Namers = {}
      /\ {"pet"} \cup Motion \subseteq Detections /\ ({"pet"} \cup Motion) \cap Namers = {}
  BY MotionIsPlain DEF Detections, Namers
<1>2. Fine({Plain({"crying", "sound"}, 1), Plain({"sound"}, 1), Plain({"pet"} \cup Motion, 1)})
  BY <1>1, PlainIsSensible DEF Fine
<1> QED
  BY <1>2, SoloIsFine DEF Fine, IndoorMessages

LEMMA SmartSafeIsFine == Fine(SmartSafeMessages)
<1>1. ASSUME NEW d \in {"shake", "alarm911", "jammed", "lowBattery", "wrongTry", "longOpen"}
      PROVE  {d} \subseteq Detections /\ {d} \cap Namers = {}
  BY DEF Detections, Namers
<1> QED
  BY <1>1, PlainIsSensible DEF Fine, SmartSafeMessages

LEMMA SmartDropIsFine == Fine(SmartDropMessages)
<1> DEFINE Alarms == {"lid", "pin", "longOpen", "lowTemperature", "lowBattery",
                      "highTemperature", "tampering", "batteryFull"}
<1>1. ASSUME NEW d \in Alarms
      PROVE  {d} \subseteq Detections /\ {d} \cap Namers = {}
  BY DEF Detections, Namers
<1>2. Fine({Plain({d}, 1) : d \in Alarms})
  BY <1>1, PlainIsSensible DEF Fine
<1>3. Fine({Named("person", {}, 1), Plain({}, 1)})
  <2>1. {} \subseteq Detections /\ {} \cap Namers = {}
    OBVIOUS
  <2> QED
    BY <2>1, NamedIsSensible, PlainIsSensible DEF Fine, Namers
<1> QED
  BY <1>2, <1>3, SecurityIsFine, HomeBase3IsFine DEF Fine, SmartDropMessages

LEMMA DoorbellIsSensible == \A m \in DoorbellMessages : Sensible(m)
<1>1. ASSUME NEW d \in {"ringing", "packageDelivered", "packageStranded", "packageTaken", "radar"}
      PROVE  {d} \subseteq Detections
  BY DEF Detections
<1> QED
  BY <1>1, SoloIsFine, PlainIsSensible, PassingIsSensible DEF Fine, DoorbellMessages

(* All messages are sensible, and only those of a doorbell may replace the *)
(* timer that clears the name.                                             *)
LEMMA MessagesAreSensible ==
    ASSUME NEW k \in AllKinds, NEW m \in MessagesOf(k)
    PROVE  Sensible(m) /\ (k # "doorbell" => KeepsName(m))
<1>1. {"lowBattery"} \subseteq Detections /\ {"lowBattery"} \cap Namers = {}
  BY DEF Detections, Namers
<1>2. Fine({Plain({"motion"}, 0)}) /\ Fine({Plain({"lowBattery"}, 0)})
  BY <1>1, PlainIsSensible, MotionIsPlain DEF Fine
<1> QED
  BY <1>2, CameraIsFine, SoloIsFine, WallLightIsFine, IndoorIsFine, DoorbellIsSensible,
     SmartSafeIsFine, SmartDropIsFine
  DEF AllKinds, MessagesOf, Fine

(***************************************************************************)
(* The inductive invariant.  Only the timers of Namers clear the name, so  *)
(* that a message without a name leaves the one that does.                 *)
(***************************************************************************)
NamersName == \A d \in Detections : timers[d] = "naming" => d \in Namers

EventInv ==
    /\ TypeOK
    /\ NamersName
    /\ DetectionHasTimer
    /\ NameIsCleared
    /\ PictureIsOnItsWay

LEMMA InitEvents == Init => EventInv
<1> SUFFICES ASSUME Init PROVE EventInv
  OBVIOUS
<1> USE DEF Init
<1>1. bolt \in Statuses
  BY DEF Statuses
<1>2. 0 \in 0..MaxRequests
  BY DeviceAssumption
<1>3. timers \in [Detections -> {"none", "plain", "naming"}]
  OBVIOUS
<1>4. TypeOK
  <2>1. reports \in Seq(Statuses) /\ poll \in Statuses \cup {"none"}
    OBVIOUS
  <2>2. raw \in [value : Statuses, source : Sources] \cup {Unknown}
    OBVIOUS
  <2>3. kind \in Kinds /\ detected \subseteq Detections
    OBVIOUS
  <2>4. requests \in [Origins -> 0..MaxRequests]
    BY <1>2
  <2>5. /\ destroyed \in BOOLEAN /\ named \in BOOLEAN /\ pictureTimer \in BOOLEAN
        /\ locked \in BOOLEAN /\ heard \in BOOLEAN /\ watched \in Fates
    BY DEF Fates
  <2> HIDE DEF Init
  <2> QED
    BY <1>1, <1>3, <2>1, <2>2, <2>3, <2>4, <2>5 DEF TypeOK
<1>5. NamersName /\ DetectionHasTimer
  BY DEF NamersName, DetectionHasTimer
<1>6. NameIsCleared /\ PictureIsOnItsWay
  BY DEF NameIsCleared, PictureIsOnItsWay
<1> QED
  BY <1>4, <1>5, <1>6 DEF EventInv

(* What a message shows keeps the detections' part of the invariant.       *)
DetectionsOK ==
    /\ detected \subseteq Detections
    /\ timers \in [Detections -> {"none", "plain", "naming"}]
    /\ named \in BOOLEAN
    /\ NamersName
    /\ DetectionHasTimer
    /\ NameIsCleared

LEMMA ShowsStep ==
    ASSUME DetectionsOK, UNCHANGED <<kind, destroyed>>, NEW m, Sensible(m),
           kind # "doorbell" => KeepsName(m), Shows(m)
    PROVE  DetectionsOK'
<1> DEFINE Clears(d) == timers[d] = "naming"
<1>1. /\ m.raises \subseteq m.starts
      /\ m.starts \subseteq Detections
      /\ m.naming \subseteq m.starts \cap Namers
  BY DEF Sensible, Message
<1>2. /\ detected' = detected \cup m.raises
      /\ named' = (named \/ m.naming # {})
      /\ timers' \in [Detections -> {"none", "plain", "naming"}]
      /\ \A d \in m.naming : timers'[d] = "naming"
      /\ \A d \in m.starts \ m.naming : timers'[d] = "plain"
      /\ \A d \in Detections \ m.starts : timers'[d] = timers[d]
  BY <1>1 DEF Shows, Started, TimerOf, DetectionsOK
<1>3. detected' \subseteq Detections /\ named' \in BOOLEAN
  BY <1>1, <1>2 DEF DetectionsOK
<1>4. NamersName'
  BY <1>1, <1>2 DEF DetectionsOK, NamersName
<1>5. DetectionHasTimer'
  BY <1>1, <1>2 DEF DetectionsOK, DetectionHasTimer
<1>6. NameIsCleared'
  <2>1. SUFFICES ASSUME named', ~destroyed, kind # "doorbell"
                 PROVE  \E d \in Detections : timers'[d] = "naming"
    BY DEF NameIsCleared
  <2>2. CASE m.naming # {}
    BY <1>1, <1>2, <2>2
  <2>3. CASE m.naming = {}
    <3>1. PICK d \in Detections : timers[d] = "naming"
      BY <1>2, <2>1, <2>3 DEF DetectionsOK, NameIsCleared
    <3>2. d \notin m.starts
      BY <2>1, <2>3, <3>1 DEF DetectionsOK, NamersName, KeepsName
    <3> QED
      BY <1>2, <3>1, <3>2
  <2> QED
    BY <2>2, <2>3
<1> QED
  BY <1>2, <1>3, <1>4, <1>5, <1>6 DEF DetectionsOK

(* What pictures are asked for, and what comes of it.                      *)
PicturesOK ==
    /\ pictureTimer \in BOOLEAN
    /\ requests \in [Origins -> 0..MaxRequests]
    /\ watched \in Fates
    /\ PictureIsOnItsWay

LEMMA LoadsStep ==
    ASSUME PicturesOK, UNCHANGED destroyed, NEW times \in 0..2, NEW efficient \in BOOLEAN,
           NEW watch \in BOOLEAN, Asked + times <= MaxRequests,
           LoadsPicture(times, efficient, watch)
    PROVE  PicturesOK'
<1>1. /\ requests["older"] \in Nat /\ requests["own"] \in Nat /\ requests["newer"] \in Nat
      /\ MaxRequests \in Nat
  BY DeviceAssumption DEF PicturesOK, Origins
<1>2. \A origin \in Origins : requests[origin] + times \in 0..MaxRequests
  BY <1>1 DEF Origins, Asked
<1>3. OriginOf(watch) \in Origins /\ (watch => OriginOf(watch) = "own")
  BY DEF OriginOf, Origins
<1>4. pictureTimer' \in BOOLEAN /\ watched' \in Fates
  <2>1. pictureTimer' = TRUE \/ pictureTimer' = pictureTimer
    BY Zenon DEF LoadsPicture, PicturesOK
  <2>2. watched' \in Fates
    BY DEF LoadsPicture, PicturesOK, Fates
  <2> QED
    BY <2>1, <2>2, Zenon DEF PicturesOK
<1>5. requests' \in [Origins -> 0..MaxRequests]
  BY <1>2, <1>3 DEF LoadsPicture, PicturesOK
<1>6. PictureIsOnItsWay'
  <2>1. SUFFICES ASSUME watched' = "open", HasQuery, ~destroyed
                 PROVE  pictureTimer' \/ requests'["own"] > 0
    BY DEF PictureIsOnItsWay
  <2>2. CASE watch /\ efficient
    BY <1>1, <2>1, <2>2 DEF LoadsPicture
  <2>3. CASE watch /\ ~efficient
    <3>1. requests'["own"] = requests["own"] + times /\ times > 0
      BY <1>3, <2>3 DEF LoadsPicture, PicturesOK, Origins
    <3> QED
      BY <1>1, <3>1
  <2>4. CASE ~watch
    <3>1. requests'["own"] = requests["own"] \/ requests'["own"] = requests["own"] + times
      BY <1>3, <2>4 DEF LoadsPicture, PicturesOK, Origins
    <3>2. pictureTimer \/ requests["own"] > 0
      BY <2>1, <2>4 DEF LoadsPicture, PicturesOK, PictureIsOnItsWay
    <3>3. pictureTimer => pictureTimer'
      BY Zenon DEF LoadsPicture
    <3>4. requests["own"] > 0 => requests'["own"] > 0
      BY <1>1, <3>1
    <3> QED
      BY <3>2, <3>3, <3>4
  <2> QED
    BY <2>2, <2>3, <2>4
<1> QED
  BY <1>4, <1>5, <1>6 DEF PicturesOK

LEMMA MessageStep ==
    ASSUME EventInv, NEW m \in MessagesOf(kind), NEW efficient \in BOOLEAN,
           NEW watch \in BOOLEAN, ProcessPushNotification(m, efficient, watch)
    PROVE  EventInv'
<1>1. Sensible(m) /\ (kind # "doorbell" => KeepsName(m)) /\ m.pictures \in 0..2
  <2>1. kind \in AllKinds
    BY DeviceAssumption DEF EventInv, TypeOK
  <2>2. Sensible(m) /\ (kind # "doorbell" => KeepsName(m))
    BY <2>1, MessagesAreSensible
  <2> QED
    BY <2>2 DEF Sensible, Message
<1>2. DetectionsOK'
  BY <1>1, ShowsStep DEF ProcessPushNotification, EventInv, TypeOK, DetectionsOK
<1>3. PicturesOK'
  BY <1>1, LoadsStep DEF ProcessPushNotification, EventInv, TypeOK, PicturesOK
<1>4. TypeOK'
  BY <1>2, <1>3
  DEF ProcessPushNotification, DetectionsOK, PicturesOK, EventInv, TypeOK, lockVars
<1> QED
  BY <1>2, <1>3, <1>4 DEF EventInv, DetectionsOK, PicturesOK

LEMMA TimerStep ==
    ASSUME EventInv, NEW d \in Detections, TimerFires(d)
    PROVE  EventInv'
<1> USE DEF EventInv, TimerFires, pictureVars, lockVars
<1>1. TypeOK'
  BY DEF TypeOK
<1>2. NamersName' /\ DetectionHasTimer'
  BY DEF TypeOK, NamersName, DetectionHasTimer
<1>3. NameIsCleared'
  BY DEF TypeOK, NameIsCleared
<1>4. PictureIsOnItsWay'
  BY DEF PictureIsOnItsWay
<1> QED
  BY <1>1, <1>2, <1>3, <1>4

LEMMA ImageStep ==
    ASSUME PicturesOK, NEW from \in Origins, NEW found \in BOOLEAN, ImageReturns(from, found)
    PROVE  PicturesOK'
<1>1. /\ requests["own"] \in Nat /\ requests[from] \in 1..MaxRequests
      /\ MaxRequests \in Nat /\ UNCHANGED destroyed
  BY DeviceAssumption DEF PicturesOK, Origins, ImageReturns
<1>2. requests[from] - 1 \in 0..MaxRequests
  BY <1>1
<1>3. requests' \in [Origins -> 0..MaxRequests]
  BY <1>2 DEF ImageReturns, PicturesOK
<1>4. from # "own" => requests'["own"] = requests["own"]
  BY DEF ImageReturns, PicturesOK, Origins
<1>5. pictureTimer' = IF found THEN FALSE ELSE pictureTimer \/ HasQuery
  BY DEF ImageReturns
<1>6. pictureTimer' \in BOOLEAN
  BY <1>5, DeviceAssumption DEF PicturesOK
<1>7. FateAfterImage(from) \in Fates
  BY DEF FateAfterImage, PicturesOK, Fates
<1>8. watched' \in Fates
  BY <1>7 DEF ImageReturns, PicturesOK
<1>9. PictureIsOnItsWay'
  <2>1. SUFFICES ASSUME watched' = "open", HasQuery, ~destroyed
                 PROVE  pictureTimer' \/ requests'["own"] > 0
    BY <1>1 DEF PictureIsOnItsWay
  <2>2. CASE ~found
    BY <1>5, <2>1, <2>2
  <2>3. CASE found
    <3>1. FateAfterImage(from) = "open"
      BY <2>1, <2>3 DEF ImageReturns
    <3>2. watched = "open" /\ from = "older" /\ ~(pictureTimer /\ requests["own"] = 0)
      BY <3>1 DEF FateAfterImage
    <3>3. requests["own"] > 0
      BY <1>1, <2>1, <3>2 DEF PicturesOK, PictureIsOnItsWay
    <3> QED
      BY <1>4, <3>2, <3>3
  <2> QED
    BY <2>2, <2>3
<1> QED
  BY <1>3, <1>6, <1>8, <1>9 DEF PicturesOK

LEMMA PictureStep ==
    ASSUME EventInv,
           \/ PictureTimerFires
           \/ \E from \in Origins, found \in BOOLEAN : ImageReturns(from, found)
    PROVE  EventInv'
<1>1. UNCHANGED <<kind, destroyed, eventVars, lockVars>>
  BY DEF PictureTimerFires, ImageReturns
<1>2. PicturesOK'
  <2>1. PicturesOK
    BY DEF EventInv, TypeOK, PicturesOK
  <2>2. CASE PictureTimerFires
    BY <2>1, <2>2 DEF PictureTimerFires, PicturesOK, PictureIsOnItsWay, Fates
  <2>3. ASSUME NEW from \in Origins, NEW found \in BOOLEAN, ImageReturns(from, found)
        PROVE  PicturesOK'
    BY <2>1, <2>3, ImageStep
  <2> QED
    BY <2>2, <2>3
<1>3. TypeOK'
  BY <1>1, <1>2 DEF PicturesOK, EventInv, TypeOK, eventVars, lockVars
<1>4. NamersName' /\ DetectionHasTimer' /\ NameIsCleared'
  BY <1>1 DEF EventInv, NamersName, DetectionHasTimer, NameIsCleared, eventVars
<1> QED
  BY <1>2, <1>3, <1>4 DEF PicturesOK, EventInv

LEMMA DestroyStep ==
    ASSUME EventInv, Destroy
    PROVE  EventInv'
  BY DEF EventInv, Destroy, TypeOK, NamersName, DetectionHasTimer, NameIsCleared,
         PictureIsOnItsWay, lockVars

(* The steps of a lock, as far as the invariant goes.                      *)
LEMMA UpdateRawTypes ==
    ASSUME TypeOK, NEW value \in Statuses, NEW source \in Sources, UpdateRaw(value, source)
    PROVE  /\ raw' \in [value : Statuses, source : Sources] \cup {Unknown}
           /\ locked' \in BOOLEAN
<1>1. raw' = raw \/ raw' = [value |-> value, source |-> source]
  BY DEF UpdateRaw
<1>2. raw' \in [value : Statuses, source : Sources] \cup {Unknown}
  BY <1>1 DEF TypeOK
<1>3. locked' = locked \/ locked' = (value = "locked")
  BY Zenon DEF UpdateRaw
<1>4. locked' \in BOOLEAN
  BY <1>3, Zenon DEF TypeOK
<1> QED
  BY <1>2, <1>4

LEMMA ReportStep ==
    ASSUME EventInv, NEW source \in Sources \ {"http"}, NEW person \in BOOLEAN,
           ReportArrives(source, person)
    PROVE  EventInv'
<1>1. Head(reports) \in Statuses /\ Tail(reports) \in Seq(Statuses)
  BY DEF ReportArrives, EventInv, TypeOK
<1>2. /\ raw' \in [value : Statuses, source : Sources] \cup {Unknown}
      /\ locked' \in BOOLEAN
  BY <1>1, UpdateRawTypes DEF ReportArrives, EventInv
<1>3. DetectionsOK'
  <2>1. {} \subseteq Detections /\ "lockEvent" \in Namers
    BY DEF Namers
  <2>2. Sensible(Named("lockEvent", {}, 0)) /\ KeepsName(Named("lockEvent", {}, 0))
    BY <2>1, NamedIsSensible
  <2>3. DetectionsOK
    BY DEF EventInv, TypeOK, DetectionsOK
  <2>4. CASE person
    BY <2>2, <2>3, <2>4, ShowsStep DEF ReportArrives
  <2>5. CASE ~person
    BY <2>3, <2>5 DEF ReportArrives, DetectionsOK, eventVars, NamersName,
                      DetectionHasTimer, NameIsCleared
  <2> QED
    BY <2>4, <2>5
<1>4. TypeOK'
  BY <1>1, <1>2, <1>3 DEF ReportArrives, DetectionsOK, EventInv, TypeOK, pictureVars
<1>5. PictureIsOnItsWay'
  BY DEF ReportArrives, EventInv, PictureIsOnItsWay, pictureVars
<1> QED
  BY <1>3, <1>4, <1>5 DEF EventInv, DetectionsOK

LEMMA LockStep ==
    ASSUME EventInv,
           (\E status \in Statuses : Turn(status)) \/ AskCloud \/ CloudAnswers
    PROVE  EventInv'
<1> USE DEF EventInv
<1>1. UNCHANGED <<kind, destroyed, eventVars, pictureVars>>
  BY DEF Turn, AskCloud, CloudAnswers
<1>2. TypeOK'
  <2>1. ASSUME NEW status \in Statuses, Turn(status) PROVE TypeOK'
    BY <2>1 DEF Turn, TypeOK, eventVars, pictureVars
  <2>2. CASE AskCloud
    BY <2>2 DEF AskCloud, TypeOK, eventVars, pictureVars
  <2>3. CASE CloudAnswers
    <3>1. poll \in Statuses /\ "http" \in Sources
      BY <2>3 DEF CloudAnswers, TypeOK, Sources
    <3>2. /\ raw' \in [value : Statuses, source : Sources] \cup {Unknown}
          /\ locked' \in BOOLEAN
      BY <2>3, <3>1, UpdateRawTypes DEF CloudAnswers
    <3> QED
      BY <2>3, <3>2 DEF CloudAnswers, TypeOK, eventVars, pictureVars
  <2> QED
    BY <2>1, <2>2, <2>3
<1>3. NamersName' /\ DetectionHasTimer' /\ NameIsCleared' /\ PictureIsOnItsWay'
  BY <1>1 DEF NamersName, DetectionHasTimer, NameIsCleared, PictureIsOnItsWay,
              eventVars, pictureVars
<1> QED
  BY <1>2, <1>3

LEMMA NextEvents == EventInv /\ [Next]_vars => EventInv'
<1> SUFFICES ASSUME EventInv, [Next]_vars PROVE EventInv'
  OBVIOUS
<1>1. ASSUME NEW m \in MessagesOf(kind), NEW efficient \in BOOLEAN, NEW watch \in BOOLEAN,
             ProcessPushNotification(m, efficient, watch)
      PROVE  EventInv'
  BY <1>1, MessageStep
<1>2. ASSUME NEW d \in Detections, TimerFires(d) PROVE EventInv'
  BY <1>2, TimerStep
<1>3. CASE \/ PictureTimerFires
           \/ \E from \in Origins, found \in BOOLEAN : ImageReturns(from, found)
  BY <1>3, PictureStep
<1>4. CASE Destroy
  BY <1>4, DestroyStep
<1>5. CASE (\E status \in Statuses : Turn(status)) \/ AskCloud \/ CloudAnswers
  BY <1>5, LockStep
<1>6. ASSUME NEW source \in Sources \ {"http"}, NEW person \in BOOLEAN,
             ReportArrives(source, person)
      PROVE  EventInv'
  BY <1>6, ReportStep
<1>7. CASE UNCHANGED vars
  BY <1>7 DEF vars, eventVars, pictureVars, lockVars, EventInv, TypeOK, NamersName,
              DetectionHasTimer, NameIsCleared, PictureIsOnItsWay
<1> QED
  BY <1>1, <1>2, <1>3, <1>4, <1>5, <1>6, <1>7 DEF Next

LEMMA EventsInvariant == Spec => []EventInv
<1> QED
  BY InitEvents, NextEvents, PTL DEF Spec

(* The types of a device: its timers, its requests for images and the raw  *)
(* status of a lock.                                                       *)
THEOREM DeviceTypes == Spec => []TypeOK
<1>1. EventInv => TypeOK
  BY DEF EventInv
<1> QED
  BY <1>1, EventsInvariant, PTL

(* Every detection of a device in use has its timer, whatever messages     *)
(* come and however their timers replace each other.                       *)
THEOREM DetectionsEnd == Spec => []DetectionHasTimer
<1>1. EventInv => DetectionHasTimer
  BY DEF EventInv
<1> QED
  BY <1>1, EventsInvariant, PTL

(* While the name of a person is set, a timer runs that clears it, for     *)
(* every class but a doorbell.                                             *)
THEOREM NamesEnd == Spec => []NameIsCleared
<1>1. EventInv => NameIsCleared
  BY DEF EventInv
<1> QED
  BY <1>1, EventsInvariant, PTL

(* Any event of a device in use whose station can be asked: as long as     *)
(* neither its own image or that of a newer event came nor the station was *)
(* asked, one of its own requests is open or the timer of the query runs,  *)
(* unless the image of an older event has stopped that timer.              *)
THEOREM EventsGetPictures == Spec => []PictureIsOnItsWay
<1>1. EventInv => PictureIsOnItsWay
  BY DEF EventInv
<1> QED
  BY <1>1, EventsInvariant, PTL

----------------------------------------------------------------------------
(***************************************************************************)
(* The status of a lock.  What the cloud says is as old as one of the      *)
(* reports on their way, or as what was reported last: as long as the      *)
(* status comes from the cloud, it is not behind the reports, and an       *)
(* answer on its way is not behind the status.                             *)
(***************************************************************************)
InOrder(queue, last) ==
    /\ queue # << >> => queue[Len(queue)] = last
    /\ \A i \in 1..Len(queue) - 1 : queue[i] # queue[i + 1]

(* The lock had this status when it sent the i-th of the reports on their  *)
(* way or, if i is 0, before it sent the first.                            *)
Fits(queue, last, value, i) ==
    IF i > 0 THEN value = queue[i]
    ELSE IF queue = << >> THEN value = last ELSE value # queue[1]

StatusFits(queue, last, value, answer) ==
    \E i \in 0..Len(queue) :
        /\ Fits(queue, last, value, i)
        /\ answer # "none" => \E j \in i..Len(queue) :
               answer = IF j = 0 THEN value ELSE queue[j]

AnswerFits(queue, last, answer) ==
    answer # "none" => \E i \in 0..Len(queue) : Fits(queue, last, answer, i)

LastReportCounts ==
    raw # Unknown /\ raw.source # "http" /\ reports = << >> => raw.value = bolt

LockInv ==
    /\ InOrder(reports, bolt)
    /\ raw # Unknown /\ raw.source = "http" => StatusFits(reports, bolt, raw.value, poll)
    /\ raw = Unknown => AnswerFits(reports, bolt, poll)
    /\ LastReportCounts
    /\ raw # Unknown => (locked <=> raw.value = "locked")
    /\ heard => raw # Unknown

(* The lock is turned.                                                     *)
LEMMA AppendedReport ==
    ASSUME NEW queue \in Seq(Statuses), NEW last, InOrder(queue, last),
           NEW new \in Statuses, new # last
    PROVE  /\ InOrder(Append(queue, new), new)
           /\ \A v : \A i \in 0..Len(queue) :
                 Fits(queue, last, v, i) => Fits(Append(queue, new), new, v, i)
           /\ Len(Append(queue, new)) = Len(queue) + 1
           /\ \A i \in 1..Len(queue) : Append(queue, new)[i] = queue[i]
<1> DEFINE longer == Append(queue, new)
<1>1. /\ Len(queue) \in Nat /\ Len(longer) = Len(queue) + 1
      /\ longer[Len(queue) + 1] = new /\ longer # << >>
      /\ \A i \in 1..Len(queue) : longer[i] = queue[i]
      /\ queue = << >> <=> Len(queue) = 0
  OBVIOUS
<1> HIDE DEF longer
<1>2. InOrder(longer, new)
  <2>1. ASSUME NEW i \in 1..Len(longer) - 1 PROVE longer[i] # longer[i + 1]
    <3>1. i \in 1..Len(queue)
      BY <1>1
    <3>2. CASE i = Len(queue)
      BY <1>1, <3>1, <3>2 DEF InOrder
    <3>3. CASE i # Len(queue)
      <4>1. i \in 1..Len(queue) - 1 /\ i + 1 \in 1..Len(queue)
        BY <1>1, <3>1, <3>3
      <4> QED
        BY <1>1, <3>1, <4>1 DEF InOrder
    <3> QED
      BY <3>2, <3>3
  <2> QED
    BY <1>1, <2>1 DEF InOrder
<1>3. ASSUME NEW v, NEW i \in 0..Len(queue), Fits(queue, last, v, i)
      PROVE  Fits(longer, new, v, i)
  <2>1. CASE i > 0
    BY <1>1, <1>3, <2>1 DEF Fits
  <2>2. CASE ~(i > 0) /\ queue = << >>
    BY <1>1, <1>3, <2>2 DEF Fits
  <2>3. CASE ~(i > 0) /\ queue # << >>
    <3>1. 1 \in 1..Len(queue)
      BY <1>1, <2>3
    <3> QED
      BY <1>1, <1>3, <2>3, <3>1 DEF Fits
  <2> QED
    BY <2>1, <2>2, <2>3
<1> QED
  BY <1>1, <1>2, <1>3 DEF longer

(* A report arrives.                                                       *)
LEMMA ArrivedReport ==
    ASSUME NEW queue \in Seq(Statuses), NEW last, InOrder(queue, last), queue # << >>
    PROVE  /\ InOrder(Tail(queue), last)
           /\ \A i \in 1..Len(queue) : Fits(Tail(queue), last, queue[i], i - 1)
           /\ Len(Tail(queue)) = Len(queue) - 1
           /\ \A i \in 1..Len(queue) - 1 : Tail(queue)[i] = queue[i + 1]
           /\ Head(queue) = queue[1] /\ Len(queue) \in Nat \ {0}
           /\ Tail(queue) = << >> => Head(queue) = last
<1> DEFINE rest == Tail(queue)
<1>1. /\ Len(queue) \in Nat \ {0} /\ Len(rest) = Len(queue) - 1
      /\ \A i \in 1..Len(queue) - 1 : rest[i] = queue[i + 1]
      /\ Head(queue) = queue[1]
      /\ rest \in Seq(Statuses)
  OBVIOUS
<1>2. rest = << >> <=> Len(queue) = 1
  BY <1>1
<1> HIDE DEF rest
<1>3. InOrder(rest, last)
  <2>1. ASSUME NEW i \in 1..Len(rest) - 1 PROVE rest[i] # rest[i + 1]
    <3>1. i \in 1..Len(queue) - 1 /\ i + 1 \in 1..Len(queue) - 1
      BY <1>1
    <3> QED
      BY <1>1, <3>1 DEF InOrder
  <2>2. rest # << >> => rest[Len(rest)] = last
    <3> SUFFICES ASSUME rest # << >> PROVE rest[Len(rest)] = last
      OBVIOUS
    <3>1. Len(rest) \in 1..Len(queue) - 1 /\ Len(rest) + 1 = Len(queue)
      BY <1>1, <1>2
    <3> QED
      BY <1>1, <3>1 DEF InOrder
  <2> QED
    BY <2>1, <2>2 DEF InOrder
<1>4. rest = << >> => queue[1] = last
  BY <1>2 DEF InOrder
<1>5. ASSUME NEW i \in 1..Len(queue) PROVE Fits(rest, last, queue[i], i - 1)
  <2>1. CASE i = 1 /\ rest = << >>
    BY <1>4, <2>1 DEF Fits
  <2>2. CASE i = 1 /\ rest # << >>
    <3>1. 1 \in 1..Len(queue) - 1
      BY <1>1, <1>2, <2>2
    <3> QED
      BY <1>1, <2>2, <3>1 DEF Fits, InOrder
  <2>3. CASE i # 1
    <3>1. i - 1 \in 1..Len(queue) - 1 /\ (i - 1) + 1 = i /\ i - 1 > 0
      BY <1>1, <2>3
    <3> QED
      BY <1>1, <3>1 DEF Fits
  <2> QED
    BY <2>1, <2>2, <2>3
<1> QED
  BY <1>1, <1>3, <1>4, <1>5 DEF rest

LEMMA InitLock == Init => LockInv
<1> SUFFICES ASSUME Init PROVE LockInv
  OBVIOUS
<1> QED
  BY DEF Init, LockInv, InOrder, AnswerFits, LastReportCounts

LEMMA TurnLock ==
    ASSUME EventInv, LockInv, NEW status \in Statuses, Turn(status)
    PROVE  LockInv'
<1> DEFINE longer == Append(reports, status)
<1>1. /\ reports \in Seq(Statuses) /\ InOrder(reports, bolt) /\ status # bolt
      /\ reports' = longer /\ bolt' = status /\ UNCHANGED <<raw, locked, poll, heard>>
      /\ Len(reports) \in Nat
  BY DEF EventInv, TypeOK, LockInv, Turn
<1>2. /\ InOrder(longer, status)
      /\ \A v : \A i \in 0..Len(reports) :
            Fits(reports, bolt, v, i) => Fits(longer, status, v, i)
      /\ Len(longer) = Len(reports) + 1
      /\ \A i \in 1..Len(reports) : longer[i] = reports[i]
  BY <1>1, AppendedReport
<1>3. longer # << >>
  BY <1>1
<1> HIDE DEF longer
<1>4. \A i \in 0..Len(reports) : i \in 0..Len(longer) /\ i..Len(reports) \subseteq i..Len(longer)
  BY <1>1, <1>2
<1>5. ASSUME NEW v, StatusFits(reports, bolt, v, poll)
      PROVE  StatusFits(longer, status, v, poll)
  <2>1. PICK i \in 0..Len(reports) :
          /\ Fits(reports, bolt, v, i)
          /\ poll # "none" => \E j \in i..Len(reports) : poll = IF j = 0 THEN v ELSE reports[j]
    BY <1>5 DEF StatusFits
  <2>2. ASSUME NEW j \in i..Len(reports), poll = IF j = 0 THEN v ELSE reports[j]
        PROVE  poll = IF j = 0 THEN v ELSE longer[j]
    <3>1. j = 0 \/ j \in 1..Len(reports)
      BY <1>1
    <3> QED
      BY <1>2, <2>2, <3>1
  <2> QED
    BY <1>2, <1>4, <2>1, <2>2 DEF StatusFits
<1>6. AnswerFits(reports, bolt, poll) => AnswerFits(longer, status, poll)
  BY <1>2, <1>4 DEF AnswerFits
<1> QED
  BY <1>1, <1>2, <1>3, <1>5, <1>6 DEF LockInv, LastReportCounts

(* A status of the cloud is replaced by a report unless it says the same;  *)
(* then it is not what was reported before, so the report is the one it    *)
(* fits, or an earlier one.                                                *)
LEMMA ReportLock ==
    ASSUME EventInv, LockInv, NEW source \in Sources \ {"http"}, NEW person,
           ReportArrives(source, person)
    PROVE  LockInv'
<1> DEFINE rest == Tail(reports)
           value == Head(reports)
<1>1. /\ reports \in Seq(Statuses) /\ reports # << >> /\ InOrder(reports, bolt)
      /\ reports' = rest /\ UNCHANGED <<bolt, poll>>
      /\ raw \in [value : Statuses, source : Sources] \cup {Unknown}
      /\ UpdateRaw(value, source)
  BY DEF EventInv, TypeOK, LockInv, ReportArrives
<1>2. value \in Statuses /\ source # "http" /\ source # "none"
  BY <1>1 DEF Sources
<1>3. /\ InOrder(rest, bolt)
      /\ \A i \in 1..Len(reports) : Fits(rest, bolt, reports[i], i - 1)
      /\ Len(rest) = Len(reports) - 1
      /\ \A i \in 1..Len(reports) - 1 : rest[i] = reports[i + 1]
      /\ value = reports[1] /\ Len(reports) \in Nat \ {0}
      /\ rest = << >> => value = bolt
  BY <1>1, ArrivedReport
<1> HIDE DEF rest, value
<1>4. Unknown.value \notin Statuses /\ Unknown.source = "none"
  BY DEF Unknown, Statuses
<1>5. CASE value # raw.value
  <2>1. /\ raw' = [value |-> value, source |-> source]
        /\ locked' = IF raw = Unknown \/ (raw.value = "locked") # (value = "locked")
                     THEN value = "locked" ELSE locked
    BY <1>1, <1>2, <1>5 DEF UpdateRaw, IsPrioritySource
  <2>2. raw' # Unknown /\ raw'.source # "http" /\ raw'.value = value
    BY <1>2, <2>1 DEF Unknown
  <2>3. locked' <=> value = "locked"
    BY <2>1 DEF LockInv
  <2>4. LastReportCounts'
    BY <1>1, <1>3, <2>2 DEF LastReportCounts
  <2> QED
    BY <1>1, <1>3, <2>2, <2>3, <2>4 DEF LockInv
<1>6. CASE value = raw.value
  <2>1. UNCHANGED <<raw, locked>> /\ raw # Unknown
    BY <1>1, <1>2, <1>4, <1>6 DEF UpdateRaw
  <2>2. ASSUME raw.source = "http" PROVE StatusFits(rest, bolt, raw.value, poll)
    <3>1. PICK i \in 0..Len(reports) :
            /\ Fits(reports, bolt, raw.value, i)
            /\ poll # "none" => \E j \in i..Len(reports) :
                  poll = IF j = 0 THEN raw.value ELSE reports[j]
      BY <2>1, <2>2 DEF LockInv, StatusFits
    <3>2. i \in 1..Len(reports) /\ raw.value = reports[i]
      BY <1>1, <1>3, <1>6, <3>1 DEF Fits
    <3>3. i - 1 \in 0..Len(rest) /\ Fits(rest, bolt, raw.value, i - 1)
      BY <1>3, <3>2
    <3>4. ASSUME NEW j \in i..Len(reports), poll = IF j = 0 THEN raw.value ELSE reports[j]
          PROVE  /\ j - 1 \in (i - 1)..Len(rest)
                 /\ poll = IF j - 1 = 0 THEN raw.value ELSE rest[j - 1]
      <4>1. j # 0 /\ poll = reports[j] /\ j - 1 \in (i - 1)..Len(rest)
        BY <1>3, <3>2, <3>4
      <4>2. CASE j = 1
        <5>1. poll = reports[1] /\ j - 1 = 0
          BY <4>1, <4>2
        <5>2. reports[1] = raw.value
          BY <1>3, <1>6
        <5> QED
          BY <4>1, <5>1, <5>2
      <4>3. CASE j # 1
        <5>1. j - 1 \in 1..Len(reports) - 1 /\ (j - 1) + 1 = j /\ j - 1 # 0
          BY <1>3, <3>2, <4>3
        <5> QED
          BY <1>3, <4>1, <5>1
      <4> QED
        BY <4>2, <4>3
    <3>5. poll # "none" => \E j \in (i - 1)..Len(rest) :
                               poll = IF j = 0 THEN raw.value ELSE rest[j]
      <4> SUFFICES ASSUME poll # "none"
                   PROVE  \E j \in (i - 1)..Len(rest) : poll = IF j = 0 THEN raw.value ELSE rest[j]
        OBVIOUS
      <4>1. PICK j \in i..Len(reports) : poll = IF j = 0 THEN raw.value ELSE reports[j]
        BY <3>1
      <4> QED
        BY <3>4, <4>1
    <3> QED
      BY <3>3, <3>5 DEF StatusFits
  <2>3. LastReportCounts'
    BY <1>1, <1>3, <1>6, <2>1 DEF LastReportCounts
  <2> QED
    BY <1>1, <1>3, <2>1, <2>2, <2>3 DEF LockInv
<1> QED
  BY <1>5, <1>6

(* The cloud is asked for the status the lock has.                         *)
LEMMA AskLock ==
    ASSUME EventInv, LockInv, AskCloud
    PROVE  LockInv'
<1>1. /\ reports \in Seq(Statuses) /\ Len(reports) \in Nat
      /\ poll' = bolt /\ UNCHANGED <<raw, locked, bolt, reports, heard>>
      /\ InOrder(reports, bolt)
      /\ reports = << >> <=> Len(reports) = 0
  BY DEF EventInv, TypeOK, LockInv, AskCloud
<1> DEFINE L == Len(reports)
<1>2. L \in 0..L /\ \A i \in 0..L : L \in i..L
  BY <1>1
<1>3. Fits(reports, bolt, bolt, L)
  BY <1>1 DEF Fits, InOrder
<1>4. AnswerFits(reports, bolt, bolt)
  BY <1>2, <1>3 DEF AnswerFits
<1>5. ASSUME StatusFits(reports, bolt, raw.value, poll)
      PROVE  StatusFits(reports, bolt, raw.value, bolt)
  <2>1. PICK i \in 0..L : Fits(reports, bolt, raw.value, i)
    BY <1>5 DEF StatusFits
  <2>2. bolt = IF L = 0 THEN raw.value ELSE reports[L]
    BY <1>1, <2>1 DEF Fits, InOrder
  <2> QED
    BY <1>2, <2>1, <2>2 DEF StatusFits
<1> QED
  BY <1>1, <1>4, <1>5 DEF LockInv, LastReportCounts

LEMMA AnswerLock ==
    ASSUME EventInv, LockInv, CloudAnswers
    PROVE  LockInv'
<1>1. /\ poll \in Statuses /\ poll # "none" /\ poll' = "none"
      /\ UNCHANGED <<bolt, reports, heard>> /\ Len(reports) \in Nat
      /\ raw \in [value : Statuses, source : Sources] \cup {Unknown}
      /\ UpdateRaw(poll, "http")
  BY DEF EventInv, TypeOK, CloudAnswers
<1>2. Unknown.value \notin Statuses /\ Unknown.source = "none"
  BY DEF Unknown, Statuses
<1>3. CASE UNCHANGED <<raw, locked>>
  <2>1. \A v : StatusFits(reports, bolt, v, poll) => StatusFits(reports, bolt, v, "none")
    BY DEF StatusFits
  <2> QED
    BY <1>1, <1>3, <2>1 DEF LockInv, LastReportCounts, AnswerFits
<1>4. CASE ~UNCHANGED <<raw, locked>>
  <2>1. /\ poll # raw.value /\ (raw = Unknown \/ raw.source = "http")
        /\ raw' = [value |-> poll, source |-> "http"]
        /\ locked' = IF raw = Unknown \/ (raw.value = "locked") # (poll = "locked")
                     THEN poll = "locked" ELSE locked
    <3>1. raw = Unknown \/ raw.source \in Sources
      BY <1>1
    <3>2. "none" \notin Sources
      BY DEF Sources
    <3> QED
      BY <1>1, <1>4, <3>1, <3>2 DEF UpdateRaw, IsPrioritySource
  <2>2. raw' # Unknown /\ raw'.source = "http" /\ raw'.value = poll
    BY <2>1 DEF Unknown
  <2>3. locked' <=> poll = "locked"
    BY <2>1 DEF LockInv
  <2>4. PICK i \in 0..Len(reports) : Fits(reports, bolt, poll, i)
    <3>1. CASE raw = Unknown
      BY <1>1, <3>1 DEF LockInv, AnswerFits
    <3>2. CASE raw # Unknown
      <4>1. PICK i \in 0..Len(reports) :
              \E j \in i..Len(reports) : poll = IF j = 0 THEN raw.value ELSE reports[j]
        BY <1>1, <2>1, <3>2 DEF LockInv, StatusFits
      <4>2. PICK j \in i..Len(reports) : poll = IF j = 0 THEN raw.value ELSE reports[j]
        BY <4>1
      <4>3. j \in 0..Len(reports) /\ j > 0 /\ poll = reports[j]
        BY <1>1, <2>1, <4>2
      <4> QED
        BY <4>3 DEF Fits
    <3> QED
      BY <3>1, <3>2
  <2>5. StatusFits(reports, bolt, poll, "none")
    BY <2>4 DEF StatusFits
  <2> QED
    BY <1>1, <2>2, <2>3, <2>5 DEF LockInv, LastReportCounts
<1> QED
  BY <1>3, <1>4

LEMMA NextLock == EventInv /\ LockInv /\ [Next]_vars => LockInv'
<1> SUFFICES ASSUME EventInv, LockInv, [Next]_vars PROVE LockInv'
  OBVIOUS
<1>1. CASE UNCHANGED lockVars
  BY <1>1 DEF LockInv, LastReportCounts, lockVars
<1>2. CASE Next
  <2>1. ASSUME NEW m, NEW efficient, NEW watch, ProcessPushNotification(m, efficient, watch)
        PROVE  UNCHANGED lockVars
    BY <2>1 DEF ProcessPushNotification
  <2>2. ASSUME NEW d, TimerFires(d) PROVE UNCHANGED lockVars
    BY <2>2 DEF TimerFires
  <2>3. ASSUME NEW from, NEW found, ImageReturns(from, found) PROVE UNCHANGED lockVars
    BY <2>3 DEF ImageReturns
  <2>4. PictureTimerFires \/ Destroy => UNCHANGED lockVars
    BY DEF PictureTimerFires, Destroy
  <2> QED
    BY <1>1, <1>2, <2>1, <2>2, <2>3, <2>4, TurnLock, ReportLock, AskLock, AnswerLock DEF Next
<1>3. CASE UNCHANGED vars
  BY <1>1, <1>3 DEF vars
<1> QED
  BY <1>2, <1>3

(* A lock that was heard shows the status it reported last, and "locked"   *)
(* agrees, however answers of the cloud and reports overtake each other:   *)
(* with any number of reports on their way, the cloud's answer is ignored, *)
(* or says what the status says, or fits a report still to come.           *)
THEOREM LockIsHeard == Spec => []StatusIsTheLocks
<1>1. LockInv => StatusIsTheLocks
  <2> SUFFICES ASSUME LockInv, heard, reports = << >>
               PROVE  raw.value = bolt /\ (locked <=> bolt = "locked")
    BY DEF StatusIsTheLocks
  <2>1. raw # Unknown
    BY DEF LockInv
  <2>2. raw.value = bolt
    <3>1. CASE raw.source # "http"
      BY <2>1, <3>1 DEF LockInv, LastReportCounts
    <3>2. CASE raw.source = "http"
      <4>1. PICK i \in 0..Len(reports) : Fits(reports, bolt, raw.value, i)
        BY <2>1, <3>2 DEF LockInv, StatusFits
      <4>2. ~(i > 0)
        BY <4>1
      <4> QED
        BY <4>1, <4>2 DEF Fits
    <3> QED
      BY <3>1, <3>2
  <2> QED
    BY <2>1, <2>2 DEF LockInv
<1> QED
  BY <1>1, InitLock, NextLock, EventsInvariant, PTL DEF Spec
=============================================================================
