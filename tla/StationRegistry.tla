--------------------------- MODULE StationRegistry ---------------------------
(***************************************************************************)
(* The stations of stations.ts: handleHubs() creates or updates them from  *)
(* what the cloud lists, and who asks for a station waits while some are   *)
(* being created.                                                          *)
(*                                                                         *)
(* The HTTP API never forgets a station (refreshStationData), and the keys *)
(* of its object hubs keep the order in which they came: a station is its  *)
(* place in that order, and a handler looks at the numbers one by one.  No *)
(* handler can therefore find a known station missing, and removeStation() *)
(* is never reached.                                                       *)
(*                                                                         *)
(* External: the cloud, which lists more and more stations and in whose    *)
(* app a station moves from house to house.                                *)
(***************************************************************************)
EXTENDS Naturals, FiniteSetsExt

CONSTANTS
    MaxStations,   \* bound: stations of the account
    Handlers,      \* bound: calls of handleHubs() that run at a time
    MovesIn        \* may a station move into the house before it was known?

ASSUME RegistryAssumption ==
    /\ MaxStations \in Nat
    /\ MovesIn \in BOOLEAN

Stations == 1..MaxStations

VARIABLES
    listed,    \* number of keys of HTTPApi.hubs
    matches,   \* the stations in the house of the configuration
    stations,  \* the stations that are known
    loading,   \* is stationsLoaded set?
    handler,   \* the calls of handleHubs()
    callers    \* the stations that getStation() waits for

vars == <<listed, matches, stations, loading, handler, callers>>

Idle == [at |-> "idle", last |-> 0, next |-> 1, pending |-> {}]

Init ==
    /\ listed = 0
    /\ matches = {}
    /\ stations = {}
    /\ loading = FALSE
    /\ handler = [h \in Handlers |-> Idle]
    /\ callers = {}

----------------------------------------------------------------------------
(* refreshStationData(): the cloud answers with the first n stations, and  *)
(* says which of them are in the house; the event "hubs" calls             *)
(* handleHubs().                                                           *)
RefreshStationData(h, n, home) ==
    /\ handler[h].at = "idle"
    /\ n \in listed..MaxStations
    /\ home \subseteq 1..n
    /\ ~MovesIn => home \cap 1..listed \subseteq matches \cup stations
    /\ listed' = n
    /\ matches' = home
    /\ handler' = [handler EXCEPT ![h] =
                    [at |-> "loop", last |-> n, next |-> 1, pending |-> {}]]
    /\ UNCHANGED <<stations, loading, callers>>

(* What the loop finds until it has to wait: the first station that is     *)
(* known, and those before it, which it creates.                           *)
Ahead(h) == (handler[h].next..handler[h].last) \cap matches
Known(h) == Ahead(h) \cap stations
New(h) == {s \in Ahead(h) : \A k \in Known(h) : s < k}

(* Mutant: the event ends the handlers that wait for it. *)
LoadedEndsAll(h) ==
    /\ loading' = FALSE
    /\ callers' = {}
    /\ handler' = [g \in Handlers |->
            IF g = h \/ handler[g].at = "waiting" THEN Idle ELSE handler[g]]

(* The event "stations loaded": h is done, and who waits goes on; a        *)
(* handler then updates its station and connects it.                       *)
StationsLoaded(h) ==
    /\ loading' = FALSE
    /\ callers' = {}
    /\ handler' = [g \in Handlers |->
            IF g = h THEN Idle
            ELSE IF handler[g].at = "waiting"
                 THEN [handler[g] EXCEPT !.at = "loop", !.next = @ + 1]
                 ELSE handler[g]]

(* Mutant: an update waits although no station is being created. *)
UpdateAlwaysWaits(h) ==
    /\ handler[h].at = "loop"
    /\ Known(h) # {}
    /\ handler' = [handler EXCEPT ![h].at = "waiting",
                                  ![h].next = Min(Known(h)),
                                  ![h].pending = @ \cup New(h)]
    /\ UNCHANGED <<listed, matches, stations, loading, callers>>

(* updateStation() of a station that is known: it waits while stations are *)
(* created, also by the same handler.                                      *)
UpdateStation(h) ==
    /\ handler[h].at = "loop"
    /\ Known(h) # {}
    /\ loading' = (loading \/ New(h) # {})
    /\ handler' = [handler EXCEPT
            ![h].at = IF loading' THEN "waiting" ELSE "loop",
            ![h].next = IF loading' THEN Min(Known(h)) ELSE Min(Known(h)) + 1,
            ![h].pending = @ \cup New(h)]
    /\ UNCHANGED <<listed, matches, stations, callers>>

(* The loop is over: what was created is awaited, if anything was.         *)
EndLoop(h) ==
    /\ handler[h].at = "loop"
    /\ Known(h) = {}
    /\ IF handler[h].pending \cup New(h) = {}
       THEN StationsLoaded(h)
       ELSE /\ handler' = [handler EXCEPT ![h].at = "creating",
                                          ![h].pending = @ \cup New(h)]
            /\ loading' = (loading \/ New(h) # {})
            /\ UNCHANGED callers
    /\ UNCHANGED <<listed, matches, stations>>

(* Mutant: the event is not emitted when the last station was created. *)
CreatedQuietly(h, s) ==
    /\ s \in handler[h].pending
    /\ stations' = stations \cup {s}
    /\ handler' = [handler EXCEPT ![h].pending = @ \ {s},
            ![h].at = IF @ = "creating" /\ handler[h].pending = {s} THEN "idle" ELSE @]
    /\ UNCHANGED <<listed, matches, loading, callers>>

(* Station.getInstance() has the key of s, if it needs one: addStation()   *)
(* keeps s unless another handler was first.                               *)
Created(h, s) ==
    /\ s \in handler[h].pending
    /\ stations' = stations \cup {s}
    /\ IF handler[h].at = "creating" /\ handler[h].pending = {s}
       THEN StationsLoaded(h)
       ELSE /\ handler' = [handler EXCEPT ![h].pending = @ \ {s}]
            /\ UNCHANGED <<loading, callers>>
    /\ UNCHANGED <<listed, matches>>

(* getStation() of a device or a request; it returns at once unless        *)
(* stations are being created.                                             *)
GetStation(s) ==
    /\ loading
    /\ callers' = callers \cup {s}
    /\ UNCHANGED <<listed, matches, stations, loading, handler>>

----------------------------------------------------------------------------
HandleHubs(h) == UpdateStation(h) \/ EndLoop(h)

Next ==
    \/ \E h \in Handlers, n \in 0..MaxStations, home \in SUBSET Stations :
        RefreshStationData(h, n, home)
    \/ \E h \in Handlers : UpdateStation(h)
    \/ \E h \in Handlers : EndLoop(h)
    \/ \E h \in Handlers, s \in Stations : Created(h, s)
    \/ \E s \in Stations : GetStation(s)

(* A handler that can go on does, and the cloud answers a request for a key. *)
Fairness ==
    \A h \in Handlers :
        /\ WF_vars(HandleHubs(h))
        /\ \A s \in Stations : WF_vars(Created(h, s))

Spec == Init /\ [][Next]_vars
FairSpec == Spec /\ Fairness

----------------------------------------------------------------------------
TypeOK ==
    /\ listed \in 0..MaxStations
    /\ matches \subseteq 1..listed
    /\ stations \subseteq 1..listed
    /\ loading \in BOOLEAN
    /\ handler \in [Handlers -> [at : {"idle", "loop", "waiting", "creating"},
                                 last : 0..MaxStations,
                                 next : 1..MaxStations + 1,
                                 pending : SUBSET Stations]]
    /\ callers \subseteq Stations

(* When no answer of the cloud is being worked off, all stations of the    *)
(* house are known, however many calls of handleHubs() created the same    *)
(* ones.                                                                   *)
KnowsTheHouse == (\A h \in Handlers : handler[h].at = "idle") => matches \subseteq stations

(* Every call of handleHubs() ends, although it waits for other calls      *)
(* (updateStation, "stations loaded").                                     *)
HubsAreHandled == \A h \in Handlers : handler[h].at # "idle" ~> handler[h].at = "idle"

(* Who asks for a station gets it or an error (getStation, getStations).   *)
CallersAreAnswered == \A s \in Stations : s \in callers ~> s \notin callers
=============================================================================
