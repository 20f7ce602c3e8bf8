------------------------ MODULE StationRegistryProofs ------------------------
(***************************************************************************)
(* Proofs about StationRegistry: its types, and that all stations of the   *)
(* house are known when no call of handleHubs() runs, for any number of    *)
(* stations and calls, and wherever stations move.                         *)
(***************************************************************************)
EXTENDS StationRegistry, FiniteSetTheorems, TLAPS

(* A set of stations has a first one: of the sets {s \in S : s <= x}, one  *)
(* is minimal.                                                             *)
LEMMA FirstStation ==
    ASSUME NEW S, S \subseteq Stations, S # {}
    PROVE  Min(S) \in S /\ \A s \in S : Min(S) <= s
<1> DEFINE Below(x) == {s \in S : s <= x}
           Family == {Below(x) : x \in S}
<1>1. IsFiniteSet(S)
  <2>1. IsFiniteSet(1..MaxStations)
    BY FS_Interval, RegistryAssumption
  <2> QED
    BY <2>1, FS_Subset DEF Stations
<1>2. Family \subseteq FiniteSubsetsOf(S)
  BY <1>1, FS_Subset DEF FiniteSubsetsOf
<1>3. PICK B \in Family : \A C \in Family : ~(<<C, B>> \in StrictSubsetOrdering(S))
  <2>1. IsWellFoundedOn(StrictSubsetOrdering(S), FiniteSubsetsOf(S))
    BY <1>1, FS_StrictSubsetOrderingWellFounded
  <2>2. Family # {}
    OBVIOUS
  <2> HIDE DEF Family
  <2> QED
    BY <1>2, <2>1, <2>2, WFMin
<1>4. PICK x \in S : B = Below(x)
  OBVIOUS
<1>5. ASSUME NEW y \in S PROVE x <= y
  <2>1. SUFFICES ASSUME y < x PROVE FALSE
    BY DEF Stations
  <2>2. Below(y) \subseteq Below(x) /\ Below(y) # Below(x)
    <3>1. S \subseteq Int
      BY RegistryAssumption DEF Stations
    <3>2. ASSUME NEW z \in Below(y) PROVE z \in Below(x)
      <4>1. z \in Int /\ y \in Int /\ x \in Int /\ z <= y
        BY <3>1
      <4>2. z <= x
        BY <2>1, <4>1
      <4> QED
        BY <4>2
    <3>3. x \in Below(x) /\ x \notin Below(y)
      BY <2>1, <3>1
    <3> QED
      BY <3>2, <3>3
  <2>3. <<Below(y), B>> \in StrictSubsetOrdering(S)
    BY <2>2, <1>4 DEF StrictSubsetOrdering
  <2> QED
    BY <2>3, <1>3
<1> QED
  BY <1>5 DEF Min

(* What is known of a call of handleHubs().                                *)
CallType ==
    [at : {"idle", "loop", "waiting", "creating"}, last : 0..MaxStations,
     next : 1..MaxStations + 1, pending : SUBSET Stations]

LEMMA IdleIsACall == Idle \in CallType
<1>1. 1 \in 1..MaxStations + 1 /\ 0 \in 0..MaxStations
  BY RegistryAssumption
<1> QED
  BY <1>1 DEF Idle, CallType

(***************************************************************************)
(* The inductive invariant: a station of the house that is not known is    *)
(* being created or is still ahead of some call of handleHubs(); and what  *)
(* a call waits to update stays known, so that nothing is lost when it     *)
(* goes on behind it.                                                      *)
(***************************************************************************)
IsAhead(s, h) ==
    /\ handler[h].at \in {"loop", "waiting"}
    /\ s \in handler[h].next..handler[h].last

LooksAfter(s, h) == s \in handler[h].pending \/ IsAhead(s, h)

NothingIsLost == \A s \in matches \ stations : \E h \in Handlers : LooksAfter(s, h)

WaitsForKnown ==
    \A h \in Handlers :
        handler[h].at = "waiting" => handler[h].next \in stations

IdleCreatesNothing ==
    \A h \in Handlers :
        /\ handler[h].at = "idle" => handler[h].pending = {}
        /\ handler[h].last <= listed
        /\ handler[h].pending \subseteq 1..listed

RegistryInv == TypeOK /\ NothingIsLost /\ WaitsForKnown /\ IdleCreatesNothing

LEMMA InitRegistry == Init => RegistryInv
<1> SUFFICES ASSUME Init PROVE RegistryInv
  OBVIOUS
<1> USE RegistryAssumption DEF Init
<1>1. TypeOK
  <2>1. handler \in [Handlers -> CallType]
    BY IdleIsACall
  <2>2. listed \in 0..MaxStations
    OBVIOUS
  <2> QED
    BY <2>1, <2>2 DEF TypeOK, CallType
<1>2. NothingIsLost /\ WaitsForKnown /\ IdleCreatesNothing
  BY DEF Idle, NothingIsLost, WaitsForKnown, IdleCreatesNothing
<1> QED
  BY <1>1, <1>2 DEF RegistryInv

LEMMA RefreshStep ==
    ASSUME RegistryInv, NEW h \in Handlers, NEW n \in 0..MaxStations, NEW home \in SUBSET Stations,
           RefreshStationData(h, n, home)
    PROVE  RegistryInv'
<1> USE RegistryAssumption DEF RegistryInv
<1>1. TypeOK'
  BY DEF RefreshStationData, TypeOK, Stations
<1>2. NothingIsLost'
  <2>1. \A s \in home : LooksAfter(s, h)'
    BY DEF RefreshStationData, TypeOK, Stations, LooksAfter, IsAhead
  <2> QED
    BY <2>1 DEF RefreshStationData, NothingIsLost
<1>3. WaitsForKnown' /\ IdleCreatesNothing'
  BY DEF RefreshStationData, TypeOK, Stations, WaitsForKnown, IdleCreatesNothing
<1> QED
  BY <1>1, <1>2, <1>3

(* The first of the known stations ahead, and those that are created       *)
(* before it.                                                              *)
LEMMA AheadOfLoop ==
    ASSUME RegistryInv, NEW h \in Handlers, handler[h].at = "loop"
    PROVE  /\ New(h) \subseteq 1..listed
           /\ New(h) \subseteq Stations
           /\ Known(h) # {} =>
                /\ Min(Known(h)) \in Known(h)
                /\ Min(Known(h)) \in 1..MaxStations
                /\ \A s \in matches \ stations :
                     IsAhead(s, h) => s \in New(h) \/ s \in Min(Known(h)) + 1 .. handler[h].last
           /\ Known(h) = {} =>
                \A s \in matches \ stations : IsAhead(s, h) => s \in New(h)
<1> USE RegistryAssumption DEF RegistryInv
<1>1. Known(h) \subseteq Stations /\ New(h) \subseteq 1..listed /\ New(h) \subseteq Stations
  BY DEF Known, New, Ahead, TypeOK, Stations, IdleCreatesNothing
<1>2. CASE Known(h) = {}
  BY <1>1, <1>2 DEF New, Ahead, IsAhead
<1>3. CASE Known(h) # {}
  <2> DEFINE k == Min(Known(h))
  <2>1. k \in Known(h) /\ \A s \in Known(h) : k <= s
    BY <1>1, <1>3, FirstStation
  <2>2. k \in 1..MaxStations /\ k \in stations
    BY <1>1, <2>1 DEF Stations, Known
  <2>3. ASSUME NEW s \in matches \ stations, IsAhead(s, h)
        PROVE  s \in New(h) \/ s \in k + 1 .. handler[h].last
    <3>1. s \in Ahead(h) /\ s \in Int /\ s # k
      BY <2>2, <2>3 DEF Ahead, IsAhead, TypeOK
    <3>2. CASE s < k
      <4>1. \A j \in Known(h) : s < j
        BY <1>1, <2>1, <2>2, <3>1, <3>2 DEF Stations
      <4> QED
        BY <3>1, <4>1 DEF New
    <3>3. CASE k < s
      BY <2>2, <2>3, <3>1, <3>3 DEF IsAhead, TypeOK
    <3> QED
      BY <2>2, <3>1, <3>2, <3>3
  <2> QED
    BY <1>1, <1>3, <2>1, <2>2, <2>3
<1> QED
  BY <1>2, <1>3

(* The event "stations loaded" ends a call that looks after no more        *)
(* station; the calls that wait go on behind the station they wait for.    *)
LEMMA LoadedStep ==
    ASSUME RegistryInv, NEW h \in Handlers, StationsLoaded(h),
           stations \subseteq stations', stations' \subseteq 1..listed,
           UNCHANGED <<listed, matches>>,
           \A s \in matches \ stations' : ~LooksAfter(s, h)
    PROVE  RegistryInv'
<1> USE RegistryAssumption DEF RegistryInv
<1>1. \A g \in Handlers : handler[g].at = "waiting" => handler[g].next + 1 \in 1..MaxStations + 1
  BY DEF WaitsForKnown, TypeOK
<1>2. TypeOK'
  <2>1. ASSUME NEW g \in Handlers PROVE handler'[g] \in CallType
    <3>1. CASE handler[g].at = "waiting" /\ g # h
      BY <1>1, <3>1 DEF StationsLoaded, TypeOK, CallType
    <3>2. CASE ~(handler[g].at = "waiting" /\ g # h)
      BY <3>2, IdleIsACall DEF StationsLoaded, TypeOK, CallType
    <3> QED
      BY <3>1, <3>2
  <2>2. handler' \in [Handlers -> CallType]
    BY <2>1 DEF StationsLoaded
  <2> QED
    BY <2>2 DEF StationsLoaded, TypeOK, CallType
<1>3. ASSUME NEW s \in matches' \ stations'
      PROVE  \E g \in Handlers : LooksAfter(s, g)'
  <2>1. PICK g \in Handlers : LooksAfter(s, g)
    BY <1>3 DEF NothingIsLost
  <2>2. g # h
    BY <1>3, <2>1
  <2>3. CASE handler[g].at = "waiting" /\ IsAhead(s, g)
    <3>1. handler[g].next \in stations /\ s # handler[g].next
      BY <1>3, <2>3 DEF WaitsForKnown
    <3>2. s \in handler[g].next + 1 .. handler[g].last
      BY <2>3, <3>1 DEF IsAhead, TypeOK
    <3>3. IsAhead(s, g)'
      BY <2>2, <2>3, <3>2 DEF StationsLoaded, IsAhead, TypeOK
    <3> QED
      BY <3>3 DEF LooksAfter
  <2>4. CASE ~(handler[g].at = "waiting" /\ IsAhead(s, g))
    BY <2>1, <2>2, <2>4 DEF StationsLoaded, LooksAfter, IsAhead, TypeOK
  <2> QED
    BY <2>3, <2>4
<1>4. NothingIsLost'
  BY <1>3 DEF NothingIsLost
<1>5. WaitsForKnown'
  BY DEF StationsLoaded, WaitsForKnown, TypeOK, Idle
<1>6. IdleCreatesNothing'
  <2>1. ASSUME NEW g \in Handlers
        PROVE  /\ handler'[g].at = "idle" => handler'[g].pending = {}
               /\ handler'[g].last <= listed
               /\ handler'[g].pending \subseteq 1..listed
    <3>1. CASE g = h
      <4>1. listed \in Nat
        BY DEF TypeOK
      <4>2. handler'[g] = Idle
        BY <3>1 DEF StationsLoaded
      <4> QED
        BY <4>1, <4>2 DEF Idle
    <3>2. CASE g # h
      BY <3>2 DEF StationsLoaded, IdleCreatesNothing, TypeOK
    <3> QED
      BY <3>1, <3>2
  <2> QED
    BY <2>1 DEF IdleCreatesNothing
<1> QED
  BY <1>2, <1>4, <1>5, <1>6

LEMMA UpdateStep ==
    ASSUME RegistryInv, NEW h \in Handlers, UpdateStation(h)
    PROVE  RegistryInv'
<1> USE RegistryAssumption DEF RegistryInv
<1>1. /\ handler[h].at = "loop"
      /\ Known(h) # {}
      /\ New(h) \subseteq 1..listed
      /\ New(h) \subseteq Stations
      /\ Min(Known(h)) \in stations
      /\ Min(Known(h)) \in 1..MaxStations
  BY AheadOfLoop DEF UpdateStation, Known
<1>2. \A g \in Handlers : handler[g] \in CallType
  BY DEF TypeOK, CallType
<1>3. /\ handler'[h].at = IF loading' THEN "waiting" ELSE "loop"
      /\ handler'[h].next = IF loading' THEN Min(Known(h)) ELSE Min(Known(h)) + 1
      /\ handler'[h].last = handler[h].last
      /\ handler'[h].pending = handler[h].pending \cup New(h)
      /\ \A g \in Handlers \ {h} : handler'[g] = handler[g]
      /\ UNCHANGED <<listed, matches, stations, callers>>
      /\ loading' = (loading \/ New(h) # {})
  BY DEF UpdateStation, TypeOK
<1>4. TypeOK'
  <2>1. /\ Min(Known(h)) \in 1..MaxStations + 1
        /\ Min(Known(h)) + 1 \in 1..MaxStations + 1
        /\ loading' \in BOOLEAN
    BY <1>1, <1>3 DEF TypeOK
  <2>2. handler' \in [Handlers -> CallType]
    <3> DEFINE next == IF loading' THEN Min(Known(h)) ELSE Min(Known(h)) + 1
               new == [handler[h] EXCEPT !.at = IF loading' THEN "waiting" ELSE "loop",
                                         !.next = next,
                                         !.pending = @ \cup New(h)]
    <3>1. next \in 1..MaxStations + 1
      BY <2>1
    <3> HIDE DEF next
    <3>2. new \in CallType
      BY <1>1, <1>2, <3>1 DEF CallType
    <3>3. handler' = [handler EXCEPT ![h] = new]
      BY DEF UpdateStation, TypeOK, next
    <3> HIDE DEF new
    <3> QED
      BY <1>2, <3>2, <3>3 DEF TypeOK
  <2> QED
    BY <1>3, <2>1, <2>2 DEF TypeOK, CallType
<1>5. NothingIsLost'
  <2>1. ASSUME NEW s \in matches \ stations
        PROVE  \E g \in Handlers : LooksAfter(s, g)'
    <3>1. PICK g \in Handlers : LooksAfter(s, g)
      BY DEF NothingIsLost
    <3>2. CASE g # h
      BY <1>3, <3>1, <3>2 DEF LooksAfter, IsAhead
    <3>3. CASE g = h /\ s \in handler[h].pending
      BY <1>3, <3>3 DEF LooksAfter
    <3>4. CASE g = h /\ IsAhead(s, h)
      <4>1. s \in New(h) \/ s \in Min(Known(h)) + 1 .. handler[h].last
        BY <1>1, <3>4, AheadOfLoop
      <4>2. CASE s \in New(h)
        BY <1>3, <4>2 DEF LooksAfter
      <4>3. CASE s \in Min(Known(h)) + 1 .. handler[h].last
        <5>1. s \in handler'[h].next .. handler'[h].last
          BY <1>1, <1>2, <1>3, <4>3 DEF CallType
        <5> QED
          BY <1>3, <5>1 DEF LooksAfter, IsAhead
      <4> QED
        BY <4>1, <4>2, <4>3
    <3> QED
      BY <3>1, <3>2, <3>3, <3>4 DEF LooksAfter
  <2> QED
    BY <1>3, <2>1 DEF NothingIsLost
<1>6. WaitsForKnown'
  BY <1>1, <1>3 DEF WaitsForKnown
<1>7. IdleCreatesNothing'
  BY <1>1, <1>3 DEF IdleCreatesNothing
<1> QED
  BY <1>4, <1>5, <1>6, <1>7

LEMMA EndLoopStep ==
    ASSUME RegistryInv, NEW h \in Handlers, EndLoop(h)
    PROVE  RegistryInv'
<1> USE RegistryAssumption DEF RegistryInv
<1>1. /\ handler[h].at = "loop"
      /\ Known(h) = {}
      /\ New(h) \subseteq 1..listed
      /\ New(h) \subseteq Stations
      /\ \A s \in matches \ stations : IsAhead(s, h) => s \in New(h)
      /\ UNCHANGED <<listed, matches, stations>>
  BY AheadOfLoop DEF EndLoop
<1>2. CASE handler[h].pending \cup New(h) = {}
  <2>1. StationsLoaded(h)
    BY <1>2 DEF EndLoop
  <2>2. \A s \in matches \ stations' : ~LooksAfter(s, h)
    BY <1>1, <1>2 DEF LooksAfter
  <2> QED
    BY <1>1, <2>1, <2>2, LoadedStep DEF TypeOK
<1>3. CASE handler[h].pending \cup New(h) # {}
  <2>1. /\ handler'[h].at = "creating"
        /\ handler'[h].last = handler[h].last
        /\ handler'[h].pending = handler[h].pending \cup New(h)
        /\ \A g \in Handlers \ {h} : handler'[g] = handler[g]
    BY <1>3 DEF EndLoop, TypeOK
  <2>2. TypeOK'
    <3>1. handler' \in [Handlers -> CallType]
      BY <1>1, <1>3 DEF EndLoop, TypeOK, CallType
    <3>2. loading' \in BOOLEAN /\ UNCHANGED callers
      BY <1>3 DEF EndLoop, TypeOK
    <3> QED
      BY <1>1, <3>1, <3>2 DEF TypeOK, CallType
  <2>3. NothingIsLost'
    BY <1>1, <2>1 DEF NothingIsLost, LooksAfter, IsAhead
  <2>4. WaitsForKnown'
    BY <1>1, <2>1 DEF WaitsForKnown
  <2>5. IdleCreatesNothing'
    BY <1>1, <2>1 DEF IdleCreatesNothing
  <2> QED
    BY <2>2, <2>3, <2>4, <2>5
<1> QED
  BY <1>2, <1>3

LEMMA CreatedStep ==
    ASSUME RegistryInv, NEW h \in Handlers, NEW s \in Stations, Created(h, s)
    PROVE  RegistryInv'
<1> USE RegistryAssumption DEF RegistryInv
<1>1. /\ s \in handler[h].pending
      /\ stations' = stations \cup {s}
      /\ stations' \subseteq 1..listed
      /\ UNCHANGED <<listed, matches>>
  BY DEF Created, IdleCreatesNothing, TypeOK
<1>2. CASE handler[h].at = "creating" /\ handler[h].pending = {s}
  <2>1. StationsLoaded(h)
    BY <1>2 DEF Created
  <2>2. \A t \in matches \ stations' : ~LooksAfter(t, h)
    BY <1>1, <1>2 DEF LooksAfter, IsAhead
  <2> QED
    BY <1>1, <2>1, <2>2, LoadedStep
<1>3. CASE ~(handler[h].at = "creating" /\ handler[h].pending = {s})
  <2>1. /\ handler' = [handler EXCEPT ![h].pending = @ \ {s}]
        /\ UNCHANGED <<loading, callers>>
    BY <1>3 DEF Created
  <2>2. /\ \A g \in Handlers : /\ handler'[g].at = handler[g].at
                               /\ handler'[g].next = handler[g].next
                               /\ handler'[g].last = handler[g].last
                               /\ handler'[g].pending \subseteq handler[g].pending
                               /\ handler[g].pending \subseteq handler'[g].pending \cup {s}
    BY <2>1 DEF TypeOK
  <2>3. TypeOK'
    BY <1>1, <2>1 DEF TypeOK
  <2>4. NothingIsLost'
    BY <1>1, <2>2 DEF NothingIsLost, LooksAfter, IsAhead
  <2>5. WaitsForKnown'
    BY <1>1, <2>2 DEF WaitsForKnown
  <2>6. IdleCreatesNothing'
    BY <1>1, <2>2 DEF IdleCreatesNothing
  <2> QED
    BY <2>3, <2>4, <2>5, <2>6
<1> QED
  BY <1>2, <1>3

LEMMA NextRegistry == RegistryInv /\ [Next]_vars => RegistryInv'
<1> SUFFICES ASSUME RegistryInv, [Next]_vars PROVE RegistryInv'
  OBVIOUS
<1>1. ASSUME NEW h \in Handlers, NEW n \in 0..MaxStations, NEW home \in SUBSET Stations,
             RefreshStationData(h, n, home)
      PROVE  RegistryInv'
  BY <1>1, RefreshStep
<1>2. ASSUME NEW h \in Handlers, UpdateStation(h) PROVE RegistryInv'
  BY <1>2, UpdateStep
<1>3. ASSUME NEW h \in Handlers, EndLoop(h) PROVE RegistryInv'
  BY <1>3, EndLoopStep
<1>4. ASSUME NEW h \in Handlers, NEW s \in Stations, Created(h, s) PROVE RegistryInv'
  BY <1>4, CreatedStep
<1>5. ASSUME NEW s \in Stations, GetStation(s) PROVE RegistryInv'
  BY <1>5 DEF GetStation, RegistryInv, TypeOK, NothingIsLost, LooksAfter, IsAhead,
              WaitsForKnown, IdleCreatesNothing
<1>6. CASE UNCHANGED vars
  BY <1>6 DEF vars, RegistryInv, TypeOK, NothingIsLost, LooksAfter, IsAhead,
              WaitsForKnown, IdleCreatesNothing
<1> QED
  BY <1>1, <1>2, <1>3, <1>4, <1>5, <1>6 DEF Next

(* The bookkeeping of handleHubs() holds of every behaviour of the         *)
(* registry.                                                               *)
THEOREM RegistryInvariant == Spec => []RegistryInv
<1> QED
  BY InitRegistry, NextRegistry, PTL DEF Spec

(* The types of the registry: a position of the loop, the stations that    *)
(* are created and those that are known stay within what the cloud lists.  *)
THEOREM RegistryTypes == Spec => []TypeOK
<1>1. RegistryInv => TypeOK
  BY DEF RegistryInv
<1> QED
  BY <1>1, RegistryInvariant, PTL

(* When no call of handleHubs() runs, all stations of the house are known, *)
(* however many calls overlapped and wherever stations moved.              *)
THEOREM HouseIsKnown == Spec => []KnowsTheHouse
<1>1. RegistryInv => KnowsTheHouse
  BY DEF RegistryInv, KnowsTheHouse, NothingIsLost, LooksAfter, IsAhead, IdleCreatesNothing
<1> QED
  BY <1>1, RegistryInvariant, PTL
=============================================================================
