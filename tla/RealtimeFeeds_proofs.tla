------------------------ MODULE RealtimeFeeds_proofs ------------------------
(***************************************************************************)
(* Proofs about RealtimeFeeds, for every number of feeds, every set of     *)
(* vehicles and messages and every setting of the timers.                  *)
(***************************************************************************)
EXTENDS RealtimeFeeds, FiniteSetTheorems, TLAPS

USE DEF Feeds, Headers

-----------------------------------------------------------------------------
(* What the vehicle operators return. *)

\* A message yields positions of known vehicles only, whatever it carries.
LEMMA ReportedType ==
    ASSUME NEW held, VehicleMap(held), NEW report \in Reports
    PROVE  VehicleMap(Reported(held, report))
BY VehicleAssumption, ReportAssumption DEF VehicleMap, Reported

\* Applying a message keeps the vehicle map a map of positions.
LEMMA VehiclesAfterType ==
    ASSUME NEW held, VehicleMap(held), NEW lastSeen,
           NEW live, VehicleMap(live), NEW now
    PROVE  VehicleMap(VehiclesAfter(held, lastSeen, live, now))
BY DEF VehicleMap, VehiclesAfter, RetainedKeys, ReleaseTakenTrip, Positions

\* The retention entries after a message are those of the vehicles after it.
LEMMA SeenAfter ==
    ASSUME NEW held, NEW lastSeen, DOMAIN lastSeen = DOMAIN held,
           NEW live, NEW now
    PROVE  DOMAIN LastSeenAfter(lastSeen, live, now)
               = DOMAIN VehiclesAfter(held, lastSeen, live, now)
BY DEF LastSeenAfter, VehiclesAfter, RetainedKeys

\* The same for the clean-up that stands in for a message too old to apply.
LEMMA SeenKept ==
    ASSUME NEW held, NEW lastSeen, DOMAIN lastSeen = DOMAIN held, NEW now
    PROVE  DOMAIN LastSeenKept(lastSeen, now) = DOMAIN VehiclesKept(held, lastSeen, now)
BY DEF LastSeenKept, VehiclesKept

\* No jitter reaches below zero or beyond the longest delay.
LEMMA BackoffDelaysBounded ==
    ASSUME NEW f \in Feeds, NEW errors \in 1..MaxExponent,
           NEW delay \in BackoffDelays(f, errors)
    PROVE  delay \in 0..MaxDelay
<1>1. PICK interval \in 0..MaxInterval :
          /\ interval = Backoff(f, errors)
          /\ delay \in (interval - Jitter(interval))..(interval + Jitter(interval))
  <2>1. <<2, 4, 8, 16, 32>>[errors] \in Nat
    BY DEF MaxExponent
  <2>2. RefreshInterval[f] \in Nat
    BY FeedAssumption
  <2>3. RefreshInterval[f] * <<2, 4, 8, 16, 32>>[errors] \in Nat
    BY <2>1, <2>2
  <2>4. Backoff(f, errors) \in 0..MaxInterval
    BY <2>3, FeedAssumption DEF Backoff
  <2> QED BY <2>4 DEF BackoffDelays
<1>2. Jitter(interval) \in 0..interval
  <2>1. interval * JitterPercent \in Nat /\ interval * JitterPercent <= interval * 100
    <3>1. ASSUME NEW a \in Nat, NEW j \in Nat, NEW b \in Nat, j <= b
          PROVE  a * j \in Nat /\ a * j <= a * b
      BY <3>1
    <3>2. interval \in Nat /\ JitterPercent \in Nat /\ JitterPercent <= 100
      BY <1>1, FeedAssumption
    <3> HIDE <1>1
    <3> QED BY <3>1, <3>2
  <2> QED BY <1>1, <2>1 DEF Jitter
<1>3. Jitter(interval) <= Jitter(MaxInterval) /\ Jitter(MaxInterval) \in Nat
  <2>1. /\ interval * JitterPercent \in Nat
        /\ MaxInterval * JitterPercent \in Nat
        /\ interval * JitterPercent <= MaxInterval * JitterPercent
    BY <1>1, FeedAssumption
  <2>2. ASSUME NEW a \in Nat, NEW b \in Nat, a <= b
        PROVE  a \div 100 <= b \div 100 /\ b \div 100 \in Nat
    BY <2>2
  <2> QED BY <2>1, <2>2 DEF Jitter
<1> QED BY <1>1, <1>2, <1>3, FeedAssumption DEF MaxDelay

-----------------------------------------------------------------------------
(* Type correctness. *)

\* One update leaves the maps well formed, whichever sub-feeds arrived.
LEMMA UpdateKeepsMaps ==
    ASSUME FeedMapsOK, NEW f \in Feeds, NEW arrived, UpdateFeedRealtime(f, arrived),
           UNCHANGED clock
    PROVE  FeedMapsOK'
<1>1. /\ feedTrips' \in [Feeds -> SUBSET TripIds]
      /\ feedUnattributedTrips' \in [Feeds -> SUBSET TripIds]
  BY DEF FeedMapsOK, UpdateFeedRealtime, StoreTrips
<1>2. VehicleMapsOK'
  <2>1. CASE ~("vehicles" \in arrived)
    BY <2>1 DEF FeedMapsOK, VehicleMapsOK, UpdateFeedRealtime, LastSeenMap
  <2>2. ASSUME NEW header \in Headers \cup {NoTime}, NEW report \in Reports,
               ApplyVehicles(f, report, header)
        PROVE  VehicleMapsOK'
    <3> DEFINE live == Reported(feedVehicles[f], report)
    <3>1. VehicleMap(live)
      BY ReportedType DEF FeedMapsOK, VehicleMapsOK
    <3>2. VehicleMap(VehiclesAfter(feedVehicles[f], feedVehicleLastSeen[f], live, clock))
      BY <3>1, VehiclesAfterType DEF FeedMapsOK, VehicleMapsOK
    <3>3. LastSeenMap(LastSeenAfter(feedVehicleLastSeen[f], live, clock))
      BY <3>1 DEF FeedMapsOK, VehicleMapsOK, LastSeenMap, LastSeenAfter, VehicleMap
    <3> HIDE DEF live
    <3> QED BY <2>2, <3>2, <3>3 DEF FeedMapsOK, VehicleMapsOK, ApplyVehicles, LastSeenMap, live
  <2>3. ASSUME NEW header \in Headers \cup {NoTime}, CleanupExpiredVehicles(f, header)
        PROVE  VehicleMapsOK'
    <3>1. VehicleMap(VehiclesKept(feedVehicles[f], feedVehicleLastSeen[f], clock))
      BY DEF FeedMapsOK, VehicleMapsOK, VehicleMap, VehiclesKept
    <3>2. LastSeenMap(LastSeenKept(feedVehicleLastSeen[f], clock))
      BY DEF FeedMapsOK, VehicleMapsOK, LastSeenMap, LastSeenKept
    <3> QED BY <2>3, <3>1, <3>2 DEF FeedMapsOK, VehicleMapsOK, CleanupExpiredVehicles, LastSeenMap
  <2> QED BY <2>1, <2>2, <2>3 DEF UpdateFeedRealtime, StoreVehicles
<1>3. feedAlerts' \in [Feeds -> SUBSET Alerts]
  BY DEF FeedMapsOK, UpdateFeedRealtime, StoreAlerts
<1>4. /\ feedLastUpdate' \in [Feeds -> (0..clock') \cup {NoTime}]
      /\ lastVehicleMessage' \in [Feeds -> (0..clock') \cup {NoTime}]
  BY DEF FeedMapsOK, UpdateFeedRealtime
<1> QED BY <1>1, <1>2, <1>3, <1>4 DEF FeedMapsOK

\* Clearing a feed leaves the maps well formed.
LEMMA ClearKeepsMaps ==
    ASSUME FeedMapsOK, NEW f \in Feeds, ClearFeedData(f), UNCHANGED clock
    PROVE  FeedMapsOK'
BY FeedAssumption
   DEF FeedMapsOK, VehicleMapsOK, ClearFeedData, ClearAllButLastSeen, NoVehicles,
       VehicleMap, LastSeenMap

\* A step that touches no map keeps them well formed as time passes.
LEMMA IdleKeepsMaps ==
    ASSUME FeedMapsOK, UNCHANGED feedMaps, clock' \in Nat, clock <= clock'
    PROVE  FeedMapsOK'
BY DEF FeedMapsOK, VehicleMapsOK, feedMaps, LastSeenMap

\* Every variable keeps its type: in particular no vehicle without a
\* descriptor is ever stored and no recorded time lies in the future.
THEOREM TypeCorrect == Spec => []TypeOK
<1>1. Init => TypeOK
  <2> SUFFICES ASSUME Init PROVE TypeOK
    OBVIOUS
  <2>1. FeedMapsOK
    BY FeedAssumption
       DEF Init, FeedMapsOK, VehicleMapsOK, NoVehicles, VehicleMap, LastSeenMap
  <2>2. feedCleared \in [Feeds -> BOOLEAN] /\ polling \in BOOLEAN
    BY DEF Init
  <2>3. PollersOK
    BY <2>2, FeedAssumption DEF Init, PollersOK, MaxExponent
  <2> QED BY <2>1, <2>3 DEF TypeOK
<1>2. TypeOK /\ [Next]_vars => TypeOK'
  <2> SUFFICES ASSUME TypeOK, [Next]_vars
               PROVE  FeedMapsOK' /\ PollersOK'
    BY DEF TypeOK
  <2> USE DEF TypeOK
  <2>1. ASSUME NEW f \in Feeds, Warm(f)
        PROVE  FeedMapsOK' /\ PollersOK'
    <3>1. FeedMapsOK'
      BY <2>1, UpdateKeepsMaps, IdleKeepsMaps DEF Warm, AbandonUpdate, FeedMapsOK
    <3>2. PollersOK'
      BY <2>1 DEF Warm, PollersOK, pollers
    <3> QED BY <3>1, <3>2
  <2>2. ASSUME StartPollers
        PROVE  FeedMapsOK' /\ PollersOK'
    <3>1. FeedMapsOK'
      BY <2>2, IdleKeepsMaps DEF StartPollers, FeedMapsOK
    <3>2. \A f \in Feeds : clock + RefreshInterval[f] \in Nat /\ clock \in 0..clock
      BY FeedAssumption DEF FeedMapsOK
    <3>3. /\ lastSuccessfulFetch' \in [Feeds -> 0..clock']
          /\ nextPoll' \in [Feeds -> Nat]
      BY <2>2, <3>2 DEF StartPollers
    <3>4. PollersOK'
      BY <2>2, <3>3 DEF StartPollers, PollersOK
    <3> QED BY <3>1, <3>4
  <2>3. ASSUME NEW f \in Feeds, Poll(f), PollSucceeds(f)
        PROVE  FeedMapsOK' /\ PollersOK'
    <3>1. FeedMapsOK'
      BY <2>3, UpdateKeepsMaps DEF Poll, PollSucceeds
    <3>2. PollersOK'
      BY <2>3, FeedAssumption DEF Poll, PollSucceeds, PollersOK, FeedMapsOK, MaxExponent
    <3> QED BY <3>1, <3>2
  <2>4. ASSUME NEW f \in Feeds, Poll(f), PollFails(f)
        PROVE  FeedMapsOK' /\ PollersOK'
    <3>1. FeedMapsOK'
      BY <2>4, UpdateKeepsMaps, ClearKeepsMaps, IdleKeepsMaps
         DEF Poll, PollFails, AbandonUpdate, FeedMapsOK
    <3>2. consecutiveErrors'[f] \in 1..MaxExponent
      BY <2>4 DEF PollFails, PollersOK, MaxExponent
    <3>3. PICK delay \in BackoffDelays(f, consecutiveErrors'[f]) :
             nextPoll' = [nextPoll EXCEPT ![f] = clock + delay]
      BY <2>4 DEF PollFails
    <3>4. delay \in Nat
      BY <3>2, <3>3, BackoffDelaysBounded
    <3>5. PollersOK'
      BY <2>4, <3>3, <3>4 DEF Poll, PollFails, PollersOK, FeedMapsOK, MaxExponent, OutageTooLong
    <3> QED BY <3>1, <3>5
  <2>5. CASE Tick
    BY <2>5, IdleKeepsMaps DEF Tick, PollersOK, FeedMapsOK, pollers
  <2>6. CASE UNCHANGED vars
    BY <2>6, IdleKeepsMaps DEF vars, PollersOK, FeedMapsOK, pollers
  <2> QED BY <2>1, <2>2, <2>3, <2>4, <2>5, <2>6 DEF Next, Poll
<1> QED BY <1>1, <1>2, PTL DEF Spec

-----------------------------------------------------------------------------
(* The vehicles of a feed. *)

\* An update for which nothing arrived changes no map.
LEMMA NothingArrived ==
    ASSUME FeedMapsOK, NEW f \in Feeds, UpdateFeedRealtime(f, {})
    PROVE  UNCHANGED feedMaps
BY DEF UpdateFeedRealtime, FeedMapsOK, feedMaps

\* The vehicles of f stay as they are and no message about them was handled,
\* or a message is applied to them, or they expire, or they are cleared.
VehicleStep(f) ==
    \/ UNCHANGED <<feedVehicles[f], feedVehicleLastSeen[f], lastVehicleMessage[f]>>
    \/ /\ \E report \in Reports, header \in Headers \cup {NoTime} :
              ApplyVehicles(f, report, header)
       /\ lastVehicleMessage'[f] = clock
    \/ /\ \E header \in Headers \cup {NoTime} : CleanupExpiredVehicles(f, header)
       /\ lastVehicleMessage'[f] = clock
    \/ feedVehicles'[f] = NoVehicles /\ feedVehicleLastSeen'[f] = NoVehicles

\* No step changes the vehicles of a feed in any other way.
LEMMA VehicleSteps ==
    ASSUME FeedMapsOK, [Next]_vars, NEW f \in Feeds
    PROVE  VehicleStep(f)
<1>1. ASSUME NEW g \in Feeds, NEW arrived, UpdateFeedRealtime(g, arrived)
      PROVE  VehicleStep(f)
  <2>1. CASE "vehicles" \in arrived /\ g = f
    BY <1>1, <2>1 DEF UpdateFeedRealtime, StoreVehicles, FeedMapsOK, VehicleStep
  <2>2. CASE "vehicles" \in arrived /\ g # f
    BY <1>1, <2>2
       DEF UpdateFeedRealtime, StoreVehicles, ApplyVehicles, CleanupExpiredVehicles,
           FeedMapsOK, VehicleMapsOK, VehicleStep
  <2>3. CASE ~("vehicles" \in arrived)
    BY <1>1, <2>3 DEF UpdateFeedRealtime, FeedMapsOK, VehicleStep
  <2> QED BY <2>1, <2>2, <2>3
<1>2. ASSUME NEW g \in Feeds, ClearFeedData(g)
      PROVE  VehicleStep(f)
  BY <1>2 DEF ClearFeedData, ClearAllButLastSeen, FeedMapsOK, VehicleMapsOK, VehicleStep
<1>3. ASSUME UNCHANGED feedMaps
      PROVE  VehicleStep(f)
  BY <1>3 DEF feedMaps, VehicleStep
<1>4. ASSUME NEW g \in Feeds, Warm(g)
      PROVE  VehicleStep(f)
  BY <1>1, <1>3, <1>4 DEF Warm, AbandonUpdate
<1>5. ASSUME NEW g \in Feeds, Poll(g)
      PROVE  VehicleStep(f)
  BY <1>1, <1>2, <1>3, <1>5 DEF Poll, PollSucceeds, PollFails, AbandonUpdate
<1> QED BY <1>3, <1>4, <1>5 DEF Next, StartPollers, Tick, vars, feedMaps

\* No vehicle is stored without a last-seen time and no last-seen time
\* without a vehicle.
THEOREM SeenVehiclesStoredAlways == Spec => []SeenVehiclesStored
<1>1. Init => SeenVehiclesStored
  BY DEF Init, SeenVehiclesStored
<1>2. TypeOK /\ SeenVehiclesStored /\ [Next]_vars => SeenVehiclesStored'
  <2> SUFFICES ASSUME TypeOK, SeenVehiclesStored, [Next]_vars, NEW f \in Feeds
               PROVE  DOMAIN feedVehicleLastSeen'[f] = DOMAIN feedVehicles'[f]
    BY DEF SeenVehiclesStored
  <2>1. VehicleStep(f)
    BY VehicleSteps DEF TypeOK
  <2>2. ASSUME NEW report \in Reports, NEW header \in Headers \cup {NoTime},
               ApplyVehicles(f, report, header)
        PROVE  DOMAIN feedVehicleLastSeen'[f] = DOMAIN feedVehicles'[f]
    BY <2>2, SeenAfter
       DEF ApplyVehicles, SeenVehiclesStored, TypeOK, FeedMapsOK, VehicleMapsOK
  <2>3. ASSUME NEW header \in Headers \cup {NoTime}, CleanupExpiredVehicles(f, header)
        PROVE  DOMAIN feedVehicleLastSeen'[f] = DOMAIN feedVehicles'[f]
    BY <2>3, SeenKept
       DEF CleanupExpiredVehicles, SeenVehiclesStored, TypeOK, FeedMapsOK, VehicleMapsOK
  <2> QED BY <2>1, <2>2, <2>3 DEF VehicleStep, SeenVehiclesStored
<1> QED BY <1>1, <1>2, TypeCorrect, PTL DEF Spec

\* Applying a message leaves no retained vehicle on a trip that another
\* vehicle was reported on later.
LEMMA SharedAfter ==
    ASSUME NEW held, VehicleMap(held), NEW lastSeen, DOMAIN lastSeen = DOMAIN held,
           NEW live, NEW now, SharedWithinOneMessage(held, lastSeen)
    PROVE  SharedWithinOneMessage(VehiclesAfter(held, lastSeen, live, now),
                                  LastSeenAfter(lastSeen, live, now))
<1> DEFINE after == VehiclesAfter(held, lastSeen, live, now)
           seen == LastSeenAfter(lastSeen, live, now)
<1> SUFFICES ASSUME NEW j \in DOMAIN after, NEW k \in DOMAIN after,
                    after[j].trip = after[k].trip, after[j].trip # NoTrip
             PROVE  seen[j] = seen[k]
  BY DEF SharedWithinOneMessage
<1>1. ASSUME NEW i \in DOMAIN after, i \notin DOMAIN live
      PROVE  /\ i \in DOMAIN held
             /\ seen[i] = lastSeen[i]
             /\ \/ after[i].trip = NoTrip
                \/ /\ after[i].trip = held[i].trip
                   /\ held[i].trip \notin TripIDsServedBy(live)
  BY <1>1
     DEF VehiclesAfter, LastSeenAfter, RetainedKeys, ReleaseTakenTrip, VehicleMap, Positions
<1>2. ASSUME NEW i \in DOMAIN live
      PROVE  seen[i] = now /\ after[i] = live[i]
  BY DEF VehiclesAfter, LastSeenAfter
<1>3. ASSUME NEW i \in DOMAIN live, live[i].trip # NoTrip
      PROVE  live[i].trip \in TripIDsServedBy(live)
  BY <1>3 DEF TripIDsServedBy
<1> HIDE DEF after, seen
<1> QED BY <1>1, <1>2, <1>3 DEF SharedWithinOneMessage

\* A retained vehicle never competes for a trip with a vehicle reported
\* after it was.
THEOREM TripSharedAlways == Spec => []TripSharedOnlyWithinOneMessage
<1> DEFINE Inv == TypeOK /\ SeenVehiclesStored
<1>1. Init => TripSharedOnlyWithinOneMessage
  BY DEF Init, TripSharedOnlyWithinOneMessage, SharedWithinOneMessage, NoVehicles
<1>2. Inv /\ TripSharedOnlyWithinOneMessage /\ [Next]_vars
          => TripSharedOnlyWithinOneMessage'
  <2> SUFFICES ASSUME Inv, TripSharedOnlyWithinOneMessage, [Next]_vars, NEW f \in Feeds
               PROVE  SharedWithinOneMessage(feedVehicles'[f], feedVehicleLastSeen'[f])
    BY DEF TripSharedOnlyWithinOneMessage
  <2>1. VehicleStep(f)
    BY VehicleSteps DEF TypeOK
  <2>2. /\ SharedWithinOneMessage(feedVehicles[f], feedVehicleLastSeen[f])
        /\ VehicleMap(feedVehicles[f])
        /\ DOMAIN feedVehicleLastSeen[f] = DOMAIN feedVehicles[f]
        /\ DOMAIN feedVehicles = Feeds
        /\ DOMAIN feedVehicleLastSeen = Feeds
    BY DEF TripSharedOnlyWithinOneMessage, TypeOK, FeedMapsOK, VehicleMapsOK,
           SeenVehiclesStored
  <2>3. ASSUME NEW report \in Reports, NEW header \in Headers \cup {NoTime},
               ApplyVehicles(f, report, header)
        PROVE  SharedWithinOneMessage(feedVehicles'[f], feedVehicleLastSeen'[f])
    BY <2>2, <2>3, SharedAfter DEF ApplyVehicles
  <2>4. ASSUME NEW header \in Headers \cup {NoTime}, CleanupExpiredVehicles(f, header)
        PROVE  SharedWithinOneMessage(feedVehicles'[f], feedVehicleLastSeen'[f])
    BY <2>2, <2>4
       DEF CleanupExpiredVehicles, VehiclesKept, LastSeenKept, SharedWithinOneMessage
  <2>5. SharedWithinOneMessage(NoVehicles, NoVehicles)
    BY DEF SharedWithinOneMessage, NoVehicles
  <2> QED BY <2>1, <2>2, <2>3, <2>4, <2>5 DEF VehicleStep
<1> QED BY <1>1, <1>2, TypeCorrect, SeenVehiclesStoredAlways, PTL DEF Spec

\* A vehicle's position never goes back in time.
THEOREM PositionsNeverGoBackAlways == Spec => PositionsNeverGoBack
<1>1. TypeOK /\ [Next]_vars =>
        [\A f \in Feeds : \A k \in DOMAIN feedVehicles[f] \cap DOMAIN feedVehicles'[f] :
            ~IsVehicleStale(feedVehicles[f][k], feedVehicles'[f][k])]_vars
  <2> SUFFICES ASSUME TypeOK, [Next]_vars, NEW f \in Feeds,
                      NEW k \in DOMAIN feedVehicles[f] \cap DOMAIN feedVehicles'[f]
               PROVE  ~IsVehicleStale(feedVehicles[f][k], feedVehicles'[f][k])
    OBVIOUS
  <2>1. VehicleStep(f)
    BY VehicleSteps DEF TypeOK
  <2>2. feedVehicles[f][k] \in Positions /\ DOMAIN feedVehicles = Feeds
    BY DEF TypeOK, FeedMapsOK, VehicleMapsOK, VehicleMap
  <2>3. ~IsVehicleStale(feedVehicles[f][k], feedVehicles[f][k])
    BY <2>2, VehicleAssumption DEF IsVehicleStale, Positions
  <2>4. ASSUME NEW report \in Reports, NEW header \in Headers \cup {NoTime},
               ApplyVehicles(f, report, header)
        PROVE  ~IsVehicleStale(feedVehicles[f][k], feedVehicles'[f][k])
    <3> DEFINE live == Reported(feedVehicles[f], report)
    <3>1. feedVehicles'[f] = VehiclesAfter(feedVehicles[f], feedVehicleLastSeen[f], live, clock)
      BY <2>2, <2>4 DEF ApplyVehicles
    <3>2. CASE k \in DOMAIN live
      <4>1. feedVehicles'[f][k] = live[k]
        BY <3>1, <3>2 DEF VehiclesAfter
      <4> QED BY <2>3, <3>2, <4>1 DEF Reported
    <3>3. CASE k \notin DOMAIN live
      <4>1. feedVehicles'[f][k].time = feedVehicles[f][k].time
        BY <2>2, <3>1, <3>3 DEF VehiclesAfter, ReleaseTakenTrip, Positions
      <4> QED BY <2>3, <4>1 DEF IsVehicleStale
    <3> QED BY <3>2, <3>3
  <2>5. ASSUME NEW header \in Headers \cup {NoTime}, CleanupExpiredVehicles(f, header)
        PROVE  ~IsVehicleStale(feedVehicles[f][k], feedVehicles'[f][k])
    BY <2>2, <2>3, <2>5 DEF CleanupExpiredVehicles, VehiclesKept
  <2> QED BY <2>1, <2>3, <2>4, <2>5 DEF VehicleStep, NoVehicles
<1> QED BY <1>1, TypeCorrect, PTL DEF Spec, PositionsNeverGoBack

\* Every vehicle message that is handled, applied or dropped, leaves only
\* vehicles inside the retention window.
THEOREM RetentionWindowAlwaysKept == Spec => []RetentionWindowKept
<1> DEFINE Inv == TypeOK /\ SeenVehiclesStored
           Kept(f) == lastVehicleMessage[f] # NoTime =>
                         \A k \in DOMAIN feedVehicleLastSeen[f] :
                             lastVehicleMessage[f] - feedVehicleLastSeen[f][k]
                                 <= StaleVehicleTimeout
<1>1. Init => RetentionWindowKept
  BY DEF Init, RetentionWindowKept
<1>2. Inv /\ Inv' /\ RetentionWindowKept /\ [Next]_vars => RetentionWindowKept'
  <2> SUFFICES ASSUME Inv, Inv', RetentionWindowKept, [Next]_vars, NEW f \in Feeds
               PROVE  Kept(f)'
    BY DEF RetentionWindowKept, SeenVehiclesStored
  <2>1. VehicleStep(f)
    BY VehicleSteps DEF TypeOK
  <2>2. /\ DOMAIN feedVehicleLastSeen = Feeds
        /\ \A j \in DOMAIN feedVehicleLastSeen[f] : feedVehicleLastSeen[f][j] \in Nat
        /\ clock \in Nat
    BY DEF TypeOK, FeedMapsOK, VehicleMapsOK, LastSeenMap
  <2>3. CASE UNCHANGED <<feedVehicles[f], feedVehicleLastSeen[f], lastVehicleMessage[f]>>
    BY <2>3 DEF RetentionWindowKept, SeenVehiclesStored
  <2>4. ASSUME NEW report \in Reports, NEW header \in Headers \cup {NoTime},
               ApplyVehicles(f, report, header), lastVehicleMessage'[f] = clock
        PROVE  Kept(f)'
    <3>1. PICK live : feedVehicleLastSeen'[f] = LastSeenAfter(feedVehicleLastSeen[f], live, clock)
      BY <2>2, <2>4 DEF ApplyVehicles
    <3> QED BY <2>2, <2>4, <3>1, VehicleAssumption DEF LastSeenAfter, Expired
  <2>5. ASSUME NEW header \in Headers \cup {NoTime}, CleanupExpiredVehicles(f, header),
               lastVehicleMessage'[f] = clock
        PROVE  Kept(f)'
    BY <2>2, <2>5, VehicleAssumption DEF CleanupExpiredVehicles, LastSeenKept, Expired
  <2> QED BY <2>1, <2>3, <2>4, <2>5 DEF VehicleStep, NoVehicles
<1> QED
  BY <1>1, <1>2, TypeCorrect, SeenVehiclesStoredAlways, PTL DEF Spec

-----------------------------------------------------------------------------
(* The published view and the circuit breaker. *)

\* Every path that changes the maps of a feed publishes them.
THEOREM PublishedIsCurrentAlways == Spec => []PublishedIsCurrent
<1>1. Init => PublishedIsCurrent
  BY DEF Init, PublishedIsCurrent
<1>2. PublishedIsCurrent /\ [Next]_vars => PublishedIsCurrent'
  <2> SUFFICES ASSUME PublishedIsCurrent, [Next]_vars
               PROVE  PublishedIsCurrent'
    OBVIOUS
  <2>1. ASSUME RebuildMerged
        PROVE  PublishedIsCurrent'
    BY <2>1 DEF RebuildMerged, PublishedIsCurrent
  <2>2. ASSUME UNCHANGED <<feedMaps, merged>>
        PROVE  PublishedIsCurrent'
    BY <2>2 DEF PublishedIsCurrent, feedMaps
  <2>3. ASSUME NEW f \in Feeds, Warm(f)
        PROVE  PublishedIsCurrent'
    BY <2>1, <2>2, <2>3 DEF Warm, UpdateFeedRealtime, AbandonUpdate
  <2>4. ASSUME NEW f \in Feeds, Poll(f)
        PROVE  PublishedIsCurrent'
    BY <2>1, <2>2, <2>4
       DEF Poll, PollSucceeds, PollFails, UpdateFeedRealtime, AbandonUpdate, ClearFeedData
  <2> QED BY <2>2, <2>3, <2>4 DEF Next, StartPollers, Tick, vars
<1> QED BY <1>1, <1>2, PTL DEF Spec

\* Of some feeds one comes last.
LEMMA HighestFeed ==
    ASSUME NEW S \in SUBSET Feeds, S # {}
    PROVE  Highest(S) \in S /\ \A g \in S : g <= Highest(S)
<1> DEFINE above(f) == {g \in S : f < g}
           T == {above(f) : f \in S}
<1>1. T \subseteq FiniteSubsetsOf(Feeds) /\ T # {}
  <2>1. IsFiniteSet(Feeds)
    BY FS_Interval, FeedAssumption
  <2>2. ASSUME NEW f \in S
        PROVE  above(f) \in FiniteSubsetsOf(Feeds)
    BY <2>1, FS_Subset DEF FiniteSubsetsOf
  <2> QED BY <2>2
<1>2. IsWellFoundedOn(StrictSubsetOrdering(Feeds), FiniteSubsetsOf(Feeds))
  BY FS_StrictSubsetOrderingWellFounded
<1>3. PICK X \in T : \A Y \in T : <<Y, X>> \notin StrictSubsetOrdering(Feeds)
  <2> HIDE DEF T
  <2> QED BY <1>1, <1>2, WFMin
<1>4. PICK f \in S : X = above(f)
  OBVIOUS
<1>5. ASSUME NEW g \in S, ~(g <= f)
      PROVE  FALSE
  <2>1. S \subseteq Int
    BY FeedAssumption DEF Feeds
  <2>2. above(g) \subseteq above(f) /\ g \in above(f) /\ g \notin above(g)
    <3>1. \A i, j, k \in Int : /\ ~(j <= i) => i < j
                              /\ i < j /\ j < k => i < k
                              /\ ~(i < i)
      OBVIOUS
    <3>2. f < g /\ \A h \in S : (g < h => f < h) /\ ~(h < h)
      BY <1>5, <2>1, <3>1
    <3> QED BY <3>2
  <2>3. <<above(g), above(f)>> \in StrictSubsetOrdering(Feeds)
    BY <2>2 DEF StrictSubsetOrdering
  <2> QED BY <1>3, <1>4, <2>3
<1> QED BY <1>5 DEF Highest

\* A trip that any feed serves is looked up under the last feed that serves
\* it, and the vehicles found serve it and are those of the last message of
\* this feed that named the trip: a retained vehicle gives the trip up to any
\* that is reported on it later. No other trip is found.
THEOREM TripLookupAlwaysFindsLatest == Spec => []TripLookupFindsLatestReport
<1> DEFINE Inv == /\ TypeOK
                  /\ SeenVehiclesStored
                  /\ TripSharedOnlyWithinOneMessage
                  /\ PublishedIsCurrent
           serving(t) == {f \in Feeds : t \in TripIDsServedBy(feedVehicles[f])}
           on(f, t) == {k \in DOMAIN feedVehicles[f] : feedVehicles[f][k].trip = t}
           lookup == merged.vehicleLookupByTrip
<1>1. ASSUME Inv
      PROVE  /\ DOMAIN lookup = {t \in TripIds : serving(t) # {}}
             /\ \A t \in DOMAIN lookup :
                    LET f == Highest(serving(t))
                    IN  lookup[t] = [feed |-> f,
                                     keys |-> LastServing(feedVehicles[f],
                                                          feedVehicleLastSeen[f], t)]
  BY <1>1 DEF PublishedIsCurrent, Merge
<1>2. ASSUME Inv, NEW f \in Feeds, NEW t \in TripIds
      PROVE  LastServing(feedVehicles[f], feedVehicleLastSeen[f], t) = on(f, t)
  <2>1. \A j, k \in on(f, t) : /\ feedVehicleLastSeen[f][j] = feedVehicleLastSeen[f][k]
                               /\ feedVehicleLastSeen[f][k] \in Int
    <3>1. /\ SharedWithinOneMessage(feedVehicles[f], feedVehicleLastSeen[f])
          /\ DOMAIN feedVehicleLastSeen[f] = DOMAIN feedVehicles[f]
      BY <1>2 DEF TripSharedOnlyWithinOneMessage, SeenVehiclesStored
    <3>2. /\ \A k \in DOMAIN feedVehicleLastSeen[f] : feedVehicleLastSeen[f][k] \in 0..clock
          /\ clock \in Nat
      BY <1>2 DEF TypeOK, FeedMapsOK, VehicleMapsOK, LastSeenMap
    <3> QED BY <3>1, <3>2, VehicleAssumption DEF SharedWithinOneMessage
  <2> QED BY <2>1 DEF LastServing
<1>3. ASSUME Inv, NEW f \in Feeds, NEW k \in DOMAIN feedVehicles[f],
             feedVehicles[f][k].trip # NoTrip
      PROVE  /\ feedVehicles[f][k].trip \in DOMAIN lookup
             /\ FoundFor(lookup[feedVehicles[f][k].trip], f, k)
  <2> DEFINE t == feedVehicles[f][k].trip
             last == Highest(serving(t))
  <2>1. t \in TripIds
    BY <1>3 DEF TypeOK, FeedMapsOK, VehicleMapsOK, VehicleMap, Positions
  <2>2. f \in serving(t)
    BY <1>3 DEF TripIDsServedBy
  <2>3. last \in serving(t) /\ f <= last
    BY <2>2, HighestFeed
  <2>4. on(last, t) # {}
    BY <2>3 DEF TripIDsServedBy
  <2>5. t \in DOMAIN lookup /\ lookup[t] = [feed |-> last, keys |-> on(last, t)]
    <3>1. t \in DOMAIN lookup
      BY <1>1, <1>3, <2>1, <2>2
    <3>2. lookup[t] = [feed |-> last,
                       keys |-> LastServing(feedVehicles[last], feedVehicleLastSeen[last], t)]
      BY <1>1, <1>3, <3>1
    <3>3. LastServing(feedVehicles[last], feedVehicleLastSeen[last], t) = on(last, t)
      BY <1>2, <1>3, <2>1, <2>3
    <3> QED BY <3>1, <3>2, <3>3
  <2>6. f = last => \A j \in on(last, t) :
            feedVehicleLastSeen[f][k] <= feedVehicleLastSeen[f][j]
    <3>1. /\ SharedWithinOneMessage(feedVehicles[f], feedVehicleLastSeen[f])
          /\ DOMAIN feedVehicleLastSeen[f] = DOMAIN feedVehicles[f]
      BY <1>3 DEF TripSharedOnlyWithinOneMessage, SeenVehiclesStored
    <3>2. /\ \A j \in DOMAIN feedVehicleLastSeen[f] : feedVehicleLastSeen[f][j] \in 0..clock
          /\ clock \in Nat
      BY <1>3 DEF TypeOK, FeedMapsOK, VehicleMapsOK, LastSeenMap
    <3> QED BY <1>3, <3>1, <3>2 DEF SharedWithinOneMessage
  <2> HIDE DEF last
  <2> QED BY <2>3, <2>4, <2>5, <2>6 DEF FoundFor
<1>4. ASSUME Inv, NEW t \in DOMAIN lookup
      PROVE  \E f \in Feeds : \E k \in DOMAIN feedVehicles[f] : feedVehicles[f][k].trip = t
  BY <1>1, <1>4 DEF TripIDsServedBy
<1>5. Inv => TripLookupFindsLatestReport
  BY <1>3, <1>4 DEF TripLookupFindsLatestReport
<1> QED BY <1>5, TypeCorrect, SeenVehiclesStoredAlways, TripSharedAlways,
           PublishedIsCurrentAlways, PTL

\* What the breaker's flag stands for; it is down until the pollers run.
BreakerInv ==
    /\ ClearedFeedIsEmpty
    /\ ~polling => \A f \in Feeds : ~feedCleared[f]

\* The flag is kept by every step: only a success fills a cleared feed, and
\* it takes the flag down.
LEMMA BreakerInvAlways == Spec => []BreakerInv
<1>1. Init => BreakerInv
  BY DEF Init, BreakerInv, ClearedFeedIsEmpty
<1>2. TypeOK /\ BreakerInv /\ [Next]_vars => BreakerInv'
  <2> SUFFICES ASSUME TypeOK, BreakerInv, [Next]_vars
               PROVE  BreakerInv'
    OBVIOUS
  <2> DEFINE Empty(f) ==
               /\ ~DataHeld(f)
               /\ DOMAIN feedVehicleLastSeen[f] = {}
               /\ feedVehicleTimestamp[f] = 0
               /\ feedLastUpdate[f] = NoTime
  <2>1. ASSUME NEW f \in Feeds, UNCHANGED feedMaps, feedCleared[f]
        PROVE  Empty(f)'
    BY <2>1 DEF feedMaps, BreakerInv, ClearedFeedIsEmpty, DataHeld
  <2>2. ASSUME UNCHANGED <<feedMaps, feedCleared>>, polling => polling'
        PROVE  BreakerInv'
    BY <2>1, <2>2 DEF BreakerInv, ClearedFeedIsEmpty
  <2>3. ASSUME NEW f \in Feeds, Warm(f)
        PROVE  BreakerInv'
    BY <2>3 DEF Warm, pollers, BreakerInv, ClearedFeedIsEmpty
  <2>4. ASSUME NEW f \in Feeds, NEW g \in Feeds, g # f, feedCleared[g],
               \/ \E arrived : UpdateFeedRealtime(f, arrived)
               \/ ClearFeedData(f)
        PROVE  Empty(g)'
    <3>1. Empty(g)
      BY <2>4 DEF BreakerInv, ClearedFeedIsEmpty
    <3>2. /\ UNCHANGED <<feedTrips[g], feedUnattributedTrips[g], feedAlerts[g]>>
          /\ UNCHANGED <<feedVehicles[g], feedVehicleLastSeen[g]>>
          /\ UNCHANGED <<feedVehicleTimestamp[g], feedLastUpdate[g]>>
      <4>1. CASE \E arrived : UpdateFeedRealtime(f, arrived)
        <5>1. PICK arrived : UpdateFeedRealtime(f, arrived)
          BY <4>1
        <5>2. UNCHANGED <<feedTrips[g], feedUnattributedTrips[g], feedAlerts[g]>>
          BY <2>4, <5>1 DEF UpdateFeedRealtime, StoreTrips, StoreAlerts, TypeOK, FeedMapsOK
        <5>3. /\ UNCHANGED <<feedVehicles[g], feedVehicleLastSeen[g]>>
              /\ UNCHANGED <<feedVehicleTimestamp[g], feedLastUpdate[g]>>
          BY <2>4, <5>1
             DEF UpdateFeedRealtime, StoreVehicles, ApplyVehicles, CleanupExpiredVehicles,
                 TypeOK, FeedMapsOK, VehicleMapsOK
        <5> QED BY <5>2, <5>3
      <4>2. CASE ClearFeedData(f)
        BY <2>4, <4>2
           DEF ClearFeedData, ClearAllButLastSeen, TypeOK, FeedMapsOK, VehicleMapsOK
      <4> QED BY <2>4, <4>1, <4>2
    <3> QED BY <3>1, <3>2 DEF DataHeld
  <2>5. ASSUME NEW f \in Feeds, Poll(f), PollSucceeds(f)
        PROVE  BreakerInv'
    <3>1. ~feedCleared'[f] /\ \A g \in Feeds \ {f} : feedCleared'[g] = feedCleared[g]
      BY <2>5 DEF PollSucceeds, TypeOK, PollersOK
    <3> QED BY <2>4, <2>5, <3>1
            DEF Poll, PollSucceeds, BreakerInv, ClearedFeedIsEmpty
  <2>6. ASSUME NEW f \in Feeds, Poll(f), PollFails(f)
        PROVE  BreakerInv'
    <3>1. /\ feedCleared'[f] = (feedCleared[f] \/ OutageTooLong(f))
          /\ \A g \in Feeds \ {f} : feedCleared'[g] = feedCleared[g]
          /\ polling'
      BY <2>6 DEF Poll, PollFails, TypeOK, PollersOK
    <3>2. CASE OutageTooLong(f) /\ ~feedCleared[f]
      <4>1. Empty(f)'
        <5>1. ClearFeedData(f)
          BY <2>6, <3>2 DEF PollFails
        <5>2. /\ feedTrips'[f] = {} /\ feedUnattributedTrips'[f] = {} /\ feedAlerts'[f] = {}
              /\ feedVehicles'[f] = NoVehicles /\ feedVehicleLastSeen'[f] = NoVehicles
              /\ feedVehicleTimestamp'[f] = 0 /\ feedLastUpdate'[f] = NoTime
          BY <5>1
             DEF ClearFeedData, ClearAllButLastSeen, TypeOK, FeedMapsOK, VehicleMapsOK
        <5> QED BY <5>2 DEF DataHeld, NoVehicles
      <4>2. \A g \in Feeds \ {f} : feedCleared[g] => Empty(g)'
        BY <2>4, <2>6, <3>2 DEF PollFails
      <4> QED BY <3>1, <4>1, <4>2 DEF BreakerInv, ClearedFeedIsEmpty
    <3>3. CASE ~(OutageTooLong(f) /\ ~feedCleared[f])
      <4>1. UNCHANGED feedMaps
        BY <2>6, <3>3, NothingArrived DEF PollFails, AbandonUpdate, TypeOK
      <4> QED BY <2>1, <3>1, <3>3, <4>1 DEF BreakerInv, ClearedFeedIsEmpty
    <3> QED BY <3>2, <3>3
  <2> QED BY <2>2, <2>3, <2>5, <2>6
          DEF Next, Poll, StartPollers, Tick, vars, pollers
<1> QED BY <1>1, <1>2, TypeCorrect, PTL DEF Spec

\* A feed the breaker cleared stays empty until a fetch succeeds.
THEOREM ClearedFeedIsEmptyAlways == Spec => []ClearedFeedIsEmpty
<1>1. BreakerInv => ClearedFeedIsEmpty
  BY DEF BreakerInv
<1> QED BY <1>1, BreakerInvAlways, PTL

\* Why the outage is bounded: the next poll of a feed that was not cleared is
\* at most OutageLimit after its last success, and no poll is overdue.
TimerInv ==
    polling => \A f \in Feeds :
        /\ clock <= nextPoll[f] + FetchTimeout
        /\ ~feedCleared[f] => nextPoll[f] - lastSuccessfulFetch[f] <= OutageLimit(f)

\* No feed serves data of an outage longer than OutageLimit, however its
\* polls fail and however the jitter falls.
THEOREM OutageAlwaysBounded == Spec => []OutageBounded
<1>1. Init => TimerInv
  BY DEF Init, TimerInv
<1>0. MaxDelay \in Nat
  <2>1. MaxInterval * JitterPercent \in Nat
    BY FeedAssumption
  <2>2. Jitter(MaxInterval) \in Nat
    BY <2>1 DEF Jitter
  <2> QED BY <2>2, FeedAssumption DEF MaxDelay
<1>2. \A f \in Feeds : /\ OutageLimit(f) \in Nat
                       /\ StaleFeedThreshold + MaxDelay <= OutageLimit(f)
                       /\ RefreshInterval[f] <= OutageLimit(f)
  BY <1>0, FeedAssumption DEF OutageLimit
<1>3. TypeOK /\ TypeOK' /\ TimerInv /\ [Next]_vars => TimerInv'
  <2> SUFFICES ASSUME TypeOK, TypeOK', TimerInv, [Next]_vars, polling', NEW f \in Feeds
               PROVE  /\ clock' <= nextPoll'[f] + FetchTimeout
                      /\ ~feedCleared'[f] =>
                            nextPoll'[f] - lastSuccessfulFetch'[f] <= OutageLimit(f)
    BY DEF TimerInv, OutageLimit
  <2> DEFINE Goal == /\ clock' <= nextPoll'[f] + FetchTimeout
                     /\ ~feedCleared'[f] =>
                            nextPoll'[f] - lastSuccessfulFetch'[f] <= OutageLimit(f)
  <2>1. /\ clock \in Nat /\ nextPoll[f] \in Nat /\ lastSuccessfulFetch[f] \in 0..clock
        /\ FetchTimeout \in Nat /\ RefreshInterval[f] \in Nat /\ StaleFeedThreshold \in Nat
    BY FeedAssumption DEF TypeOK, FeedMapsOK, PollersOK
  <2>2. CASE UNCHANGED <<pollers, clock, polling>>
    BY <2>2 DEF TimerInv, pollers
  <2>3. CASE StartPollers
    BY <1>2, <2>1, <2>3 DEF StartPollers
  <2>4. CASE Tick
    BY <2>1, <2>4 DEF Tick, TimerInv, pollers
  <2>5. ASSUME NEW g \in Feeds, Poll(g), g # f
        PROVE  Goal
    <3>1. /\ UNCHANGED <<clock, polling>>
          /\ UNCHANGED <<nextPoll[f], lastSuccessfulFetch[f], feedCleared[f]>>
      BY <2>5 DEF Poll, PollSucceeds, PollFails, TypeOK, PollersOK
    <3> QED BY <3>1 DEF TimerInv
  <2>6. ASSUME Poll(f), PollSucceeds(f)
        PROVE  Goal
    <3>1. /\ clock' = clock
          /\ nextPoll'[f] = clock + RefreshInterval[f]
          /\ lastSuccessfulFetch'[f] = clock
      BY <2>6 DEF Poll, PollSucceeds, TypeOK, PollersOK
    <3> QED BY <1>2, <2>1, <3>1
  <2>7. ASSUME Poll(f), PollFails(f)
        PROVE  Goal
    <3>1. /\ clock' = clock
          /\ lastSuccessfulFetch'[f] = lastSuccessfulFetch[f]
          /\ OutageTooLong(f) => feedCleared'[f]
      BY <2>7 DEF Poll, PollFails, TypeOK, PollersOK
    <3>0. consecutiveErrors'[f] \in 1..MaxExponent
      BY <2>7 DEF PollFails, TypeOK, PollersOK, MaxExponent
    <3>2. PICK delay \in BackoffDelays(f, consecutiveErrors'[f]) :
             nextPoll' = [nextPoll EXCEPT ![f] = clock + delay]
      BY <2>7 DEF PollFails
    <3>3. delay \in 0..MaxDelay
      BY <3>0, <3>2, BackoffDelaysBounded
    <3>4. nextPoll'[f] = clock + delay
      BY <3>2 DEF TypeOK, PollersOK
    <3>5. clock' <= nextPoll'[f] + FetchTimeout
      BY <1>0, <2>1, <3>1, <3>3, <3>4
    <3>6. ASSUME ~feedCleared'[f]
          PROVE  nextPoll'[f] - lastSuccessfulFetch'[f] <= OutageLimit(f)
      <4>1. clock - lastSuccessfulFetch[f] <= StaleFeedThreshold
        BY <2>1, <3>1, <3>6 DEF OutageTooLong
      <4> QED BY <1>0, <1>2, <2>1, <3>1, <3>3, <3>4, <4>1
    <3> QED BY <3>5, <3>6
  <2> QED BY <2>2, <2>3, <2>4, <2>5, <2>6, <2>7 DEF Next, Warm, Poll, vars
<1>4. TypeOK /\ BreakerInv /\ TimerInv => OutageBounded
  <2> SUFFICES ASSUME TypeOK, BreakerInv, TimerInv, polling, NEW f \in Feeds, DataHeld(f)
               PROVE  clock - lastSuccessfulFetch[f] <= OutageLimit(f) + FetchTimeout
    BY DEF OutageBounded
  <2>1. ~feedCleared[f]
    BY DEF BreakerInv, ClearedFeedIsEmpty
  <2>2. /\ clock \in Nat /\ nextPoll[f] \in Nat /\ lastSuccessfulFetch[f] \in Nat
        /\ FetchTimeout \in Nat
    BY FeedAssumption DEF TypeOK, FeedMapsOK, PollersOK
  <2> QED BY <1>2, <2>1, <2>2 DEF TimerInv
<1> QED
  BY <1>1, <1>3, <1>4, TypeCorrect, BreakerInvAlways, PTL DEF Spec
=============================================================================
