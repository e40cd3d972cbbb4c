------------------------- MODULE TripRequests_proofs --------------------------
(***************************************************************************)
(* Which trips a request for a route or an area selects, for every feed    *)
(* that can be imported, every set of zones and every published snapshot.  *)
(* The lemmas come first: the tables, the days of a zone, the trip a block *)
(* runs and the trip it waits for are what the calendar and the clock of   *)
(* the trip's own agency say.                                              *)
(***************************************************************************)
EXTENDS TripRequests, RequestData_proofs

-----------------------------------------------------------------------------
(* Sorting. *)

\* The trips of one block, in the order of their starts.
LEMMA BlockOrders ==
    ASSUME NEW trips, IsFiniteSet(trips), NEW block, \A t \in trips : t.block = block,
           \A t \in trips : t.minArrival \in Int /\ t.id \in Int,
           \A a, b \in trips : a.id = b.id => a = b
    PROVE  /\ Cardinality(trips) \in Nat
           /\ ByBlockAndStart(trips) \in [1..Cardinality(trips) -> trips]
           /\ \A x \in trips : \E i \in 1..Cardinality(trips) : ByBlockAndStart(trips)[i] = x
<1> DEFINE Before(a, b) == \/ TextBefore(a.block, b.block)
                           \/ a.block = b.block /\ a.minArrival < b.minArrival
                           \/ a.block = b.block /\ a.minArrival = b.minArrival /\ a.id < b.id
           R == {p \in trips \X trips : Before(p[1], p[2])}
<1>1. \A x, y \in trips : <<x, y>> \in R <=> \/ x.minArrival < y.minArrival
                                             \/ x.minArrival = y.minArrival /\ x.id < y.id
  BY DEF TextBefore
<1>2. ByBlockAndStart(trips) = Enumeration(trips, R)
  BY DEF ByBlockAndStart, SortedBy
<1> HIDE DEF R
<1>3. StrictOrderOn(trips, R)
  BY <1>1 DEF StrictOrderOn
<1>4. QED
  BY <1>2, <1>3, Enumerates

-----------------------------------------------------------------------------
(* What a request works on. *)

\* The inductive invariant: the tables are those of a feed that could be
\* imported, and a request has a time.
RequestInv ==
    /\ feed \in DOMAIN Feeds
    /\ request # Null => request.at \in Int

\* Whatever is published and asked for, a request has read tables that keep
\* the schema.
LEMMA RequestInvariant == Spec => []RequestInv
<1>1. Init => RequestInv
  BY DEF Init, RequestInv
<1>2. RequestInv /\ [Next]_vars => RequestInv'
  <2> SUFFICES ASSUME RequestInv, [Next]_vars PROVE RequestInv'
    OBVIOUS
  <2>1. ASSUME NEW of \in Queries, NEW at \in Times, NEW fails \in Failures,
               Select(of, at, fails)
        PROVE  RequestInv'
    <3>1. request'.at = at /\ at \in Int
      BY <2>1, RequestAssumption DEF Select
    <3>2. feed' = feed
      BY <2>1 DEF Select
    <3>3. QED
      BY <3>1, <3>2 DEF RequestInv
  <2>2. CASE Describe
    BY <2>2 DEF RequestInv, Describe
  <2>3. CASE Answer
    BY <2>3 DEF RequestInv, Answer
  <2>4. CASE PublishRealtime
    BY <2>4 DEF RequestInv, PublishRealtime
  <2>5. CASE UNCHANGED vars
    BY <2>5 DEF RequestInv, vars
  <2>6. QED
    BY <2>1, <2>2, <2>3, <2>4, <2>5 DEF Next
<1>3. QED
  BY <1>1, <1>2, PTL DEF Spec

-----------------------------------------------------------------------------
(* Zones and days. *)

\* A day of a zone is as long ago as its clock says, and its services are
\* those the calendar names for it.
DayOf(day, z) ==
    /\ day.date \in {FromInstant(Zones[z], Now) - 1, FromInstant(Zones[z], Now)}
    /\ day.date \in Int /\ day.since \in Int
    /\ day.since = Now - Start(Zones[z], day.date)
    /\ \A s \in day.services : IsServiceActiveOnDate(db, s, day.date)

LEMMA DaysAre ==
    ASSUME RequestInv, request # Null, NEW ctx, ctx.db = db, NEW z \in DOMAIN Zones
    PROVE  LET days == ServiceDaysOf(ServiceDateResolverForZone(ctx, z, Now))
           IN  /\ DayOf(days[1], z) /\ DayOf(days[2], z)
               /\ DOMAIN days = 1..2
               /\ days[1].date = FromInstant(Zones[z], Now)
               /\ days[2].date = FromInstant(Zones[z], Now) - 1
               /\ days[1].services = GetActiveServiceIDsForDate(db, days[1].date)
               /\ ~Fails(ctx, "PreviousServiceIDs") =>
                     days[2].services = GetActiveServiceIDsForDate(db, days[2].date)
<1> DEFINE r == ServiceDateResolverForZone(ctx, z, Now)
           day == FromInstant(Zones[z], Now)
<1>1. /\ r.day = day /\ r.since = Now - Start(Zones[z], day)
      /\ r.previousSince = Now - Start(Zones[z], day - 1)
      /\ r.query = GetActiveServiceIDsForDate(db, day)
      /\ r.previous = IF Fails(ctx, "PreviousServiceIDs") THEN {}
                      ELSE GetActiveServiceIDsForDate(db, day - 1)
  BY DEF ServiceDateResolverForZone, NewServiceDateResolverFor
<1>2. Now \in Int
  BY DEF RequestInv, Now
<1>3. DateOf(Zones[z], Now) \in Int
  BY <1>2, ZoneAssumption, ClocksAreNumbers
<1>4. day \in Int
  BY <1>3 DEF FromInstant
<1> HIDE DEF r, day
<1>5. /\ Now - Start(Zones[z], day) \in Int
      /\ day - 1 \in Int /\ Now - Start(Zones[z], day - 1) \in Int
  BY <1>2, <1>4, ZoneAssumption, ClocksAreNumbers
<1>6. \A s, d : s \in GetActiveServiceIDsForDate(db, d) => IsServiceActiveOnDate(db, s, d)
  BY ServiceInAnswer DEF RequestInv
<1> DEFINE days == ServiceDaysOf(r)
<1>7. /\ days[1] = [services |-> r.query, since |-> r.since, date |-> r.day]
      /\ days[2] = [services |-> r.previous, since |-> r.previousSince, date |-> r.day - 1]
      /\ DOMAIN days = 1..2
  BY DEF ServiceDaysOf
<1> HIDE DEF days
<1>8. DayOf(days[1], z)
  BY <1>1, <1>4, <1>5, <1>6, <1>7 DEF DayOf, day
<1>9. DayOf(days[2], z)
  BY <1>1, <1>4, <1>5, <1>6, <1>7 DEF DayOf, day
<1>10. QED
  BY <1>1, <1>7, <1>8, <1>9 DEF days, r, day

\* The agency of a trip's route is in the tables.
LEMMA AgencyOfTrip ==
    ASSUME feed \in DOMAIN Feeds, NEW t \in db.trips
    PROVE  /\ GetRoute(db, t.route) \in db.routes /\ GetRoute(db, t.route).id = t.route
           /\ GetAgency(db, GetRoute(db, t.route).agency) \in db.agencies
           /\ GetAgency(db, GetRoute(db, t.route).agency).id = GetRoute(db, t.route).agency
<1>1. \E r \in db.routes : r.id = t.route
  BY TablesImported DEF ConstraintsHold
<1>2. GetRoute(db, t.route) \in db.routes /\ GetRoute(db, t.route).id = t.route
  BY <1>1 DEF GetRoute, OneRow
<1>3. \E a \in db.agencies : a.id = GetRoute(db, t.route).agency
  BY <1>2, TablesImported DEF ConstraintsHold
<1>4. QED
  BY <1>2, <1>3 DEF GetAgency, OneRow

\* The zone that is used for a trip is the one its agency keeps.
LEMMA ZoneUsed ==
    ASSUME feed \in DOMAIN Feeds, NEW ctx, ctx.db = db, NEW agency, NEW t \in db.trips,
           ZoneOfTrip(ctx, AgencyZones(ctx, agency), t) # Null
    PROVE  LET z == ZoneOfTrip(ctx, AgencyZones(ctx, agency), t)
           IN  /\ z \in Range(AgencyZones(ctx, agency)) /\ z \in DOMAIN Zones
               /\ Zones[z] = AgencyZone(t)
<1> DEFINE zones == AgencyZones(ctx, agency)
           own == GetRoute(db, t.route).agency
           z == ZoneOfTrip(ctx, zones, t)
           usable == {a \in db.agencies : /\ a.zone \in DOMAIN Zones
                                          /\ a.zone = ZoneOf(ctx, agency) \/ ~Fails(ctx, "OtherZoneServiceIDs")}
<1>1. zones = [id \in {a.id : a \in usable} |-> ZoneOf(ctx, id)]
  BY DEF AgencyZones
<1>2. own \in DOMAIN zones /\ z = zones[own]
  BY DEF ZoneOfTrip
<1>3. PICK a \in usable : a.id = own
  BY <1>1, <1>2
<1>4. GetAgency(db, own) \in db.agencies /\ GetAgency(db, own).id = own
  BY AgencyOfTrip
<1>5. GetAgency(db, own) = a
  BY <1>3, <1>4, TablesImported
<1>6. zones[own] = a.zone
  BY <1>1, <1>2, <1>5 DEF ZoneOf
<1>7. Zones[a.zone] = AgencyZone(t) /\ a.zone \in DOMAIN Zones
  BY <1>3, <1>5 DEF AgencyZone
<1> HIDE DEF zones, z
<1>8. z \in Range(zones)
  BY <1>2 DEF Range
<1>9. QED
  BY <1>2, <1>6, <1>7, <1>8 DEF z, zones

\* The days a zone of the request is looked at.
LEMMA DaysTested ==
    ASSUME RequestInv, request # Null, NEW ctx, ctx.db = db, NEW agency,
           NEW z \in Range(AgencyZones(ctx, agency)), z \in DOMAIN Zones,
           NEW i \in 1..2, NEW here \in BOOLEAN
    PROVE  LET days == RouteZoneServiceDays(ctx, agency, Now)[z]
               test == ZoneServiceDaysToTest(days, i, here)
           IN  /\ days = ServiceDaysOf(ServiceDateResolverForZone(ctx, z, Now))
               /\ here => test = <<days[i]>> /\ DOMAIN test = 1..1 /\ test[1] = days[i]
               /\ DOMAIN test \in {1..1, 1..2}
               /\ \A k \in DOMAIN test : DayOf(test[k], z) /\ test[k] \in {days[1], days[2]}
<1> DEFINE days == RouteZoneServiceDays(ctx, agency, Now)[z]
           test == ZoneServiceDaysToTest(days, i, here)
<1>1. days = ServiceDaysOf(ServiceDateResolverForZone(ctx, z, Now))
  BY DEF RouteZoneServiceDays
<1>2. DayOf(days[1], z) /\ DayOf(days[2], z) /\ DOMAIN days = 1..2
  BY <1>1, DaysAre
<1> HIDE DEF days
<1>3. test = IF here THEN <<days[i]>> ELSE days
  BY DEF ZoneServiceDaysToTest
<1>4. CASE here
  <2>1. test = <<days[i]>> /\ DOMAIN test = 1..1 /\ test[1] = days[i]
    BY <1>3, <1>4
  <2>2. i = 1 \/ i = 2
    OBVIOUS
  <2>3. DayOf(days[i], z) /\ days[i] \in {days[1], days[2]}
    BY <1>2, <2>2
  <2> HIDE DEF test
  <2>4. \A k \in DOMAIN test : k = 1
    BY <2>1
  <2>5. QED
    BY <1>1, <2>1, <2>3, <2>4 DEF test, days
<1>5. CASE ~here
  <2>1. test = days
    BY <1>3, <1>5
  <2> HIDE DEF test
  <2>2. \A k \in 1..2 : k = 1 \/ k = 2
    OBVIOUS
  <2>3. QED
    BY <1>1, <1>2, <1>5, <2>1, <2>2 DEF test, days
<1>6. QED
  BY <1>4, <1>5

-----------------------------------------------------------------------------
(* The trip a block is running. *)

\* The rows of a block for some services are its trips.
AreTripsOf(trips, n, b, services) ==
    /\ trips \in [1..n -> db.trips]
    /\ \A i \in 1..n : b # Null /\ trips[i].block = b /\ trips[i].service \in services
    /\ \A t \in db.trips : b # Null /\ t.block = b /\ t.service \in services
                           => \E i \in 1..n : trips[i] = t

LEMMA TripsOfBlock ==
    ASSUME feed \in DOMAIN Feeds, NEW b, NEW services
    PROVE  \E n \in Nat : AreTripsOf(GetTripsByBlockIDs(db, {b}, services), n, b, services)
<1> DEFINE rows == TripsInBlocks(db, {b}, services)
           trips == GetTripsByBlockIDs(db, {b}, services)
           all == {t \in db.trips : b # Null /\ t.block = b /\ t.service \in services}
<1>1. rows = all
  BY DEF TripsInBlocks
<1>2. /\ IsFiniteSet(db.trips)
      /\ \A t \in db.trips : t.minArrival \in Int /\ t.id \in Int
      /\ \A x, y \in db.trips : x.id = y.id => x = y
  BY TablesImported DEF ColumnsTyped
<1>3. rows \subseteq db.trips /\ \A t \in rows : t.block = b
  BY <1>1
<1> HIDE DEF rows
<1>4. IsFiniteSet(rows)
  BY <1>2, <1>3, FS_Subset
<1>5. trips = ByBlockAndStart(rows)
  BY DEF GetTripsByBlockIDs, rows
<1> HIDE DEF trips
<1>6. /\ Cardinality(rows) \in Nat
      /\ trips \in [1..Cardinality(rows) -> rows]
      /\ \A x \in rows : \E i \in 1..Cardinality(rows) : trips[i] = x
  BY <1>2, <1>3, <1>4, <1>5, BlockOrders
<1>7. /\ trips \in [1..Cardinality(rows) -> db.trips]
      /\ \A i \in 1..Cardinality(rows) : /\ b # Null /\ trips[i].block = b
                                         /\ trips[i].service \in services
  <2>1. \A i \in 1..Cardinality(rows) : trips[i] \in all
    BY <1>1, <1>6
  <2>2. trips \in [1..Cardinality(rows) -> db.trips]
    BY <1>3, <1>6
  <2>3. QED
    BY <2>1, <2>2
<1>8. \A t \in db.trips : b # Null /\ t.block = b /\ t.service \in services
                          => \E i \in 1..Cardinality(rows) : trips[i] = t
  BY <1>1, <1>6
<1>9. QED
  BY <1>6, <1>7, <1>8 DEF trips, AreTripsOf

\* What is in the window of one of its days is in service.
LEMMA InServiceOnDay ==
    ASSUME NEW t \in db.trips, NEW z \in DOMAIN Zones, Zones[z] = AgencyZone(t),
           NEW day, DayOf(day, z), IsServiceActiveOnDate(db, t.service, day.date),
           \E u \in BlockOn(t.block, day.date) \cup {t} : u.minArrival <= day.since + RunningEarly,
           \E u \in BlockOn(t.block, day.date) \cup {t} : u.maxDeparture >= day.since - RunningLate,
           NEW f, f.zone = z, f.date = day.date
    PROVE  InService(f, t)
<1>1. SinceStart(t, f.date) = day.since
  BY DEF SinceStart, DayOf
<1>2. IsServiceActiveOnDate(db, t.service, f.date)
  BY DEF DayOf
<1>3. f.date \in {FromInstant(AgencyZone(t), Now) - 1, FromInstant(AgencyZone(t), Now)}
  BY DEF DayOf
<1>4. f.date \in DaysOf(t)
  BY <1>2, <1>3 DEF DaysOf
<1>5. QED
  BY <1>1, <1>4 DEF InService

\* What is found: the trip, a clock and a day.
Findings == [trip : Int, zone : DOMAIN Zones, date : Int]

\* A trip that is found running is in service.
LEMMA RunningIs ==
    ASSUME RequestInv, request # Null, NEW ctx, ctx.db = db, NEW agency, NEW t \in db.trips,
           NEW i \in 1..2, NEW here,
           Running(ctx, t, i, here, AgencyZones(ctx, agency), RouteZoneServiceDays(ctx, agency, Now)) # Null
    PROVE  LET f == Running(ctx, t, i, here, AgencyZones(ctx, agency),
                            RouteZoneServiceDays(ctx, agency, Now))
           IN  f \in Findings /\ f.trip = t.id /\ InService(f, t)
<1> DEFINE zones == AgencyZones(ctx, agency)
           z == ZoneOfTrip(ctx, zones, t)
           test == ZoneServiceDaysToTest(RouteZoneServiceDays(ctx, agency, Now)[z], i, z = here)
           on == {k \in DOMAIN test : TripInServiceOn(t, test[k])}
           f == Running(ctx, t, i, here, zones, RouteZoneServiceDays(ctx, agency, Now))
<1>1. z # Null /\ on # {} /\ f = [trip |-> t.id, zone |-> z, date |-> test[Min(on)].date]
  BY DEF Running
<1>2. z \in Range(zones) /\ z \in DOMAIN Zones /\ Zones[z] = AgencyZone(t)
  BY <1>1, ZoneUsed DEF RequestInv
<1>3. (z = here) \in BOOLEAN
  OBVIOUS
<1>4. DOMAIN test \in {1..1, 1..2} /\ \A k \in DOMAIN test : DayOf(test[k], z)
  BY <1>2, <1>3, DaysTested
<1> HIDE DEF test, z, zones
<1>5. IsFiniteSet(1..1) /\ IsFiniteSet(1..2)
  BY CountFinite
<1>6. on \in SUBSET (1..2)
  BY <1>4
<1> HIDE DEF on
<1>7. IsFiniteSet(on) /\ on \in SUBSET Int
  <2>1. 1 \in Int /\ 2 \in Int
    OBVIOUS
  <2>2. IsFiniteSet(1..2)
    BY <1>5, <2>1, Zenon
  <2>3. IsFiniteSet(on)
    BY <1>6, <2>2, FS_Subset
  <2>4. QED
    BY <1>6, <2>3
<1>8. Min(on) \in on
  BY <1>1, <1>7, Extremes
<1>9. PICK k \in DOMAIN test : k = Min(on) /\ TripInServiceOn(t, test[k])
  BY <1>8 DEF on
<1>10. DayOf(test[k], z) /\ IsServiceActiveOnDate(db, t.service, test[k].date)
  BY <1>4, <1>9 DEF TripInServiceOn, DayOf
<1>11. t.minArrival <= test[k].since /\ test[k].since <= t.maxDeparture
  BY <1>9 DEF TripInServiceOn, InRange
<1>12. {t.id, t.minArrival, t.maxDeparture} \subseteq Int
  BY TablesImported DEF ColumnsTyped, RequestInv
<1>13. /\ t.minArrival <= test[k].since + RunningEarly
       /\ t.maxDeparture >= test[k].since - RunningLate
  BY <1>10, <1>11, <1>12, DayAssumption DEF DayOf
<1>14. f.trip = t.id /\ f.zone = z /\ f.date = test[k].date
  BY <1>1, <1>9
<1>15. f \in Findings
  BY <1>1, <1>2, <1>9, <1>10, <1>12 DEF Findings, DayOf
<1> HIDE DEF f
<1>16. InService(f, t)
  BY <1>2, <1>10, <1>13, <1>14, InServiceOnDay
<1>17. QED
  BY <1>14, <1>15, <1>16 DEF f, zones

\* A trip of the route's own clock that is in service on the day looked at is
\* found running.
LEMMA RunningFound ==
    ASSUME RequestInv, request # Null, NEW ctx, ctx.db = db, NEW agency, NEW t \in db.trips,
           NEW i \in 1..2, NEW here,
           ZoneOfTrip(ctx, AgencyZones(ctx, agency), t) = here, here # Null,
           TripInServiceOn(t, RouteZoneServiceDays(ctx, agency, Now)[here][i])
    PROVE  Running(ctx, t, i, here, AgencyZones(ctx, agency),
                   RouteZoneServiceDays(ctx, agency, Now)) # Null
<1> DEFINE zones == AgencyZones(ctx, agency)
           z == ZoneOfTrip(ctx, zones, t)
           test == ZoneServiceDaysToTest(RouteZoneServiceDays(ctx, agency, Now)[z], i, z = here)
           on == {k \in DOMAIN test : TripInServiceOn(t, test[k])}
           f == Running(ctx, t, i, here, zones, RouteZoneServiceDays(ctx, agency, Now))
<1>1. z \in Range(zones) /\ z \in DOMAIN Zones
  BY ZoneUsed DEF RequestInv
<1>2. z = here
  OBVIOUS
<1>3. test = <<RouteZoneServiceDays(ctx, agency, Now)[here][i]>>
  BY <1>2 DEF ZoneServiceDaysToTest
<1>4. (z = here) \in BOOLEAN
  OBVIOUS
<1>5. \A k \in DOMAIN test : DayOf(test[k], z)
  BY <1>1, <1>4, DaysTested
<1>6. on = {1}
  BY <1>3
<1>7. f = [trip |-> t.id, zone |-> z, date |-> test[Min(on)].date]
  BY <1>2, <1>6 DEF Running
<1> HIDE DEF on
<1>8. Min(on) = 1
  <2>1. IsFiniteSet(on)
    BY <1>6, FS_Singleton
  <2>2. on \in SUBSET Int /\ on # {}
    BY <1>6
  <2>3. Min(on) \in on
    BY <2>1, <2>2, Extremes
  <2>4. QED
    BY <1>6, <2>3
<1>9. 1 \in DOMAIN test
  BY <1>3
<1> HIDE DEF test
<1>10. test[Min(on)].date \in Int
  BY <1>5, <1>8, <1>9 DEF DayOf
<1>11. t.id \in Int
  BY TablesImported DEF ColumnsTyped, RequestInv
<1>12. f \in Findings
  BY <1>1, <1>2, <1>7, <1>10, <1>11 DEF Findings
<1>13. QED
  BY <1>12, NullIsNothingFound DEF Findings

\* What is found on a block is a trip of it in service.
FoundOnBlock(f, b) ==
    f \in Findings /\ \E t \in db.trips : t.id = f.trip /\ t.block = b /\ InService(f, t)

\* The trip that a block is found to run is one of it in service; one is found
\* when any of its trips is running.
LEMMA RunningInBlock ==
    ASSUME RequestInv, request # Null, NEW ctx, ctx.db = db, NEW agency, NEW b, NEW n \in Nat,
           NEW trips \in [1..n -> db.trips], \A k \in 1..n : trips[k].block = b,
           NEW i \in 1..2, NEW here
    PROVE  LET zones == AgencyZones(ctx, agency)
               days == RouteZoneServiceDays(ctx, agency, Now)
               f == ActiveTripInBlock(ctx, trips, i, here, zones, days)
           IN  /\ f # Null => FoundOnBlock(f, b)
               /\ (\E k \in 1..n : Running(ctx, trips[k], i, here, zones, days) # Null) => f # Null
<1> DEFINE zones == AgencyZones(ctx, agency)
           days == RouteZoneServiceDays(ctx, agency, Now)
           on(k) == Running(ctx, trips[k], i, here, zones, days)
           T == {on(k) : k \in 1..n}
           s == [k \in 1..n |-> on(k)]
           f == ActiveTripInBlock(ctx, trips, i, here, zones, days)
<1>1. s \in [1..n -> T]
  OBVIOUS
<1>2. f = FirstFound(s)
  BY DEF ActiveTripInBlock
<1>3. \A k \in 1..n : s[k] = on(k)
  OBVIOUS
<1> HIDE DEF T, s, f
<1>4. /\ f # Null => \E k \in 1..n : f = s[k]
      /\ (\E k \in 1..n : s[k] # Null) => f # Null
  BY <1>1, <1>2, FirstFoundIs
<1>5. ASSUME f # Null PROVE FoundOnBlock(f, b)
  <2>1. PICK k \in 1..n : f = on(k)
    BY <1>3, <1>4, <1>5
  <2>2. trips[k] \in db.trips /\ trips[k].block = b
    OBVIOUS
  <2>3. on(k) # Null
    BY <1>5, <2>1
  <2> DEFINE t == trips[k]
  <2> HIDE DEF t
  <2>4. t \in db.trips /\ Running(ctx, t, i, here, zones, days) # Null
    BY <2>2, <2>3 DEF t
  <2>5. /\ Running(ctx, t, i, here, zones, days) \in Findings
        /\ Running(ctx, t, i, here, zones, days).trip = t.id
        /\ InService(Running(ctx, t, i, here, zones, days), t)
    BY <2>4, RunningIs
  <2>6. QED
    BY <2>1, <2>2, <2>5 DEF FoundOnBlock, t
<1>6. QED
  BY <1>3, <1>4, <1>5 DEF f

-----------------------------------------------------------------------------
(* The trip a block is at by its schedule. *)

\* The trips of a shift are among those loaded for it.
LEMMA ShiftLoaded ==
    ASSUME feed \in DOMAIN Feeds, NEW ctx, ctx.db = db, NEW target, NEW d, NEW ids,
           BlockTripIDsForServiceDate(ctx, target, d) = ids, ids \subseteq {t.id : t \in db.trips}
    PROVE  \E n \in Nat : /\ DOMAIN LoadShiftTrips(ctx, target, d) = 1..n
                          /\ \A i \in 1..n : LoadShiftTrips(ctx, target, d)[i].id \in ids
<1> DEFINE loaded == LoadBlockTripData(ctx, ids)
           timed == {u \in ids : GetStopTimesForTrip(db, u) # <<>>}
           data == [u \in timed |-> BlockTripData(ctx, u)]
           named == [t \in db.trips |-> t.id]
           all == {t.id : t \in db.trips}
           shift == LoadShiftTrips(ctx, target, d)
<1>1. loaded \subseteq {BlockTripData(ctx, u) : u \in timed}
  BY DEF LoadBlockTripData
<1>2. \A u : BlockTripData(ctx, u).id = u
  BY DEF BlockTripData
<1>3. \A u \in timed : BlockTripData(ctx, u).first \in Int
  BY FirstTimeIsNumber DEF BlockTripData
<1>4. IsFiniteSet(db.trips) /\ all \subseteq Int
  BY TablesImported DEF ColumnsTyped
<1>5. named \in Surjection(db.trips, all)
  BY DEF Surjection
<1> HIDE DEF all
<1>6. IsFiniteSet(timed)
  <2>1. IsFiniteSet(all)
    BY <1>4, <1>5, FS_Surjection
  <2>2. timed \subseteq all
    BY DEF all
  <2>3. QED
    BY <2>1, <2>2, FS_Subset
<1> DEFINE built == {BlockTripData(ctx, u) : u \in timed}
<1>7. data \in Surjection(timed, built)
  BY DEF Surjection
<1>8. \A t \in built : t.first \in Int /\ t.id \in Int /\ t.id \in ids
  BY <1>2, <1>3, <1>4 DEF all
<1>9. \A a, b \in built : a.id = b.id => a = b
  BY <1>2
<1> HIDE DEF timed, loaded, built
<1>10. IsFiniteSet(built)
  BY <1>6, <1>7, FS_Surjection
<1>11. loaded \subseteq built
  BY <1>1 DEF built
<1>12. IsFiniteSet(loaded)
  BY <1>10, <1>11, FS_Subset
<1>13. (\A t \in loaded : t.first \in Int /\ t.id \in Int) /\ \A a, b \in loaded : a.id = b.id => a = b
  BY <1>8, <1>9, <1>11
<1>14. Cardinality(loaded) \in Nat /\ ByFirst(loaded) \in [1..Cardinality(loaded) -> loaded]
  BY <1>12, <1>13, FirstOrders
<1>15. shift = KeepShiftContainingTrip(ByFirst(loaded), target)
  BY DEF LoadShiftTrips, loaded
<1> HIDE DEF shift
<1>16. shift \in Seq(loaded)
  BY <1>14, <1>15, ShiftWithin
<1>17. Len(shift) \in Nat /\ DOMAIN shift = 1..Len(shift) /\ \A i \in 1..Len(shift) : shift[i] \in loaded
  BY <1>16, LenProperties, ElementOfSeq
<1>18. \A i \in 1..Len(shift) : shift[i].id \in ids
  BY <1>8, <1>11, <1>17
<1>19. QED
  BY <1>17, <1>18 DEF shift

\* Every trip of a shift has its place on the block.
LEMMA OffsetsOfShift ==
    ASSUME NEW n \in Nat, NEW trips, DOMAIN trips = 1..n, NEW stops
    PROVE  DOMAIN TripOffsets(stops, trips) = 1..n
<1> DEFINE steps == [j \in 1..n |-> TripLength(stops, trips[j])]
           Offsets(c) == c = [i \in DOMAIN trips |->
                                IF i = 1 THEN 0 ELSE c[i - 1] + TripLength(stops, trips[i - 1])]
<1>1. PICK f : SumsTo(f, n, steps)
  BY SumsExist
<1>2. Offsets(f)
  <2>1. \A i \in 1..n : i # 1 => i - 1 \in 1..n
    OBVIOUS
  <2>2. \A i \in 1..n : i # 1 => steps[i - 1] = TripLength(stops, trips[i - 1])
    BY <2>1
  <2> HIDE DEF steps
  <2>3. \A i \in 1..n : (IF i = 1 THEN 0 ELSE f[i - 1] + steps[i - 1])
                          = IF i = 1 THEN 0 ELSE f[i - 1] + TripLength(stops, trips[i - 1])
    BY <2>2
  <2>4. f = [i \in 1..n |-> IF i = 1 THEN 0 ELSE f[i - 1] + steps[i - 1]]
    BY <1>1 DEF SumsTo
  <2>5. f = [i \in 1..n |-> IF i = 1 THEN 0 ELSE f[i - 1] + TripLength(stops, trips[i - 1])]
    BY <2>3, <2>4
  <2>6. QED
    BY <2>5
<1>3. TripOffsets(stops, trips) = CHOOSE c : Offsets(c)
  BY DEF TripOffsets
<1>4. Offsets(TripOffsets(stops, trips))
  BY <1>2, <1>3
<1>5. QED
  BY <1>4

\* The trip a snapshot takes the bus to be on is one of its shift.
LEMMA SnapshotActive ==
    ASSUME feed \in DOMAIN Feeds, NEW ctx, ctx.db = db, NEW target, NEW zone, NEW t, NEW d, NEW ids,
           BlockTripIDsForServiceDate(ctx, target, d) = ids, ids \subseteq {u.id : u \in db.trips},
           ComputeScheduledBlockSnapshot(ctx, target, zone, t, d) # Null,
           ComputeScheduledBlockSnapshot(ctx, target, zone, t, d).active # Null
    PROVE  ComputeScheduledBlockSnapshot(ctx, target, zone, t, d).active \in ids
<1> DEFINE trips == LoadShiftTrips(ctx, target, d)
           fetched == StopsFetched(ctx, trips)
           stops == EmitBlockStops(fetched, trips)
           offsets == TripOffsets(fetched, trips)
           position == InterpolateBlockDistance(stops, SecondsSince(zone, t, d))
           index == ActiveTripIndex(offsets, position)
           snapshot == ComputeScheduledBlockSnapshot(ctx, target, zone, t, d)
<1>1. PICK n \in Nat : DOMAIN trips = 1..n /\ \A i \in 1..n : trips[i].id \in ids
  BY ShiftLoaded
<1>2. DOMAIN offsets = 1..n
  BY <1>1, OffsetsOfShift
<1>3. snapshot = ShiftSnapshot(trips, stops, offsets, SecondsSince(zone, t, d))
  BY DEF ComputeScheduledBlockSnapshot
<1>4. snapshot.active = ActiveAt(trips, offsets, position, index).trip
  BY <1>3 DEF ShiftSnapshot, SnapshotAt
<1> DEFINE reached == {i \in DOMAIN offsets : AtMost(Fraction(offsets[i], 1), position)}
<1>5. index = IF reached = {} THEN Null ELSE Max(reached)
  BY DEF ActiveTripIndex
<1> HIDE DEF trips, offsets, position, index
<1>6. reached \in SUBSET (1..n)
  BY <1>2
<1> HIDE DEF reached
<1>7. IsFiniteSet(1..n)
  BY CountFinite
<1>8. IsFiniteSet(reached) /\ reached \in SUBSET Int
  <2>1. IsFiniteSet(reached)
    BY <1>6, <1>7, FS_Subset
  <2>2. QED
    BY <1>6, <2>1
<1>9. index # Null => index \in 1..n
  BY <1>5, <1>6, <1>8, Extremes
<1>10. snapshot.active = IF index = Null THEN Null ELSE trips[index].id
  BY <1>4 DEF ActiveAt
<1>11. index # Null
  BY <1>10
<1>12. QED
  BY <1>1, <1>9, <1>10, <1>11

\* The span of a block that an anchor is chosen by: it has begun when the
\* window ends, and has not ended when it begins.
LEMMA AnchorIs ==
    ASSUME feed \in DOMAIN Feeds, NEW n \in Nat, NEW group \in [1..n -> db.trips],
           NEW from \in Int, NEW to \in Int, SelectAnchorInGroup(group, from, to) # Null
    PROVE  /\ \E i \in 1..n : group[i].id = SelectAnchorInGroup(group, from, to)
           /\ \E i \in 1..n : group[i].minArrival <= to
           /\ \E i \in 1..n : group[i].maxDeparture >= from
<1> DEFINE started == {i \in DOMAIN group : group[i].minArrival <= to}
           ends == {group[i].maxDeparture : i \in DOMAIN group}
           anchor == SelectAnchorInGroup(group, from, to)
           k == IF started = {} THEN 1 ELSE Max(started)
<1>1. DOMAIN group = 1..n /\ group \in Seq(db.trips)
  OBVIOUS
<1>2. /\ group # <<>> /\ ~(group[1].minArrival > to) /\ ~(Max(ends) < from)
      /\ anchor = group[k].id
  BY DEF SelectAnchorInGroup
<1>3. \A t \in db.trips : t.minArrival \in Int /\ t.maxDeparture \in Int
  BY TablesImported DEF ColumnsTyped
<1>4. n # 0
  BY <1>2
<1>5. 1 \in 1..n /\ group[1] \in db.trips
  BY <1>4
<1>6. group[1].minArrival <= to
  BY <1>2, <1>3, <1>5
<1>7. started \in SUBSET (1..n) /\ 1 \in started
  BY <1>1, <1>5, <1>6
<1>8. IsFiniteSet(1..n)
  BY CountFinite
<1>9. k \in 1..n
  <2> HIDE DEF started
  <2>1. IsFiniteSet(started)
    BY <1>7, <1>8, FS_Subset
  <2>2. started \in SUBSET Int /\ started # {}
    BY <1>7
  <2>3. Max(started) \in started
    BY <2>1, <2>2, Extremes
  <2>4. QED
    BY <1>7, <2>2, <2>3
<1>10. \E i \in 1..n : group[i].maxDeparture >= from
  <2> DEFINE last == [i \in 1..n |-> group[i].maxDeparture]
  <2>1. ends = {group[i].maxDeparture : i \in 1..n}
    BY <1>1
  <2>2. last \in Surjection(1..n, ends)
    BY <2>1 DEF Surjection
  <2>3. ends \in SUBSET Int /\ ends # {}
    BY <1>3, <1>5, <2>1
  <2>4. \A x \in ends : \E i \in 1..n : group[i].maxDeparture = x
    BY <2>1
  <2> HIDE DEF ends
  <2>5. IsFiniteSet(ends)
    BY <1>8, <2>2, FS_Surjection
  <2>6. Max(ends) \in ends
    BY <2>3, <2>5, Extremes
  <2>7. Max(ends) >= from
    <3>1. \A x \in Int : ~(x < from) => x >= from
      OBVIOUS
    <3>2. Max(ends) \in Int /\ ~(Max(ends) < from)
      BY <1>2, <2>3, <2>6
    <3>3. QED
      BY <3>1, <3>2
  <2>8. QED
    BY <2>4, <2>6, <2>7
<1> HIDE DEF k, anchor
<1>11. QED
  BY <1>2, <1>5, <1>6, <1>9, <1>10 DEF anchor

\* A trip of a block that runs on the day has the block's other trips of that
\* day on its shift.
LEMMA BlockOfAnchor ==
    ASSUME feed \in DOMAIN Feeds, NEW ctx, ctx.db = db, NEW a \in db.trips, NEW d,
           IsServiceActiveOnDate(db, a.service, d), a.block # Null,
           NEW u \in BlockTripIDsForServiceDate(ctx, a.id, d)
    PROVE  \E t \in db.trips : t.id = u /\ t.block = a.block /\ IsServiceActiveOnDate(db, t.service, d)
<1> DEFINE block == GetBlockIDByTripID(db, a.id)
           active == {t.id : t \in {x \in GetTripsByBlockID(db, block) :
                                      x.service \in GetActiveServiceIDsForDate(db, d)}}
<1>1. BlockTripIDsForServiceDate(ctx, a.id, d) \in {{a.id}, active}
  BY DEF BlockTripIDsForServiceDate
<1>2. block = a.block
  <2>1. GetTrip(db, a.id) = a /\ a # Null
    BY TripFound, TablesImported DEF ColumnsTyped
  <2>2. QED
    BY <2>1 DEF GetBlockIDByTripID
<1> HIDE DEF block
<1>3. CASE u = a.id
  BY <1>3
<1>4. CASE u \in active
  <2>1. PICK t \in GetTripsByBlockID(db, block) :
               t.id = u /\ t.service \in GetActiveServiceIDsForDate(db, d)
    BY <1>4
  <2>2. t \in db.trips /\ t.block = a.block
    BY <1>2, <2>1 DEF GetTripsByBlockID
  <2>3. IsServiceActiveOnDate(db, t.service, d)
    BY <2>1, ServiceInAnswer
  <2>4. QED
    BY <2>1, <2>2, <2>3
<1>5. QED
  BY <1>1, <1>3, <1>4

\* What the schedule of a zone finds on a block is one of its trips in service.
LEMMA ResolvedInZone ==
    ASSUME RequestInv, request # Null, NEW ctx, ctx.db = db, NEW agency, NEW b, NEW trips,
           NEW z \in DOMAIN Zones, NEW day, DayOf(day, z),
           ResolveBlockInZone(ctx, b, trips, z, day, AgencyZones(ctx, agency), Now) # Null
    PROVE  FoundOnBlock(ResolveBlockInZone(ctx, b, trips, z, day, AgencyZones(ctx, agency), Now), b)
<1> DEFINE zones == AgencyZones(ctx, agency)
           spans == GetTripSpansForBlocks(db, {b}, day.services)
           from == day.since - RunningLate
           to == day.since + RunningEarly
           anchor == SelectAnchorInGroup(spans, from, to)
           snapshot == ComputeScheduledBlockSnapshot(ctx, anchor, Zones[z], Now, day.date)
           f == ResolveBlockInZone(ctx, b, trips, z, day, zones, Now)
<1>1. /\ anchor # Null
      /\ snapshot # Null /\ snapshot.active # Null
      /\ ZoneOfTrip(ctx, zones, GetTrip(db, snapshot.active)) = z
      /\ f = [trip |-> snapshot.active, zone |-> z, date |-> day.date]
  BY DEF ResolveBlockInZone
<1>2. from \in Int /\ to \in Int
  BY DayAssumption DEF DayOf
<1>3. feed \in DOMAIN Feeds
  BY DEF RequestInv
<1>4. PICK n \in Nat : /\ spans \in [1..n -> db.trips]
                      /\ \A i \in 1..n : /\ b # Null /\ spans[i].block = b
                                         /\ spans[i].service \in day.services
  <2>1. spans = GetTripsByBlockIDs(db, {b}, day.services)
    BY DEF GetTripSpansForBlocks, GetTripsByBlockIDs
  <2>2. PICK n \in Nat : AreTripsOf(GetTripsByBlockIDs(db, {b}, day.services), n, b, day.services)
    BY <1>3, TripsOfBlock
  <2>3. AreTripsOf(spans, n, b, day.services)
    BY <2>1, <2>2
  <2> HIDE DEF spans
  <2>4. QED
    BY <2>3 DEF AreTripsOf
<1>5. \A i \in 1..n : /\ b # Null /\ spans[i] \in db.trips /\ spans[i].block = b
                      /\ IsServiceActiveOnDate(db, spans[i].service, day.date)
  <2> HIDE DEF spans
  <2>1. QED
    BY <1>4 DEF DayOf
<1> HIDE DEF spans, from, to, snapshot, f
<1>6. /\ \E i \in 1..n : spans[i].id = anchor
      /\ \E i \in 1..n : spans[i].minArrival <= to
      /\ \E i \in 1..n : spans[i].maxDeparture >= from
  BY <1>1, <1>2, <1>3, <1>4, AnchorIs
<1> HIDE DEF anchor
<1>7. PICK a \in db.trips : a.id = anchor /\ \E i \in 1..n : spans[i] = a
  BY <1>5, <1>6
<1>8. a \in db.trips /\ a.block = b /\ a.block # Null /\ IsServiceActiveOnDate(db, a.service, day.date)
  BY <1>5, <1>7
<1> DEFINE ids == BlockTripIDsForServiceDate(ctx, anchor, day.date)
<1>9. \A u \in ids : \E t \in db.trips :
          t.id = u /\ t.block = b /\ IsServiceActiveOnDate(db, t.service, day.date)
  BY <1>3, <1>7, <1>8, BlockOfAnchor
<1>10. ids \subseteq {t.id : t \in db.trips}
  BY <1>9
<1>11. snapshot.active \in ids
  BY <1>1, <1>3, <1>10, SnapshotActive DEF snapshot
<1> HIDE DEF ids
<1>12. PICK t \in db.trips : /\ t.id = snapshot.active /\ t.block = b
                             /\ IsServiceActiveOnDate(db, t.service, day.date)
  BY <1>9, <1>11
<1>13. GetTrip(db, snapshot.active) = t
  BY <1>3, <1>12, TripFound
<1>14. z # Null
  BY NullIsNothingFound
<1>15. Zones[z] = AgencyZone(t)
  BY <1>1, <1>3, <1>13, <1>14, ZoneUsed
<1>16. \A i \in 1..n : spans[i] \in BlockOn(t.block, day.date)
  BY <1>5, <1>12 DEF BlockOn, GetTripsByBlockID
<1>17. /\ \E u \in BlockOn(t.block, day.date) \cup {t} : u.minArrival <= day.since + RunningEarly
       /\ \E u \in BlockOn(t.block, day.date) \cup {t} : u.maxDeparture >= day.since - RunningLate
  BY <1>6, <1>16 DEF from, to
<1>18. f.trip = t.id /\ f.zone = z /\ f.date = day.date
  BY <1>1, <1>12
<1>19. InService(f, t)
  BY <1>12, <1>15, <1>17, <1>18, InServiceOnDay
<1>20. f \in Findings
  <2>1. t.id \in Int /\ day.date \in Int
    BY <1>3, TablesImported DEF ColumnsTyped, DayOf
  <2>2. QED
    BY <1>1, <1>12, <2>1 DEF Findings
<1>21. QED
  BY <1>12, <1>18, <1>19, <1>20 DEF FoundOnBlock, f, zones

\* The zones a block is looked for in: the one of the route, and then those
\* its trips go by.
LEMMA CandidatesAre ==
    ASSUME feed \in DOMAIN Feeds, NEW ctx, ctx.db = db, NEW agency, NEW n \in Nat,
           NEW trips \in [1..n -> db.trips], NEW here
    PROVE  LET zones == AgencyZones(ctx, agency)
           IN  \E m \in Nat : BlockCandidateZones(ctx, trips, zones, here)
                                \in [1..m -> {here} \cup {z \in Range(zones) : z \in DOMAIN Zones}]
<1> DEFINE zones == AgencyZones(ctx, agency)
           zone(t) == ZoneOfTrip(ctx, zones, t)
           others == {zone(t) : t \in Range(trips)} \ {Null, here}
           places(z) == {i \in DOMAIN trips : zone(trips[i]) = z}
           first(z) == Min(places(z))
           R == {p \in others \X others : first(p[1]) < first(p[2])}
           used == {z \in Range(zones) : z \in DOMAIN Zones}
<1>1. Range(trips) = {trips[i] : i \in 1..n}
  BY DEF Range
<1>2. others \subseteq {zone(trips[i]) : i \in 1..n}
  BY <1>1
<1>3. IsFiniteSet(1..n)
  BY CountFinite
<1>4. IsFiniteSet(others)
  <2> DEFINE named == [i \in 1..n |-> zone(trips[i])]
             all == {zone(trips[i]) : i \in 1..n}
  <2> HIDE DEF zone, zones, others
  <2>1. named \in [1..n -> all] /\ \A x \in all : \E i \in 1..n : named[i] = x
    OBVIOUS
  <2> HIDE DEF named, all
  <2>2. named \in Surjection(1..n, all)
    BY <2>1 DEF Surjection
  <2>3. IsFiniteSet(all)
    BY <1>3, <2>2, FS_Surjection
  <2>4. others \subseteq all
    BY <1>2 DEF all
  <2>5. QED
    BY <2>3, <2>4, FS_Subset
<1>5. others \subseteq used
  <2> SUFFICES ASSUME NEW z \in others PROVE z \in used
    OBVIOUS
  <2>1. PICK i \in 1..n : z = zone(trips[i])
    BY <1>2
  <2>2. trips[i] \in db.trips /\ zone(trips[i]) # Null
    BY <2>1
  <2>3. zone(trips[i]) \in Range(zones) /\ zone(trips[i]) \in DOMAIN Zones
    BY <2>2, ZoneUsed
  <2>4. QED
    BY <2>1, <2>3
<1>6. ASSUME NEW z \in others
      PROVE  first(z) \in 1..n /\ zone(trips[first(z)]) = z
  <2>1. places(z) \in SUBSET (1..n) /\ places(z) # {}
    BY <1>2
  <2>2. IsFiniteSet(places(z))
    BY <1>3, <2>1, FS_Subset
  <2>3. places(z) \in SUBSET Int
    BY <2>1
  <2>4. first(z) \in places(z)
    BY <2>1, <2>2, <2>3, Extremes
  <2>5. QED
    BY <2>4
<1> DEFINE sorted == SortedBy(others, LAMBDA y, z : first(y) < first(z))
<1>7. sorted = Enumeration(others, R)
  BY DEF SortedBy
<1>8. BlockCandidateZones(ctx, trips, zones, here) = <<here>> \o sorted
  BY DEF BlockCandidateZones
<1> HIDE DEF zone, sorted
<1>9. \A x, y \in others : <<x, y>> \in R <=> first(x) < first(y)
  <2> HIDE DEF others, first
  <2>1. QED
    OBVIOUS
<1> HIDE DEF R, others, first
<1>10. StrictOrderOn(others, R)
  <2>1. \A x, y \in others : first(x) = first(y) => x = y
    BY <1>6
  <2>2. QED
    BY <1>6, <1>9, <2>1 DEF StrictOrderOn
<1>11. Cardinality(others) \in Nat /\ sorted \in [1..Cardinality(others) -> others]
  BY <1>4, <1>7, <1>10, Enumerates
<1> DEFINE all == {here} \cup used
<1> HIDE DEF used
<1>12. sorted \in Seq(all) /\ <<here>> \in Seq(all)
  BY <1>5, <1>11
<1>13. <<here>> \o sorted \in Seq(all)
  BY <1>12, ConcatProperties
<1> HIDE DEF all, zones
<1>14. \E m \in Nat : BlockCandidateZones(ctx, trips, zones, here) \in [1..m -> all]
  <2> DEFINE c == BlockCandidateZones(ctx, trips, zones, here)
  <2> HIDE DEF c
  <2>1. c \in Seq(all)
    BY <1>8, <1>13 DEF c
  <2>2. Len(c) \in Nat /\ c \in [1..Len(c) -> all]
    BY <2>1, LenProperties
  <2>3. QED
    BY <2>2 DEF c
<1>15. QED
  BY <1>14 DEF all, used, zones

\* What is found on a block between its trips is one of them in service.
LEMMA ResolvedBetween ==
    ASSUME RequestInv, request # Null, NEW ctx, ctx.db = db, NEW agency, NEW b, NEW n \in Nat,
           NEW trips \in [1..n -> db.trips], NEW i \in 1..2, NEW here \in DOMAIN Zones,
           ResolveBlockBetweenTrips(ctx, b, trips, i, here, AgencyZones(ctx, agency),
                                    RouteZoneServiceDays(ctx, agency, Now), Now) # Null
    PROVE  FoundOnBlock(ResolveBlockBetweenTrips(ctx, b, trips, i, here, AgencyZones(ctx, agency),
                                                 RouteZoneServiceDays(ctx, agency, Now), Now), b)
<1> DEFINE zones == AgencyZones(ctx, agency)
           days == RouteZoneServiceDays(ctx, agency, Now)
           test(z) == ZoneServiceDaysToTest(days[z], i, z = here)
           in(z, day) == ResolveBlockInZone(ctx, b, trips, z, day, zones, Now)
           candidates == BlockCandidateZones(ctx, trips, zones, here)
           on(z) == [k \in DOMAIN test(z) |-> in(z, test(z)[k])]
           all == [j \in DOMAIN candidates |-> on(candidates[j])]
           T == {f \in Findings \cup {Null} : f # Null => FoundOnBlock(f, b)}
           f == ResolveBlockBetweenTrips(ctx, b, trips, i, here, zones, days, Now)
<1>1. f = FirstFound(FlattenSeq(all))
  BY DEF ResolveBlockBetweenTrips
<1>2. PICK m \in Nat : candidates \in [1..m -> {here} \cup {z \in Range(zones) : z \in DOMAIN Zones}]
  <2>1. feed \in DOMAIN Feeds
    BY DEF RequestInv
  <2>2. QED
    BY <2>1, CandidatesAre
<1>3. \A g : (g # Null => FoundOnBlock(g, b)) => g \in T
  BY DEF FoundOnBlock
<1> HIDE DEF T
<1>4. ASSUME NEW z \in Range(zones), z \in DOMAIN Zones
      PROVE  on(z) \in Seq(T)
  <2>1. (z = here) \in BOOLEAN
    OBVIOUS
  <2>2. DOMAIN test(z) \in {1..1, 1..2} /\ \A k \in DOMAIN test(z) : DayOf(test(z)[k], z)
    BY <1>4, <2>1, DaysTested
  <2>3. ASSUME NEW k \in DOMAIN test(z) PROVE in(z, test(z)[k]) \in T
    <3> DEFINE day == test(z)[k]
    <3>1. DayOf(day, z)
      BY <2>2
    <3> HIDE DEF day
    <3>2. in(z, day) # Null => FoundOnBlock(in(z, day), b)
      BY <1>4, <3>1, ResolvedInZone
    <3>3. QED
      BY <1>3, <3>2 DEF day
  <2> HIDE DEF test, in
  <2>4. on(z) \in [DOMAIN test(z) -> T]
    BY <2>3
  <2>5. QED
    BY <2>2, <2>4
<1>5. on(here) \in Seq(T)
  <2>1. CASE here \in Range(zones)
    BY <1>4, <2>1
  <2>2. CASE here \notin Range(zones)
    <3>1. test(here) = <<days[here][i]>>
      BY DEF ZoneServiceDaysToTest
    <3>2. DOMAIN test(here) = 1..1
      BY <3>1
    <3>3. \A day : in(here, day) = Null
      <4>1. here # Null
        BY NullIsNothingFound
      <4>2. \A t : ZoneOfTrip(ctx, zones, t) # here
        BY <2>2, <4>1 DEF ZoneOfTrip, Range
      <4>3. QED
        BY <4>2 DEF ResolveBlockInZone
    <3> HIDE DEF test, in
    <3>4. on(here) \in [1..1 -> T]
      BY <1>3, <3>2, <3>3
    <3>5. QED
      BY <3>4
  <2>3. QED
    BY <2>1, <2>2
<1> HIDE DEF on, zones, candidates, f
<1>6. \A j \in 1..m : on(candidates[j]) \in Seq(T)
  BY <1>2, <1>4, <1>5
<1>7. all \in [1..m -> Seq(T)]
  BY <1>2, <1>6
<1> HIDE DEF all
<1>8. FlattenSeq(all) \in Seq(T)
  BY <1>7, Flattened
<1>9. PICK s : s = FlattenSeq(all)
  OBVIOUS
<1>10. Len(s) \in Nat /\ s \in [1..Len(s) -> T]
  BY <1>8, <1>9, LenProperties
<1>11. f # Null
  BY DEF f, zones
<1>12. \E j \in 1..Len(s) : f = s[j]
  BY <1>1, <1>9, <1>10, <1>11, FirstFoundIs
<1>13. f \in T
  BY <1>10, <1>12
<1>14. QED
  BY <1>11, <1>13 DEF T, f, zones

-----------------------------------------------------------------------------
(* The selection. *)

\* What is found on the blocks of a route is in service, and on each of them
\* something is found that runs a trip of the route's clock.
LEMMA ActiveInBlocks ==
    ASSUME RequestInv, request # Null, NEW ctx, ctx.db = db, NEW agency, NEW blocks, NEW i \in 1..2,
           ZoneOf(ctx, agency) \in DOMAIN Zones,
           ActiveTripsInBlocks(ctx, blocks, i, agency, Now) # Null
    PROVE  LET here == ZoneOf(ctx, agency)
               active == ActiveTripsInBlocks(ctx, blocks, i, agency, Now)
           IN  /\ \A f \in active : \E b \in blocks : FoundOnBlock(f, b)
               /\ \A t \in db.trips :
                     /\ t.block \in blocks \ {Null}
                     /\ ZoneOfTrip(ctx, AgencyZones(ctx, agency), t) = here
                     /\ TripInServiceOn(t, RouteZoneServiceDays(ctx, agency, Now)[here][i])
                     => \E f \in active : FoundOnBlock(f, t.block)
<1> DEFINE here == ZoneOf(ctx, agency)
           zones == AgencyZones(ctx, agency)
           days == RouteZoneServiceDays(ctx, agency, Now)
           services == UNION {UNION {days[z][k].services : k \in DOMAIN days[z]} : z \in DOMAIN days}
           queried == IF services = {} THEN {} ELSE blocks
           trips(b) == GetTripsByBlockIDs(db, {b}, services)
           running(b) == ActiveTripInBlock(ctx, trips(b), i, here, zones, days)
           between(b) == ResolveBlockBetweenTrips(ctx, b, trips(b), i, here, zones, days, Now)
           on(b) == OrElse(running(b), between(b))
           active == ActiveTripsInBlocks(ctx, blocks, i, agency, Now)
<1>1. feed \in DOMAIN Feeds
  BY DEF RequestInv
<1>2. active = {on(b) : b \in queried} \ {Null}
  <2> DEFINE tripsOf == [b \in queried |-> GetTripsByBlockIDs(ctx.db, {b}, services)]
  <2>1. active = ActiveTripsOf(ctx, tripsOf, i, here, zones, days, Now)
    BY DEF ActiveTripsInBlocks
  <2>2. active = {ActiveTrip(ctx, b, tripsOf[b], i, here, zones, days, Now) : b \in DOMAIN tripsOf} \ {Null}
    BY <2>1 DEF ActiveTripsOf
  <2>3. DOMAIN tripsOf = queried /\ \A b \in queried : tripsOf[b] = trips(b)
    OBVIOUS
  <2> HIDE DEF tripsOf, queried, services, days, active
  <2>4. \A b \in queried : ActiveTrip(ctx, b, tripsOf[b], i, here, zones, days, Now) = on(b)
    BY <2>3 DEF ActiveTrip
  <2> HIDE DEF on
  <2>5. QED
    BY <2>2, <2>3, <2>4
<1>3. ASSUME NEW b
      PROVE  /\ on(b) # Null => FoundOnBlock(on(b), b)
             /\ \A t \in db.trips : /\ b # Null /\ t.block = b /\ t.service \in services
                                    /\ Running(ctx, t, i, here, zones, days) # Null
                                    => on(b) # Null
  <2> HIDE DEF services
  <2>1. PICK n \in Nat : AreTripsOf(trips(b), n, b, services)
    BY <1>1, TripsOfBlock
  <2> DEFINE rows == trips(b)
  <2> HIDE DEF trips, rows
  <2>2. rows \in [1..n -> db.trips] /\ \A k \in 1..n : rows[k].block = b
    BY <2>1 DEF rows, AreTripsOf
  <2>3. /\ running(b) # Null => FoundOnBlock(running(b), b)
        /\ (\E k \in 1..n : Running(ctx, rows[k], i, here, zones, days) # Null) => running(b) # Null
    BY <2>2, RunningInBlock DEF rows
  <2>4. between(b) # Null => FoundOnBlock(between(b), b)
    <3>1. here \in DOMAIN Zones /\ rows \in [1..n -> db.trips]
      BY <2>1 DEF rows, AreTripsOf
    <3>2. QED
      BY <3>1, ResolvedBetween DEF rows
  <2> HIDE DEF running, between
  <2>5. on(b) # Null => FoundOnBlock(on(b), b)
    BY <2>3, <2>4 DEF OrElse
  <2>6. ASSUME NEW t \in db.trips, b # Null, t.block = b, t.service \in services,
               Running(ctx, t, i, here, zones, days) # Null
        PROVE  on(b) # Null
    <3>1. PICK k \in 1..n : rows[k] = t
      BY <2>1, <2>6 DEF rows, AreTripsOf
    <3>2. running(b) # Null
      BY <2>3, <2>6, <3>1
    <3>3. QED
      BY <3>2 DEF OrElse
  <2>7. QED
    BY <2>5, <2>6
<1>4. ASSUME NEW t \in db.trips, t.block \in blocks \ {Null}, ZoneOfTrip(ctx, zones, t) = here,
             TripInServiceOn(t, days[here][i])
      PROVE  \E f \in active : FoundOnBlock(f, t.block)
  <2>1. here # Null
    BY NullIsNothingFound
  <2>2. Running(ctx, t, i, here, zones, days) # Null
    BY <1>4, <2>1, RunningFound
  <2>3. here \in Range(zones)
    BY <1>1, <1>4, <2>1, ZoneUsed
  <2>4. days[here] = ServiceDaysOf(ServiceDateResolverForZone(ctx, here, Now)) /\ here \in DOMAIN days
    BY <2>3 DEF RouteZoneServiceDays
  <2>5. i \in DOMAIN days[here]
    BY <2>4 DEF ServiceDaysOf
  <2>6. t.service \in days[here][i].services
    BY <1>4 DEF TripInServiceOn
  <2>7. t.service \in services
    BY <2>4, <2>5, <2>6
  <2> HIDE DEF on, services
  <2>8. on(t.block) # Null
    BY <1>3, <1>4, <2>2, <2>7
  <2>9. on(t.block) \in active
    BY <1>2, <1>4, <2>7, <2>8
  <2>10. QED
    BY <1>3, <2>8, <2>9
<1> HIDE DEF on, active
<1>5. \A f \in active : \E b \in blocks : FoundOnBlock(f, b)
  BY <1>2, <1>3
<1>6. QED
  BY <1>4, <1>5 DEF active

\* A trip of the route goes by the route's zone.
LEMMA ZoneOfRoute ==
    ASSUME feed \in DOMAIN Feeds, NEW ctx, ctx.db = db, NEW t \in db.trips,
           ZoneOf(ctx, RouteAgency(ctx, t.route)) \in DOMAIN Zones
    PROVE  LET here == ZoneOf(ctx, RouteAgency(ctx, t.route))
               zones == AgencyZones(ctx, RouteAgency(ctx, t.route))
           IN  /\ ZoneOfTrip(ctx, zones, t) = here
               /\ here \in Range(zones) /\ Zones[here] = AgencyZone(t)
<1> DEFINE agency == RouteAgency(ctx, t.route)
           here == ZoneOf(ctx, agency)
           zones == AgencyZones(ctx, agency)
           row == GetAgency(db, agency)
<1>1. agency = GetRoute(db, t.route).agency
  BY DEF RouteAgency
<1>2. row \in db.agencies /\ row.id = agency /\ row.zone = here /\ here \in DOMAIN Zones
  BY <1>1, AgencyOfTrip DEF ZoneOf
<1> HIDE DEF agency, row
<1>3. agency \in DOMAIN zones /\ zones[agency] = here
  BY <1>2 DEF AgencyZones
<1> HIDE DEF zones, here
<1>4. ZoneOfTrip(ctx, zones, t) = here
  BY <1>1, <1>3 DEF ZoneOfTrip
<1>5. here # Null
  BY NullIsNothingFound DEF here, agency
<1>6. here \in Range(zones) /\ Zones[here] = AgencyZone(t)
  BY <1>4, <1>5, ZoneUsed DEF zones
<1>7. QED
  BY <1>4, <1>6 DEF here, zones, agency

\* A trip of the route without a block, in the window of one of its days.
FoundAlone(f, route, here, day, of) == f.trip \in of.trips /\ f.zone = here /\ f.date = day.date

\* What a route has in service on one of the two days, and what is found on its
\* blocks.
OnDay(ctx, route, agency, i) ==
    RouteBlocksAndTripsInService(ctx, route,
        RouteZoneServiceDays(ctx, agency, Now)[ZoneOf(ctx, agency)][i])

OnBlocks(ctx, route, agency, i) ==
    ActiveTripsInBlocks(ctx, OnDay(ctx, route, agency, i).blocks, i, agency, Now)

\* What is selected was found on one of the two days, and every trip found on
\* one of them is selected.
LEMMA SelectedAre ==
    ASSUME NEW ctx, NEW route, NEW agency, SelectTrips(ctx, route, agency, Now) # Null
    PROVE  LET here == ZoneOf(ctx, agency)
               days == RouteZoneServiceDays(ctx, agency, Now)[here]
               of(i) == OnDay(ctx, route, agency, i)
               on(i) == OnBlocks(ctx, route, agency, i)
               found == SelectTrips(ctx, route, agency, Now)
           IN  /\ here \in DOMAIN Zones
               /\ \A i \in 1..2 : of(i) # Null => on(i) # Null
               /\ \A f \in found : \E i \in 1..2 :
                     /\ of(i) # Null
                     /\ \/ FoundAlone(f, route, here, days[i], of(i))
                        \/ \E g \in on(i) : f.trip = g.trip /\ f.zone = g.zone /\ f.date = g.date
               /\ \A i \in 1..2 : of(i) # Null =>
                     /\ \A t \in of(i).trips : \E f \in found : f.trip = t
                     /\ \A g \in on(i) : \E f \in found : f.trip = g.trip
<1> DEFINE here == ZoneOf(ctx, agency)
           days == RouteZoneServiceDays(ctx, agency, Now)[here]
           of(i) == RouteBlocksAndTripsInService(ctx, route, days[i])
           on(i) == ActiveTripsInBlocks(ctx, of(i).blocks, i, agency, Now)
           ofs == [i \in 1..2 |-> of(i)]
           add(trip, zone, date, day) == [trip |-> trip, zone |-> zone, date |-> date, routeDate |-> day]
           alone(i) == {add(t, here, days[i].date, days[i].date) : t \in of(i).trips}
           active(i) == {add(g.trip, g.zone, g.date, days[i].date) : g \in on(i)}
           day(i) == FoundOnDay(ctx, agency, days[i], i, of(i), Now)
           all == [i \in 1..2 |-> day(i)]
           found == SelectTrips(ctx, route, agency, Now)
<1>1. here \in DOMAIN Zones /\ RouteInService(ctx, route, agency, Now) = ofs
  <2>1. RouteInService(ctx, route, agency, Now) # Null
    BY DEF SelectTrips
  <2>2. QED
    BY <2>1 DEF RouteInService
<1>2. /\ day(1) # Null /\ day(2) # Null
      /\ found = Keeping(Keeping(Keeping(day(1).trips, day(2).trips), day(1).active), day(2).active)
  <2> HIDE DEF day, of
  <2>1. ofs # Null /\ \A i \in 1..2 : ofs[i] = of(i)
    BY <1>1 DEF SelectTrips, of
  <2>2. found = IF Null \in Range(all) THEN Null
                ELSE Keeping(Keeping(Keeping(all[1].trips, all[2].trips), all[1].active), all[2].active)
    BY <1>1, <2>1 DEF SelectTrips, day, of
  <2>3. Null \notin Range(all)
    BY <2>2
  <2>4. all[1] = day(1) /\ all[2] = day(2) /\ DOMAIN all = 1..2
    OBVIOUS
  <2> HIDE DEF all
  <2>5. QED
    BY <2>2, <2>3, <2>4 DEF Range
<1>3. ASSUME NEW i \in 1..2
      PROVE  /\ of(i) = Null => day(i).trips = {} /\ day(i).active = {}
             /\ of(i) # Null => on(i) # Null /\ day(i).trips = alone(i) /\ day(i).active = active(i)
  <2>1. day(i) # Null
    BY <1>2
  <2> HIDE DEF of, days, here
  <2>2. CASE of(i) = Null
    BY <2>2 DEF FoundOnDay
  <2>3. CASE of(i) # Null
    <3>1. on(i) # Null
      BY <2>1, <2>3 DEF FoundOnDay
    <3>2. QED
      BY <2>3, <3>1 DEF FoundOnDay, here
  <2>4. QED
    BY <2>2, <2>3
<1> HIDE DEF day, found
<1>4. \A f \in found : \E i \in 1..2 : f \in day(i).trips \/ f \in day(i).active
  BY <1>2 DEF Keeping
<1>5. \A S, T : /\ S \subseteq Keeping(S, T)
                /\ \A g \in T : \E f \in Keeping(S, T) : f.trip = g.trip
  BY DEF Keeping
<1>6. \A i \in 1..2 : \A g \in day(i).trips \cup day(i).active : \E f \in found : f.trip = g.trip
  <2> DEFINE k1 == Keeping(day(1).trips, day(2).trips)
             k2 == Keeping(k1, day(1).active)
  <2>1. found = Keeping(k2, day(2).active)
    BY <1>2
  <2>2. day(1).trips \subseteq k1 /\ \A g \in day(2).trips : \E f \in k1 : f.trip = g.trip
    BY <1>5
  <2>3. k1 \subseteq k2 /\ \A g \in day(1).active : \E f \in k2 : f.trip = g.trip
    BY <1>5
  <2>4. k2 \subseteq found /\ \A g \in day(2).active : \E f \in found : f.trip = g.trip
    BY <1>5, <2>1
  <2> HIDE DEF k1, k2
  <2>5. \A g \in day(1).trips : \E f \in found : f.trip = g.trip
    BY <2>2, <2>3, <2>4
  <2>6. \A g \in day(2).trips : \E f \in found : f.trip = g.trip
    BY <2>2, <2>3, <2>4
  <2>7. \A g \in day(1).active : \E f \in found : f.trip = g.trip
    BY <2>3, <2>4
  <2>8. \A i \in 1..2 : i = 1 \/ i = 2
    OBVIOUS
  <2>9. QED
    BY <2>4, <2>5, <2>6, <2>7, <2>8
<1>7. ASSUME NEW f \in found
      PROVE  \E i \in 1..2 : /\ of(i) # Null
                             /\ \/ FoundAlone(f, route, here, days[i], of(i))
                                \/ \E g \in on(i) : f.trip = g.trip /\ f.zone = g.zone /\ f.date = g.date
  <2>1. PICK i \in 1..2 : f \in day(i).trips \/ f \in day(i).active
    BY <1>4
  <2>2. of(i) # Null /\ (f \in alone(i) \/ f \in active(i))
    BY <1>3, <2>1
  <2> HIDE DEF of, days, here, on
  <2>3. f \in alone(i) => FoundAlone(f, route, here, days[i], of(i))
    BY DEF FoundAlone
  <2>4. f \in active(i) => \E g \in on(i) : f.trip = g.trip /\ f.zone = g.zone /\ f.date = g.date
    OBVIOUS
  <2>5. QED
    BY <2>2, <2>3, <2>4
<1>8. ASSUME NEW i \in 1..2, of(i) # Null
      PROVE  /\ \A t \in of(i).trips : \E f \in found : f.trip = t
             /\ \A g \in on(i) : \E f \in found : f.trip = g.trip
  <2>1. day(i).trips = alone(i) /\ day(i).active = active(i)
    BY <1>3, <1>8
  <2> HIDE DEF of, days, here, on
  <2>2. ASSUME NEW t \in of(i).trips PROVE \E x \in alone(i) : x.trip = t
    <3>1. add(t, here, days[i].date, days[i].date) \in alone(i)
      OBVIOUS
    <3> HIDE DEF alone
    <3>2. QED
      BY <3>1
  <2>3. ASSUME NEW g \in on(i) PROVE \E x \in active(i) : x.trip = g.trip
    <3>1. add(g.trip, g.zone, g.date, days[i].date) \in active(i)
      OBVIOUS
    <3> HIDE DEF active
    <3>2. QED
      BY <3>1
  <2> HIDE DEF alone, active
  <2>4. QED
    BY <1>6, <2>1, <2>2, <2>3
<1>9. \A i \in 1..2 : of(i) # Null => on(i) # Null
  BY <1>3
<1>10. \A i \in 1..2 : of(i) = OnDay(ctx, route, agency, i) /\ on(i) = OnBlocks(ctx, route, agency, i)
  BY DEF OnDay, OnBlocks
<1> HIDE DEF of, on
<1>11. /\ \A i \in 1..2 : OnDay(ctx, route, agency, i) # Null => OnBlocks(ctx, route, agency, i) # Null
       /\ \A f \in found : \E i \in 1..2 :
             /\ OnDay(ctx, route, agency, i) # Null
             /\ \/ FoundAlone(f, route, here, days[i], OnDay(ctx, route, agency, i))
                \/ \E g \in OnBlocks(ctx, route, agency, i) :
                      f.trip = g.trip /\ f.zone = g.zone /\ f.date = g.date
       /\ \A i \in 1..2 : OnDay(ctx, route, agency, i) # Null =>
             /\ \A t \in OnDay(ctx, route, agency, i).trips : \E f \in found : f.trip = t
             /\ \A g \in OnBlocks(ctx, route, agency, i) : \E f \in found : f.trip = g.trip
  <2> HIDE DEF days, here
  <2>1. QED
    BY <1>7, <1>8, <1>9, <1>10
<1>12. QED
  BY <1>1, <1>11 DEF found

\* A trip without a block that the route has in a window is in service.
LEMMA AloneInService ==
    ASSUME RequestInv, request # Null, NEW ctx, ctx.db = db, NEW route,
           ZoneOf(ctx, RouteAgency(ctx, route)) \in DOMAIN Zones, NEW i \in 1..2, NEW f,
           LET here == ZoneOf(ctx, RouteAgency(ctx, route))
               day == RouteZoneServiceDays(ctx, RouteAgency(ctx, route), Now)[here][i]
               of == RouteBlocksAndTripsInService(ctx, route, day)
           IN  of # Null /\ FoundAlone(f, route, here, day, of)
    PROVE  \E t \in db.trips : t.id = f.trip /\ InService(f, t)
<1> DEFINE agency == RouteAgency(ctx, route)
           here == ZoneOf(ctx, agency)
           days == RouteZoneServiceDays(ctx, agency, Now)[here]
           day == days[i]
           of == RouteBlocksAndTripsInService(ctx, route, day)
           from == day.since - RunningLate
           to == day.since + RunningEarly
<1>1. of # Null /\ f.trip \in of.trips /\ f.zone = here /\ f.date = day.date
  BY DEF FoundAlone
<1>2. of.trips \subseteq GetActiveTripsWithNullBlockForRoute(db, route, day.services, from, to)
  <2> HIDE DEF day
  <2>1. QED
    BY <1>1 DEF RouteBlocksAndTripsInService
<1>3. PICK t \in db.trips : /\ t.id = f.trip /\ t.route = route /\ t.service \in day.services
                            /\ t.minArrival <= to /\ t.maxDeparture >= from
  <2> HIDE DEF day, of, from, to
  <2>1. QED
    BY <1>1, <1>2 DEF GetActiveTripsWithNullBlockForRoute, TripsWithNullBlock
<1>4. here \in Range(AgencyZones(ctx, agency)) /\ Zones[here] = AgencyZone(t)
  BY <1>3, ZoneOfRoute DEF RequestInv
<1>5. days = ServiceDaysOf(ServiceDateResolverForZone(ctx, here, Now))
  BY <1>4 DEF RouteZoneServiceDays
<1>6. DayOf(days[1], here) /\ DayOf(days[2], here)
  BY <1>5, DaysAre
<1>7. i = 1 \/ i = 2
  OBVIOUS
<1>8. DayOf(day, here)
  BY <1>6, <1>7
<1>9. here \in DOMAIN Zones
  OBVIOUS
<1> HIDE DEF days, day, of, here, from, to
<1>10. IsServiceActiveOnDate(db, t.service, day.date)
  BY <1>3, <1>8 DEF DayOf
<1>11. InService(f, t)
  BY <1>1, <1>3, <1>4, <1>8, <1>9, <1>10, InServiceOnDay DEF from, to
<1>12. QED
  BY <1>3, <1>11

-----------------------------------------------------------------------------
(* Theorems. *)

\* A trip is reported for a route only while its block is in service, on the
\* day and by the clock of the trip's own agency, whatever queries fail and
\* whichever zones the agencies of its block keep.
THEOREM ReportedWhileInService == Spec => []FoundTripsInService
<1>1. RequestInv => FoundTripsInService
  <2> SUFFICES ASSUME RequestInv, request # Null, FoundOnRoute # Null, NEW f \in FoundOnRoute
               PROVE  InService(f, GetTrip(db, f.trip))
    BY DEF FoundTripsInService, AllInService, OfRoute, Selected
  <2> DEFINE ctx == Context(selected)
             route == request.of.route
             agency == RouteAgency(ctx, route)
             here == ZoneOf(ctx, agency)
             days == RouteZoneServiceDays(ctx, agency, Now)[here]
             of(i) == OnDay(ctx, route, agency, i)
             on(i) == OnBlocks(ctx, route, agency, i)
  <2>1. ctx.db = db
    BY DEF Context
  <2>2. FoundOnRoute = SelectTrips(ctx, route, agency, Now)
    <3>1. Agency = agency
      BY DEF Agency, RouteAgency, Context
    <3>2. QED
      BY <3>1 DEF FoundOnRoute
  <2> HIDE DEF ctx, route
  <2>3. here \in DOMAIN Zones
    BY <2>2, SelectedAre
  <2>4. PICK i \in 1..2 :
            /\ of(i) # Null /\ on(i) # Null
            /\ \/ FoundAlone(f, route, here, days[i], of(i))
               \/ \E g \in on(i) : f.trip = g.trip /\ f.zone = g.zone /\ f.date = g.date
    BY <2>2, SelectedAre
  <2>5. \E t \in db.trips : t.id = f.trip /\ InService(f, t)
    <3>1. CASE FoundAlone(f, route, here, days[i], of(i))
      <4>1. of(i) = RouteBlocksAndTripsInService(ctx, route, days[i])
        BY DEF OnDay
      <4> HIDE DEF of
      <4>2. QED
        BY <2>1, <2>3, <2>4, <3>1, <4>1, AloneInService
    <3>2. CASE \E g \in on(i) : f.trip = g.trip /\ f.zone = g.zone /\ f.date = g.date
      <4>1. PICK g \in on(i) : f.trip = g.trip /\ f.zone = g.zone /\ f.date = g.date
        BY <3>2
      <4> DEFINE blocks == of(i).blocks
      <4>0. on(i) = ActiveTripsInBlocks(ctx, blocks, i, agency, Now)
        BY DEF OnBlocks
      <4> HIDE DEF blocks, on
      <4>2. g \in ActiveTripsInBlocks(ctx, blocks, i, agency, Now)
            /\ ActiveTripsInBlocks(ctx, blocks, i, agency, Now) # Null
        BY <2>4, <4>0, <4>1
      <4>3. PICK b \in blocks : FoundOnBlock(g, b)
        BY <2>1, <2>3, <4>2, ActiveInBlocks
      <4>4. PICK t \in db.trips : t.id = g.trip /\ InService(g, t)
        BY <4>3 DEF FoundOnBlock
      <4>5. InService(f, t)
        BY <4>1, <4>4 DEF InService
      <4>6. QED
        BY <4>1, <4>4, <4>5
    <3>3. QED
      BY <2>4, <3>1, <3>2
  <2>6. PICK t \in db.trips : t.id = f.trip /\ InService(f, t)
    BY <2>5
  <2>7. GetTrip(db, f.trip) = t
    BY <2>6, TripFound DEF RequestInv
  <2>8. QED
    BY <2>6, <2>7
<1>2. QED
  BY <1>1, RequestInvariant, PTL

-----------------------------------------------------------------------------
(* No trip that is under way is missed. *)

\* Every trip has an entry in the block index.
LEMMA EntryOfTrip ==
    ASSUME feed \in DOMAIN Feeds, NEW t \in db.trips
    PROVE  \E e \in db.blockEntries : e.trip = t.id /\ e.block = t.block /\ e.service = t.service
<1> DEFINE trips == ValidTrips(Feeds[feed])
<1>1. db.trips = {TripRow(r) : r \in trips} /\ db.blockEntries = BlockIndexEntries(trips)
  BY DEF db, Databases, Rows
<1>2. PICK r \in trips : t = TripRow(r)
  BY <1>1
<1> HIDE DEF trips
<1>3. t.id = r.id /\ t.block = r.block /\ t.service = r.service
  BY <1>2 DEF TripRow
<1> DEFINE e == [index |-> <<r.service, r.times[1].stop>>, trip |-> r.id,
                 block |-> r.block, service |-> r.service]
<1>4. e \in db.blockEntries
  BY <1>1 DEF BlockIndexEntries
<1>5. e.trip = t.id /\ e.block = t.block /\ e.service = t.service
  BY <1>3
<1>6. QED
  BY <1>4, <1>5

\* The block of a trip of the route that is in a window is found there.
LEMMA BlockInWindow ==
    ASSUME feed \in DOMAIN Feeds, NEW t \in db.trips, t.block # Null,
           NEW services, t.service \in services, NEW from, NEW to,
           t.minArrival <= to, t.maxDeparture >= from
    PROVE  t.block \in GetBlocksForBlockTripIndexIDs(db, t.route,
                           GetBlockTripIndexIDsForRoute(db, t.route, services), services, from, to)
<1> DEFINE indexes == GetBlockTripIndexIDsForRoute(db, t.route, services)
<1>1. PICK e \in db.blockEntries : e.trip = t.id /\ e.block = t.block /\ e.service = t.service
  BY EntryOfTrip
<1>2. GetTrip(db, e.trip) = t
  BY <1>1, TripFound
<1>3. e.index \in indexes
  BY <1>1 DEF GetBlockTripIndexIDsForRoute
<1> HIDE DEF indexes
<1>4. QED
  BY <1>1, <1>2, <1>3 DEF GetBlocksForBlockTripIndexIDs, indexes

\* What is in service on a day is found unless a query fails.
LEMMA InServiceIsFound ==
    ASSUME feed \in DOMAIN Feeds, NEW ctx, ctx.db = db, ctx.fails = {}, NEW route, NEW day
    PROVE  RouteBlocksAndTripsInService(ctx, route, day) # Null
<1> DEFINE from == day.since - RunningLate
           to == day.since + RunningEarly
           indexes == GetBlockTripIndexIDsForRoute(db, route, day.services)
           indexed == GetBlocksForBlockTripIndexIDs(db, route, indexes, day.services, from, to)
           layovers == GetActiveLayoverBlockIDsForRoute(db, route, day.services, from, to)
           alone == GetActiveTripsWithNullBlockForRoute(db, route, day.services, from, to)
           of == RouteBlocksAndTripsInService(ctx, route, day)
           some == Int \cup {Null, NoText}
<1>1. /\ \A t \in db.trips : t.id \in Int
      /\ \A row \in db.blockEntries \cup db.layovers : row.block \in some
  BY TablesImported DEF ColumnsTyped
<1> HIDE DEF from, to, indexes
<1>2. indexed \subseteq some
  BY <1>1 DEF GetBlocksForBlockTripIndexIDs
<1>3. layovers \subseteq some
  BY <1>1 DEF GetActiveLayoverBlockIDsForRoute
<1>4. alone \subseteq Int
  BY <1>1 DEF GetActiveTripsWithNullBlockForRoute, TripsWithNullBlock
<1> HIDE DEF indexed, layovers, alone, some
<1>5. of \in {[blocks |-> {}, trips |-> {}], [blocks |-> indexed \cup layovers, trips |-> alone]}
  <2>1. \A q : ~Fails(ctx, q)
    BY DEF Fails
  <2>2. QED
    BY <2>1 DEF RouteBlocksAndTripsInService, from, to, indexes, indexed, layovers, alone
<1>6. [blocks |-> {}, trips |-> {}] \in [blocks : SUBSET some, trips : SUBSET Int]
  OBVIOUS
<1>7. [blocks |-> indexed \cup layovers, trips |-> alone] \in [blocks : SUBSET some, trips : SUBSET Int]
  BY <1>2, <1>3, <1>4
<1>8. Null \notin [blocks : SUBSET some, trips : SUBSET Int]
  BY NullIsNothingFound DEF some
<1> HIDE DEF of
<1>9. QED
  BY <1>5, <1>6, <1>7, <1>8 DEF of

\* A trip of the route that is running on a day is there in what the route
\* has in service: itself, or by its block.
LEMMA RunningIsInService ==
    ASSUME feed \in DOMAIN Feeds, NEW ctx, ctx.db = db, ctx.fails = {}, NEW t \in db.trips,
           NEW day, day.since \in Int, TripInServiceOn(t, day)
    PROVE  LET of == RouteBlocksAndTripsInService(ctx, t.route, day)
           IN  (t.block = Null => t.id \in of.trips) /\ (t.block # Null => t.block \in of.blocks)
<1> DEFINE from == day.since - RunningLate
           to == day.since + RunningEarly
           indexes == GetBlockTripIndexIDsForRoute(db, t.route, day.services)
           indexed == GetBlocksForBlockTripIndexIDs(db, t.route, indexes, day.services, from, to)
           layovers == GetActiveLayoverBlockIDsForRoute(db, t.route, day.services, from, to)
           alone == GetActiveTripsWithNullBlockForRoute(db, t.route, day.services, from, to)
           of == RouteBlocksAndTripsInService(ctx, t.route, day)
<1>1. t.service \in day.services
  BY DEF TripInServiceOn
<1>2. t.minArrival <= to /\ t.maxDeparture >= from
  <2>1. t.minArrival \in Int /\ t.maxDeparture \in Int
    BY TablesImported DEF ColumnsTyped
  <2>2. QED
    BY <2>1, DayAssumption DEF TripInServiceOn, InRange
<1> HIDE DEF from, to
<1>3. t.block = Null => t.id \in alone
  BY <1>1, <1>2 DEF GetActiveTripsWithNullBlockForRoute, TripsWithNullBlock
<1>4. t.block # Null => t.block \in indexed
  BY <1>1, <1>2, BlockInWindow
<1> HIDE DEF indexes, indexed, layovers, alone
<1>5. of = [blocks |-> indexed \cup layovers, trips |-> alone]
  <2>1. \A q : ~Fails(ctx, q)
    BY DEF Fails
  <2>2. day.services # {}
    BY <1>1
  <2>3. QED
    BY <2>1, <2>2 DEF RouteBlocksAndTripsInService, from, to, indexes, indexed, layovers, alone
<1> HIDE DEF of
<1>6. QED
  BY <1>3, <1>4, <1>5 DEF of

\* A trip that is under way runs on one of the two days of its zone.
LEMMA UnderWayOnDay ==
    ASSUME RequestInv, request # Null, NEW ctx, ctx.db = db, ctx.fails = {}, NEW t \in db.trips,
           NEW z \in DOMAIN Zones, Zones[z] = AgencyZone(t), UnderWay(t)
    PROVE  \E i \in 1..2 :
              /\ ServiceDaysOf(ServiceDateResolverForZone(ctx, z, Now))[i].since \in Int
              /\ TripInServiceOn(t, ServiceDaysOf(ServiceDateResolverForZone(ctx, z, Now))[i])
<1> DEFINE days == ServiceDaysOf(ServiceDateResolverForZone(ctx, z, Now))
<1>1. ~Fails(ctx, "PreviousServiceIDs")
  BY DEF Fails
<1>2. /\ DayOf(days[1], z) /\ DayOf(days[2], z)
      /\ days[1].date = FromInstant(Zones[z], Now) /\ days[2].date = FromInstant(Zones[z], Now) - 1
      /\ days[1].services = GetActiveServiceIDsForDate(db, days[1].date)
      /\ days[2].services = GetActiveServiceIDsForDate(db, days[2].date)
  BY <1>1, DaysAre
<1> HIDE DEF days
<1>3. PICK d : /\ d \in {FromInstant(Zones[z], Now) - 1, FromInstant(Zones[z], Now)}
               /\ IsServiceActiveOnDate(db, t.service, d)
               /\ InRange(SinceStart(t, d), t.minArrival, t.maxDeparture)
  BY DEF UnderWay, DaysOf
<1>4. PICK i \in 1..2 : days[i].date = d
  BY <1>2, <1>3
<1>5. DayOf(days[i], z) /\ days[i].services = GetActiveServiceIDsForDate(db, d)
  BY <1>2, <1>4
<1>6. t.service \in days[i].services
  BY <1>3, <1>5, ServiceInAnswer DEF RequestInv
<1>7. days[i].since \in Int /\ days[i].since = SinceStart(t, d)
  BY <1>4, <1>5 DEF DayOf, SinceStart
<1>8. TripInServiceOn(t, days[i])
  BY <1>3, <1>6, <1>7 DEF TripInServiceOn
<1>9. QED
  BY <1>7, <1>8 DEF days

\* When no query fails, no trip of the route that is under way is missed: its
\* block, or the trip itself without one, is among those reported, over
\* midnight and whichever zones the agencies of the block keep.
THEOREM EveryTripUnderWayFound ==
    Spec => [](OfRoute /\ Selected /\ Undisturbed /\ FoundOnRoute # Null
               => TripsUnderWayFound(FoundOnRoute))
<1>1. RequestInv => (OfRoute /\ Selected /\ Undisturbed /\ FoundOnRoute # Null
                     => TripsUnderWayFound(FoundOnRoute))
  <2> SUFFICES ASSUME RequestInv, request # Null, request.fails = {}, FoundOnRoute # Null,
                      NEW t \in db.trips, t.route = request.of.route, UnderWay(t)
               PROVE  t.block \in BlocksOf(FoundOnRoute)
    BY DEF TripsUnderWayFound, OfRoute, Selected, Undisturbed
  <2> DEFINE ctx == Context(selected)
             agency == RouteAgency(ctx, t.route)
             here == ZoneOf(ctx, agency)
             days == RouteZoneServiceDays(ctx, agency, Now)[here]
             found == FoundOnRoute
  <2>1. ctx.db = db /\ ctx.fails = {} /\ feed \in DOMAIN Feeds
    BY DEF Context, RequestInv
  <2>2. found = SelectTrips(ctx, t.route, agency, Now)
    <3>1. Agency = agency
      BY DEF Agency, RouteAgency, Context
    <3>2. QED
      BY <3>1 DEF FoundOnRoute
  <2> HIDE DEF ctx
  <2>3. here \in DOMAIN Zones
    BY <2>2, SelectedAre
  <2>4. /\ ZoneOfTrip(ctx, AgencyZones(ctx, agency), t) = here
        /\ here \in Range(AgencyZones(ctx, agency)) /\ Zones[here] = AgencyZone(t)
    BY <2>1, <2>3, ZoneOfRoute
  <2>5. days = ServiceDaysOf(ServiceDateResolverForZone(ctx, here, Now))
    BY <2>4 DEF RouteZoneServiceDays
  <2>6. PICK i \in 1..2 : days[i].since \in Int /\ TripInServiceOn(t, days[i])
    BY <2>1, <2>3, <2>4, <2>5, UnderWayOnDay
  <2> DEFINE of == OnDay(ctx, t.route, agency, i)
             on == OnBlocks(ctx, t.route, agency, i)
  <2>7. of = RouteBlocksAndTripsInService(ctx, t.route, days[i])
    BY DEF OnDay
  <2>8. on = ActiveTripsInBlocks(ctx, of.blocks, i, agency, Now)
    BY DEF OnBlocks
  <2>9. of # Null
    BY <2>1, <2>7, InServiceIsFound
  <2>10. (t.block = Null => t.id \in of.trips) /\ (t.block # Null => t.block \in of.blocks)
    <3> HIDE DEF days, of
    <3>1. QED
      BY <2>1, <2>6, <2>7, RunningIsInService
  <2>11. /\ on # Null
         /\ \A u \in of.trips : \E f \in found : f.trip = u
         /\ \A g \in on : \E f \in found : f.trip = g.trip
    BY <2>2, <2>9, SelectedAre
  <2> HIDE DEF of, on, found
  <2>12. \A f \in found, u \in db.trips : f.trip = u.id /\ u.block = t.block => t.block \in BlocksOf(found)
    <3>1. \A u \in db.trips : GetTrip(db, u.id) = u
      BY <2>1, TripFound
    <3>2. QED
      BY <3>1 DEF BlocksOf
  <2>13. CASE t.block = Null
    BY <2>10, <2>11, <2>12, <2>13 DEF found
  <2>14. CASE t.block # Null
    <3> DEFINE blocks == of.blocks
    <3> HIDE DEF blocks
    <3>1. on = ActiveTripsInBlocks(ctx, blocks, i, agency, Now) /\ t.block \in blocks \ {Null}
      BY <2>8, <2>10, <2>14 DEF blocks
    <3>2. \A u \in db.trips :
             /\ u.block \in blocks \ {Null}
             /\ ZoneOfTrip(ctx, AgencyZones(ctx, agency), u) = here
             /\ TripInServiceOn(u, days[i])
             => \E g \in ActiveTripsInBlocks(ctx, blocks, i, agency, Now) : FoundOnBlock(g, u.block)
      BY <2>1, <2>3, <2>11, <3>1, ActiveInBlocks
    <3> HIDE DEF days, here
    <3>3. PICK g \in on : FoundOnBlock(g, t.block)
      BY <2>4, <2>6, <3>1, <3>2
    <3>4. PICK u \in db.trips : u.id = g.trip /\ u.block = t.block
      BY <3>3 DEF FoundOnBlock
    <3>5. PICK f \in found : f.trip = g.trip
      BY <2>11
    <3>6. QED
      BY <2>12, <3>4, <3>5 DEF found
  <2>15. QED
    BY <2>13, <2>14
<1>2. QED
  BY <1>1, RequestInvariant, PTL

(* The stops a status names. *)

\* What a schedule names: the stops of visits, and its neighbours under an
\* agency.
ScheduleNames(schedule) ==
    /\ \A id \in Range(schedule.stops) : \E agency : \E st \in db.stopTimes : id = <<agency, st.stop>>
    /\ schedule.next = Null \/ \E agency, trip : schedule.next = <<agency, trip>>
    /\ schedule.prev = Null \/ \E agency, trip : schedule.prev = <<agency, trip>>

\* The visits of a trip as a schedule lists them.
LEMMA ListedStops ==
    ASSUME feed \in DOMAIN Feeds, NEW agency, NEW trip, NEW id,
           LET times == GetStopTimesForTrip(db, trip)
           IN  id \in Range([i \in DOMAIN times |-> CombinedID(agency, times[i].stop)])
    PROVE  \E a : \E st \in db.stopTimes : id = <<a, st.stop>>
<1> DEFINE times == GetStopTimesForTrip(db, trip)
<1>1. \A i \in DOMAIN times : times[i] \in db.stopTimes
  BY VisitsAre, PlacesOf
<1> HIDE DEF times
<1>2. \E i \in DOMAIN times : id = <<agency, times[i].stop>>
  BY DEF Range, CombinedID, times
<1>3. QED
  BY <1>1, <1>2

\* A schedule read trip by trip.
LEMMA ScheduleIs ==
    ASSUME feed \in DOMAIN Feeds, NEW ctx, ctx.db = db, NEW agency, NEW row, NEW zone, NEW d,
           ScheduleOf(ctx, agency, row, zone, d) # Null
    PROVE  ScheduleNames(ScheduleOf(ctx, agency, row, zone, d))
<1> DEFINE around == NextAndPreviousTripIDs(ctx, agency, row)
           times == GetStopTimesForTrip(db, row.id)
           stops == [i \in DOMAIN times |-> CombinedID(agency, times[i].stop)]
           schedule == ScheduleOf(ctx, agency, row, zone, d)
<1>1. schedule.next = around.next /\ schedule.prev = around.prev /\ schedule.stops = stops /\ around # Null
  BY DEF ScheduleOf
<1>2. \A id \in Range(stops) : \E a : \E st \in db.stopTimes : id = <<a, st.stop>>
  BY ListedStops
<1>3. /\ around.next = Null \/ \E a, t : around.next = <<a, t>>
      /\ around.prev = Null \/ \E a, t : around.prev = <<a, t>>
  <2> DEFINE at == GetNextAndPreviousTripsInBlock(ctx.db, row.id, row.block, {row.service})
             id(trip) == IF trip = Null THEN Null ELSE CombinedID(agency, trip)
  <2>1. around \in {Null, [next |-> Null, prev |-> Null], [next |-> id(at.next), prev |-> id(at.prev)]}
    BY DEF NextAndPreviousTripIDs
  <2>2. \A trip : id(trip) = Null \/ id(trip) = <<agency, trip>>
    BY DEF CombinedID
  <2> HIDE DEF id, at, around
  <2>3. around = [next |-> Null, prev |-> Null] \/ around = [next |-> id(at.next), prev |-> id(at.prev)]
    BY <1>1, <2>1
  <2>4. QED
    BY <2>2, <2>3
<1> HIDE DEF schedule, stops, around
<1>4. ScheduleNames(schedule)
  BY <1>1, <1>2, <1>3 DEF ScheduleNames
<1>5. QED
  BY <1>4 DEF schedule

-----------------------------------------------------------------------------
(* The entries of an answer. *)

\* The inductive invariant of answers: what is read from is typed, and what is
\* asked for is one of the queries.
AnswerInv ==
    /\ RequestInv
    /\ request # Null => request.of \in Queries
    /\ described # Null => request # Null
    /\ \A snapshot \in {rt, selected, described} \ {Null} : SnapshotTyped(snapshot)

LEMMA AnswerInvariant == Spec => []AnswerInv
<1>1. Init => AnswerInv
  <2>1. SnapshotTyped(NoRealtime)
    <3>1. <<>> \in Seq(Range(<<>>))
      OBVIOUS
    <3>2. QED
      BY <3>1 DEF SnapshotTyped, NoRealtime
  <2>2. QED
    BY <2>1 DEF Init, AnswerInv, RequestInv
<1>2. AnswerInv /\ RequestInv' /\ [Next]_vars => AnswerInv'
  <2> SUFFICES ASSUME AnswerInv, RequestInv', [Next]_vars PROVE AnswerInv'
    OBVIOUS
  <2>1. ASSUME NEW of \in Queries, NEW at \in Times, NEW fails \in Failures,
               Select(of, at, fails)
        PROVE  AnswerInv'
    <3>1. request'.of = of /\ request' # Null => request'.of \in Queries
      BY <2>1 DEF Select
    <3>2. request' = [of |-> of, at |-> at, fails |-> fails] /\ rt' = rt /\ selected' = rt /\ described' = described
      BY <2>1 DEF Select
    <3>3. described = Null
      BY <2>1 DEF Select, AnswerInv
    <3>4. request'.of = of
      BY <3>2
    <3>5. QED
      BY <3>2, <3>3, <3>4 DEF AnswerInv
  <2>2. CASE Describe
    BY <2>2 DEF AnswerInv, Describe
  <2>3. CASE Answer
    BY <2>3 DEF AnswerInv, Answer
  <2>4. CASE PublishRealtime
    <3>1. PICK snapshot \in Realtimes \ {rt} : rt' = snapshot
      BY <2>4 DEF PublishRealtime
    <3>2. SnapshotTyped(snapshot)
      BY <3>1, RealtimeAssumption
    <3>3. QED
      BY <2>4, <3>1, <3>2 DEF AnswerInv, PublishRealtime
  <2>5. CASE UNCHANGED vars
    BY <2>5 DEF AnswerInv, vars
  <2>6. QED
    BY <2>1, <2>2, <2>3, <2>4, <2>5 DEF Next
<1>3. QED
  BY <1>1, <1>2, RequestInvariant, PTL DEF Spec

\* The route that is asked for is in the tables, and its zone among those of
\* the request.
LEMMA RouteAsked ==
    ASSUME AnswerInv, OfRoute, NEW ctx, ctx.db = db
    PROVE  LET agency == RouteAgency(ctx, request.of.route)
           IN  /\ \E r \in db.routes : r.id = request.of.route
               /\ ZoneOf(ctx, agency) \in DOMAIN Zones =>
                     ZoneOf(ctx, agency) \in Range(AgencyZones(ctx, agency))
<1> DEFINE route == request.of.route
           agency == RouteAgency(ctx, route)
           row == GetAgency(db, agency)
           here == ZoneOf(ctx, agency)
           zones == AgencyZones(ctx, agency)
<1>1. request.of \in Queries /\ request.of.area = Null /\ feed \in DOMAIN Feeds
  BY DEF AnswerInv, OfRoute, RequestInv
<1>2. route \in Routes
  BY <1>1, QueryAssumption DEF Queries
<1>3. PICK r \in db.routes : r.id = route
  BY <1>1, <1>2, QueryAssumption DEF db
<1>4. GetRoute(db, route) \in db.routes
  BY <1>3 DEF GetRoute, OneRow
<1>5. agency = GetRoute(db, route).agency
  BY DEF RouteAgency
<1>6. \E a \in db.agencies : a.id = agency
  BY <1>1, <1>4, <1>5, TablesImported DEF ConstraintsHold
<1>7. row \in db.agencies /\ row.id = agency /\ here = row.zone
  BY <1>6 DEF GetAgency, OneRow, ZoneOf
<1> HIDE DEF row, agency
<1>8. here \in DOMAIN Zones => agency \in DOMAIN zones /\ zones[agency] = here
  BY <1>7 DEF AgencyZones
<1> HIDE DEF here, zones
<1>9. here \in DOMAIN Zones => here \in Range(zones)
  BY <1>8 DEF Range
<1>10. QED
  BY <1>3, <1>9 DEF here, zones, agency

\* An entry goes by a zone that can be used.
LEMMA EntryZoneUsed ==
    ASSUME feed \in DOMAIN Feeds, NEW ctx, ctx.db = db, NEW agency,
           ZoneOf(ctx, agency) \in DOMAIN Zones, NEW a
    PROVE  LET zones == AgencyZones(ctx, agency)
           IN  (IF a \in DOMAIN zones THEN zones[a] ELSE ZoneOf(ctx, agency)) \in DOMAIN Zones
<1> DEFINE zones == AgencyZones(ctx, agency)
<1>1. ASSUME a \in DOMAIN zones PROVE zones[a] \in DOMAIN Zones
  <2>1. zones[a] = GetAgency(db, a).zone
    BY <1>1 DEF AgencyZones, ZoneOf
  <2>2. PICK row \in db.agencies : row.id = a /\ row.zone \in DOMAIN Zones
    BY <1>1 DEF AgencyZones
  <2>3. GetAgency(db, a) = row
    BY <2>2, TablesImported DEF GetAgency, OneRow
  <2>4. QED
    BY <2>1, <2>2, <2>3
<1> HIDE DEF zones
<1>2. QED
  BY <1>1 DEF zones

\* A trip that a route reports is one of the tables, on some day.
LEMMA FoundIs ==
    ASSUME AnswerInv, OfRoute, FoundOnRoute # Null, NEW f \in FoundOnRoute
    PROVE  f.date \in Int /\ \E t \in db.trips : t.id = f.trip
<1> DEFINE ctx == Context(selected)
           route == request.of.route
           agency == RouteAgency(ctx, route)
           here == ZoneOf(ctx, agency)
           days == RouteZoneServiceDays(ctx, agency, Now)[here]
           of(i) == OnDay(ctx, route, agency, i)
           on(i) == OnBlocks(ctx, route, agency, i)
<1>1. ctx.db = db /\ RequestInv /\ request # Null
  BY DEF Context, AnswerInv, OfRoute
<1>2. FoundOnRoute = SelectTrips(ctx, route, agency, Now)
  <2>1. Agency = agency
    BY DEF Agency, RouteAgency, Context
  <2>2. QED
    BY <2>1 DEF FoundOnRoute
<1>3. here \in DOMAIN Zones => here \in Range(AgencyZones(ctx, agency))
  BY <1>1, RouteAsked
<1> HIDE DEF ctx, route
<1>4. here \in DOMAIN Zones
  BY <1>2, SelectedAre
<1>5. PICK i \in 1..2 :
          /\ of(i) # Null /\ on(i) # Null
          /\ \/ FoundAlone(f, route, here, days[i], of(i))
             \/ \E g \in on(i) : f.trip = g.trip /\ f.zone = g.zone /\ f.date = g.date
  BY <1>2, SelectedAre
<1>6. CASE FoundAlone(f, route, here, days[i], of(i))
  <2>1. of(i) = RouteBlocksAndTripsInService(ctx, route, days[i])
    BY DEF OnDay
  <2> HIDE DEF of
  <2>2. \E t \in db.trips : t.id = f.trip /\ InService(f, t)
    BY <1>1, <1>4, <1>5, <1>6, <2>1, AloneInService
  <2>3. days = ServiceDaysOf(ServiceDateResolverForZone(ctx, here, Now))
    BY <1>3, <1>4 DEF RouteZoneServiceDays
  <2>4. DayOf(days[1], here) /\ DayOf(days[2], here)
    BY <1>1, <1>4, <2>3, DaysAre
  <2>5. i = 1 \/ i = 2
    OBVIOUS
  <2>6. f.date = days[i].date
    BY <1>6 DEF FoundAlone
  <2> HIDE DEF days
  <2>7. f.date \in Int
    BY <2>4, <2>5, <2>6 DEF DayOf
  <2>8. QED
    BY <2>2, <2>7
<1>7. CASE \E g \in on(i) : f.trip = g.trip /\ f.zone = g.zone /\ f.date = g.date
  <2>1. PICK g \in on(i) : f.trip = g.trip /\ f.zone = g.zone /\ f.date = g.date
    BY <1>7
  <2> DEFINE blocks == of(i).blocks
  <2>2. on(i) = ActiveTripsInBlocks(ctx, blocks, i, agency, Now)
    BY DEF OnBlocks
  <2> HIDE DEF blocks, on
  <2>3. g \in ActiveTripsInBlocks(ctx, blocks, i, agency, Now)
        /\ ActiveTripsInBlocks(ctx, blocks, i, agency, Now) # Null
    BY <1>5, <2>1, <2>2
  <2>4. PICK b \in blocks : FoundOnBlock(g, b)
    BY <1>1, <1>4, <2>3, ActiveInBlocks
  <2>5. g.date \in Int /\ \E t \in db.trips : t.id = g.trip
    BY <2>4 DEF FoundOnBlock, Findings
  <2>6. QED
    BY <2>1, <2>5
<1>8. QED
  BY <1>5, <1>6, <1>7

\* The stops that the vehicles of a snapshot name.
VehicleStops(ctx) == {v.stop : v \in Range(ctx.rt.vehicles)}

\* The status of an entry names stops of the feed, or such a stop.
LEMMA StatusForEntryNames ==
    ASSUME feed \in DOMAIN Feeds, NEW snapshot, SnapshotTyped(snapshot),
           NEW ctx, Reading(ctx, snapshot), NEW known, NEW agency, NEW trip,
           NEW v, v = Null \/ v \in Range(snapshot.vehicles),
           NEW z \in DOMAIN Zones, NEW d \in Int, NEW now \in Int,
           StatusForEntry(ctx, known, agency, trip, v, Zones[z], d, now) # Null
    PROVE  StatusNames(VehicleStops(ctx), StatusForEntry(ctx, known, agency, trip, v, Zones[z], d, now))
<1> DEFINE status == EntryStatus(ctx, known, agency, trip, v, Zones[z], d, now)
<1>1. StatusForEntry(ctx, known, agency, trip, v, Zones[z], d, now) = status
  BY DEF StatusForEntry
<1>2. v = Null \/ v.stop \in VehicleStops(ctx)
  BY DEF Reading, VehicleStops
<1>3. Zones[z] \in Clocks
  BY ZoneAssumption
<1>4. StatusNames(VehicleStops(ctx), status)
  BY <1>2, <1>3, StatusOfEntry
<1>5. QED
  BY <1>1, <1>4

\* What an entry names: its trip under an agency, and what its schedule and
\* its status name.
EntryNames(ctx, e) ==
    /\ \E agency, trip : e.trip = <<agency, trip>>
    /\ e.schedule = Null \/ ScheduleNames(e.schedule)
    /\ e.status = Null \/ StatusNames(VehicleStops(ctx), e.status)

\* The entry of a trip that is found on a route.
LEMMA TripEntryNames ==
    ASSUME feed \in DOMAIN Feeds, NEW snapshot, SnapshotTyped(snapshot),
           NEW ctx, Reading(ctx, snapshot), NEW route, NEW agency, ZoneOf(ctx, agency) \in DOMAIN Zones,
           NEW fetched, NEW now \in Int, NEW f, f.date \in Int,
           TripEntry(ctx, route, agency, f, fetched, now) # Null
    PROVE  EntryNames(ctx, TripEntry(ctx, route, agency, f, fetched, now))
<1> DEFINE row == GetTrip(ctx.db, EntryTrip(ctx, route, agency, f, now))
           active == GetTrip(ctx.db, f.trip)
           entryAgency == RouteAgency(ctx, row.route)
           activeAgency == RouteAgency(ctx, active.route)
           zones == AgencyZones(ctx, agency)
           zone(a) == IF a \in DOMAIN zones THEN zones[a] ELSE ZoneOf(ctx, agency)
           date == EntryDate(f, zone(entryAgency), zone(activeAgency))
           left == Preloaded(ctx, row.id, fetched)
           v == GetVehicleForTrip(ctx, active.id)
           known == fetched \cup {row.id}
           status == StatusForEntry(ctx, known, activeAgency, active.id, v, Zones[zone(activeAgency)], f.date, now)
           schedule == BuildScheduleForTrip(left, entryAgency, row.id, Zones[zone(entryAgency)], date)
           e == TripEntry(ctx, route, agency, f, fetched, now)
<1>1. /\ schedule # Null
      /\ e.trip = CombinedID(entryAgency, row.id) /\ e.schedule = schedule /\ e.status = status
  <2>1. e = EntryFor(ctx, agency, row, active, f, fetched, now)
    BY DEF TripEntry
  <2> HIDE DEF row, active, e
  <2>2. e = IF schedule = Null THEN Null
            ELSE [trip |-> CombinedID(entryAgency, row.id), date |-> date,
                  zone |-> zone(entryAgency), block |-> active.block, active |-> active.id,
                  schedule |-> schedule, status |-> status,
                  frequency |-> FrequencyForEntry(ctx, Zones[zone(entryAgency)], row.id, date, now),
                  situations |-> SituationRefs(ctx, row.id, row.route, entryAgency)]
    BY <2>1, Zenon DEF EntryFor
  <2>3. e # Null
    BY DEF e
  <2> HIDE DEF schedule, status, zone, date, entryAgency
  <2>4. QED
    BY <2>2, <2>3
<1>2. ctx.db = db /\ ctx.rt = snapshot
  BY DEF Reading
<1>3. zone(activeAgency) \in DOMAIN Zones
  BY <1>2, EntryZoneUsed
<1>4. left.db = db
  BY PreloadedReads DEF Reading
<1>5. v = Null \/ v \in Range(snapshot.vehicles)
  BY <1>2, VehicleIs
<1> HIDE DEF row, active, entryAgency, activeAgency, zone, zones, date, left, known, v
<1>6. status = Null \/ StatusNames(VehicleStops(ctx), status)
  BY <1>3, <1>5, StatusForEntryNames
<1>7. ScheduleNames(schedule)
  <2> DEFINE own == GetTrip(left.db, row.id)
  <2>1. schedule = ScheduleOf(left, entryAgency, own, Zones[zone(entryAgency)], date)
    BY <1>1 DEF BuildScheduleForTrip
  <2> HIDE DEF schedule, own
  <2>2. QED
    BY <1>1, <1>4, <2>1, ScheduleIs
<1>8. e.trip = <<entryAgency, row.id>>
  BY <1>1 DEF CombinedID
<1> HIDE DEF e, schedule, status
<1>9. EntryNames(ctx, e)
  BY <1>1, <1>6, <1>7, <1>8 DEF EntryNames
<1>10. QED
  BY <1>9 DEF e

\* The day of an extra run of a trip is a number.
LEMMA DuplicatedDateIs ==
    ASSUME RequestInv, request # Null, NEW ctx, ctx.db = db, NEW agency,
           ZoneOf(ctx, agency) \in DOMAIN Zones,
           ZoneOf(ctx, agency) \in Range(AgencyZones(ctx, agency)),
           NEW base, NEW found, \A f \in found : f.date \in Int
    PROVE  DuplicatedDate(ctx, agency, base, found, Now) \in Int
<1> DEFINE here == ZoneOf(ctx, agency)
           days == RouteZoneServiceDays(ctx, agency, Now)[here]
           dates == {f.date : f \in {x \in found : x.trip = base}}
           recorded == OneRow(dates)
           date == DuplicatedDate(ctx, agency, base, found, Now)
<1>1. days = ServiceDaysOf(ServiceDateResolverForZone(ctx, here, Now))
  BY DEF RouteZoneServiceDays
<1>2. DayOf(days[1], here) /\ DayOf(days[2], here)
  BY <1>1, DaysAre
<1>3. dates \subseteq Int
  OBVIOUS
<1> HIDE DEF days, dates
<1>4. recorded # Null => recorded \in Int
  BY <1>3, OneOf
<1>5. days[1].date \in Int /\ days[2].date \in Int
  BY <1>2 DEF DayOf
<1> HIDE DEF recorded
<1>6. \/ date = recorded /\ recorded # Null
      \/ date = days[1].date
      \/ date = days[2].date
  BY DEF DuplicatedDate, recorded, dates, days
<1> HIDE DEF date
<1>7. date \in Int
  BY <1>4, <1>5, <1>6
<1>8. QED
  BY <1>7 DEF date

\* The entry of an extra run.
LEMMA DuplicatedEntryNames ==
    ASSUME feed \in DOMAIN Feeds, NEW snapshot, SnapshotTyped(snapshot),
           NEW ctx, Reading(ctx, snapshot), NEW agency, ZoneOf(ctx, agency) \in DOMAIN Zones,
           NEW v \in Range(snapshot.vehicles), NEW base, NEW date \in Int, NEW fetched,
           NEW now \in Int,
           DuplicatedEntryOn(ctx, agency, v, base, date, fetched, now) # Null
    PROVE  EntryNames(ctx, DuplicatedEntryOn(ctx, agency, v, base, date, fetched, now))
<1> DEFINE here == ZoneOf(ctx, agency)
           row == GetTrip(ctx.db, base)
           known == Preloaded(ctx, base, fetched)
           added == fetched \cup {base}
           status == StatusForEntry(ctx, added, agency, base, v, Zones[here], date, now)
           schedule == BuildScheduleForTrip(known, agency, base, Zones[here], date)
           e == DuplicatedEntryOn(ctx, agency, v, base, date, fetched, now)
<1>1. e.trip = CombinedID(agency, v.trip) /\ e.schedule = schedule /\ e.status = status
  <2>1. \E dead, situations, frequency :
           e = IF dead THEN Null
               ELSE [trip |-> CombinedID(agency, v.trip), date |-> date, zone |-> here,
                     block |-> Null, active |-> base, schedule |-> schedule, status |-> status,
                     frequency |-> frequency, situations |-> situations]
    <3> DEFINE known2 == known
               situations == IF row = Null THEN SituationsOfTrip(ctx, base)
                             ELSE SituationRefs(ctx, base, row.route, RouteAgency(ctx, row.route))
               frequency == FrequencyForEntry(ctx, Zones[here], base, date, now)
               dead == \/ Fails(ctx, "GetTrip") \/ (row = Null /\ Fails(known, "GetFrequenciesForTrip"))
                       \/ row # Null /\ schedule = Null
               entry == [trip |-> CombinedID(agency, v.trip), date |-> date, zone |-> here,
                     block |-> Null, active |-> base, schedule |-> schedule, status |-> status,
                     frequency |-> frequency, situations |-> situations]
    <3>1. e = IF Fails(ctx, "GetTrip") \/ (row = Null /\ Fails(known, "GetFrequenciesForTrip")) THEN Null
              ELSE IF row # Null /\ schedule = Null THEN Null ELSE entry
      BY Zenon DEF DuplicatedEntryOn
    <3> HIDE DEF e, row, schedule, status, frequency, situations, known
    <3>2. e = IF dead THEN Null ELSE entry
      BY <3>1
    <3>3. QED
      BY <3>2
  <2>2. e # Null
    BY DEF e
  <2> HIDE DEF e, schedule, status
  <2>3. QED
    BY <2>1, <2>2
<1>2. ctx.db = db /\ ctx.rt = snapshot
  BY DEF Reading
<1>3. known.db = db
  BY PreloadedReads DEF Reading
<1> HIDE DEF known, here, added
<1>4. here \in DOMAIN Zones
  BY DEF here
<1>5. status = Null \/ StatusNames(VehicleStops(ctx), status)
  BY <1>4, StatusForEntryNames
<1>6. schedule = Null \/ ScheduleNames(schedule)
  <2> DEFINE own == GetTrip(known.db, base)
  <2>1. schedule = Null \/ schedule = ScheduleOf(known, agency, own, Zones[here], date)
    BY DEF BuildScheduleForTrip
  <2> HIDE DEF schedule, own
  <2>2. QED
    BY <1>3, <2>1, ScheduleIs
<1>7. e.trip = <<agency, v.trip>>
  BY <1>1 DEF CombinedID
<1> HIDE DEF e, schedule, status
<1>8. EntryNames(ctx, e)
  BY <1>1, <1>5, <1>6, <1>7 DEF EntryNames
<1>9. QED
  BY <1>8 DEF e

\* The entries for a route.
LEMMA RouteEntriesName ==
    ASSUME AnswerInv, OfRoute, described # Null, Entries # Null, NEW e \in Entries
    PROVE  EntryNames(Context(described), e)
<1> DEFINE ctx == Context(described)
           route == request.of.route
           agency == Agency
           found == FoundOnRoute
           fetched == {f.trip : f \in found}
           duplicated == GetDuplicatedVehiclesForRoute(ctx, route)
           entries == {TripEntry(ctx, route, agency, f, fetched, Now) : f \in found}
                      \cup {DuplicatedEntry(ctx, agency, v, found, Now) : v \in duplicated}
<1>1. /\ feed \in DOMAIN Feeds /\ RequestInv /\ request # Null /\ Now \in Int
      /\ SnapshotTyped(described)
  BY DEF AnswerInv, RequestInv, OfRoute, Now
<1>2. Reading(ctx, described)
  BY DEF Context, Reading
<1>3. ctx.db = db /\ ctx.rt = described
  BY DEF Context
<1>4. Entries = RouteEntries(ctx, route, agency, RouteRuns, found, Now)
  BY DEF Entries
<1>5. found # Null /\ e \in entries /\ Null \notin entries
  <2> DEFINE duplicates == {DuplicatedEntry(ctx, agency, v, found, Now) : v \in duplicated}
  <2>1. found # Null
    BY <1>4 DEF RouteEntries
  <2>2. Entries = {} \/ Entries = IF Null \in entries THEN Null ELSE entries
    BY <1>4 DEF RouteEntries
  <2> HIDE DEF entries
  <2>3. QED
    BY <2>1, <2>2
<1>6. agency = RouteAgency(ctx, route)
  BY <1>3 DEF Agency, RouteAgency, Context
<1>7. ZoneOf(ctx, agency) \in DOMAIN Zones
  <2> DEFINE other == Context(selected)
  <2>1. agency = RouteAgency(other, route) /\ other.db = ctx.db
    BY <1>3, <1>6 DEF Context, RouteAgency
  <2>2. found = SelectTrips(other, route, agency, Now)
    BY DEF FoundOnRoute
  <2> HIDE DEF other, agency, found, ctx
  <2>3. ZoneOf(other, agency) \in DOMAIN Zones
    BY <1>5, <2>2, SelectedAre
  <2>4. QED
    BY <2>1, <2>3 DEF ZoneOf
<1>8. ZoneOf(ctx, agency) \in Range(AgencyZones(ctx, agency))
  BY <1>3, <1>6, <1>7, RouteAsked
<1>9. \A f \in found : f.date \in Int
  BY <1>5, FoundIs
<1> HIDE DEF ctx, agency, found, route
<1>10. ASSUME NEW f \in found, e = TripEntry(ctx, route, agency, f, fetched, Now)
       PROVE  EntryNames(ctx, e)
  <2>1. TripEntry(ctx, route, agency, f, fetched, Now) # Null
    BY <1>5, <1>10
  <2>2. f.date \in Int
    BY <1>9
  <2> HIDE DEF fetched
  <2>3. EntryNames(ctx, TripEntry(ctx, route, agency, f, fetched, Now))
    BY <1>1, <1>2, <1>7, <2>1, <2>2, TripEntryNames
  <2>4. QED
    BY <1>10, <2>3
<1>11. ASSUME NEW v \in duplicated, e = DuplicatedEntry(ctx, agency, v, found, Now)
       PROVE  EntryNames(ctx, e)
  <2> DEFINE base == ResolveDuplicatedBaseTrip(ctx, v.trip)
             date == DuplicatedDate(ctx, agency, base, found, Now)
  <2>1. e = DuplicatedEntryOn(ctx, agency, v, base, date, fetched, Now)
    BY <1>11 DEF DuplicatedEntry
  <2>2. v \in Range(described.vehicles)
    BY <1>3 DEF GetDuplicatedVehiclesForRoute
  <2> HIDE DEF base, fetched
  <2>3. date \in Int
    BY <1>1, <1>3, <1>7, <1>8, <1>9, DuplicatedDateIs
  <2>4. e # Null
    BY <1>5
  <2> HIDE DEF date
  <2>5. QED
    BY <1>1, <1>2, <1>7, <2>1, <2>2, <2>3, <2>4, DuplicatedEntryNames
<1>12. QED
  BY <1>5, <1>10, <1>11 DEF ctx

\* The trips of the tables, by their IDs.
TripIDs == {t.id : t \in db.trips}

\* What stops in an area, or is in service there, is a trip of the tables.
LEMMA StoppingAre ==
    ASSUME feed \in DOMAIN Feeds, NEW ctx, ctx.db = db, NEW area, NEW stops, NEW days, NEW without
    PROVE  /\ TripIDsInArea(ctx, area) \subseteq TripIDs
           /\ InServiceTripIDs(ctx, stops, days, without) \subseteq TripIDs
<1>1. \A S : TripsAtStops(db, S) \subseteq TripIDs
  BY TripOfVisit DEF TripsAtStops, TripIDs
<1>2. TripIDsInArea(ctx, area) \subseteq TripIDs
  BY <1>1 DEF TripIDsInArea
<1>3. \A services, from, to : GetInServiceTripIDsForStops(db, stops, services, from, to) \subseteq TripIDs
  BY <1>1 DEF GetInServiceTripIDsForStops
<1>4. InServiceTripIDs(ctx, stops, days, without) \subseteq TripIDs
  BY <1>3 DEF InServiceTripIDs
<1>5. QED
  BY <1>2, <1>4

\* The days of a zone an area is looked at.
LEMMA AreaDaysAre ==
    ASSUME NEW ctx, NEW z \in DOMAIN Zones, NEW now \in Int
    PROVE  LET r == ResolverForZone(ctx, z, now)
               days == ServiceDaysOf(r)
           IN  /\ \A i \in 1..2 : days[i].date \in Int /\ days[i].since \in Int
               /\ \A row : Resolve(r, row) \in Int
<1> DEFINE day == FromInstant(Zones[z], now)
           r == ResolverForZone(ctx, z, now)
           days == ServiceDaysOf(r)
<1>1. day \in Int
  BY ZoneAssumption, ClocksAreNumbers DEF FromInstant
<1>2. Start(Zones[z], day) \in Int /\ day - 1 \in Int /\ Start(Zones[z], day - 1) \in Int
  BY <1>1, ZoneAssumption, ClocksAreNumbers
<1>3. r.day = day /\ r.since = now - Start(Zones[z], day) /\ r.previousSince = now - Start(Zones[z], day - 1)
  BY DEF ResolverForZone, NewServiceDateResolverFor
<1> HIDE DEF day, r
<1>4. r.day \in Int /\ r.day - 1 \in Int /\ r.since \in Int /\ r.previousSince \in Int
  BY <1>1, <1>2, <1>3
<1>5. \A row : Resolve(r, row) \in Int
  BY <1>4 DEF Resolve
<1>6. /\ days[1].since = r.since /\ days[1].date = r.day
      /\ days[2].since = r.previousSince /\ days[2].date = r.day - 1
  BY DEF ServiceDaysOf
<1>7. \A i \in 1..2 : i = 1 \/ i = 2
  OBVIOUS
<1> HIDE DEF days
<1>8. QED
  BY <1>4, <1>5, <1>6, <1>7 DEF days, r

\* The anchors of the blocks that stop in an area are trips of the tables.
LEMMA AnchorsAre ==
    ASSUME feed \in DOMAIN Feeds, NEW ctx, ctx.db = db, NEW stops, NEW day, day.since \in Int
    PROVE  BlockAnchors(ctx, stops, day) \in Seq(TripIDs)
<1> DEFINE ids == GetBlockIDsForStops(ctx.db, stops, day.services)
           blocks == SortedBy(ids, TextBefore)
           from == day.since - RunningLate
           to == day.since + RunningEarly
           anchor(b) == SelectAnchorInGroup(GetTripSpansForBlocks(ctx.db, {b}, day.services), from, to)
           anchors == [i \in DOMAIN blocks |-> anchor(blocks[i])]
<1>1. BlockAnchors(ctx, stops, day) = Taken(anchors, {i \in DOMAIN anchors : anchors[i] # Null})
  BY DEF BlockAnchors
<1>2. Cardinality(ids) \in Nat
  <2> DEFINE rows == {u \in db.trips : /\ u.block # Null
                                       /\ u.id \in TripsAtStops(db, stops)
                                       /\ u.service \in day.services}
             map == [t \in rows |-> t.block]
  <2>1. ids = {t.block : t \in rows}
    BY DEF GetBlockIDsForStops
  <2>2. rows \subseteq db.trips /\ IsFiniteSet(db.trips)
    BY TablesImported DEF ColumnsTyped
  <2> HIDE DEF rows, ids
  <2>3. IsFiniteSet(rows)
    BY <2>2, FS_Subset
  <2>4. map \in [rows -> ids] /\ \A b \in ids : \E t \in rows : map[t] = b
    BY <2>1
  <2>5. map \in Surjection(rows, ids)
    BY <2>4 DEF Surjection
  <2>6. IsFiniteSet(ids)
    BY <2>3, <2>5, FS_Surjection
  <2>7. QED
    BY <2>6, FS_CardinalityType
<1>3. DOMAIN blocks = 1..Cardinality(ids)
  BY DEF SortedBy, Enumeration
<1>4. from \in Int /\ to \in Int
  BY DayAssumption
<1> HIDE DEF ids, from, to
<1>5. ASSUME NEW b, anchor(b) # Null PROVE anchor(b) \in TripIDs
  <2> DEFINE group == GetTripsByBlockIDs(db, {b}, day.services)
  <2>1. GetTripSpansForBlocks(ctx.db, {b}, day.services) = group
    BY DEF GetTripSpansForBlocks, GetTripsByBlockIDs
  <2>2. PICK n \in Nat : group \in [1..n -> db.trips]
    BY TripsOfBlock DEF AreTripsOf
  <2> HIDE DEF group
  <2>3. \E i \in 1..n : group[i].id = SelectAnchorInGroup(group, from, to)
    BY <1>4, <1>5, <2>1, <2>2, AnchorIs
  <2>4. QED
    BY <2>1, <2>2, <2>3 DEF TripIDs
<1> HIDE DEF anchor, blocks
<1> DEFINE places == {i \in DOMAIN anchors : anchors[i] # Null}
<1>6. places \in SUBSET (1..Cardinality(ids)) /\ \A i \in places : anchors[i] \in TripIDs
  BY <1>3, <1>5
<1> HIDE DEF places, anchors
<1>7. Taken(anchors, places) \in Seq(TripIDs)
  BY <1>2, <1>6, TakenIs
<1>8. QED
  BY <1>1, <1>7 DEF places

\* What a block places is a trip of the tables.
LEMMA PlacedIs ==
    ASSUME feed \in DOMAIN Feeds, NEW ctx, ctx.db = db, NEW a \in TripIDs, NEW zone, NEW now, NEW d,
           PlacedByBlock(ctx, a, zone, now, d) # Null
    PROVE  PlacedByBlock(ctx, a, zone, now, d).trip \in TripIDs
<1> DEFINE ids == BlockTripIDsForServiceDate(ctx, a, d)
           snapshot == ComputeScheduledBlockSnapshot(ctx, a, zone, now, d)
<1>1. /\ snapshot # Null /\ snapshot.active # Null
      /\ PlacedByBlock(ctx, a, zone, now, d).trip = snapshot.active
  <2> HIDE DEF snapshot
  <2>1. QED
    BY DEF PlacedByBlock, snapshot
<1>2. ids \subseteq {u.id : u \in db.trips}
  <2>1. ids = {a} \/ ids \subseteq {u.id : u \in db.trips}
    BY BlockTripsAre
  <2>2. QED
    BY <2>1 DEF TripIDs
<1>3. snapshot.active \in ids
  <2> HIDE DEF ids
  <2>1. QED
    BY <1>1, <1>2, SnapshotActive DEF ids
<1>4. QED
  BY <1>1, <1>2, <1>3 DEF TripIDs

\* So are all those that the blocks of a zone place.
LEMMA PlacedAre ==
    ASSUME feed \in DOMAIN Feeds, NEW ctx, ctx.db = db, NEW zone, NEW stops, NEW now, NEW days,
           \A i \in 1..2 : days[i].since \in Int
    PROVE  LET all == PlacedInBlocks(ctx, zone, stops, days, now)
           IN  \A i \in DOMAIN all : all[i].trip \in TripIDs
<1> DEFINE placed(i) == LET anchors == BlockAnchors(ctx, stops, days[i])
                        IN  [k \in DOMAIN anchors |-> PlacedByBlock(ctx, anchors[k], zone, now, days[i].date)]
           P == {PlacedByBlock(ctx, x[1], zone, now, x[2]) : x \in TripIDs \X {days[1].date, days[2].date}}
           lists == [i \in 1..2 |-> placed(i)]
           flat == FlattenSeq(lists)
           places == {i \in DOMAIN flat : flat[i] # Null}
           all == PlacedInBlocks(ctx, zone, stops, days, now)
<1>1. all = Taken(flat, places)
  BY DEF PlacedInBlocks
<1>2. \A p \in P : p # Null => p.trip \in TripIDs
  BY PlacedIs
<1>3. ASSUME NEW i \in 1..2 PROVE placed(i) \in Seq(P)
  <2> DEFINE anchors == BlockAnchors(ctx, stops, days[i])
             list == [k \in DOMAIN anchors |-> PlacedByBlock(ctx, anchors[k], zone, now, days[i].date)]
  <2>1. anchors \in Seq(TripIDs)
    BY AnchorsAre
  <2>2. i = 1 \/ i = 2
    OBVIOUS
  <2>3. ASSUME NEW a \in TripIDs PROVE PlacedByBlock(ctx, a, zone, now, days[i].date) \in P
    <3> DEFINE x == <<a, days[i].date>>
    <3>1. x \in TripIDs \X {days[1].date, days[2].date}
      BY <2>2
    <3>2. x[1] = a /\ x[2] = days[i].date
      OBVIOUS
    <3> HIDE DEF x
    <3>3. QED
      BY <3>1, <3>2
  <2> HIDE DEF anchors, P
  <2>4. Len(anchors) \in Nat /\ DOMAIN anchors = 1..Len(anchors) /\ \A k \in DOMAIN anchors : anchors[k] \in TripIDs
    BY <2>1, PlacesOf
  <2>5. list \in [1..Len(anchors) -> P]
    BY <2>3, <2>4
  <2>6. list \in Seq(P)
    BY <2>4, <2>5
  <2>7. QED
    BY <2>6 DEF anchors
<1> HIDE DEF placed, P
<1>4. flat \in Seq(P)
  <2>1. lists \in [1..2 -> Seq(P)]
    BY <1>3
  <2> HIDE DEF lists
  <2>2. 2 \in Nat
    OBVIOUS
  <2>3. QED
    BY <2>1, <2>2, Flattened
<1> HIDE DEF flat
<1>5. Len(flat) \in Nat /\ DOMAIN flat = 1..Len(flat) /\ \A i \in DOMAIN flat : flat[i] \in P
  BY <1>4, PlacesOf
<1>6. places \in SUBSET (1..Len(flat)) /\ \A i \in places : flat[i] \in P \ {Null}
  BY <1>5
<1> HIDE DEF places
<1>7. Taken(flat, places) \in Seq(P \ {Null})
  BY <1>5, <1>6, TakenIs
<1>8. \A i \in DOMAIN all : all[i] \in P \ {Null}
  BY <1>1, <1>7, PlacesOf
<1> HIDE DEF all
<1>9. \A i \in DOMAIN all : all[i].trip \in TripIDs
  BY <1>2, <1>8
<1>10. QED
  BY <1>9 DEF all

\* What is selected for an area are trips of the tables, whose agencies keep
\* zones that can be used.
LEMMA FoundInAreaIs ==
    ASSUME AnswerInv, request # Null, FoundInArea # Null
    PROVE  FoundInArea \subseteq TripIDs /\ \A a \in db.agencies : a.zone \in DOMAIN Zones
<1> DEFINE ctx == Context(selected)
           area == request.of.area
           found == FoundInArea
           zones == {a.zone : a \in ctx.db.agencies}
           in(z) == ScheduledInArea(ctx, z, area, Now)
<1>1. feed \in DOMAIN Feeds /\ Now \in Int
  BY DEF AnswerInv, RequestInv, Now
<1>2. ctx.db = db
  BY DEF Context
<1>3. zones \subseteq DOMAIN Zones /\ found = ReportedInArea(ctx, area) \cup UNION {in(z) : z \in zones}
  <2>1. found = SelectTripsInArea(ctx, area, Now)
    BY DEF FoundInArea
  <2> HIDE DEF ctx, area, in, found
  <2>2. found # Null
    BY DEF found
  <2> DEFINE all == ReportedInArea(ctx, area) \cup UNION {in(z) : z \in zones}
             usable == zones \subseteq DOMAIN Zones
  <2>3. /\ usable
        /\ \E failing \in BOOLEAN : found = IF failing THEN Null ELSE all
    <3>1. usable
      BY <2>1, <2>2 DEF SelectTripsInArea
    <3>2. found = Null \/ found = all
      <4> HIDE DEF usable
      <4>1. QED
        BY <2>1 DEF SelectTripsInArea, in
    <3>3. QED
      BY <2>2, <3>1, <3>2
  <2>4. QED
    BY <2>2, <2>3
<1> HIDE DEF ctx, area, found
<1>4. ReportedInArea(ctx, area) \subseteq TripIDs
  BY <1>1, <1>2, StoppingAre DEF ReportedInArea, Positioned
<1>5. ASSUME NEW z \in DOMAIN Zones PROVE in(z) \subseteq TripIDs
  <2> DEFINE stops == {s.id : s \in GetActiveStopsWithinBounds(ctx.db, area)}
             resolver == ResolverForZone(ctx, z, Now)
             days == ServiceDaysOf(resolver)
             positioned == Positioned(ctx, area)
             all == PlacedInBlocks(ctx, Zones[z], stops, days, Now)
             blocked == BlockedInArea(ctx, Zones[z], area, stops, resolver, positioned, Now)
             blockless == BlocklessInArea(ctx, Zones[z], area, stops, resolver, positioned, Now)
  <2>1. in(z) \in {{}, blocked \cup blockless}
    BY DEF ScheduledInArea
  <2>2. \A i \in 1..2 : days[i].since \in Int
    BY <1>1, AreaDaysAre
  <2>3. blocked \subseteq {all[i].trip : i \in DOMAIN all}
    BY DEF BlockedInArea
  <2>4. blockless \subseteq InServiceTripIDs(ctx, stops, days, positioned)
    BY DEF BlocklessInArea
  <2> HIDE DEF in, stops, days, positioned, blocked, blockless
  <2>5. \A i \in DOMAIN all : all[i].trip \in TripIDs
    BY <1>1, <1>2, <2>2, PlacedAre
  <2>6. blockless \subseteq TripIDs
    BY <1>1, <1>2, <2>4, StoppingAre
  <2> HIDE DEF all
  <2>7. blocked \subseteq TripIDs
    BY <2>3, <2>5
  <2>8. QED
    BY <2>1, <2>6, <2>7
<1>6. found \subseteq TripIDs
  <2> HIDE DEF in, zones
  <2>1. QED
    BY <1>3, <1>4, <1>5
<1>7. QED
  BY <1>2, <1>3, <1>6 DEF found

\* A schedule read for several trips at once.
LEMMA ScheduleInMemory ==
    ASSUME feed \in DOMAIN Feeds, NEW ctx, ctx.db = db, NEW agency, NEW row, NEW services, NEW frequency
    PROVE  ScheduleNames(ScheduleFromMemory(ctx, agency, row, services, frequency))
<1> DEFINE around == NextPrevFromMemory(ctx, agency, row, services)
           times == GetStopTimesForTrip(db, row.id)
           stops == [i \in DOMAIN times |-> CombinedID(agency, times[i].stop)]
           schedule == ScheduleFromMemory(ctx, agency, row, services, frequency)
<1>1. schedule.next = around.next /\ schedule.prev = around.prev /\ schedule.stops = stops
  BY DEF ScheduleFromMemory
<1>2. \A id \in Range(stops) : \E a : \E st \in db.stopTimes : id = <<a, st.stop>>
  BY ListedStops
<1>3. /\ around.next = Null \/ \E a, t : around.next = <<a, t>>
      /\ around.prev = Null \/ \E a, t : around.prev = <<a, t>>
  <2> DEFINE trips == GetTripsByBlockIDs(ctx.db, {row.block}, services)
             inBlock == Taken(trips, {i \in DOMAIN trips : /\ trips[i].service = row.service
                                                           /\ RouteAgency(ctx, trips[i].route) = agency})
             i == OneRow({j \in DOMAIN inBlock : inBlock[j].id = row.id})
             at(j) == IF j \in DOMAIN inBlock THEN CombinedID(agency, inBlock[j].id) ELSE Null
  <2>1. around = [next |-> Null, prev |-> Null] \/ around = [next |-> at(i + 1), prev |-> at(i - 1)]
    BY DEF NextPrevFromMemory
  <2>2. \A j : at(j) = Null \/ \E t : at(j) = <<agency, t>>
    BY DEF CombinedID
  <2> HIDE DEF at, around, i
  <2>3. QED
    BY <2>1, <2>2
<1> HIDE DEF schedule, stops, around
<1>4. ScheduleNames(schedule)
  BY <1>1, <1>2, <1>3 DEF ScheduleNames
<1>5. QED
  BY <1>4 DEF schedule

\* The entry of a trip that is found in an area.
LEMMA AreaEntryNames ==
    ASSUME feed \in DOMAIN Feeds, NEW snapshot, SnapshotTyped(snapshot),
           NEW ctx, Reading(ctx, snapshot), NEW query, NEW known, NEW trip \in TripIDs,
           \A a \in db.agencies : a.zone \in DOMAIN Zones, NEW now \in Int
    PROVE  EntryNames(ctx, AreaEntry(ctx, query, known, trip, now))
<1> DEFINE row == GetTrip(ctx.db, trip)
           agency == RouteAgency(ctx, row.route)
           zone == ZoneOf(ctx, agency)
           resolver == ResolverForZone(ctx, zone, now)
           services == resolver.query
           date == Resolve(resolver, row)
           frequency == FrequencyForEntry(ctx, Zones[zone], row.id, date, now)
           v == GetVehicleForTrip(ctx, row.id)
           status == StatusForEntry(ctx, known, agency, row.id, v, Zones[zone], date, now)
           schedule == ScheduleFromMemory(ctx, agency, row, services, frequency)
           e == AreaEntry(ctx, query, known, trip, now)
<1>1. ctx.db = db /\ ctx.rt = snapshot
  BY DEF Reading
<1>2. row \in db.trips
  BY <1>1, TripFound DEF TripIDs
<1>3. zone \in DOMAIN Zones
  <2>1. GetAgency(db, GetRoute(db, row.route).agency) \in db.agencies
    BY <1>2, AgencyOfTrip
  <2>2. agency = GetRoute(db, row.route).agency /\ zone = GetAgency(db, agency).zone
    BY <1>1 DEF RouteAgency, ZoneOf
  <2>3. QED
    BY <2>1, <2>2
<1>4. date \in Int
  BY <1>3, AreaDaysAre
<1>5. /\ e.trip = CombinedID(agency, row.id)
      /\ e.schedule = IF query.schedule THEN schedule ELSE Null
      /\ e.status = IF query.status THEN status ELSE Null
  <2>1. e = AreaEntryOn(ctx, query, known, row, agency, zone, services, date, now)
    BY DEF AreaEntry
  <2> HIDE DEF row, agency, zone, services, date, e
  <2>2. QED
    BY <2>1 DEF AreaEntryOn
<1>6. v = Null \/ v \in Range(snapshot.vehicles)
  BY <1>1, VehicleIs
<1> HIDE DEF row, agency, zone, services, date, frequency, v
<1>7. status = Null \/ StatusNames(VehicleStops(ctx), status)
  BY <1>3, <1>4, <1>6, StatusForEntryNames
<1>8. ScheduleNames(schedule)
  BY <1>1, ScheduleInMemory
<1>9. e.trip = <<agency, row.id>>
  BY <1>5 DEF CombinedID
<1> HIDE DEF e, schedule, status
<1>10. EntryNames(ctx, e)
  BY <1>5, <1>7, <1>8, <1>9 DEF EntryNames
<1>11. QED
  BY <1>10 DEF e

\* What the entries of an answer name.
LEMMA EntriesName ==
    ASSUME AnswerInv, described # Null, Entries # Null, NEW e \in Entries
    PROVE  EntryNames(Context(described), e)
<1>1. CASE OfRoute
  BY <1>1, RouteEntriesName
<1>2. CASE ~OfRoute
  <2> DEFINE ctx == Context(described)
             found == FoundInArea
             query == AreaQuery
  <2>1. /\ feed \in DOMAIN Feeds /\ Now \in Int /\ request # Null /\ SnapshotTyped(described)
    BY DEF AnswerInv, RequestInv, Now
  <2>2. Reading(ctx, described)
    BY DEF Context, Reading
  <2>3. Entries = AreaEntries(ctx, query, found, Now)
    BY <1>2 DEF Entries
  <2>4. found # Null /\ \E t \in found : e = AreaEntry(ctx, query, found, t, Now)
    <3> HIDE DEF ctx, query, found
    <3>1. found # Null
      BY <2>3 DEF AreaEntries
    <3>2. Entries = {AreaEntry(ctx, query, found, t, Now) : t \in found}
      BY <2>3 DEF AreaEntries
    <3>3. QED
      BY <3>1, <3>2
  <2>5. found \subseteq TripIDs /\ \A a \in db.agencies : a.zone \in DOMAIN Zones
    BY <2>1, <2>4, FoundInAreaIs
  <2> HIDE DEF ctx, query, found
  <2>6. PICK t \in found : e = AreaEntry(ctx, query, found, t, Now)
    BY <2>4
  <2>7. EntryNames(ctx, e)
    BY <2>1, <2>2, <2>5, <2>6, AreaEntryNames
  <2>8. QED
    BY <2>7 DEF ctx
<1>3. QED
  BY <1>1, <1>2

-----------------------------------------------------------------------------
(* The references of an answer. *)

\* A stop that a response refers to, under an agency.
RefersTo(ctx, id) ==
    /\ id = <<id[1], id[2]>>
    /\ \/ \E st \in db.stopTimes : id[2] = st.stop
       \/ NamedByVehicle(ctx, id[2])

\* The stops that entries refer to are stops of visits and of vehicles.
LEMMA StopIDsAre ==
    ASSUME NEW ctx, NEW entries, \A e \in entries : EntryNames(ctx, e),
           NEW id \in StopIDsReferenced(ctx, entries)
    PROVE  RefersTo(ctx, id)
<1>1. PICK e \in entries : id \in ScheduleStopIDs(e.schedule) \cup StatusStopIDs(e.status)
  BY DEF StopIDsReferenced
<1>2. CASE id \in ScheduleStopIDs(e.schedule)
  <2>1. e.schedule # Null /\ id \in Range(e.schedule.stops)
    BY <1>2 DEF ScheduleStopIDs
  <2>2. PICK a, st : st \in db.stopTimes /\ id = <<a, st.stop>>
    BY <2>1 DEF EntryNames, ScheduleNames
  <2>3. QED
    BY <2>2 DEF RefersTo
<1>3. CASE id \in StatusStopIDs(e.status)
  <2> DEFINE stops == {e.status.closest.stop, e.status.next.stop} \ {NoText}
  <2>1. e.status # Null /\ \E s \in stops : id = CombinedID(e.status.agency, s)
    BY <1>3 DEF StatusStopIDs
  <2>2. PICK s \in stops : id = <<e.status.agency, s>>
    BY <2>1 DEF CombinedID
  <2>3. s \in KnownStops(VehicleStops(ctx)) /\ s # NoText
    BY <2>1, <2>2 DEF EntryNames, StatusNames
  <2>4. (\E st \in db.stopTimes : s = st.stop) \/ NamedByVehicle(ctx, s)
    BY <2>3 DEF KnownStops, VehicleStops, NamedByVehicle
  <2>5. QED
    BY <2>2, <2>4 DEF RefersTo
<1>4. QED
  BY <1>1, <1>2, <1>3

\* The references hold every stop referred to that is in the tables, and the
\* stations it lies in.
LEMMA StopsReferred ==
    ASSUME feed \in DOMAIN Feeds, NEW ctx, ctx.db = db, NEW ids, \A id \in ids : RefersTo(ctx, id)
    PROVE  LET stops == StopReferences(ctx, ids)
           IN  /\ \A id \in ids \ {s.id : s \in stops} :
                     GetStop(db, id[2]) = Null /\ NamedByVehicle(ctx, id[2])
               /\ ctx.fails \cap {"GetStopsByIDs", "GetRoutesForStops"} = {} \/ ids = {}
                     => ParentIDs(stops) = {}
<1> DEFINE routes(stop) == IF Fails(ctx, "GetRouteIDsForStops") THEN {} ELSE RouteIDsOfStop(ctx.db, stop)
           model(id) == BuildStopModel(id[1], GetStop(ctx.db, id[2]), routes(id[2]))
           known == {x \in ids : GetStop(ctx.db, x[2]) # Null}
           named == {model(id) : id \in known}
           stops == StopReferences(ctx, ids)
<1>1. stops = IF ParentsFail(ctx, named) THEN named ELSE named \cup MissingParentStops(ctx, named)
  BY DEF StopReferences
<1>2. ASSUME NEW id \in known PROVE StopModel(model(id)) /\ model(id).id = <<id[1], id[2]>>
  <2> DEFINE row == GetStop(db, id[2])
  <2>1. row \in db.stops /\ row.id = id[2]
    BY StopFound
  <2> HIDE DEF row, routes
  <2>2. model(id) = BuildStopModel(id[1], row, routes(id[2]))
    BY DEF row
  <2>3. QED
    BY <2>1, <2>2, BuiltIsModel
<1> HIDE DEF model, stops
<1>3. \A s \in named : StopModel(s)
  BY <1>2
<1>4. named \subseteq stops
  BY <1>1
<1>5. ASSUME NEW id \in ids, id \notin {s.id : s \in stops}
      PROVE  GetStop(db, id[2]) = Null /\ NamedByVehicle(ctx, id[2])
  <2>1. id \notin known
    <3>1. SUFFICES ASSUME id \in known PROVE FALSE
      OBVIOUS
    <3>2. model(id) \in stops /\ model(id).id = id
      BY <1>2, <1>4, <3>1 DEF RefersTo
    <3>3. QED
      BY <1>5, <3>2
  <2>2. GetStop(db, id[2]) = Null
    BY <2>1
  <2>3. \A st \in db.stopTimes : GetStop(db, st.stop) # Null
    BY StopFound, TablesImported DEF ConstraintsHold
  <2>4. QED
    BY <2>2, <2>3 DEF RefersTo
<1>6. ASSUME ctx.fails \cap {"GetStopsByIDs", "GetRoutesForStops"} = {} \/ ids = {}
      PROVE  ParentIDs(stops) = {}
  <2>1. ~ParentsFail(ctx, named)
    <3>1. CASE ids = {}
      <4>1. named = {}
        BY <3>1
      <4> HIDE DEF named
      <4>2. QED
        BY <4>1 DEF ParentsFail, ParentIDs
    <3>2. CASE ctx.fails \cap {"GetStopsByIDs", "GetRoutesForStops"} = {}
      BY <3>2 DEF ParentsFail
    <3>3. QED
      BY <1>6, <3>1, <3>2
  <2> HIDE DEF named
  <2>2. stops = named \cup MissingParentStops(ctx, named)
    BY <1>1, <2>1
  <2>3. QED
    BY <1>3, <2>2, ParentsClosed
<1>7. QED
  BY <1>5, <1>6 DEF stops

\* The stops of the references that are built for entries.
LEMMA StopsBuilt ==
    ASSUME NEW ctx, NEW entries, NEW fetched
    PROVE  LET refs == BuildTripReferences(ctx, entries, fetched)
           IN  /\ refs.stops = StopReferences(ctx, StopIDsReferenced(ctx, entries))
               /\ refs = [f \in DOMAIN refs |-> refs[f]] /\ {"trips", "stops"} \subseteq DOMAIN refs
BY DEF BuildTripReferences

\* Where routes cannot be read, nothing that is in service on a route is found
\* to be nothing.
LEMMA NothingWithoutRoutes ==
    ASSUME AnswerInv, OfRoute, described # Null, Entries # Null,
           Fails(Context(described), "GetRoutesByIDs")
    PROVE  Entries = {}
<1> DEFINE ctx == Context(selected)
           route == request.of.route
           agency == Agency
           here == ZoneOf(ctx, agency)
           days == RouteZoneServiceDays(ctx, agency, Now)
           of(i) == OnDay(ctx, route, agency, i)
           on(i) == OnBlocks(ctx, route, agency, i)
           found == FoundOnRoute
           inService == RouteInService(ctx, route, agency, Now)
<1>1. ctx.db = db /\ RequestInv /\ request # Null /\ Fails(ctx, "GetRoutesByIDs")
  BY DEF Context, AnswerInv, OfRoute, Fails
<1>2. agency = RouteAgency(ctx, route) /\ found = SelectTrips(ctx, route, agency, Now)
  BY DEF Agency, RouteAgency, Context, FoundOnRoute
<1>3. here \in DOMAIN Zones => here \in Range(AgencyZones(ctx, agency))
  BY <1>1, <1>2, RouteAsked
<1> SUFFICES ASSUME Entries # {} PROVE FALSE
  OBVIOUS
<1>4. found = {} /\ RouteRuns
  <2> DEFINE from == Context(described)
  <2>1. Entries = RouteEntries(from, route, agency, RouteRuns, found, Now)
    BY DEF Entries
  <2>2. Fails(from, "GetRoutesByIDs")
    OBVIOUS
  <2> HIDE DEF from, found, agency, route
  <2>3. QED
    BY <2>1, <2>2 DEF RouteEntries, Fails
<1>5. RouteRuns = SomeInService(inService)
  BY DEF RouteRuns
<1> HIDE DEF ctx, agency, found, route
<1>6. here \in DOMAIN Zones /\ \A i \in 1..2 : of(i) # Null => on(i) # Null /\ of(i).trips = {}
  <2>1. SelectTrips(ctx, route, agency, Now) # Null /\ SelectTrips(ctx, route, agency, Now) = {}
    BY <1>2, <1>4, Zenon DEF RouteEntries, found, Entries, agency, route, ctx
  <2>2. QED
    BY <2>1, SelectedAre
<1>7. here \in Range(AgencyZones(ctx, agency))
  BY <1>3, <1>6
<1>8. PICK i \in 1..2 : of(i) # Null /\ of(i).blocks \cup of(i).trips # {}
  <2> DEFINE ofs == [i \in 1..2 |-> of(i)]
  <2>1. inService # Null /\ \E day \in Range(inService) \ {Null} : day.blocks \cup day.trips # {}
    BY <1>4, <1>5 DEF SomeInService
  <2>2. inService = ofs
    BY <2>1 DEF RouteInService, OnDay
  <2> HIDE DEF of, inService
  <2>3. QED
    BY <2>1, <2>2 DEF Range
<1>9. on(i) # Null /\ of(i).blocks # {}
  BY <1>6, <1>8
<1>10. days[here][i].services # {}
  <2> DEFINE day == days[here][i]
  <2>1. of(i) = RouteBlocksAndTripsInService(ctx, route, day)
    BY DEF OnDay
  <2> HIDE DEF day, of
  <2>2. day.services # {}
    BY <1>9, <2>1 DEF RouteBlocksAndTripsInService
  <2>3. QED
    BY <2>2 DEF day
<1>11. here \in DOMAIN days /\ i \in DOMAIN days[here]
  <2>1. here \in DOMAIN days /\ days[here] = ServiceDaysOf(ServiceDateResolverForZone(ctx, here, Now))
    BY <1>7 DEF RouteZoneServiceDays
  <2>2. DOMAIN days[here] = 1..2
    BY <1>1, <1>6, <2>1, DaysAre
  <2>3. QED
    BY <2>1, <2>2
<1> DEFINE blocks == of(i).blocks
           services == UNION {UNION {days[z][k].services : k \in DOMAIN days[z]} : z \in DOMAIN days}
           tripsOf == [b \in IF services = {} THEN {} ELSE blocks |-> GetTripsByBlockIDs(ctx.db, {b}, services)]
<1>12. on(i) = ActiveTripsOf(ctx, tripsOf, i, here, AgencyZones(ctx, agency), days, Now)
  BY DEF OnBlocks, ActiveTripsInBlocks
<1> HIDE DEF on, blocks, here, days
<1>13. services # {}
  BY <1>10, <1>11
<1> HIDE DEF services
<1>14. DOMAIN tripsOf # {}
  BY <1>9, <1>13 DEF blocks
<1> HIDE DEF tripsOf
<1>15. tripsOf # <<>>
  BY <1>14
<1>16. on(i) = Null
  BY <1>1, <1>12, <1>15 DEF ActiveTripsOf, Fails
<1>17. QED
  BY <1>9, <1>16

\* The trips that entries name are noted for the references.
LEMMA TripIDsNoted ==
    ASSUME NEW ctx, NEW e, EntryNames(ctx, e),
           NEW id \in ({e.trip} \cup (IF e.schedule = Null THEN {} ELSE {e.schedule.next, e.schedule.prev})
                       \cup (IF e.status = Null THEN {} ELSE {e.status.active})) \ {Null}
    PROVE  id \in TripIDsOfEntry(e) /\ id = <<id[1], id[2]>>
<1>1. id \in TripIDsOfEntry(e)
  BY DEF TripIDsOfEntry
<1>2. \E a, t : id = <<a, t>>
  <2>1. CASE id = e.trip
    BY <2>1 DEF EntryNames
  <2>2. CASE e.schedule # Null /\ id \in {e.schedule.next, e.schedule.prev}
    <3>1. ScheduleNames(e.schedule)
      BY <2>2 DEF EntryNames
    <3>2. id # Null
      OBVIOUS
    <3>3. QED
      BY <2>2, <3>1, <3>2 DEF ScheduleNames
  <2>3. CASE e.status # Null /\ id = e.status.active
    BY <2>3 DEF EntryNames, StatusNames
  <2>4. QED
    BY <2>1, <2>2, <2>3
<1>3. QED
  BY <1>1, <1>2

\* Every trip that is named under its agency is a reference, where routes can
\* be read.
LEMMA TripsReferred ==
    ASSUME feed \in DOMAIN Feeds, NEW ctx, ctx.db = db, NEW entries, NEW fetched,
           ~Fails(ctx, "MissingTrips"), ~Fails(ctx, "GetRoutesByIDs"),
           NEW id \in UNION {TripIDsOfEntry(e) : e \in entries}, id = <<id[1], id[2]>>,
           GetTrip(db, id[2]) # Null, GetRoute(db, GetTrip(db, id[2]).route).agency = id[1]
    PROVE  id \in {t.id : t \in BuildTripReferences(ctx, entries, fetched).trips}
<1> DEFINE refs == BuildTripReferences(ctx, entries, fetched)
           stops == StopReferences(ctx, StopIDsReferenced(ctx, entries))
           noted == {x[2] : x \in UNION {TripIDsOfEntry(e) : e \in entries}}
           trips == GetTripsByIDs(ctx.db, IF Fails(ctx, "MissingTrips") THEN fetched ELSE noted \cup fetched)
           routes == IF Fails(ctx, "GetRoutesByIDs") THEN {}
                     ELSE GetRoutesByIDs(ctx.db, {t.route : t \in trips} \cup {r[2] : r \in RoutesOfStops(stops)})
           agency(route) == OneRow({r.agency : r \in {x \in routes : x.id = route}})
           model(t) == [id |-> CombinedID(agency(t.route), t.id), route |-> CombinedID(agency(t.route), t.route)]
           t == GetTrip(db, id[2])
           r == GetRoute(db, t.route)
<1>1. refs.trips = {model(u) : u \in {x \in trips : agency(x.route) # Null}}
  BY DEF BuildTripReferences
<1>2. t \in db.trips /\ t.id = id[2]
  <2>1. t \in {u \in db.trips : u.id = id[2]}
    BY OneOf DEF GetTrip
  <2> HIDE DEF t
  <2>2. QED
    BY <2>1
<1>3. t \in trips
  <2>1. id[2] \in noted
    OBVIOUS
  <2> HIDE DEF noted, t
  <2>2. QED
    BY <1>2, <2>1 DEF GetTripsByIDs
<1>4. r \in db.routes /\ r.id = t.route /\ \E a \in db.agencies : a.id = r.agency
  <2> HIDE DEF t
  <2>1. QED
    BY <1>2, AgencyOfTrip
<1> HIDE DEF t, r, trips, stops
<1>5. r \in routes
  BY <1>3, <1>4 DEF GetRoutesByIDs
<1>6. \A x \in routes : x \in db.routes
  BY DEF GetRoutesByIDs
<1> HIDE DEF routes
<1>7. \A x \in routes : x.id = t.route => x = r
  BY <1>4, <1>6, TablesImported
<1>8. r.agency # Null
  <2>1. \A a \in db.agencies : a.id \in Int
    BY TablesImported DEF ColumnsTyped
  <2>2. QED
    BY <1>4, <2>1, NullAssumption
<1>9. agency(t.route) = r.agency
  <2>1. {x \in routes : x.id = t.route} = {r}
    BY <1>4, <1>5, <1>7
  <2>2. {x.agency : x \in {y \in routes : y.id = t.route}} = {r.agency}
    BY <2>1
  <2>3. QED
    BY <2>2 DEF OneRow
<1>10. model(t) \in refs.trips
  BY <1>1, <1>3, <1>8, <1>9
<1>11. model(t).id = id
  <2>1. model(t).id = <<agency(t.route), t.id>>
    BY DEF CombinedID
  <2>2. r.agency = id[1]
    BY DEF r, t
  <2> HIDE DEF model, agency
  <2>3. QED
    BY <1>2, <1>9, <2>1, <2>2
<1> HIDE DEF refs, model
<1>12. QED
  BY <1>10, <1>11 DEF refs

\* The references of an answer are those built for its entries.
LEMMA ReferencesAre ==
    ASSUME AnswerInv, described # Null, Entries # Null,
           ReferencesOf(Context(described), Entries) # Null
    PROVE  LET ctx == Context(described)
               refs == ReferencesOf(ctx, Entries)
           IN  \E fetched :
                  /\ refs.stops = StopReferences(ctx, StopIDsReferenced(ctx, Entries))
                  /\ refs.trips = BuildTripReferences(ctx, Entries, fetched).trips
                  /\ Entries = {} \/ ~Fails(ctx, "GetRoutesByIDs")
<1> DEFINE ctx == Context(described)
           entries == Entries
           refs == ReferencesOf(ctx, entries)
           fetched == IF OfRoute THEN {e.active : e \in entries} \cup {e.trip[2] : e \in entries} ELSE {}
           all == BuildTripReferences(ctx, entries, fetched)
<1>1. ctx.db = db
  BY DEF Context
<1>2. entries = {} \/ ~Fails(ctx, "GetRoutesByIDs")
  <2>1. CASE OfRoute
    BY <2>1, NothingWithoutRoutes
  <2>2. CASE ~OfRoute
    <3>1. refs = BuildReference(ctx, AreaQuery, entries)
      BY <2>2 DEF ReferencesOf
    <3> HIDE DEF ctx, entries
    <3>2. QED
      BY <3>1 DEF BuildReference, entries, ctx
  <2>3. QED
    BY <2>1, <2>2
<1>3. /\ all.stops = StopReferences(ctx, StopIDsReferenced(ctx, entries))
      /\ all = [f \in DOMAIN all |-> all[f]] /\ {"trips", "stops"} \subseteq DOMAIN all
  <2> HIDE DEF ctx, entries, fetched
  <2>1. QED
    BY StopsBuilt
<1>4. refs = all \/ refs = [all EXCEPT !.trips = all.trips]
  <2>1. CASE OfRoute
    BY <2>1 DEF ReferencesOf
  <2>2. CASE ~OfRoute
    <3>1. refs = BuildReference(ctx, AreaQuery, entries)
      BY <2>2 DEF ReferencesOf
    <3>2. AreaQuery.trips /\ fetched = {}
      BY <2>2 DEF AreaQuery
    <3> HIDE DEF ctx, entries, fetched
    <3>3. QED
      BY <3>1, <3>2 DEF BuildReference, entries, ctx
  <2>3. QED
    BY <2>1, <2>2
<1> HIDE DEF refs, all
<1>5. refs.stops = all.stops /\ refs.trips = all.trips
  BY <1>3, <1>4
<1>6. QED
  BY <1>2, <1>3, <1>5 DEF refs, all

-----------------------------------------------------------------------------
(* Theorem. *)

\* Every stop and every trip that an answer names is among its references,
\* whatever queries fail and whatever is published between its selection and
\* its description: each stop of a visit under the agency that names it, the
\* stations above it up to one without a parent, each trip under the agency of
\* its route. Only a stop that a vehicle reports and that the feed has not
\* stays without a reference.
THEOREM AnswersResolve == Spec => []ReferencesResolve
<1>1. AnswerInv => ReferencesResolve
  <2> SUFFICES ASSUME AnswerInv, described # Null, Entries # Null,
                      ReferencesOf(Context(described), Entries) # Null
               PROVE  ResolveIn(Context(described), Entries, ReferencesOf(Context(described), Entries))
    BY DEF ReferencesResolve, AnswerResolves, ResolveIn
  <2> DEFINE ctx == Context(described)
             entries == Entries
             refs == ReferencesOf(ctx, entries)
             ids == StopIDsReferenced(ctx, entries)
  <2>1. feed \in DOMAIN Feeds /\ ctx.db = db
    BY DEF AnswerInv, RequestInv, Context
  <2>2. \A e \in entries : EntryNames(ctx, e)
    BY EntriesName
  <2>3. PICK fetched : /\ refs.stops = StopReferences(ctx, ids)
                       /\ refs.trips = BuildTripReferences(ctx, entries, fetched).trips
                       /\ entries = {} \/ ~Fails(ctx, "GetRoutesByIDs")
    BY ReferencesAre
  <2>4. ids = {} \/ ~Fails(ctx, "GetStopsByIDs")
    <3>1. refs # Null
      OBVIOUS
    <3> HIDE DEF entries, ctx
    <3>2. QED
      BY <3>1 DEF ReferencesOf
  <2> HIDE DEF ctx, entries, refs
  <2>5. \A id \in ids : RefersTo(ctx, id)
    BY <2>2, StopIDsAre
  <2>6. StopsResolve(ctx, entries, refs)
    <3>1. /\ \A id \in ids \ {s.id : s \in refs.stops} :
                GetStop(db, id[2]) = Null /\ NamedByVehicle(ctx, id[2])
          /\ ctx.fails \cap {"GetStopsByIDs", "GetRoutesForStops"} = {} \/ ids = {}
                => ParentIDs(refs.stops) = {}
      <4> HIDE DEF ids
      <4>1. QED
        BY <2>1, <2>3, <2>5, StopsReferred
    <3>2. ~Fails(ctx, "GetRoutesForStops") => ParentIDs(refs.stops) = {}
      BY <2>4, <3>1 DEF Fails
    <3>3. QED
      BY <3>1, <3>2 DEF StopsResolve
  <2>7. TripsResolve(ctx, entries, refs)
    <3> DEFINE of(e) == {e.trip}
                        \cup (IF e.schedule = Null THEN {} ELSE {e.schedule.next, e.schedule.prev})
                        \cup (IF e.status = Null THEN {} ELSE {e.status.active})
               own(id) == /\ GetTrip(db, id[2]) # Null
                          /\ GetRoute(db, GetTrip(db, id[2]).route).agency = id[1]
    <3>1. ASSUME ~Fails(ctx, "MissingTrips"), NEW id, id # Null, NEW e \in entries, id \in of(e), own(id)
          PROVE  id \in {t.id : t \in refs.trips}
      <4>1. id \in TripIDsOfEntry(e) /\ id = <<id[1], id[2]>>
        BY <2>2, <3>1, TripIDsNoted
      <4>2. id \in UNION {TripIDsOfEntry(x) : x \in entries}
        BY <4>1
      <4>3. ~Fails(ctx, "GetRoutesByIDs")
        BY <2>3
      <4>4. id \in {t.id : t \in BuildTripReferences(ctx, entries, fetched).trips}
        BY <2>1, <3>1, <4>1, <4>2, <4>3, TripsReferred
      <4>5. QED
        BY <2>3, <4>4
    <3>2. ~Fails(ctx, "MissingTrips") =>
             {id \in (UNION {of(e) : e \in entries}) \ {Null} : own(id)} \subseteq {t.id : t \in refs.trips}
      <4> HIDE DEF of, own
      <4>1. QED
        BY <3>1
    <3>3. QED
      BY <3>2 DEF TripsResolve
  <2>8. QED
    BY <2>6, <2>7 DEF ResolveIn, ctx, entries, refs
<1>2. QED
  BY <1>1, AnswerInvariant, PTL
=============================================================================
