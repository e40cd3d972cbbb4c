------------------------------ MODULE RouteTrips ----------------------------
(***************************************************************************)
(* The trips of a route that are active now: the blocks its trips run on,  *)
(* the trip each block is running or lies over after, the entry reported   *)
(* for it and the references (trips_for_route_handler.go). Agencies, and   *)
(* with them the trips of one block, may keep different clocks.            *)
(*                                                                         *)
(* An agency's zone is a name; a name that is not in Zones cannot be       *)
(* loaded. A found trip is [trip, zone, date]: the day and the clock it    *)
(* was found on. Null is an error response.                                *)
(***************************************************************************)
EXTENDS References

CONSTANTS Zones,    \* zone name -> zone
          Suffixed  \* trip IDs with a numeric suffix -> the ID without it

ASSUME ZoneAssumption == \A z \in DOMAIN Zones : Zones[z] \in Clocks

\* No clock is moved by a whole day.
ASSUME ClockChangeAssumption ==
    \A z \in DOMAIN Zones : -Day < Zones[z].after - Zones[z].before /\ Zones[z].after - Zones[z].before < Day

\* Nothing is no zone's name and none of what is found.
ASSUME NullIsNothingFound ==
    /\ Null \notin DOMAIN Zones
    /\ Null \notin [trip : Int, zone : DOMAIN Zones, date : Int]
    /\ Null \notin [blocks : SUBSET (Int \cup {Null, NoText}), trips : SUBSET Int]

-----------------------------------------------------------------------------
(* Zones and their service days. *)

ZoneOf(ctx, agency) == GetAgency(ctx.db, agency).zone

\* serviceDateResolverForZone: the day before is best effort.
ServiceDateResolverForZone(ctx, zone, now) ==
    LET day == FromInstant(Zones[zone], now)
    IN  NewServiceDateResolverFor(Zones[zone], day, now,
            [query |-> GetActiveServiceIDsForDate(ctx.db, day),
             previous |-> IF Fails(ctx, "PreviousServiceIDs") THEN {}
                          ELSE GetActiveServiceIDsForDate(ctx.db, day - 1)])

\* routeZoneServiceDates: an agency whose zone cannot be used is left out,
\* the route's own agency excepted.
AgencyZones(ctx, agency) ==
    LET own == ZoneOf(ctx, agency)
        usable == {a \in ctx.db.agencies : /\ a.zone \in DOMAIN Zones
                                           /\ a.zone = own \/ ~Fails(ctx, "OtherZoneServiceIDs")}
    IN  [id \in {a.id : a \in usable} |-> ZoneOf(ctx, id)]

RouteZoneServiceDays(ctx, agency, now) ==
    [zone \in Range(AgencyZones(ctx, agency)) |->
        ServiceDaysOf(ServiceDateResolverForZone(ctx, zone, now))]

-----------------------------------------------------------------------------
(* The blocks and blockless trips of a route near a moment. *)

RouteBlocksAndTripsInService(ctx, route, day) ==
    LET from == day.since - RunningLate
        to == day.since + RunningEarly
        indexes == GetBlockTripIndexIDsForRoute(ctx.db, route, day.services)
        indexed == GetBlocksForBlockTripIndexIDs(ctx.db, route, indexes, day.services, from, to)
        layovers == GetActiveLayoverBlockIDsForRoute(ctx.db, route, day.services, from, to)
    IN  IF day.services = {} THEN [blocks |-> {}, trips |-> {}]
        ELSE IF \/ Fails(ctx, "GetBlockTripIndexIDsForRoute")
                \/ indexes # {} /\ Fails(ctx, "GetBlocksForBlockTripIndexIDs")
        THEN Null
        ELSE [blocks |-> indexed \cup (IF Fails(ctx, "GetActiveLayoverBlockIDsForRoute") THEN {}
                                       ELSE layovers),
              trips |-> IF Fails(ctx, "GetActiveTripsWithNullBlockForRoute") THEN {}
                        ELSE GetActiveTripsWithNullBlockForRoute(ctx.db, route, day.services, from, to)]

\* Fault: the query day only.
ZoneQueryDayToTest(days, dayIndex, isRouteZone) == <<days[1]>>

\* In the route's zone the day its block was found on, elsewhere every day.
ZoneServiceDaysToTest(days, dayIndex, isRouteZone) ==
    IF isRouteZone THEN <<days[dayIndex]>> ELSE days

TripInServiceOn(trip, day) ==
    trip.service \in day.services /\ InRange(day.since, trip.minArrival, trip.maxDeparture)

\* The zone of a trip's agency, Null when it cannot be used.
ZoneOfTrip(ctx, zones, trip) ==
    LET agency == GetRoute(ctx.db, trip.route).agency
    IN  IF agency \in DOMAIN zones THEN zones[agency] ELSE Null

\* Fault: every trip by the clock of the route's agency.
RunningOnRouteClock(ctx, trip, dayIndex, routeZone, zones, days) ==
    LET test == ZoneServiceDaysToTest(days[routeZone], dayIndex, TRUE)
        on == {i \in DOMAIN test : TripInServiceOn(trip, test[i])}
    IN  IF on = {} THEN Null
        ELSE [trip |-> trip.id, zone |-> routeZone, date |-> test[Min(on)].date]

\* A trip in service, by the clock of its own agency.
Running(ctx, trip, dayIndex, routeZone, zones, days) ==
    LET zone == ZoneOfTrip(ctx, zones, trip)
        test == ZoneServiceDaysToTest(days[zone], dayIndex, zone = routeZone)
        on == {i \in DOMAIN test : TripInServiceOn(trip, test[i])}
    IN  IF zone = Null THEN Null ELSE IF on = {} THEN Null
        ELSE [trip |-> trip.id, zone |-> zone, date |-> test[Min(on)].date]

\* activeTripInBlock: the earliest trip in service.
ActiveTripInBlock(ctx, trips, dayIndex, routeZone, zones, days) ==
    FirstFound([i \in DOMAIN trips |-> Running(ctx, trips[i], dayIndex, routeZone, zones, days)])

-----------------------------------------------------------------------------
(* A block between its trips. *)

\* selectAnchorInGroup: the last trip that has started, when the block's
\* whole span meets the window.
SelectAnchorInGroup(group, from, to) ==
    LET started == {i \in DOMAIN group : group[i].minArrival <= to}
    IN  IF \/ group = <<>>
           \/ group[1].minArrival > to
           \/ Max({group[i].maxDeparture : i \in DOMAIN group}) < from
        THEN Null
        ELSE group[IF started = {} THEN 1 ELSE Max(started)].id

\* zoneBlockCoversTime: the zone's own trips of the block have begun and not
\* yet ended.
ZoneBlockCoversTime(ctx, trips, zone, day, zones) ==
    LET own == {t \in Range(trips) : ZoneOfTrip(ctx, zones, t) = zone /\ t.service \in day.services}
    IN  /\ own # {}
        /\ InRange(day.since, Min({t.minArrival : t \in own}), Max({t.maxDeparture : t \in own}))

\* resolveBlockInZone: the trip where the block is by its schedule, when its
\* agency keeps this zone.
ResolveBlockInZone(ctx, block, trips, zone, day, zones, now) ==
    LET spans == GetTripSpansForBlocks(ctx.db, {block}, day.services)
        anchor == SelectAnchorInGroup(spans, day.since - RunningLate, day.since + RunningEarly)
        running(snapshot) == IF snapshot = Null THEN Null
                             ELSE IF snapshot.inRange THEN snapshot.active ELSE Null
        found(active) ==
          IF active = Null THEN Null
          ELSE IF ZoneOfTrip(ctx, zones, GetTrip(ctx.db, active)) # zone THEN Null
          ELSE [trip |-> active, zone |-> zone, date |-> day.date]
    IN  IF anchor = Null \/ ~ZoneBlockCoversTime(ctx, trips, zone, day, zones) THEN Null
        ELSE found(running(ComputeScheduledBlockSnapshot(ctx, anchor, Zones[zone], now, day.date)))

\* The queried route's zone is tried first, then those of the block's trips.
BlockCandidateZones(ctx, trips, zones, routeZone) ==
    LET others == {ZoneOfTrip(ctx, zones, t) : t \in Range(trips)} \ {Null, routeZone}
        first(z) == Min({i \in DOMAIN trips : ZoneOfTrip(ctx, zones, trips[i]) = z})
    IN  <<routeZone>> \o SortedBy(others, LAMBDA y, z : first(y) < first(z))

ResolveBlockBetweenTrips(ctx, block, trips, dayIndex, routeZone, zones, days, now) ==
    LET test(zone) == ZoneServiceDaysToTest(days[zone], dayIndex, zone = routeZone)
        candidates == BlockCandidateZones(ctx, trips, zones, routeZone)
    IN  FirstFound(FlattenSeq([i \in DOMAIN candidates |->
            [k \in DOMAIN test(candidates[i]) |->
                ResolveBlockInZone(ctx, block, trips, candidates[i], test(candidates[i])[k],
                                   zones, now)]]))

\* Fault: a block between two of its trips has none.
ActiveTripWithoutLayovers(ctx, block, trips, dayIndex, routeZone, zones, days, now) ==
    ActiveTripInBlock(ctx, trips, dayIndex, routeZone, zones, days)

ActiveTrip(ctx, block, trips, dayIndex, routeZone, zones, days, now) ==
    OrElse(ActiveTripInBlock(ctx, trips, dayIndex, routeZone, zones, days),
           ResolveBlockBetweenTrips(ctx, block, trips, dayIndex, routeZone, zones, days, now))

\* A block that is running no trip needs its spans on the days its trips cover.
SpansMissing(ctx, trips, dayIndex, routeZone, zones, days) ==
    /\ Fails(ctx, "GetTripSpansForBlocks")
    /\ ActiveTripInBlock(ctx, trips, dayIndex, routeZone, zones, days) = Null
    /\ \E zone \in Range(BlockCandidateZones(ctx, trips, zones, routeZone)) :
         \E day \in Range(ZoneServiceDaysToTest(days[zone], dayIndex, zone = routeZone)) :
            ZoneBlockCoversTime(ctx, trips, zone, day, zones)

\* activeTripsInBlocks, with the trips of each block: a running trip wins over
\* the same trip found in a block between trips. Null when a query fails.
ActiveTripsOf(ctx, tripsOf, dayIndex, routeZone, zones, days, now) ==
    IF \/ tripsOf # <<>> /\ ctx.fails \cap {"GetTripsByBlockIDs", "GetRoutesByIDs"} # {}
       \/ \E b \in DOMAIN tripsOf : SpansMissing(ctx, tripsOf[b], dayIndex, routeZone, zones, days)
    THEN Null
    ELSE {ActiveTrip(ctx, b, tripsOf[b], dayIndex, routeZone, zones, days, now) :
            b \in DOMAIN tripsOf} \ {Null}

ActiveTripsInBlocks(ctx, blocks, dayIndex, agency, now) ==
    LET days == RouteZoneServiceDays(ctx, agency, now)
        services == UNION {UNION {days[z][i].services : i \in DOMAIN days[z]} : z \in DOMAIN days}
    IN  ActiveTripsOf(ctx, [b \in IF services = {} THEN {} ELSE blocks |->
                               GetTripsByBlockIDs(ctx.db, {b}, services)],
                      dayIndex, ZoneOf(ctx, agency), AgencyZones(ctx, agency), days, now)

-----------------------------------------------------------------------------
(* The selection. *)

\* The first of two days to find a trip keeps it.
Keeping(S, T) == S \cup {f \in T : \A g \in S : g.trip # f.trip}

\* What one day of the route finds, of those without a block and on blocks.
FoundOnDay(ctx, agency, day, i, of, now) ==
    LET found(trip, zone, date) == [trip |-> trip, zone |-> zone, date |-> date, routeDate |-> day.date]
        all(active) ==
          IF active = Null THEN Null
          ELSE [trips |-> {found(t, ZoneOf(ctx, agency), day.date) : t \in of.trips},
                active |-> {found(f.trip, f.zone, f.date) : f \in active}]
    IN  IF of = Null THEN [trips |-> {}, active |-> {}]
        ELSE all(ActiveTripsInBlocks(ctx, of.blocks, i, agency, now))

\* What is in service on the route on the query day and on the one before:
\* the day before is best effort. Null is an error response.
RouteInService(ctx, route, agency, now) ==
    LET on(days) == [i \in 1..2 |-> RouteBlocksAndTripsInService(ctx, route, days[i])]
        all(of) == IF of[1] = Null THEN Null ELSE of
    IN  IF \/ ZoneOf(ctx, agency) \notin DOMAIN Zones
           \/ ctx.fails \cap {"GetAgency", "GetAgencies", "GetActiveServiceIDsForDate"} # {}
        THEN Null
        ELSE all(on(RouteZoneServiceDays(ctx, agency, now)[ZoneOf(ctx, agency)]))

SomeInService(of) ==
    IF of = Null THEN FALSE ELSE \E day \in Range(of) \ {Null} : day.blocks \cup day.trips # {}

\* The trips to report; routeDate is the day of the route that the block of a
\* trip was selected on.
SelectTrips(ctx, route, agency, now) ==
    LET days == RouteZoneServiceDays(ctx, agency, now)[ZoneOf(ctx, agency)]
        all(on) == IF Null \in Range(on) THEN Null
                   ELSE Keeping(Keeping(Keeping(on[1].trips, on[2].trips), on[1].active), on[2].active)
        found(of) == IF of = Null THEN Null
                     ELSE all([i \in 1..2 |-> FoundOnDay(ctx, agency, days[i], i, of[i], now)])
    IN  found(RouteInService(ctx, route, agency, now))

-----------------------------------------------------------------------------
(* The entries. *)

\* The agencies of the routes of the trips found.
RouteAgency(ctx, route) == GetRoute(ctx.db, route).agency

\* resolveInterlinedEntryTripID: of the queried route's trips in the block
\* the one whose midpoint is nearest, those of the same service first.
ResolveInterlinedEntryTripID(ctx, row, route, services) ==
    LET trips == GetTripsByBlockIDs(ctx.db, {row.block}, services)
        block == Taken(trips, {i \in DOMAIN trips : trips[i].route = route})
        same == Taken(block, {i \in DOMAIN block : block[i].service = row.service})
        among == IF same = <<>> THEN block ELSE same
        mid(t) == (t.minArrival + t.maxDeparture) \div 2
        nearest == {i \in DOMAIN among : \A j \in DOMAIN among :
                      Distance(mid(among[i]), mid(row)) <= Distance(mid(among[j]), mid(row))}
    IN  IF among = <<>> THEN Null ELSE among[Min(nearest)].id

\* The trip an entry is about: the active trip, or on a block that another
\* route's trip is running, the trip of the queried route.
EntryTrip(ctx, route, agency, found, now) ==
    LET row == GetTrip(ctx.db, found.trip)
        days == RouteZoneServiceDays(ctx, agency, now)[ZoneOf(ctx, agency)]
        services == days[1].services \cup days[2].services
    IN  IF row.route = route \/ row.block = Null THEN row.id
        ELSE OrElse(ResolveInterlinedEntryTripID(ctx, row, route, services), row.id)

\* buildScheduleForTrip: Null when a query fails, and for a trip that is not
\* in the feed.
BuildScheduleForTrip(ctx, agency, trip, zone, d) ==
    IF Fails(ctx, "GetTrip") \/ GetTrip(ctx.db, trip) = Null THEN Null
    ELSE ScheduleOf(ctx, agency, GetTrip(ctx.db, trip), zone, d)

\* The date of an entry whose agency keeps another clock than the active
\* trip's is the day of the route its block was selected on.
EntryDate(found, entryZone, activeZone) ==
    IF entryZone # activeZone THEN found.routeDate ELSE found.date

\* The entry about the trip row, for the active trip of its block; Null
\* without its schedule.
EntryFor(ctx, agency, row, active, found, fetched, now) ==
    LET entryAgency == RouteAgency(ctx, row.route)
        activeAgency == RouteAgency(ctx, active.route)
        zones == AgencyZones(ctx, agency)
        zone(a) == IF a \in DOMAIN zones THEN zones[a] ELSE ZoneOf(ctx, agency)
        date == EntryDate(found, zone(entryAgency), zone(activeAgency))
        entry(schedule) ==
          [trip |-> CombinedID(entryAgency, row.id), date |-> date,
           zone |-> zone(entryAgency), block |-> active.block, active |-> active.id,
           schedule |-> schedule,
           status |-> StatusForEntry(ctx, fetched \cup {row.id}, activeAgency, active.id,
                          GetVehicleForTrip(ctx, active.id), Zones[zone(activeAgency)],
                          found.date, now),
           frequency |-> FrequencyForEntry(ctx, Zones[zone(entryAgency)], row.id, date, now),
           situations |-> SituationRefs(ctx, row.id, row.route, entryAgency)]
        described(schedule) == IF schedule = Null THEN Null ELSE entry(schedule)
    IN  described(BuildScheduleForTrip(Preloaded(ctx, row.id, fetched), entryAgency, row.id,
                                       Zones[zone(entryAgency)], date))

TripEntry(ctx, route, agency, found, fetched, now) ==
    EntryFor(ctx, agency, GetTrip(ctx.db, EntryTrip(ctx, route, agency, found, now)),
             GetTrip(ctx.db, found.trip), found, fetched, now)

-----------------------------------------------------------------------------
(* Duplicated trips: extra runs that only the realtime feed knows. *)

GetDuplicatedVehiclesForRoute(ctx, route) ==
    {v \in Range(ctx.rt.vehicles) : v.relation = "DUPLICATED" /\ v.route = route /\ v.trip # NoText}

StripNumericSuffix(trip) == IF trip \in DOMAIN Suffixed THEN Suffixed[trip] ELSE trip

\* The trip it is a run of: by its own ID, else by the one without a suffix.
ResolveDuplicatedBaseTrip(ctx, trip) ==
    IF GetTrip(ctx.db, trip) = Null /\ GetTrip(ctx.db, StripNumericSuffix(trip)) # Null
    THEN StripNumericSuffix(trip) ELSE trip

TripWindowOverlapsRange(row, from, to) == row.minArrival <= to /\ row.maxDeparture >= from

\* Its run of today, unless its base trip was found on another day or its
\* window is about yesterday's now.
DuplicatedDate(ctx, agency, base, selected, now) ==
    LET recorded == OneRow({f.date : f \in {x \in selected : x.trip = base}})
        row == GetTrip(ctx.db, base)
        near(since) == TripWindowOverlapsRange(row, since - RunningLate, since + RunningEarly)
        dateOf(days) ==
          IF recorded # Null /\ recorded # days[1].date THEN recorded
          ELSE IF row = Null THEN days[1].date
          ELSE IF near(days[2].since) THEN days[2].date ELSE days[1].date
    IN  dateOf(RouteZoneServiceDays(ctx, agency, now)[ZoneOf(ctx, agency)])

\* The entry of a run on one date, with its base trip's schedule when that is
\* in the feed; Null when a query fails.
DuplicatedEntryOn(ctx, agency, v, base, date, fetched, now) ==
    LET zone == Zones[ZoneOf(ctx, agency)]
        row == GetTrip(ctx.db, base)
        known == Preloaded(ctx, base, fetched)
        entry(schedule) ==
          [trip |-> CombinedID(agency, v.trip), date |-> date, zone |-> ZoneOf(ctx, agency),
           block |-> Null, active |-> base, schedule |-> schedule,
           status |-> StatusForEntry(ctx, fetched \cup {base}, agency, base, v, zone, date, now),
           frequency |-> FrequencyForEntry(ctx, zone, base, date, now),
           situations |-> IF row = Null THEN SituationsOfTrip(ctx, base)
                          ELSE SituationRefs(ctx, base, row.route, RouteAgency(ctx, row.route))]
        described(schedule) == IF row # Null /\ schedule = Null THEN Null ELSE entry(schedule)
    IN  IF Fails(ctx, "GetTrip") \/ (row = Null /\ Fails(known, "GetFrequenciesForTrip")) THEN Null
        ELSE described(BuildScheduleForTrip(known, agency, base, zone, date))

DuplicatedEntry(ctx, agency, v, selected, now) ==
    LET base == ResolveDuplicatedBaseTrip(ctx, v.trip)
    IN  DuplicatedEntryOn(ctx, agency, v, base, DuplicatedDate(ctx, agency, base, selected, now),
                          {f.trip : f \in selected}, now)

\* The entries of tripsForRouteHandler for the trips found. A route of which
\* nothing is in service has no duplicated runs either; any entry that fails
\* fails the request.
RouteEntries(ctx, route, agency, inService, found, now) ==
    LET fetched == {f.trip : f \in found}
        duplicated == GetDuplicatedVehiclesForRoute(ctx, route)
        queries == {"GetTripsByIDs", "GetRoutesByIDs", "GetFrequenciesForTrips"}
        all(entries) == IF Null \in entries THEN Null ELSE entries
    IN  IF found = Null THEN Null
        ELSE IF ~inService THEN {}
        ELSE IF found # {} /\ ctx.fails \cap queries # {} THEN Null
        ELSE all({TripEntry(ctx, route, agency, f, fetched, now) : f \in found}
                 \cup {DuplicatedEntry(ctx, agency, v, found, now) : v \in duplicated})

-----------------------------------------------------------------------------
(* The references. *)

\* Every trip an entry points at: its own, its neighbours in the block and
\* the one its vehicle is running.
TripIDsOfEntry(e) ==
    {e.trip}
    \cup (IF e.schedule = Null THEN {} ELSE {e.schedule.next, e.schedule.prev} \ {Null})
    \cup (IF e.status = Null THEN {} ELSE {e.status.active})

\* tripReferenceSets: trips and routes by their bare IDs, published under the
\* agency of the route; a trip whose route does not resolve is left out, and
\* a trip that was not fetched with the entries when its lookup fails.
BuildTripReferences(ctx, entries, fetched) ==
    LET noted == {id[2] : id \in UNION {TripIDsOfEntry(e) : e \in entries}}
        routeIDs(trips, stops) == {t.route : t \in trips} \cup {r[2] : r \in RoutesOfStops(stops)}
        with(trips, stops, routes) ==
          LET agency(route) == OneRow({r.agency : r \in {x \in routes : x.id = route}})
          IN  [agencies |-> {r.agency : r \in routes},
               routes |-> {RouteID(r) : r \in routes},
               stops |-> stops,
               trips |-> {[id |-> CombinedID(agency(t.route), t.id),
                           route |-> CombinedID(agency(t.route), t.route)] :
                            t \in {u \in trips : agency(u.route) # Null}},
               situations |-> UNION {e.situations : e \in entries}]
        of(trips, stops) ==
          with(trips, stops, IF Fails(ctx, "GetRoutesByIDs") THEN {}
                             ELSE GetRoutesByIDs(ctx.db, routeIDs(trips, stops)))
    IN  of(GetTripsByIDs(ctx.db, IF Fails(ctx, "MissingTrips") THEN fetched ELSE noted \cup fetched),
           StopReferences(ctx, StopIDsReferenced(ctx, entries)))

=============================================================================
