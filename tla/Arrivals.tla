------------------------------- MODULE Arrivals -----------------------------
(***************************************************************************)
(* The arrivals and departures at a stop: the visits that fall into a      *)
(* window around a moment, what is predicted of each, and the references   *)
(* they need (arrivals_core.go, arrival_and_departure_for_stop_handler.go).*)
(*                                                                         *)
(* A window is [at, before, after], a visit due in it [time, date, zone,   *)
(* stop]: a row of the stop times, the service day and the clock it is     *)
(* read by, and the ID of the stop in the response. A visit's seq is the   *)
(* number the feed gives it. Null is an error response.                    *)
(***************************************************************************)
EXTENDS RouteTrips

\* The visits of the trips that run on a service day, in the window.
StopTimesOn(ctx, stops, zone, d, window) ==
    LET from == window.at - window.before - Start(zone, d)
        to == window.at + window.after - Start(zone, d)
        active == GetActiveServiceIDsForDate(ctx.db, d)
    IN  IF to < 0 \/ Fails(ctx, "GetStopTimesForStopsInWindow") THEN {}
        ELSE {st \in GetStopTimesForStopsInWindow(ctx.db, stops, from, to) :
                GetTrip(ctx.db, st.trip).service \in active}

\* Fault: no day is looked at after the one whose services cannot be read.
DaysToVisitUntilFailure(ctx) == IF Fails(ctx, "SpilloverServiceIDs") THEN {} ELSE {-1, 0, 1}

\* The days around the query day; only the services of that day are a must.
DaysToVisit(ctx) == IF Fails(ctx, "SpilloverServiceIDs") THEN {0} ELSE {-1, 0, 1}

-----------------------------------------------------------------------------
(* The visits of one stop, each by the clock of its agency. *)

\* discoverStopAgencies: the names of the zones of the agencies that serve
\* the stop, the one it was asked for under included.
DiscoverStopAgencies(ctx, stop, agency) ==
    LET serving == {r.agency : r \in GetRoutesForStop(ctx.db, stop)} \cup {agency}
        zones == [a \in serving |-> ZoneOf(ctx, a)]
    IN  IF \/ Fails(ctx, "GetRoutesForStop")
           \/ serving # {agency} /\ Fails(ctx, "GetAgency")
           \/ ~(Range(zones) \subseteq DOMAIN Zones)
        THEN Null ELSE zones

\* Fault: every agency by the clock of the one asked for.
StopTimesForGroupOneClock(ctx, stop, agency, zones, zone, offset, window) ==
    LET clock == Zones[zones[agency]]
        d == DateOf(clock, window.at) + offset
        group == {a \in DOMAIN zones : zones[a] = zone}
    IN  {[time |-> st, date |-> d, zone |-> clock, stop |-> CombinedID(agency, stop)] :
            st \in {x \in StopTimesOn(ctx, {stop}, clock, d, window) :
                      RouteAgency(ctx, GetTrip(ctx.db, x.trip).route) \in group}}

\* stopTimesForGroupServiceDay: the routes of the agencies that keep a zone,
\* by the date and the clock of the zone.
StopTimesForGroup(ctx, stop, agency, zones, zone, offset, window) ==
    LET d == DateOf(Zones[zone], window.at) + offset
        group == {a \in DOMAIN zones : zones[a] = zone}
    IN  {[time |-> st, date |-> d, zone |-> Zones[zone], stop |-> CombinedID(agency, stop)] :
            st \in {x \in StopTimesOn(ctx, {stop}, Zones[zone], d, window) :
                      RouteAgency(ctx, GetTrip(ctx.db, x.trip).route) \in group}}

\* activeStopTimesForWindow
ActiveStopTimesForWindow(ctx, stop, agency, window) ==
    LET zones == DiscoverStopAgencies(ctx, stop, agency)
    IN  IF zones = Null \/ Fails(ctx, "GetActiveServiceIDsForDate") THEN Null
        ELSE UNION {UNION {StopTimesForGroup(ctx, stop, agency, zones, zone, offset, window) :
                             offset \in DaysToVisit(ctx)} : zone \in Range(zones)}

-----------------------------------------------------------------------------
(* The visits of several stops, each stop by the clock of one agency. *)

UTC == [change |-> 0, before |-> 0, after |-> 0]

\* The first agency to serve each stop, and the one that serves the most.
AgenciesForStops(db, stops) ==
    LET rows == GetAgenciesForStops(db, stops)
        served(a) == Cardinality({p \in rows : p[1].id = a})
        agencies == {p[1].id : p \in rows}
        most == {a \in agencies : \A b \in agencies : served(b) <= served(a)}
    IN  [of |-> [s \in {p[2] : p \in rows} |-> Min({p[1].id : p \in {x \in rows : x[2] = s}})],
         fallback |-> IF agencies = {} THEN NoText ELSE Min(most)]

AgencyIDFor(index, stop) == IF stop \in DOMAIN index.of THEN index.of[stop] ELSE index.fallback

LocationFor(ctx, index, stop) ==
    LET row == GetAgency(ctx.db, AgencyIDFor(index, stop))
    IN  IF row = Null THEN UTC ELSE IF row.zone \in DOMAIN Zones THEN Zones[row.zone] ELSE UTC

\* One stop's visits on one of the days, by its agency's clock.
BatchedOn(ctx, index, window, s, offset) ==
    LET zone == LocationFor(ctx, index, s) d == DateOf(zone, window.at) + offset
    IN  {[time |-> st, date |-> d, zone |-> zone, stop |-> CombinedID(AgencyIDFor(index, s), s)] :
            st \in StopTimesOn(ctx, {s}, zone, d, window)}

\* Fault: the day before is not looked at.
BatchedStopTimesFromToday(ctx, stops, index, window) ==
    UNION {BatchedOn(ctx, index, window, p[1], p[2]) : p \in stops \X (DaysToVisit(ctx) \ {-1})}

\* loadBatchedStopTimes: whatever agency a visit's route belongs to.
BatchedStopTimes(ctx, stops, index, window) ==
    UNION {BatchedOn(ctx, index, window, p[1], p[2]) : p \in stops \X DaysToVisit(ctx)}

-----------------------------------------------------------------------------
(* Predictions. *)

\* What an event says of a scheduled time: by how much it is off.
EventOffset(event, scheduled) ==
    IF event = Null THEN Null
    ELSE IF event.time # Null THEN event.time - scheduled ELSE event.delay

\* The delay of the last visit before this one that the update names.
PropagatedDelay(stops, seq) ==
    LET prior == {i \in DOMAIN stops : stops[i].seq # Null /\ stops[i].seq < seq}
        closest == Min({i \in prior : \A j \in prior : stops[j].seq <= stops[i].seq})
        delay(e) == IF e = Null THEN Null ELSE e.delay
        su == stops[closest]
    IN  IF prior = {} THEN Null
        ELSE IF delay(su.dep) # Null THEN delay(su.dep)
        ELSE IF delay(su.arr) # Null THEN delay(su.arr) ELSE 0

\* Fault: any update about the stop will do.
TargetUpdateOfStop(stops, times, stop, seq) ==
    LET named == {i \in DOMAIN stops : stops[i].seq = seq /\ stops[i].stop \in {Null, stop}}
        byStop == {i \in DOMAIN stops : stops[i].stop = stop}
    IN  IF named # {} THEN stops[Min(named)] ELSE IF byStop # {} THEN stops[Min(byStop)] ELSE Null

\* The update about this visit: by its sequence, else by its stop where the
\* sequence does not name another visit.
TargetUpdate(stops, times, stop, seq) ==
    LET named == {i \in DOMAIN stops : stops[i].seq = seq /\ stops[i].stop \in {Null, stop}}
        byStop == {i \in DOMAIN stops : /\ stops[i].stop = stop
                                        /\ ~SequenceIdentifiesVisit(stops[i], times)}
    IN  IF named # {} THEN stops[Min(named)] ELSE IF byStop # {} THEN stops[Min(byStop)] ELSE Null

\* getPredictedTimes; Null without a prediction.
GetPredictedTimes(ctx, st, arrival, departure) ==
    LET u == GetTripUpdate(ctx, st.trip)
        times == IF Fails(ctx, "GetStopTimesForTrip") THEN <<>> ELSE GetStopTimesForTrip(ctx.db, st.trip)
        target == IF u = Null THEN Null ELSE TargetUpdate(u.stops, times, st.stop, st.seq)
        propagated == IF u = Null THEN Null ELSE PropagatedDelay(u.stops, st.seq)
        arr == IF target = Null THEN Null ELSE EventOffset(target.arr, arrival)
        dep == IF target = Null THEN Null ELSE EventOffset(target.dep, departure)
        general == IF propagated # Null THEN propagated
                   ELSE IF target # Null THEN 0 ELSE IF u = Null THEN Null ELSE u.delay
        offset(own, other) == IF own # Null THEN own ELSE IF other # Null THEN other ELSE general
    IN  IF general = Null THEN Null
        ELSE [arrival |-> arrival + offset(arr, dep), departure |-> departure + offset(dep, arr)]

-----------------------------------------------------------------------------
(* One arrival. *)

\* combinedVehicleID
CombinedVehicleID(v, agency) ==
    IF v = Null THEN Null ELSE IF v.trip = NoText THEN Null ELSE CombinedID(agency, v.id)

\* batchArrivalEntities; without any one of these no arrival is built.
EntitiesFail(ctx) == ctx.fails \cap {"GetRoutesByIDs", "GetTripsByIDs", "GetFrequenciesForTrips"} # {}

\* tripStatusForArrival: the vehicle is looked up again when none was found;
\* the frequencies of the trips listed have been fetched. When another query
\* for them fails, what is known so far is the status.
ArrivalStatus(ctx, agency, due, v, listed, now) ==
    LET trip == due.time.trip
        vehicle == IF v = Null THEN GetVehicleForTrip(ctx, trip) ELSE v
    IN  EntryStatus(ctx, listed, agency, trip, vehicle, due.zone, due.date, now)

\* The response's row of a visit, with the status of its trip, its number
\* and that of the trip's visits.
NewArrivalAndDeparture(ctx, due, route, v, predicted, status, now, sequence, total) ==
    LET st == due.time
        start == Start(due.zone, due.date)
    IN  [route |-> RouteID(route), trip |-> CombinedID(route.agency, st.trip), stop |-> due.stop,
         vehicle |-> CombinedVehicleID(v, route.agency), date |-> due.date,
         arrival |-> start + st.arrival, departure |-> start + st.departure,
         predicted |-> predicted, status |-> status,
         away |-> IF status.snapshot = Null THEN Null
                  ELSE MetricsForStop(status.snapshot, st.trip, st.seq),
         frequency |-> FrequencyForEntry(ctx, due.zone, st.trip, due.date, now),
         situations |-> status.situations, stopSequence |-> sequence, totalStops |-> total]

PredictedTimes(ctx, due) ==
    LET start == Start(due.zone, due.date)
    IN  GetPredictedTimes(ctx, due.time, start + due.time.arrival, start + due.time.departure)

\* The prediction is made from one realtime snapshot, the status after it
\* from that or a later one.
BuildArrival(ctx, later, due, listed, now) ==
    LET st == due.time
        route == GetRoute(ctx.db, GetTrip(ctx.db, st.trip).route)
        total == IF Fails(ctx, "GetStopTimesForTripIDs") THEN 0
                 ELSE Len(GetStopTimesForTrip(ctx.db, st.trip))
    IN  NewArrivalAndDeparture(ctx, due, route, GetVehicleForTrip(ctx, st.trip),
            PredictedTimes(ctx, due), ArrivalStatus(later, route.agency, due,
                GetVehicleForTrip(ctx, st.trip), listed, now), now, st.seq - 1, total)

\* A route-type filter that is empty accepts every route.
IsRouteTypeAllowed(type, types) == types = {} \/ type \in types

BuildArrivals(ctx, later, due, types, now) ==
    LET listed == {v.time.trip : v \in due}
    IN  {BuildArrival(ctx, later, v, listed, now) :
           v \in {x \in due : IsRouteTypeAllowed(
                    GetRoute(ctx.db, GetTrip(ctx.db, x.time.trip).route).type, types)}}

\* compareBestArrival: by the predicted arrival, else the scheduled one; what
\* is still equal stays in the order of its days.
BestArrival(a) == IF a.predicted # Null THEN a.predicted.arrival ELSE a.arrival

BestBefore(a, b) ==
    LET key(x) == <<BestArrival(x), x.trip[1], x.trip[2], x.stopSequence, x.date>>
    IN  \E i \in 1..5 : key(a)[i] < key(b)[i] /\ \A j \in 1..i - 1 : key(a)[j] = key(b)[j]

\* arrivalsForStop, sorted
ArrivalsForStop(ctx, later, stop, agency, window) ==
    LET of(due) == IF due = Null \/ (due # {} /\ EntitiesFail(ctx)) THEN Null
                   ELSE BuildArrivals(ctx, later, due, {}, window.at)
        sorted(arrivals) == IF arrivals = Null THEN Null ELSE SortedBy(arrivals, BestBefore)
    IN  sorted(of(ActiveStopTimesForWindow(ctx, stop, agency, window)))

-----------------------------------------------------------------------------
(* The references of arrivals. *)

StatusStops(status) == {status.next.stop, status.closest.stop} \ {NoText}

\* The trip a vehicle has been assigned to in place of the one scheduled.
ReassignedTrips(ctx, a) ==
    IF Fails(ctx, "GetTrip") THEN {}
    ELSE ({a.status.active[2]} \cap {t.id : t \in ctx.db.trips}) \ {a.trip[2]}

\* arrivalsAccumulator, and retainedAccumulator of the arrivals retained.
Accumulated(ctx, arrivals, stops) ==
    [trips |-> {a.trip[2] : a \in arrivals} \cup UNION {ReassignedTrips(ctx, a) : a \in arrivals},
     routes |-> {a.route[2] : a \in arrivals},
     stops |-> stops \cup UNION {StatusStops(a.status) : a \in arrivals},
     situations |-> UNION {a.situations : a \in arrivals}]

\* arrivalsReferencesInput where every stop goes by one agency.
UnderOneAgency(agency) == [of |-> <<>>, fallback |-> agency]

\* appendStopReferences: a stop under its agency by the index, with its
\* parents unless they cannot be read.
StopReferencesUnder(ctx, index, ids) ==
    LET routes(s) == IF Fails(ctx, "GetRoutesForStops") THEN {} ELSE RouteIDsOfStop(ctx.db, s.id)
        stops == IF Fails(ctx, "GetStopsByIDs") THEN {}
                 ELSE {BuildStopModel(AgencyIDFor(index, s.id), s, routes(s)) :
                         s \in GetStopsByIDs(ctx.db, ids)}
    IN  IF ParentsFail(ctx, stops) THEN stops ELSE stops \cup MissingParentStops(ctx, stops)

\* Trips and routes under the agency of the route.
TripReferences(ctx, trips, known) ==
    {[id |-> CombinedID(RouteAgency(ctx, t.route), t.id), route |-> CombinedID(RouteAgency(ctx, t.route), t.route)] :
       t \in {u \in GetTripsByIDs(ctx.db, trips) : u.route \in known \/ ~Fails(ctx, "GetRoute")}}

\* buildArrivalsReferences
BuildArrivalsReferences(ctx, index, primary, acc) ==
    LET stops == StopReferencesUnder(ctx, index, acc.stops)
        trips == TripReferences(ctx, acc.trips, acc.routes)
        routes == {RouteID(r) : r \in GetRoutesByIDs(ctx.db, acc.routes)}
                  \cup {t.route : t \in trips} \cup RoutesOfStops(stops)
    IN  [agencies |-> primary \cup (IF Fails(ctx, "GetAgency") THEN {} ELSE {r[1] : r \in routes}),
         routes |-> routes, stops |-> stops, trips |-> trips, situations |-> acc.situations]

-----------------------------------------------------------------------------
(* A single arrival: a visit of one trip on one service day. *)

\* findStopTimeByPosition: of the visits of the stop the one nearest to a
\* position counted from 0, the earlier of two.
FindStopTimeByPosition(times, stop, index) ==
    LET at == {i \in DOMAIN times : times[i].stop = stop}
        wanted == Min({index + 1, Len(times)})
    IN  OneRow({i \in at : \A j \in at : \/ Distance(i, wanted) < Distance(j, wanted)
                                         \/ Distance(i, wanted) = Distance(j, wanted) /\ i <= j})

\* findClosestStopTime: the one nearest in time.
FindClosestStopTime(times, stop, offset) ==
    LET at == {i \in DOMAIN times : times[i].stop = stop}
        away(i) == Min({Distance(offset, times[i].arrival), Distance(offset, times[i].departure)})
    IN  OneRow({i \in at : \A j \in at : away(i) < away(j) \/ (away(i) = away(j) /\ i <= j)})

FindStopTimeForTripStop(times, stop, index, offset) ==
    IF index = Null THEN FindClosestStopTime(times, stop, offset)
    ELSE IF index < 0 THEN FindClosestStopTime(times, stop, offset)
    ELSE FindStopTimeByPosition(times, stop, index)

\* Fault: the date and the times by the clock of the stop's agency.
SingleClockOfStop(ctx, agency, trip) == ZoneOf(ctx, agency)

\* The clock of the trip's agency, where it is not the stop's.
SingleClock(ctx, agency, trip) == ZoneOf(ctx, RouteAgency(ctx, GetTrip(ctx.db, trip).route))

\* The agency that a stop is asked for under and that of the trip's route have
\* rows with zones that can be loaded.
ClocksFound(ctx, agency, trip) ==
    \A a \in {agency, RouteAgency(ctx, GetTrip(ctx.db, trip).route)} :
        GetAgency(ctx.db, a) # Null /\ ZoneOf(ctx, a) \in DOMAIN Zones

\* The vehicle named, when it is on the trip, else the trip's.
VehicleAsked(ctx, q) ==
    IF q.vehicle = Null THEN GetVehicleForTrip(ctx, q.trip)
    ELSE OneRow({v \in Range(ctx.rt.vehicles) : v.id = q.vehicle /\ v.trip = q.trip})

\* Its visit.
SingleArrival(ctx, q, route, times, i, d, zone) ==
    LET due == [time |-> times[i], date |-> d, zone |-> zone, stop |-> CombinedID(q.agency, q.stop)]
        status == ArrivalStatus(ctx, route.agency, due, Null, {q.trip}, q.at)
    IN  IF i = Null THEN Null
        ELSE NewArrivalAndDeparture(ctx, due, route, VehicleAsked(ctx, q), PredictedTimes(ctx, due),
                                    status, q.at, i - 1, Len(times))

\* arrivalAndDepartureForStopHandler, for [stop, agency, trip, day, index, vehicle, at]
ArrivalAndDepartureForStop(ctx, q) ==
    LET row == GetTrip(ctx.db, q.trip)
        zone == Zones[SingleClock(ctx, q.agency, q.trip)]
        d == FromInstant(zone, q.day)
        times == GetStopTimesForTrip(ctx.db, q.trip)
        queries == {"GetStop", "GetAgency", "GetTrip", "GetRoute", "GetStopTimesForTrip", "GetFrequenciesForTrip"}
    IN  IF ctx.fails \cap queries # {} \/ GetStop(ctx.db, q.stop) = Null \/ row = Null THEN Null
        ELSE IF ~ClocksFound(ctx, q.agency, q.trip) THEN Null
        ELSE SingleArrival(ctx, q, GetRoute(ctx.db, row.route), times,
                 FindStopTimeForTripStop(times, q.stop, q.index, q.at - Start(zone, d)), d, zone)

\* Its references: every stop under the agency of the stop asked for.
ArrivalReferences(ctx, q, a) ==
    LET trips == {q.trip} \cup ReassignedTrips(ctx, a)
        stops == StopReferencesUnder(ctx, UnderOneAgency(q.agency), {q.stop} \cup StatusStops(a.status))
    IN  [agencies |-> {q.agency, a.route[1]}, routes |-> RoutesOfStops(stops), stops |-> stops,
         trips |-> TripReferences(ctx, trips, {}), situations |-> a.situations]

=============================================================================
