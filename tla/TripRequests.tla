----------------------------- MODULE TripRequests ---------------------------
(***************************************************************************)
(* Requests for the trips of a route (tripsForRouteHandler) and of an area *)
(* (tripsForLocationHandler) that are active now. A request selects its    *)
(* trips, and then describes them; a realtime snapshot may be published in *)
(* between. The state keeps what a request has read, its answer follows    *)
(* from that.                                                              *)
(***************************************************************************)
EXTENDS AreaTrips, RequestData

CONSTANTS Routes,     \* the routes asked for
          Areas,      \* the areas asked for, with or without the schedules of trips
          Failures,   \* the sets of queries that may fail together
          Times       \* the times of the requests

ASSUME RequestAssumption == Times \subseteq Int

\* A route that is not in the feed has an empty answer.
ASSUME QueryAssumption ==
    /\ Null \notin Areas
    /\ \A i \in DOMAIN Feeds : Routes \subseteq {r.id : r \in Databases[i].routes}

VARIABLES request,    \* [of, at, fails]: what is asked for and when, or Null
          selected,   \* the realtime snapshot its trips were selected from
          described   \* the one they were described from, Null before that

vars == <<feed, rt, request, selected, described>>

Context(snapshot) == [db |-> db, rt |-> snapshot, fails |-> request.fails]

Queries ==
    {[route |-> r, area |-> Null] : r \in Routes} \cup {[route |-> Null, area |-> a] : a \in Areas}

Select(of, at, fails) ==
    /\ request = Null
    /\ request' = [of |-> of, at |-> at, fails |-> fails]
    /\ selected' = rt
    /\ UNCHANGED <<feed, rt, described>>

Describe ==
    /\ request # Null
    /\ described = Null
    /\ described' = rt
    /\ UNCHANGED <<feed, rt, request, selected>>

Answer ==
    /\ described # Null
    /\ request' = Null
    /\ selected' = Null
    /\ described' = Null
    /\ UNCHANGED <<feed, rt>>

PublishRealtime ==
    /\ described = Null
    /\ \E snapshot \in Realtimes \ {rt} : rt' = snapshot
    /\ UNCHANGED <<feed, request, selected, described>>

Init ==
    /\ feed \in DOMAIN Feeds
    /\ rt = NoRealtime
    /\ request = Null
    /\ selected = Null
    /\ described = Null

Next ==
    \/ \E of \in Queries, at \in Times, fails \in Failures : Select(of, at, fails)
    \/ Describe
    \/ Answer
    \/ PublishRealtime

Spec == Init /\ [][Next]_vars

-----------------------------------------------------------------------------
(* The answer. *)

OfRoute == request # Null /\ (request # Null => request.of.area = Null)
OfArea == request # Null /\ ~OfRoute

Now == request.at
Agency == RouteAgency(Context(rt), request.of.route)
AreaQuery ==
    [area |-> request.of.area, schedule |-> request.of.area.schedule, status |-> TRUE, trips |-> TRUE]

FoundOnRoute == SelectTrips(Context(selected), request.of.route, Agency, Now)
FoundInArea == SelectTripsInArea(Context(selected), request.of.area, Now)

\* Something is in service on the route; otherwise it has no entries at all.
RouteRuns == SomeInService(RouteInService(Context(selected), request.of.route, Agency, Now))

\* The entries of the two handlers; Null is an error response.
Entries ==
    IF OfRoute
    THEN RouteEntries(Context(described), request.of.route, Agency, RouteRuns, FoundOnRoute, Now)
    ELSE AreaEntries(Context(described), AreaQuery, FoundInArea, Now)

\* The trips fetched for the entries need no second query.
ReferencesOf(ctx, entries) ==
    IF StopIDsReferenced(ctx, entries) # {} /\ Fails(ctx, "GetStopsByIDs") THEN Null
    ELSE IF OfRoute
    THEN BuildTripReferences(ctx, entries, {e.active : e \in entries} \cup {e.trip[2] : e \in entries})
    ELSE BuildReference(ctx, AreaQuery, entries)

-----------------------------------------------------------------------------
(* Correctness. *)

Selected == request # Null /\ described = Null
Undisturbed == request # Null /\ (request # Null => request.fails = {})

\* The days a trip may be on at a moment, by the clock of its agency.
AgencyZone(trip) == Zones[GetAgency(db, GetRoute(db, trip.route).agency).zone]

DaysOf(trip) ==
    LET day == FromInstant(AgencyZone(trip), Now)
    IN  {d \in {day - 1, day} : IsServiceActiveOnDate(db, trip.service, d)}

SinceStart(trip, d) == Now - Start(AgencyZone(trip), d)

UnderWay(trip) ==
    \E d \in DaysOf(trip) : InRange(SinceStart(trip, d), trip.minArrival, trip.maxDeparture)

BlocksOf(found) == {GetTrip(db, f.trip).block : f \in found}

\* A trip of the route that is under way, by the clock of its own agency, has
\* its block in the answer: none is lost over midnight, or because the other
\* trips of the block belong to an agency that keeps another clock.
TripsUnderWayFound(found) ==
    \A t \in db.trips : t.route = request.of.route /\ t.block # NoText /\ UnderWay(t)
                        => t.block \in BlocksOf(found)

\* The trips of a block on a day, by the calendar.
BlockOn(block, d) == {u \in GetTripsByBlockID(db, block) : IsServiceActiveOnDate(db, u.service, d)}

\* A day on which the clocks are not moved.
SteadyDay(zone, d) == SecondsSince(zone, Now, d) = Now - Start(zone, d)

\* So is a block of the route whose bus waits for a trip of the route where
\* its last one ended, unless trips of it overlap or go by different clocks.
InTurn(trips) ==
    \A t, u \in trips : t = u \/ t.maxDeparture <= u.minArrival \/ u.maxDeparture <= t.minArrival

WaitingFor(next, layover) ==
    /\ \A t \in GetTripsByBlockID(db, layover.block) : AgencyZone(t) = AgencyZone(next)
    /\ \E d \in DaysOf(next) : /\ SteadyDay(AgencyZone(next), d)
                              /\ InTurn(BlockOn(layover.block, d))
                              /\ InRange(SinceStart(next, d), layover.start, layover.end)

LayoversFound(found) ==
    \A l \in {x \in db.layovers : x.route = request.of.route} :
        WaitingFor(GetTrip(db, l.next), l) => l.block \in BlocksOf(found)

\* Every block of the route that is on the road is found.
AllBlocksFound(found) == found # Null => TripsUnderWayFound(found) /\ LayoversFound(found)
ActiveBlocksFound == OfRoute /\ Selected /\ Undisturbed => AllBlocksFound(FoundOnRoute)

\* A trip is reported only while its block is in service, on the day and by
\* the clock of the trip's own agency.
InService(f, trip) ==
    LET block == BlockOn(trip.block, f.date) \cup {trip}
    IN  /\ Zones[f.zone] = AgencyZone(trip)
        /\ f.date \in DaysOf(trip)
        /\ \E u \in block : u.minArrival <= SinceStart(trip, f.date) + RunningEarly
        /\ \E u \in block : u.maxDeparture >= SinceStart(trip, f.date) - RunningLate

AllInService(found) == found # Null => \A f \in found : InService(f, GetTrip(db, f.trip))
FoundTripsInService == OfRoute /\ Selected => AllInService(FoundOnRoute)

\* trips_helper.go: a trip is not selected and then classified as not running.
RunOnItsDay(trip, d) == trip # Null => IsServiceActiveOnDate(db, trip.service, d)
AllRunOnTheirDay(entries) ==
    entries # Null => \A e \in entries : RunOnItsDay(GetTrip(db, e.trip[2]), e.date)
AreaDatesRun == OfArea /\ described # Null => AllRunOnTheirDay(Entries)

\* A block is near one of its trips on every day that it is on the road.
NearItsTrips(trip) ==
    \A d \in {FromInstant(AgencyZone(trip), Now) - k : k \in 0..1} :
        LET trips == BlockOn(trip.block, d)
            since == SinceStart(trip, d)
        IN  /\ SteadyDay(AgencyZone(trip), d)
            /\ (\E t \in trips : t.minArrival <= since) /\ (\E t \in trips : since <= t.maxDeparture)
                 => \E t \in trips : InRange(since, t.minArrival - RunningEarly, t.maxDeparture + RunningLate)

\* Where all agencies keep one clock, a trip that its schedule puts into an
\* area is on a block that its route reports as well, unless the block is
\* long between two trips.
FoundByRoute(ctx, trip) ==
    trip.block \in BlocksOf(SelectTrips(ctx, trip.route, RouteAgency(ctx, trip.route), Now))

RoutesFind(ctx, trips) == \A t \in GetTripsByIDs(db, trips) : NearItsTrips(t) => FoundByRoute(ctx, t)

BySchedule(ctx, area, found) == IF found = Null THEN {} ELSE found \ ReportedInArea(ctx, area)

HandlersAgree ==
    OfArea /\ Selected /\ Undisturbed /\ Cardinality({a.zone : a \in db.agencies}) = 1 =>
        RoutesFind(Context(selected), BySchedule(Context(selected), request.of.area, FoundInArea))

\* Every stop that an entry names is among the references (reference_utils.go),
\* but for one that is not in the feed and that a vehicle names; so are the
\* stations it lies in, unless they cannot be read.
NamedByVehicle(ctx, stop) == \E v \in Range(ctx.rt.vehicles) : v.stop = stop

StopsResolve(ctx, entries, refs) ==
    /\ \A id \in StopIDsReferenced(ctx, entries) \ {s.id : s \in refs.stops} :
          GetStop(db, id[2]) = Null /\ NamedByVehicle(ctx, id[2])
    /\ ~Fails(ctx, "GetRoutesForStops") => ParentIDs(refs.stops) = {}

\* So is every trip that it names under the agency of the trip's route.
TripsResolve(ctx, entries, refs) ==
    LET named == (UNION {{e.trip}
                         \cup (IF e.schedule = Null THEN {} ELSE {e.schedule.next, e.schedule.prev})
                         \cup (IF e.status = Null THEN {} ELSE {e.status.active}) :
                           e \in entries}) \ {Null}
        own(id) == /\ GetTrip(db, id[2]) # Null
                   /\ GetRoute(db, GetTrip(db, id[2]).route).agency = id[1]
    IN  ~Fails(ctx, "MissingTrips") => {id \in named : own(id)} \subseteq {t.id : t \in refs.trips}

\* Every stop and trip an answer names is among its references.
ResolveIn(ctx, entries, refs) ==
    refs # Null => StopsResolve(ctx, entries, refs) /\ TripsResolve(ctx, entries, refs)
AnswerResolves(ctx, entries) ==
    entries # Null => ResolveIn(ctx, entries, ReferencesOf(ctx, entries))
ReferencesResolve == described # Null => AnswerResolves(Context(described), Entries)

\* A trip that stands at a stop of the area, by the calendar and the clock of
\* its own agency, and is the only one of its block to be on the road then.
StandsIn(area, trip, d) ==
    /\ SteadyDay(AgencyZone(trip), d)
    /\ {u \in BlockOn(trip.block, d) :
           InRange(SinceStart(trip, d), u.minArrival, u.maxDeparture)} = {trip}
    /\ \E v \in Range(GetStopTimesForTrip(db, trip.id)) :
           /\ GetStop(db, v.stop) # Null
           /\ InRange(GetStop(db, v.stop).at, area.from, area.to)
           /\ InRange(SinceStart(trip, d), v.arrival, v.departure)

\* No vehicle reports the trip from outside the area; one that reports no
\* position at all does not.
NotReportedElsewhere(trip, area) ==
    \A v \in Range(selected.vehicles) :
        v.trip = trip.id /\ v.at # Null => InRange(v.at, area.from, area.to)

\* A trip of a block that stands at a stop of the area is found there, before
\* and after midnight, also on a block of trips that go by several clocks, unless
\* its vehicle reports from elsewhere: neither a vehicle that reports no
\* position nor the vehicle of a block-mate takes it away
\* (trips_for_location_handler.go).
AtStopsFound(area, found) ==
    \A t \in {u \in db.trips : u.block # NoText} :
        (\E d \in DaysOf(t) : StandsIn(area, t, d)) /\ NotReportedElsewhere(t, area)
            => t.id \in found
TripsAtStopsFound ==
    OfArea /\ Selected /\ Undisturbed =>
        FoundInArea # Null /\ AtStopsFound(request.of.area, FoundInArea)

\* trips_for_route_handler.go: all active trips of a route are returned.
ActiveTripsReturned(found) ==
    \A t \in db.trips : t.route = request.of.route /\ UnderWay(t) => \E f \in found : f.trip = t.id
AllActiveTripsReturned == OfRoute /\ Selected /\ Undisturbed => ActiveTripsReturned(FoundOnRoute)

=============================================================================
