--------------------------- MODULE ArrivalHandlers ---------------------------
(***************************************************************************)
(* The answers of the two endpoints that list arrivals: of one stop        *)
(* (arrivals_and_departures_for_stop_handler.go) and of all the stops in   *)
(* an area (arrivals_and_departures_for_location_handler.go).              *)
(*                                                                         *)
(* ctx is what the predictions are made from, later what the statuses are. *)
(* An answer is [stops, arrivals, nearby, situations, limitExceeded,       *)
(* refs]; Null is an error response.                                       *)
(***************************************************************************)
EXTENDS Arrivals

CONSTANT NearBox  \* a stop within this distance of another is nearby

GetAlertsForStop(ctx, stop) == {a \in ctx.rt.alerts : <<"stop", stop>> \in a.informed}

StopSituations(ctx, stop, agency) ==
    {SituationID(a, agency) : a \in GetAlertsForStop(ctx, stop)}

Envelope(stops, agencies) ==
    [stops |-> stops, arrivals |-> <<>>, nearby |-> <<>>, situations |-> {},
     limitExceeded |-> FALSE, refs |-> [NoReferences EXCEPT !.agencies = agencies]]

-----------------------------------------------------------------------------
(* One stop. *)

\* getNearbyStopIDs: each stop under the first agency that serves it.
NearbyStopIDs(ctx, stop, agency) ==
    LET at == GetStop(ctx.db, stop).at
        near == GetActiveStopsWithinBounds(ctx.db, [from |-> at - NearBox, to |-> at + NearBox])
        ids == {s.id : s \in near} \ {stop}
        index == [AgenciesForStops(ctx.db, ids) EXCEPT !.fallback = agency]
        of(s) == IF Fails(ctx, "GetAgenciesForStops") THEN agency ELSE AgencyIDFor(index, s)
    IN  IF Fails(ctx, "GetStopIDsWithinBounds") THEN <<>>
        ELSE SortedBy({CombinedID(of(s), s) : s \in ids}, LAMBDA a, b : a[2] < b[2])

\* The answer when something is due.
AnswerForStop(ctx, later, stop, agency, arrivals, acc) ==
    LET situations == acc.situations \cup StopSituations(later, stop, agency)
        refs == BuildArrivalsReferences(ctx, UnderOneAgency(agency), {agency},
                                        [acc EXCEPT !.situations = situations])
    IN  [stops |-> <<CombinedID(agency, stop)>>, arrivals |-> arrivals,
         nearby |-> NearbyStopIDs(ctx, stop, agency), situations |-> situations,
         limitExceeded |-> FALSE, refs |-> refs]

\* arrivalsAndDeparturesForStopHandler: a stop with nothing due in the window
\* is answered without looking at its alerts and its neighbours.
ArrivalsAndDeparturesForStop(ctx, later, stop, agency, window) ==
    LET due == ActiveStopTimesForWindow(ctx, stop, agency, window)
        answer(arrivals) ==
          IF arrivals = Null THEN Null
          ELSE IF due = {} THEN Envelope(<<CombinedID(agency, stop)>>, {agency})
          ELSE AnswerForStop(ctx, later, stop, agency, arrivals,
                             Accumulated(ctx, Range(arrivals), {stop}))
    IN  IF \/ ctx.fails \cap {"GetStop", "GetAgency"} # {}
           \/ GetStop(ctx.db, stop) = Null \/ GetAgency(ctx.db, agency) = Null
        THEN Null
        ELSE IF ~(ZoneOf(ctx, agency) \in DOMAIN Zones) THEN Null
        ELSE answer(ArrivalsForStop(ctx, later, stop, agency, window))

-----------------------------------------------------------------------------
(* The stops in an area. *)

FromCentre(area, s) == Distance(2 * s.at, area.from + area.to)

\* sortStopsByDistance
StopsByDistance(area, stops) ==
    SortedBy(stops, LAMBDA s, t :
        \/ FromCentre(area, s) < FromCentre(area, t)
        \/ FromCentre(area, s) = FromCentre(area, t) /\ s.id < t.id)

\* sortArrivalsByStopDistance
ArrivalsByStopDistance(ctx, area, arrivals) ==
    LET away(a) == FromCentre(area, GetStop(ctx.db, a.stop[2]))
    IN  SortedBy(arrivals, LAMBDA a, b :
            away(a) < away(b) \/ (away(a) = away(b) /\ BestBefore(a, b)))

\* arrivalsForStops; Null when a query fails whose failure is not passed over.
ArrivalsForStops(ctx, later, stops, index, types, window) ==
    LET due == BatchedStopTimes(ctx, stops, index, window)
    IN  IF Fails(ctx, "GetActiveServiceIDsForDate") THEN Null
        ELSE IF due # {} /\ EntitiesFail(ctx) THEN Null
        ELSE BuildArrivals(ctx, later, due, types, window.at)

\* The stops around those in the area, not counting a stop as its own
\* neighbour.
NearbyCandidates(ctx, area, stops) ==
    {c \in GetActiveStopsWithinBounds(ctx.db, [from |-> area.from - NearBox, to |-> area.to + NearBox]) :
        \E s \in stops : s.id # c.id /\ Distance(s.at, c.at) <= NearBox}

\* What f says, and what g says where f says nothing.
Extended(f, g) == [x \in DOMAIN f \cup DOMAIN g |-> IF x \in DOMAIN f THEN f[x] ELSE g[x]]

\* The candidates are looked up under their own agencies as well.
WithNearby(ctx, index, ids) ==
    [index EXCEPT !.of = Extended(@, AgenciesForStops(ctx.db, ids).of)]

\* The services that run on the day it is by a stop's own clock, and the
\* routes that serve the stop on it.
ServicesAt(ctx, index, stop, now) ==
    GetActiveServiceIDsForDate(ctx.db, DateOf(LocationFor(ctx, index, stop), now))

RoutesRunningAt(ctx, index, stop, now) ==
    {p[1] : p \in GetActiveRouteIDsForStopsOnDate(ctx.db, {stop}, ServicesAt(ctx, index, stop, now))}

\* A query for the stops around fails: for the routes of a day only where
\* services run on it, for the types of routes only when they matter.
NearbyFail(ctx, q, ids, around) ==
    LET running == \E s \in ids : ServicesAt(ctx, around, s, q.window.at) # {}
        queries == {"GetAgenciesForStops", "GetStopsByIDs", "GetActiveServiceIDsForDate"}
                   \cup (IF running THEN {"GetActiveRouteIDsForStopsOnDate"} ELSE {})
                   \cup (IF q.types # {} THEN {"GetRoutesForStops"} ELSE {})
    IN  ids # {} /\ ctx.fails \cap queries # {}

\* nearbyStopsForLocation: where one route both runs and is of a type asked
\* for, nearest first.
NearbyStops(ctx, q, stops, index) ==
    LET ids == {s.id : s \in NearbyCandidates(ctx, q.area, stops)}
        around == WithNearby(ctx, index, ids)
        serves(s) == \E r \in RoutesRunningAt(ctx, around, s, q.window.at) :
                        IsRouteTypeAllowed(GetRoute(ctx.db, r[2]).type, q.types)
        found == {[id |-> CombinedID(AgencyIDFor(around, s.id), s.id), away |-> FromCentre(q.area, s)] :
                    s \in {x \in GetStopsByIDs(ctx.db, ids) : serves(x.id)}}
    IN  IF NearbyFail(ctx, q, ids, around) THEN Null
        ELSE SortedBy(found, LAMBDA a, b :
                a.away < b.away \/ (a.away = b.away /\ a.id[1] < b.id[1])
                \/ (a.away = b.away /\ a.id[1] = b.id[1] /\ a.id[2] < b.id[2]))

\* Fault: the arrivals' own stops and trips' statuses are not a source.
RetainedAccumulatorOfLists(acc, arrivals, stops) ==
    [trips |-> acc.trips \cap {a.trip[2] : a \in arrivals},
     routes |-> acc.routes \cap {a.route[2] : a \in arrivals},
     stops |-> stops, situations |-> acc.situations]

\* retainedAccumulator: of what was noted, what the lists still name.
RetainedAccumulator(acc, arrivals, stops) ==
    [trips |-> acc.trips \cap ({a.trip[2] : a \in arrivals} \cup {a.status.active[2] : a \in arrivals}),
     routes |-> acc.routes \cap {a.route[2] : a \in arrivals},
     stops |-> stops \cup {a.stop[2] : a \in arrivals}
               \cup UNION {StatusStops(a.status) : a \in arrivals},
     situations |-> acc.situations]

Truncated(list, max) == SubSeq(list, 1, Min({Len(list), max}))

\* Each list is cut by itself.
Lists(ctx, q, index, inArea, arrivals, nearby) ==
    LET sorted == StopsByDistance(q.area, inArea)
    IN  [stops |-> Truncated([i \in DOMAIN sorted |->
                                 CombinedID(AgencyIDFor(index, sorted[i].id), sorted[i].id)], q.max),
         arrivals |-> Truncated(ArrivalsByStopDistance(ctx, q.area, arrivals), q.max),
         nearby |-> Truncated(nearby, q.max),
         exceeded |-> \E l \in {Cardinality(inArea), Cardinality(arrivals), Len(nearby)} : l > q.max]

\* The references of what the lists still name. The index has all that was
\* looked up for the stops around, also for those the lists do not name: a
\* stop is under one agency wherever the answer names it.
ReferencesOfLists(ctx, lists, around, noted) ==
    BuildArrivalsReferences(ctx, around, {},
        RetainedAccumulator(noted, Range(lists.arrivals),
            {s[2] : s \in Range(lists.stops)} \cup {n.id[2] : n \in Range(lists.nearby)}))

AnswerOfLists(ctx, lists, around, noted) ==
    [stops |-> lists.stops, arrivals |-> lists.arrivals, nearby |-> lists.nearby,
     situations |-> noted.situations, limitExceeded |-> lists.exceeded,
     refs |-> ReferencesOfLists(ctx, lists, around, noted)]

\* The alerts of the stops are looked at only when something is due.
WithStopSituations(ctx, later, acc, index, ids, due) ==
    [acc EXCEPT !.situations = @ \cup
        IF due = {} THEN {} ELSE UNION {StopSituations(later, s, AgencyIDFor(index, s)) : s \in ids}]

\* arrivalsAndDeparturesForLocationHandler, for [area, types, max, window]
ArrivalsAndDeparturesForLocation(ctx, later, q) ==
    LET inArea == GetActiveStopsWithinBounds(ctx.db, q.area)
        ids == {s.id : s \in inArea}
        index == AgenciesForStops(ctx.db, ids)
        around == WithNearby(ctx, index, {s.id : s \in NearbyCandidates(ctx, q.area, inArea)})
        answer(arrivals, nearby) ==
          IF arrivals = Null \/ nearby = Null THEN Null
          ELSE AnswerOfLists(ctx, Lists(ctx, q, index, inArea, arrivals, nearby), around,
                   WithStopSituations(ctx, later, Accumulated(ctx, arrivals, ids), index, ids,
                                      BatchedStopTimes(ctx, ids, index, q.window)))
    IN  IF Fails(ctx, "GetActiveStopsWithinBounds") THEN Null
        ELSE IF inArea = {} THEN Envelope(<<>>, {})
        ELSE IF Fails(ctx, "GetAgenciesForStops") THEN Null
        ELSE answer(ArrivalsForStops(ctx, later, ids, index, q.types, q.window),
                    NearbyStops(ctx, q, inArea, index))

=============================================================================
