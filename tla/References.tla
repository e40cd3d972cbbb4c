----------------------------- MODULE References -----------------------------
(***************************************************************************)
(* The references block of a response: the stops, routes, agencies, trips  *)
(* and situations that the IDs of its entries name (reference_utils.go).   *)
(*                                                                         *)
(* refs = [agencies, routes, stops, trips, situations]. A stop reference   *)
(* is [id, parent, routes], a trip reference [id, route], an agency its    *)
(* ID, a route and a situation the combined ID it is emitted under. Null   *)
(* is the result of a helper that returns an error.                        *)
(***************************************************************************)
EXTENDS TripStatus

NoReferences ==
    [agencies |-> {}, routes |-> {}, stops |-> {}, trips |-> {}, situations |-> {}]

RouteID(r) == CombinedID(r.agency, r.id)

-----------------------------------------------------------------------------
(* Stops and the stations they belong to. *)

ParentStationID(agency, s) == IF s.parent = NoText THEN Null ELSE CombinedID(agency, s.parent)

\* A stop under the agency it was referred to by, with the routes that serve
\* it under their own.
BuildStopModel(agency, s, routes) ==
    [id |-> CombinedID(agency, s.id), parent |-> ParentStationID(agency, s), routes |-> routes]

RouteIDsOfStop(db, stop) == {RouteID(r) : r \in GetRoutesForStop(db, stop)}

StopModelsByIDs(ctx, agency, ids) ==
    IF ids # {} /\ ctx.fails \cap {"GetStopsByIDs", "GetRoutesForStops"} # {} THEN Null
    ELSE {BuildStopModel(agency, s, RouteIDsOfStop(ctx.db, s.id)) : s \in GetStopsByIDs(ctx.db, ids)}

\* Parents that are named and not there.
ParentIDs(stops) == {s.parent : s \in stops} \ ({Null} \cup {s.id : s \in stops})

WithParents(db, stops) ==
    stops \cup {BuildStopModel(p[1], GetStop(db, p[2]), RouteIDsOfStop(db, p[2])) :
                  p \in {x \in ParentIDs(stops) : GetStop(db, x[2]) # Null}}

\* Fault: parents of parents are not looked for.
MissingParentStopsOnce(ctx, stops) == WithParents(ctx.db, stops) \ stops

\* Level by level, up to the stations without a parent.
MissingParentStops(ctx, stops) ==
    LET level[n \in 0..Cardinality(ctx.db.stops)] ==
          IF n = 0 THEN stops ELSE WithParents(ctx.db, level[n - 1])
    IN  level[Cardinality(ctx.db.stops)] \ stops

\* Parents are needed and cannot be read.
ParentsFail(ctx, stops) ==
    ParentIDs(stops) # {} /\ ctx.fails \cap {"GetStopsByIDs", "GetRoutesForStops"} # {}

\* stopReferences: one stop under every ID that entries refer to it by. The
\* routes, or the parents, are left out when they cannot be read.
StopReferences(ctx, ids) ==
    LET routes(stop) == IF Fails(ctx, "GetRouteIDsForStops") THEN {} ELSE RouteIDsOfStop(ctx.db, stop)
        stops == {BuildStopModel(id[1], GetStop(ctx.db, id[2]), routes(id[2])) :
                    id \in {x \in ids : GetStop(ctx.db, x[2]) # Null}}
    IN  IF ParentsFail(ctx, stops) THEN stops ELSE stops \cup MissingParentStops(ctx, stops)

\* BuildStopReferencesAndRouteIDsForStops
BuildStopReferences(ctx, agency, ids) ==
    LET stops == StopModelsByIDs(ctx, agency, ids)
    IN  IF stops = Null THEN Null ELSE IF ParentsFail(ctx, stops) THEN Null
        ELSE stops \cup MissingParentStops(ctx, stops)

RoutesOfStops(stops) == UNION {s.routes : s \in stops}

-----------------------------------------------------------------------------
(* Routes and agencies. *)

\* BuildRouteReferences: a route is a reference under its own agency only.
BuildRouteReferences(ctx, stops) ==
    LET expected == RoutesOfStops(stops)
    IN  IF expected # {} /\ Fails(ctx, "GetRoutesByIDs") THEN Null
        ELSE {RouteID(r) : r \in GetRoutesByIDs(ctx.db, {id[2] : id \in expected})} \cap expected

\* appendRouteAgencyReference: only an agency other than the request's.
AgencyOfRoute(ctx, route, requestAgency) ==
    IF route[1] = requestAgency \/ Fails(ctx, "GetAgency") \/ GetAgency(ctx.db, route[1]) = Null
    THEN {} ELSE {route[1]}

\* appendTripRouteReferences: a route that is gone costs its reference.
AppendTripRouteReferences(ctx, refs, requestAgency) ==
    LET missing == {t.route : t \in refs.trips} \ (refs.routes \cup {Null})
        found == {RouteID(GetRoute(ctx.db, id[2])) :
                    id \in {x \in missing : GetRoute(ctx.db, x[2]) # Null}}
    IN  IF missing # {} /\ Fails(ctx, "GetRoute") THEN Null
        ELSE [refs EXCEPT
                !.routes = @ \cup found,
                !.agencies = @ \cup UNION {AgencyOfRoute(ctx, r, requestAgency) : r \in found}]

\* mergeParentStopsIntoReferences
MergeParentStops(ctx, refs, stops, requestAgency) ==
    LET added == MissingParentStops(ctx, stops)
        routes == RoutesOfStops(added) \ refs.routes
    IN  IF ParentsFail(ctx, stops) THEN Null
        ELSE [refs EXCEPT
                !.stops = @ \cup added,
                !.routes = @ \cup routes,
                !.agencies = @ \cup UNION {AgencyOfRoute(ctx, r, requestAgency) : r \in routes}]

-----------------------------------------------------------------------------
(* Stops that schedules and statuses name. *)

ScheduleStopIDs(schedule) ==
    IF schedule = Null THEN {} ELSE Range(schedule.stops)

StatusStopIDs(status) ==
    IF status = Null THEN {}
    ELSE {CombinedID(status.agency, s) : s \in {status.closest.stop, status.next.stop} \ {NoText}}

\* stopsReferencedBySchedulesAndStatuses
StopIDsReferenced(ctx, entries) ==
    UNION {ScheduleStopIDs(e.schedule) \cup StatusStopIDs(e.status) : e \in entries}

=============================================================================
