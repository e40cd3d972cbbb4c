----------------------------- MODULE GtfsTables -----------------------------
(***************************************************************************)
(* The static tables and what the service reads from them: how an import   *)
(* turns a parsed GTFS feed into rows (gtfsdb/helpers.go), and the queries *)
(* of gtfsdb/query.sql.go as operators on the tables.                      *)
(*                                                                         *)
(* A table is a set of records, a database the record of its tables. The   *)
(* identifiers are numbers, ordered as the queries order their text; times *)
(* are numbers of one time unit from the start of a service day; dates are *)
(* numbers, and the weekday of d is d % 7. A combined ID is the pair of an *)
(* agency and an ID. Text nobody compares is left out.                     *)
(***************************************************************************)
EXTENDS Integers, Sequences, SequencesExt, FiniteSets, FiniteSetsExt

CONSTANTS Null,    \* SQL NULL, and the row a :one query does not find
          NoText,  \* the empty string
          Horizon  \* days RouteHasFutureService looks ahead

ASSUME NullAssumption == Null \notin Int /\ NoText \notin Int /\ Null # NoText

TextBefore(a, b) == a # b /\ (a = NoText \/ (b # NoText /\ a < b))

OneRow(rows) == IF rows = {} THEN Null ELSE CHOOSE r \in rows : TRUE

\* A set in a strict total order, given as the set of its pairs or as an operator.
Enumeration(S, R) ==
    [i \in 1..Cardinality(S) |->
        CHOOSE x \in S : Cardinality({y \in S : <<y, x>> \in R}) = i - 1]

SortedBy(S, Before(_, _)) == Enumeration(S, {p \in S \X S : Before(p[1], p[2])})

\* The elements of a sequence at some of its places, in its order.
Taken(s, places) ==
    LET at == SortedBy(places, LAMBDA i, j : i < j) IN [k \in DOMAIN at |-> s[at[k]]]

InRange(t, from, to) == from <= t /\ t <= to

OrElse(x, y) == IF x = Null THEN y ELSE x

\* The first member that is not Null.
FirstFound(s) ==
    LET found == {i \in DOMAIN s : s[i] # Null}
    IN  IF found = {} THEN Null ELSE s[Min(found)]

CombinedID(agency, id) == <<agency, id>>

-----------------------------------------------------------------------------
(* The import. *)

\* What the validation keeps: a trip needs a route, a service and stop times.
ValidTrips(feed) ==
    {t \in feed.trips : t.route # NoText /\ t.service # NoText /\ t.times # <<>>}

\* A route that names no agency belongs to the feed's only one.
RouteRow(feed, r) ==
    [r EXCEPT !.agency =
        IF @ = NoText /\ Cardinality(feed.agencies) = 1
        THEN (OneRow(feed.agencies)).id
        ELSE @]

\* A stop without a position is not stored.
StopRows(feed) == {s \in feed.stops : s.at # Null}

\* A trip without a block is stored with the empty string for its block.
TripRow(t) ==
    [id |-> t.id, route |-> t.route, service |-> t.service, dir |-> t.dir,
     headsign |-> t.headsign, shape |-> t.shape, block |-> t.block,
     minArrival |-> Min({t.times[i].arrival : i \in DOMAIN t.times}),
     maxDeparture |-> Max({t.times[i].departure : i \in DOMAIN t.times})]

StopTimeRows(t) ==
    {[trip |-> t.id, seq |-> t.times[i].seq, stop |-> t.times[i].stop,
      arrival |-> t.times[i].arrival, departure |-> t.times[i].departure] :
        i \in DOMAIN t.times}

\* The row that removes a date replaces the one that adds it.
CalendarDateRows(s) ==
    {[service |-> s.id, date |-> d, type |-> 1] : d \in s.added \ s.removed}
    \cup {[service |-> s.id, date |-> d, type |-> 2] : d \in s.removed}

\* The trips of a service that start at the same stop share one index.
BlockIndexEntries(trips) ==
    {[index |-> <<t.service, t.times[1].stop>>, trip |-> t.id,
      block |-> t.block, service |-> t.service] : t \in trips}

\* A block's trips of one service in the order of their first departures
\* (the sort leaves trips that depart together in any order).
BlockOrder(trips) ==
    SortedBy(trips, LAMBDA a, b :
        \/ a.times[1].departure < b.times[1].departure
        \/ a.times[1].departure = b.times[1].departure /\ a.id < b.id)

LayoverBetween(t, u) ==
    LET last == t.times[Len(t.times)] first == u.times[1] IN
    IF last.stop = first.stop /\ last.departure <= first.arrival
    THEN {[block |-> t.block, service |-> t.service, route |-> u.route,
           start |-> last.departure, end |-> first.arrival, next |-> u.id]}
    ELSE {}

LayoverRows(trips) ==
    UNION {LET inBlock == BlockOrder({u \in trips : u.block = t.block
                                                    /\ u.service = t.service})
           IN  UNION {LayoverBetween(inBlock[i], inBlock[i + 1]) :
                        i \in 1..Len(inBlock) - 1} :
             t \in {u \in trips : u.block # NoText}}

\* The last day of service: of a calendar, or added to one.
FeedEndDate(db) ==
    LET dates == {c.end : c \in db.calendar}
                 \cup {cd.date : cd \in {x \in db.calendarDates : x.type = 1}}
    IN  IF dates = {} THEN Null ELSE Max(dates)

\* Every stop is served by the agencies of the routes that stop there.
StopAgencyRows(db) ==
    {[stop |-> served[1].stop, agency |-> served[3].agency] :
        served \in {x \in db.stopTimes \X db.trips \X db.routes :
            x[1].trip = x[2].id /\ x[2].route = x[3].id}}

\* What StoreGtfsData inserts, in the order of the foreign keys.
Rows(feed) ==
    LET trips == ValidTrips(feed)
        db == [agencies |-> feed.agencies,
               routes |-> {RouteRow(feed, r) : r \in feed.routes},
               stops |-> StopRows(feed),
               calendar |-> {[id |-> s.id, weekdays |-> s.weekdays,
                              start |-> s.start, end |-> s.end] : s \in feed.services},
               calendarDates |-> UNION {CalendarDateRows(s) : s \in feed.services},
               trips |-> {TripRow(t) : t \in trips},
               stopTimes |-> UNION {StopTimeRows(t) : t \in trips},
               frequencies |-> feed.frequencies,
               shapes |-> feed.shapes,
               blockEntries |-> BlockIndexEntries(trips),
               layovers |-> LayoverRows(trips)]
    IN  db

\* The tables are finite sets of rows, and their columns of numbers hold some;
\* the times of a feed have no sign.
ColumnsTyped(db) ==
    /\ IsFiniteSet(db.trips) /\ IsFiniteSet(db.stopTimes) /\ IsFiniteSet(db.routes)
    /\ IsFiniteSet(db.agencies) /\ IsFiniteSet(db.calendar) /\ IsFiniteSet(db.frequencies)
    /\ IsFiniteSet(db.stops)
    /\ \A t \in db.trips : t # Null /\ {t.id, t.minArrival, t.maxDeparture} \subseteq Int
    /\ \A row \in db.trips \cup db.blockEntries \cup db.layovers : row.block \in Int \cup {Null, NoText}
    /\ \A st \in db.stopTimes :
          st # Null /\ {st.trip, st.seq} \subseteq Int /\ {st.arrival, st.departure} \subseteq Nat
    /\ \A f \in db.frequencies : f # Null /\ {f.trip, f.start, f.end} \subseteq Int
    /\ \A a \in db.agencies : a.id \in Int
    /\ \A s \in db.stops : {s.id, s.at} \subseteq Int
    /\ \A row \in db.routes \cup db.agencies \cup db.calendar \cup db.stops : row # Null

\* No two rows of a table share its primary key. A stop time or a shape point
\* that repeats one fails the import; of the other rows with one key a single
\* one is kept, and a feed is taken here without those it replaces.
KeysUnique(db) ==
    LET unique(rows, key(_)) == \A a, b \in rows : key(a) = key(b) => a = b
        byID(rows) == unique(rows, LAMBDA row : row.id)
    IN  /\ byID(db.agencies) /\ byID(db.routes) /\ byID(db.stops)
        /\ byID(db.calendar) /\ byID(db.trips)
        /\ unique(db.stopTimes, LAMBDA st : <<st.trip, st.seq>>)
        /\ unique(db.calendarDates, LAMBDA cd : <<cd.service, cd.date>>)
        /\ unique(db.frequencies, LAMBDA f : <<f.trip, f.start>>)
        /\ unique(db.shapes, LAMBDA p : <<p.shape, p.seq>>)

\* The constraints of the schema; one row that breaks one fails the import.
ConstraintsHold(db) ==
    /\ \A r \in db.routes : \E a \in db.agencies : a.id = r.agency
    /\ \A t \in db.trips : /\ \E r \in db.routes : r.id = t.route
                           /\ \E c \in db.calendar : c.id = t.service
    /\ \A st \in db.stopTimes : /\ st.arrival <= st.departure
                                /\ \E s \in db.stops : s.id = st.stop
    /\ \A s \in db.stops : s.parent # NoText => \E p \in db.stops : p.id = s.parent
    /\ \A f \in db.frequencies : f.start < f.end /\ f.headway > 0
    /\ \A c \in db.calendar : c.start <= c.end

\* A feed without agencies, routes, stops, trips or service is refused.
Acceptable(feed) ==
    /\ feed.agencies # {} /\ feed.routes # {} /\ feed.stops # {}
    /\ \E s \in feed.services : s.weekdays # {} \/ s.added # {} \/ s.removed # {}
    /\ ValidTrips(feed) # {}

\* The visits of a trip are a list.
Importable(feed) ==
    /\ Acceptable(feed)
    /\ \A t \in feed.trips : t.times \in Seq(Range(t.times))
    /\ ColumnsTyped(Rows(feed)) /\ KeysUnique(Rows(feed)) /\ ConstraintsHold(Rows(feed))

-----------------------------------------------------------------------------
(* Agencies, routes and stops. *)

GetAgency(db, id) == OneRow({a \in db.agencies : a.id = id})
GetAgenciesByIDs(db, ids) == {a \in db.agencies : a.id \in ids}
ListAgencyIds(db) == {a.id : a \in db.agencies}
GetRoute(db, id) == OneRow({r \in db.routes : r.id = id})
GetRoutesByIDs(db, ids) == {r \in db.routes : r.id \in ids}
GetRoutesForAgency(db, agency) == {r \in db.routes : r.agency = agency}
GetRouteIDsForAgency(db, agency) ==
    {r.id : r \in {x \in db.routes : x.agency = agency /\ GetAgency(db, agency) # Null}}
GetStop(db, id) == OneRow({s \in db.stops : s.id = id})
GetStopsByIDs(db, ids) == {s \in db.stops : s.id \in ids}
\* GetActiveStopsWithinBounds: stops that some trip serves.
GetActiveStopsWithinBounds(db, area) ==
    {s \in db.stops : InRange(s.at, area.from, area.to) /\ \E st \in db.stopTimes : st.stop = s.id}
GetStopIDsForAgency(db, agency) ==
    {sa.stop : sa \in {x \in StopAgencyRows(db) : x.agency = agency}}

TripsAtStops(db, stops) ==
    {st.trip : st \in {x \in db.stopTimes : x.stop \in stops}}

RoutesOfTrips(db, trips) ==
    {r \in db.routes : \E t \in db.trips : t.id \in trips /\ t.route = r.id}

GetRoutesForStop(db, stop) == RoutesOfTrips(db, TripsAtStops(db, {stop}))

GetRoutesForStops(db, stops) ==
    {p \in db.routes \X stops : p[1] \in GetRoutesForStop(db, p[2])}

GetRouteIDsForStops(db, stops) ==
    {<<CombinedID(p[1].agency, p[1].id), p[2]>> : p \in GetRoutesForStops(db, stops)}

GetActiveRouteIDsForStopsOnDate(db, stops, services) ==
    UNION {{<<CombinedID(r.agency, r.id), s>> :
              r \in RoutesOfTrips(db, TripsAtStops(db, {s})
                      \cap {t.id : t \in {u \in db.trips : u.service \in services}})} :
             s \in stops}

GetAgenciesForStops(db, stops) ==
    {p \in db.agencies \X stops :
        \E r \in GetRoutesForStop(db, p[2]) : r.agency = p[1].id}

\* SearchStopsByName and the handlers that read the index take the lowest.
LowestAgencyOfStop(db, stop) ==
    LET rows == {sa.agency : sa \in {x \in StopAgencyRows(db) : x.stop = stop}}
    IN  IF rows = {} THEN Null ELSE Min(rows)

-----------------------------------------------------------------------------
(* Service. *)

\* The weekdays of the calendar alone, without its exceptions.
ServicesByWeekday(db, d) ==
    {c.id : c \in {x \in db.calendar : InRange(d, x.start, x.end) /\ d % 7 \in x.weekdays}}

GetActiveServiceIDsForDate(db, d) ==
    LET exceptions(type) == {cd.service : cd \in {x \in db.calendarDates :
                                x.date = d /\ x.type = type}}
    IN  (ServicesByWeekday(db, d) \ exceptions(2)) \cup exceptions(1)

RouteHasFutureService(db, route, d, today) ==
    LET last == Max({d, today}) + Horizon
        services == {t.service : t \in {x \in db.trips : x.route = route}}
    IN  \/ \E cd \in db.calendarDates :
              /\ cd.service \in services
              /\ cd.type = 1
              /\ InRange(cd.date, d + 1, last)
        \/ \E c \in db.calendar :
              /\ c.id \in services
              /\ c.end > d
              /\ c.start <= last
              /\ c.weekdays # {}

-----------------------------------------------------------------------------
(* Trips and stop times. *)

GetTrip(db, id) == OneRow({t \in db.trips : t.id = id})
GetTripsByIDs(db, ids) == {t \in db.trips : t.id \in ids}
GetTripTimeBoundsByIDs(db, ids) == {t \in db.trips : t.id \in ids}
GetTripsByBlockID(db, block) == {t \in db.trips : t.block = block /\ block # Null}
GetBlockIDByTripID(db, id) == IF GetTrip(db, id) = Null THEN Null ELSE GetTrip(db, id).block
GetTripsForRouteInActiveServiceIDs(db, route, services) ==
    {t \in db.trips : t.route = route /\ t.service \in services}
GetAllTripsForRoute(db, route) == {t \in db.trips : t.route = route}

ByStart(trips) ==
    SortedBy(trips, LAMBDA a, b :
        \/ a.minArrival < b.minArrival
        \/ a.minArrival = b.minArrival /\ a.id < b.id)

ByBlockAndStart(trips) ==
    SortedBy(trips, LAMBDA a, b :
        \/ TextBefore(a.block, b.block)
        \/ a.block = b.block /\ a.minArrival < b.minArrival
        \/ a.block = b.block /\ a.minArrival = b.minArrival /\ a.id < b.id)

TripsInBlocks(db, blocks, services) ==
    {t \in db.trips : t.block \in blocks \ {Null} /\ t.service \in services}

GetTripsByBlockIDs(db, blocks, services) == ByBlockAndStart(TripsInBlocks(db, blocks, services))
GetTripSpansForBlocks(db, blocks, services) == ByBlockAndStart(TripsInBlocks(db, blocks, services))
GetTripsByBlockIDOrdered(db, block, services) == ByStart(TripsInBlocks(db, {block}, services))

\* ROW_NUMBER, LAG and LEAD over the block's trips by their starts; where two
\* trips start together the queries do not say which comes first.
PlaceInBlock(db, trip, block, services) ==
    LET inBlock == ByStart(TripsInBlocks(db, {block}, services))
    IN  OneRow({i \in DOMAIN inBlock : inBlock[i].id = trip})

GetBlockTripSequence(db, trip, block, services) ==
    LET i == PlaceInBlock(db, trip, block, services)
    IN  IF i = Null THEN Null ELSE i - 1

TripInBlockAt(db, i, block, services) ==
    LET inBlock == ByStart(TripsInBlocks(db, {block}, services))
    IN  IF i \in DOMAIN inBlock THEN inBlock[i].id ELSE Null

GetNextAndPreviousTripsInBlock(db, trip, block, services) ==
    LET i == PlaceInBlock(db, trip, block, services)
    IN  IF i = Null THEN Null
        ELSE [prev |-> TripInBlockAt(db, i - 1, block, services),
              next |-> TripInBlockAt(db, i + 1, block, services)]

StopTimesOf(db, trips) == {st \in db.stopTimes : st.trip \in trips}

BySequence(rows) == SortedBy(rows, LAMBDA a, b : a.seq < b.seq)

GetStopTimesForTrip(db, trip) == BySequence(StopTimesOf(db, {trip}))

GetStopTimesForTripIDs(db, trips) ==
    SortedBy(StopTimesOf(db, trips), LAMBDA a, b :
        a.trip < b.trip \/ (a.trip = b.trip /\ a.seq < b.seq))

GetFirstStopOfNextTripInBlock(db, trip, block, services) ==
    LET of(around) == IF around = Null THEN {} ELSE StopTimesOf(db, {around.next})
        first(rows) == IF rows = {} THEN Null ELSE BySequence(rows)[1]
    IN  first(of(GetNextAndPreviousTripsInBlock(db, trip, block, services)))

GetFrequenciesForTrip(db, trip) ==
    SortedBy({f \in db.frequencies : f.trip = trip}, LAMBDA a, b : a.start < b.start)

GetFrequenciesForTrips(db, trips) == [t \in trips |-> GetFrequenciesForTrip(db, t)]

\* A stop time counts when its arrival or its departure is in the window; one
\* that arrives before the window and departs after it is not in it.
GetStopTimesForStopsInWindow(db, stops, from, to) ==
    {st \in db.stopTimes :
        /\ st.stop \in stops
        /\ InRange(st.arrival, from, to) \/ InRange(st.departure, from, to)}

GetStopTimesForStopInWindow(db, stop, from, to) ==
    GetStopTimesForStopsInWindow(db, {stop}, from, to)

GetScheduleForStopOnDate(db, stop, d, routes) ==
    {p \in StopTimesOf(db, TripsAtStops(db, {stop})) \X db.trips :
        /\ p[1].stop = stop
        /\ p[1].trip = p[2].id
        /\ p[2].route \in routes
        /\ p[2].service \in GetActiveServiceIDsForDate(db, d)}

-----------------------------------------------------------------------------
(* Blocks. *)

BlockHasTripForAgency(db, block, agency) ==
    \E t \in GetTripsByBlockID(db, block) : \E r \in db.routes : r.id = t.route /\ r.agency = agency

ShapeHasTripForAgency(db, shape, agency) ==
    \E t \in db.trips : t.shape = shape /\ \E r \in db.routes : r.id = t.route /\ r.agency = agency

GetShapeByID(db, shape) == BySequence({p \in db.shapes : p.shape = shape})
GetShapePointsByTripID(db, trip) ==
    BySequence({p \in db.shapes : \E t \in db.trips : t.id = trip /\ t.shape = p.shape})

GetBlockDetails(db, block) ==
    GetStopTimesForTripIDs(db, {t.id : t \in GetTripsByBlockID(db, block)})

GetBlockTripIndexIDsForRoute(db, route, services) ==
    {e.index : e \in {x \in db.blockEntries :
        x.service \in services /\ \E t \in db.trips : t.id = x.trip /\ t.route = route}}

\* A block is a candidate when any of its trips is in the window, if the
\* route runs a trip of it.
GetBlocksForBlockTripIndexIDs(db, route, indexes, services, from, to) ==
    LET trip(e) == GetTrip(db, e.trip)
        entries == {e \in db.blockEntries : e.service \in services}
    IN  {e.block : e \in {x \in entries :
            /\ x.block # Null
            /\ trip(x).minArrival <= to
            /\ trip(x).maxDeparture >= from
            /\ \E y \in entries : /\ y.block = x.block
                                  /\ y.index \in indexes
                                  /\ trip(y).route = route}}

GetActiveLayoverBlockIDsForRoute(db, route, services, from, to) ==
    {l.block : l \in {x \in db.layovers :
        /\ x.route = route
        /\ x.service \in services
        /\ x.start < to
        /\ x.end > from}}

TripsWithNullBlock(db, services, from, to) ==
    {t \in db.trips :
        /\ t.block = Null
        /\ t.service \in services
        /\ t.minArrival <= to
        /\ t.maxDeparture >= from}

GetActiveTripsWithNullBlockForRoute(db, route, services, from, to) ==
    {t.id : t \in {u \in TripsWithNullBlock(db, services, from, to) : u.route = route}}

GetInServiceTripIDsForStops(db, stops, services, from, to) ==
    {t.id : t \in TripsWithNullBlock(db, services, from, to)} \cap TripsAtStops(db, stops)

GetBlockIDsForStops(db, stops, services) ==
    {t.block : t \in {u \in db.trips :
        /\ u.block # Null
        /\ u.id \in TripsAtStops(db, stops)
        /\ u.service \in services}}

\* The dashboards' count: a trip without a block is a block of its own.
GetActiveBlockIDsForAgency(db, agency, services, at) ==
    LET trips == {t \in db.trips : /\ t.service \in services
                                   /\ \E r \in GetRoutesForAgency(db, agency) : r.id = t.route}
        blockOf(t) == IF t.block \in {Null, NoText} THEN <<"trip", t.id>> ELSE <<"block", t.block>>
        members(b) == {t \in trips : blockOf(t) = b}
    IN  {b \in {blockOf(t) : t \in trips} :
            /\ Min({t.minArrival : t \in members(b)}) <= at
            /\ Max({t.maxDeparture : t \in members(b)}) >= at}
=============================================================================
