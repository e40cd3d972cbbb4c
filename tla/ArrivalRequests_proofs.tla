------------------------ MODULE ArrivalRequests_proofs ------------------------
(***************************************************************************)
(* What the arrivals at a stop and in an area say, for every feed that can *)
(* be imported, every set of zones and every published snapshot. The       *)
(* lemmas come first: what is due at a stop is found in the tables, every  *)
(* visit due gives one arrival, and the sort keeps each of them.           *)
(***************************************************************************)
EXTENDS ArrivalRequests, RequestData_proofs

-----------------------------------------------------------------------------
(* What a request works on. *)

\* The inductive invariant: the tables are those of a feed that could be
\* imported, a request has a time and the predictions of a snapshot, one for
\* an area asks for one of the areas, and its statuses are of a snapshot too.
RequestInv ==
    /\ feed \in DOMAIN Feeds
    /\ SnapshotTyped(rt)
    /\ request # Null => request.at \in Int /\ SnapshotTyped(predicted)
    /\ request # Null /\ request.kind = "area" => request.of \in AreasAsked
    /\ described # Null => SnapshotTyped(described)

\* Whatever is published and asked for, a request has read tables that keep
\* the schema and updates that are typed.
LEMMA RequestInvariant == Spec => []RequestInv
<1>1. Init => RequestInv
  BY DEF Init, RequestInv, SnapshotTyped, NoRealtime
<1>2. RequestInv /\ [Next]_vars => RequestInv'
  <2> SUFFICES ASSUME RequestInv, [Next]_vars PROVE RequestInv'
    OBVIOUS
  <2>1. ASSUME NEW query \in Queries, NEW at \in Times, NEW fails \in Failures,
               Predict(query, at, fails)
        PROVE  RequestInv'
    <3>1. request'.at = at /\ at \in Int
      BY <2>1, RequestAssumption DEF Predict
    <3>2. predicted' = rt /\ rt' = rt /\ feed' = feed /\ described' = described
      BY <2>1 DEF Predict
    <3>3. request'.kind = query.kind /\ request'.of = query.of
      BY <2>1 DEF Predict
    <3>4. query.kind = "area" => query.of \in AreasAsked
      BY DEF Queries
    <3>5. QED
      BY <3>1, <3>2, <3>3, <3>4 DEF RequestInv, SnapshotTyped
  <2>2. CASE Describe
    BY <2>2 DEF RequestInv, SnapshotTyped, Describe
  <2>3. CASE Answer
    BY <2>3 DEF RequestInv, SnapshotTyped, Answer
  <2>4. CASE PublishRealtime
    BY <2>4, RealtimeAssumption DEF RequestInv, SnapshotTyped, PublishRealtime
  <2>5. CASE UNCHANGED vars
    BY <2>5 DEF RequestInv, SnapshotTyped, vars
  <2>6. QED
    BY <2>1, <2>2, <2>3, <2>4, <2>5 DEF Next
<1>3. QED
  BY <1>1, <1>2, PTL DEF Spec

\* The agency that runs a trip.
AgencyOf(trip) == GetRoute(db, GetTrip(db, trip).route).agency

\* The rows of a visit: its trip, its numbers, and the agency of its route.
LEMMA RowsOfVisit ==
    ASSUME feed \in DOMAIN Feeds, NEW st \in db.stopTimes
    PROVE  /\ {st.trip, st.seq, st.arrival, st.departure} \subseteq Int
           /\ 0 <= st.arrival /\ 0 <= st.departure
           /\ GetTrip(db, st.trip) \in db.trips /\ GetTrip(db, st.trip).id = st.trip
           /\ GetRoute(db, GetTrip(db, st.trip).route) \in db.routes
           /\ GetRoute(db, GetTrip(db, st.trip).route).id = GetTrip(db, st.trip).route
           /\ AgencyOf(st.trip) \in Int
           /\ GetAgency(db, AgencyOf(st.trip)) \in db.agencies
<1> DEFINE row == GetTrip(db, st.trip) route == GetRoute(db, row.route)
<1>1. /\ {st.trip, st.seq, st.arrival, st.departure} \subseteq Int
      /\ 0 <= st.arrival /\ 0 <= st.departure
  BY TablesImported DEF ColumnsTyped
<1>2. row \in db.trips /\ row.id = st.trip
  BY TripOfVisit DEF GetTrip, OneRow
<1> HIDE DEF row
<1>3. \E r \in db.routes : r.id = row.route
  BY <1>2, TablesImported DEF ConstraintsHold
<1>4. route \in db.routes /\ route.id = row.route
  BY <1>3 DEF GetRoute, OneRow
<1>5. AgencyOf(st.trip) = route.agency
  BY DEF AgencyOf, row
<1> HIDE DEF route
<1>6. \E a \in db.agencies : a.id = route.agency
  BY <1>4, TablesImported DEF ConstraintsHold
<1>7. route.agency \in Int
  BY <1>6, TablesImported DEF ColumnsTyped
<1>8. GetAgency(db, route.agency) \in db.agencies
  BY <1>6 DEF GetAgency, OneRow
<1>9. QED
  BY <1>1, <1>2, <1>4, <1>5, <1>7, <1>8 DEF row, route

-----------------------------------------------------------------------------
(* The visits due at a stop. *)

\* What a visit (a row and a day) is in the list of those due.
Due(v, stop, agency) ==
    [time |-> v[1], date |-> v[2], zone |-> OwnZone(v[1].trip), stop |-> CombinedID(agency, stop)]

\* Of the agencies found at a stop, with the names of their zones, every
\* trip that stops there has one, and its clock is that of the name.
LEMMA ClockOfVisit ==
    ASSUME feed \in DOMAIN Feeds, NEW snapshot, NEW stop, NEW agency,
           DiscoverStopAgencies(Context(snapshot), stop, agency) # Null,
           NEW st \in db.stopTimes, st.stop = stop
    PROVE  LET zones == DiscoverStopAgencies(Context(snapshot), stop, agency)
           IN  /\ AgencyOf(st.trip) \in DOMAIN zones
               /\ zones[AgencyOf(st.trip)] \in DOMAIN Zones
               /\ OwnZone(st.trip) = Zones[zones[AgencyOf(st.trip)]]
<1> DEFINE serving == {r.agency : r \in GetRoutesForStop(db, stop)} \cup {agency}
           zones == [a \in serving |-> GetAgency(db, a).zone]
           row == GetTrip(db, st.trip)
           route == GetRoute(db, row.route)
<1>1. /\ DiscoverStopAgencies(Context(snapshot), stop, agency) = zones
      /\ Range(zones) \subseteq DOMAIN Zones
  BY DEF DiscoverStopAgencies, Context, ZoneOf
<1>2. row \in db.trips /\ row.id = st.trip /\ route \in db.routes /\ route.id = row.route
  BY RowsOfVisit
<1>3. AgencyOf(st.trip) = route.agency
  BY DEF AgencyOf
<1>4. route \in GetRoutesForStop(db, stop)
  <2> HIDE DEF row, route
  <2>1. st.trip \in TripsAtStops(db, {stop})
    BY DEF TripsAtStops
  <2>2. QED
    BY <1>2, <2>1 DEF GetRoutesForStop, RoutesOfTrips
<1>5. route.agency \in serving
  BY <1>4
<1>6. OwnZone(st.trip) = Zones[zones[route.agency]]
  BY <1>5 DEF OwnZone, ZoneOfAgency
<1> HIDE DEF serving, route
<1>7. zones[route.agency] \in Range(zones)
  BY <1>5 DEF Range
<1>8. QED
  BY <1>1, <1>3, <1>5, <1>6, <1>7

\* The days around the query day are looked at in the window of each.
LEMMA VisitsOfGroup ==
    ASSUME RequestInv, request # Null, request.fails = {}, NEW snapshot, NEW stop,
           NEW z \in DOMAIN Zones, NEW st \in db.stopTimes, OwnZone(st.trip) = Zones[z],
           NEW d \in DateOf(Zones[z], request.at) - 1..DateOf(Zones[z], request.at) + 1
    PROVE  st \in StopTimesOn(Context(snapshot), {stop}, Zones[z], d, Window)
               <=> st.stop = stop /\ <<st, d>> \in DueVisits(stop)
<1> DEFINE start == Start(Zones[z], d)
           from == request.at - Before - start
           to == request.at + After - start
           row == GetTrip(db, st.trip)
           days == DateOf(Zones[z], request.at) - 1..DateOf(Zones[z], request.at) + 1
           runs == IsServiceActiveOnDate(db, row.service, d)
<1>1. feed \in DOMAIN Feeds /\ request.at \in Int
  BY DEF RequestInv
<1>2. DateOf(Zones[z], request.at) \in Int
  BY <1>1, ZoneAssumption, ClocksAreNumbers
<1>3. d \in Int
  BY <1>2
<1>4. start \in Int
  BY <1>3, ZoneAssumption, ClocksAreNumbers
<1>5. st.arrival \in Int /\ st.departure \in Int /\ 0 <= st.arrival /\ 0 <= st.departure
  BY <1>1, RowsOfVisit
<1> HIDE DEF start
<1>6. from \in Int /\ to \in Int
  BY <1>1, <1>4, RequestAssumption
<1>7. /\ InWindow(start + st.arrival) <=> InRange(st.arrival, from, to)
      /\ InWindow(start + st.departure) <=> InRange(st.departure, from, to)
  BY <1>1, <1>4, <1>5, RequestAssumption DEF InWindow, InRange
<1>8. to < 0 => ~InRange(st.arrival, from, to) /\ ~InRange(st.departure, from, to)
  BY <1>5, <1>6 DEF InRange
<1> DEFINE due == InRange(st.arrival, from, to) \/ InRange(st.departure, from, to)
<1>9. runs <=> row.service \in GetActiveServiceIDsForDate(db, d)
  BY <1>1, ServiceInAnswer
<1>10. st \in StopTimesOn(Context(snapshot), {stop}, Zones[z], d, Window)
          <=> ~(to < 0) /\ st.stop = stop /\ due /\ runs
  BY <1>9 DEF StopTimesOn, GetStopTimesForStopsInWindow, Context, Window, Fails, start
<1>11. <<st, d>> \in DueVisits(stop) <=> st.stop = stop /\ runs /\ due
  <2> DEFINE daysOf(x) == {e \in DateOf(OwnZone(x.trip), request.at) - 1..DateOf(OwnZone(x.trip), request.at) + 1 :
                    /\ IsServiceActiveOnDate(db, GetTrip(db, x.trip).service, e)
                    /\ InWindow(Start(OwnZone(x.trip), e) + x.arrival)
                         \/ InWindow(Start(OwnZone(x.trip), e) + x.departure)}
             dueOn(x) == {<<x, e>> : e \in daysOf(x)}
             atStop == {x \in db.stopTimes : x.stop = stop}
  <2>1. DueVisits(stop) = UNION {dueOn(x) : x \in atStop}
    BY DEF DueVisits
  <2>2. <<st, d>> \in DueVisits(stop) <=> st \in atStop /\ d \in daysOf(st)
    <3> HIDE DEF daysOf, atStop
    <3>1. QED
      BY <2>1
  <2>3. d \in daysOf(st) <=> runs /\ due
    BY <1>7 DEF start
  <2>4. QED
    BY <2>2, <2>3
<1>12. QED
  BY <1>8, <1>10, <1>11

\* The members of the visits due at a stop.
LEMMA DueVisitsAre ==
    ASSUME RequestInv, request # Null, NEW stop, NEW v \in DueVisits(stop)
    PROVE  /\ v[1] \in db.stopTimes /\ v[1].stop = stop /\ v = <<v[1], v[2]>>
           /\ v[2] \in DateOf(OwnZone(v[1].trip), request.at) - 1..DateOf(OwnZone(v[1].trip), request.at) + 1
<1> DEFINE daysOf(x) == {e \in DateOf(OwnZone(x.trip), request.at) - 1..DateOf(OwnZone(x.trip), request.at) + 1 :
                    /\ IsServiceActiveOnDate(db, GetTrip(db, x.trip).service, e)
                    /\ InWindow(Start(OwnZone(x.trip), e) + x.arrival)
                         \/ InWindow(Start(OwnZone(x.trip), e) + x.departure)}
           dueOn(x) == {<<x, e>> : e \in daysOf(x)}
           atStop == {x \in db.stopTimes : x.stop = stop}
<1>1. DueVisits(stop) = UNION {dueOn(x) : x \in atStop}
  BY DEF DueVisits
<1>2. PICK x \in atStop : v \in dueOn(x)
  BY <1>1
<1>3. PICK e \in daysOf(x) : v = <<x, e>>
  BY <1>2
<1>4. QED
  BY <1>3

\* Unless it is an error, what is due at a stop is one entry for each visit
\* that its own agency's clock puts into the window.
LEMMA DueAtStop ==
    ASSUME RequestInv, request # Null, request.fails = {}, NEW snapshot, NEW stop, NEW agency,
           ActiveStopTimesForWindow(Context(snapshot), stop, agency, Window) # Null
    PROVE  /\ ActiveStopTimesForWindow(Context(snapshot), stop, agency, Window)
                 = {Due(v, stop, agency) : v \in DueVisits(stop)}
           /\ \A v \in DueVisits(stop) : \E z \in DOMAIN Zones : OwnZone(v[1].trip) = Zones[z]
<1> DEFINE ctx == Context(snapshot)
           zones == DiscoverStopAgencies(ctx, stop, agency)
           group(zone, offset) == StopTimesForGroup(ctx, stop, agency, zones, zone, offset, Window)
           due == UNION {UNION {group(zone, offset) : offset \in {-1, 0, 1}} : zone \in Range(zones)}
<1>1. zones # Null /\ ActiveStopTimesForWindow(ctx, stop, agency, Window) = due
  <2>1. DaysToVisit(ctx) = {-1, 0, 1} /\ ~Fails(ctx, "GetActiveServiceIDsForDate")
    BY DEF DaysToVisit, Fails, Context
  <2>2. QED
    BY <2>1 DEF ActiveStopTimesForWindow
<1>2. feed \in DOMAIN Feeds /\ request.at \in Int
  BY DEF RequestInv
<1>3. ASSUME NEW st \in db.stopTimes, st.stop = stop
      PROVE  /\ AgencyOf(st.trip) \in DOMAIN zones
             /\ zones[AgencyOf(st.trip)] \in DOMAIN Zones
             /\ OwnZone(st.trip) = Zones[zones[AgencyOf(st.trip)]]
  BY <1>1, <1>2, <1>3, ClockOfVisit
<1>4. \A st : RouteAgency(ctx, GetTrip(ctx.db, st.trip).route) = AgencyOf(st.trip)
  BY DEF RouteAgency, AgencyOf, Context
<1>5. \A zone \in Range(zones) : zone \in DOMAIN Zones
  BY <1>1 DEF DiscoverStopAgencies
<1> DEFINE on(zone, offset) == StopTimesOn(ctx, {stop}, Zones[zone], DateOf(Zones[zone], request.at) + offset, Window)
           entry(st, zone, offset) ==
               [time |-> st, date |-> DateOf(Zones[zone], request.at) + offset, zone |-> Zones[zone],
                stop |-> CombinedID(agency, stop)]
<1>6. \A zone, offset : group(zone, offset) =
          {entry(st, zone, offset) : st \in {x \in on(zone, offset) :
              AgencyOf(x.trip) \in {a \in DOMAIN zones : zones[a] = zone}}}
  <2> SUFFICES ASSUME NEW zone, NEW offset
               PROVE  group(zone, offset) =
                          {entry(st, zone, offset) : st \in {x \in on(zone, offset) :
                              AgencyOf(x.trip) \in {a \in DOMAIN zones : zones[a] = zone}}}
    OBVIOUS
  <2> DEFINE names == {a \in DOMAIN zones : zones[a] = zone}
  <2>1. {x \in on(zone, offset) : RouteAgency(ctx, GetTrip(ctx.db, x.trip).route) \in names}
            = {x \in on(zone, offset) : AgencyOf(x.trip) \in names}
    BY <1>4
  <2>2. Window.at = request.at
    BY DEF Window
  <2>3. group(zone, offset) = {entry(st, zone, offset) : st \in
            {x \in on(zone, offset) : RouteAgency(ctx, GetTrip(ctx.db, x.trip).route) \in names}}
    BY <2>2 DEF StopTimesForGroup
  <2>4. QED
    BY <2>1, <2>3
<1>7. \A zone, offset : \A st \in on(zone, offset) : st \in db.stopTimes /\ st.stop = stop
  BY DEF StopTimesOn, GetStopTimesForStopsInWindow, Context
<1> HIDE DEF zones, group, on, ctx
<1>8. ASSUME NEW x \in due
      PROVE  \E v \in DueVisits(stop) : x = Due(v, stop, agency)
  <2>1. PICK zone \in Range(zones), offset \in {-1, 0, 1} : x \in group(zone, offset)
    OBVIOUS
  <2>2. PICK st \in on(zone, offset) :
            x = entry(st, zone, offset) /\ AgencyOf(st.trip) \in DOMAIN zones /\ zones[AgencyOf(st.trip)] = zone
    BY <1>6, <2>1
  <2>3. st \in db.stopTimes /\ st.stop = stop
    BY <1>7
  <2>4. zone \in DOMAIN Zones /\ OwnZone(st.trip) = Zones[zone]
    BY <1>3, <2>2, <2>3
  <2> DEFINE d == DateOf(Zones[zone], request.at) + offset
  <2>5. DateOf(Zones[zone], request.at) \in Int
    BY <1>2, <2>4, ZoneAssumption, ClocksAreNumbers
  <2>6. d \in DateOf(Zones[zone], request.at) - 1..DateOf(Zones[zone], request.at) + 1
    BY <2>5
  <2>7. st \in StopTimesOn(Context(snapshot), {stop}, Zones[zone], d, Window)
    BY DEF on, ctx
  <2>8. <<st, d>> \in DueVisits(stop)
    BY <2>3, <2>4, <2>6, <2>7, VisitsOfGroup
  <2>9. Due(<<st, d>>, stop, agency) = entry(st, zone, offset)
    BY <2>4 DEF Due
  <2>10. QED
    BY <2>2, <2>8, <2>9
<1>9. ASSUME NEW v \in DueVisits(stop)
      PROVE  Due(v, stop, agency) \in due /\ \E z \in DOMAIN Zones : OwnZone(v[1].trip) = Zones[z]
  <2> DEFINE st == v[1] zone == zones[AgencyOf(st.trip)] today == DateOf(Zones[zone], request.at)
             offset == v[2] - today
  <2>1. st \in db.stopTimes /\ st.stop = stop /\ v = <<st, v[2]>>
    BY DueVisitsAre
  <2>2. /\ AgencyOf(st.trip) \in DOMAIN zones /\ zone \in DOMAIN Zones
        /\ OwnZone(st.trip) = Zones[zone]
    BY <1>3, <2>1
  <2>3. v[2] \in today - 1..today + 1
    BY <2>2, DueVisitsAre
  <2>4. today \in Int
    BY <1>2, <2>2, ZoneAssumption, ClocksAreNumbers
  <2>5. offset \in {-1, 0, 1} /\ today + offset = v[2]
    BY <2>3, <2>4
  <2>6. zone \in Range(zones)
    BY <2>2 DEF Range
  <2>7. st \in on(zone, offset)
    BY <2>1, <2>2, <2>3, <2>5, VisitsOfGroup DEF on, ctx
  <2>8. entry(st, zone, offset) \in group(zone, offset)
    BY <1>6, <2>2, <2>7
  <2>9. Due(v, stop, agency) = entry(st, zone, offset)
    BY <2>2, <2>5 DEF Due
  <2> HIDE DEF st, zone, offset
  <2>10. Due(v, stop, agency) \in due
    BY <2>5, <2>6, <2>8, <2>9
  <2>11. QED
    BY <2>2, <2>10 DEF st
<1>10. QED
  BY <1>1, <1>8, <1>9 DEF ctx

\* Finitely many visits are due.
LEMMA FewDue ==
    ASSUME RequestInv, request # Null, NEW stop,
           \A v \in DueVisits(stop) : \E z \in DOMAIN Zones : OwnZone(v[1].trip) = Zones[z]
    PROVE  IsFiniteSet(DueVisits(stop)) /\ Cardinality(DueVisits(stop)) \in Nat
<1> DEFINE today(st) == DateOf(OwnZone(st.trip), request.at)
           places == db.stopTimes \X (-1..1)
           f == [v \in DueVisits(stop) |-> <<v[1], v[2] - today(v[1])>>]
<1>1. feed \in DOMAIN Feeds /\ request.at \in Int
  BY DEF RequestInv
<1>2. IsFiniteSet(places)
  <2>1. IsFiniteSet(db.stopTimes)
    BY <1>1, TablesImported DEF ColumnsTyped
  <2>2. -1 \in Int /\ 1 \in Int
    OBVIOUS
  <2>3. IsFiniteSet(-1..1)
    BY <2>2, FS_Interval
  <2>4. QED
    BY <2>1, <2>3, FS_Product
<1>3. ASSUME NEW v \in DueVisits(stop)
      PROVE  /\ v[1] \in db.stopTimes /\ v = <<v[1], v[2]>>
             /\ today(v[1]) \in Int /\ v[2] \in Int /\ v[2] - today(v[1]) \in -1..1
  <2>1. v[1] \in db.stopTimes /\ v = <<v[1], v[2]>> /\ v[2] \in today(v[1]) - 1..today(v[1]) + 1
    BY DueVisitsAre
  <2>2. today(v[1]) \in Int
    BY <1>1, ZoneAssumption, ClocksAreNumbers
  <2>3. QED
    BY <2>1, <2>2
<1> HIDE DEF today
<1>4. f \in [DueVisits(stop) -> places]
  BY <1>3
<1>5. ASSUME NEW v \in DueVisits(stop), NEW w \in DueVisits(stop), f[v] = f[w]
      PROVE  v = w
  <2>1. v[1] = w[1] /\ v[2] - today(v[1]) = w[2] - today(v[1])
    BY <1>5
  <2>2. v[2] = w[2]
    BY <1>3, <2>1
  <2>3. QED
    BY <1>3, <2>1, <2>2
<1>6. f \in Injection(DueVisits(stop), places)
  BY <1>4, <1>5 DEF Injection, IsInjective
<1>7. QED
  BY <1>2, <1>6, FS_Injection, FS_CardinalityType

-----------------------------------------------------------------------------
(* Predictions. *)

\* The stops of an update have the positions of a list, and its numbers are
\* numbers where they are there.
LEMMA StopsOfUpdate ==
    ASSUME NEW u, UpdateTyped(u)
    PROVE  /\ IsFiniteSet(DOMAIN u.stops) /\ DOMAIN u.stops \subseteq Int
           /\ \A i \in DOMAIN u.stops : /\ u.stops[i].seq \in Int \cup {Null}
                                        /\ EventTyped(u.stops[i].arr) /\ EventTyped(u.stops[i].dep)
<1>1. u.stops \in Seq(Range(u.stops))
  BY DEF UpdateTyped
<1>2. DOMAIN u.stops = 1..Len(u.stops) /\ Len(u.stops) \in Nat
  BY <1>1
<1>3. IsFiniteSet(1..Len(u.stops))
  BY <1>2, FS_Interval
<1>4. QED
  BY <1>2, <1>3 DEF UpdateTyped

\* The delay that an update hands on to a visit is a number.
LEMMA DelayHandedOn ==
    ASSUME NEW u, UpdateTyped(u), NEW seq \in Int
    PROVE  PropagatedDelay(u.stops, seq) \in Int \cup {Null}
<1> DEFINE stops == u.stops
           prior == {i \in DOMAIN stops : stops[i].seq # Null /\ stops[i].seq < seq}
           seqs == {stops[i].seq : i \in prior}
           last == {i \in prior : \A j \in prior : stops[j].seq <= stops[i].seq}
           closest == Min(last)
<1>1. CASE prior = {}
  BY <1>1 DEF PropagatedDelay
<1>2. CASE prior # {}
  <2>1. IsFiniteSet(DOMAIN stops) /\ DOMAIN stops \subseteq Int
    BY StopsOfUpdate
  <2>2. \A i \in prior : stops[i].seq \in Int
    BY StopsOfUpdate
  <2>3. IsFiniteSet(prior)
    BY <2>1, FS_Subset
  <2>4. IsFiniteSet(seqs)
    <3> DEFINE f == [i \in prior |-> stops[i].seq]
    <3>1. f \in Surjection(prior, seqs)
      BY DEF Surjection
    <3>2. QED
      BY <2>3, <3>1, FS_Surjection
  <2>5. seqs \in SUBSET Int /\ seqs # {}
    BY <1>2, <2>2
  <2> HIDE DEF prior, stops, seqs
  <2>6. Max(seqs) \in seqs /\ \A x \in seqs : x <= Max(seqs)
    BY <2>4, <2>5, Extremes
  <2>7. PICK i \in prior : stops[i].seq = Max(seqs)
    BY <2>6 DEF seqs
  <2>8. \A j \in prior : stops[j].seq <= stops[i].seq
    BY <2>6, <2>7 DEF seqs
  <2>9. i \in last
    BY <2>8
  <2>10. last \in SUBSET Int /\ IsFiniteSet(last) /\ last # {}
    <3>1. last \in SUBSET prior /\ prior \subseteq Int
      BY <2>1 DEF prior
    <3>2. QED
      BY <2>3, <2>9, <3>1, FS_Subset
  <2> HIDE DEF last
  <2>11. closest \in last
    BY <2>10, Extremes
  <2>12. closest \in DOMAIN u.stops
    BY <2>11 DEF last, prior, stops
  <2>13. EventTyped(stops[closest].dep) /\ EventTyped(stops[closest].arr)
    BY <2>12, StopsOfUpdate DEF stops
  <2> DEFINE delay(e) == IF e = Null THEN Null ELSE e.delay
             su == stops[closest]
  <2>14. PropagatedDelay(stops, seq) =
             IF delay(su.dep) # Null THEN delay(su.dep)
             ELSE IF delay(su.arr) # Null THEN delay(su.arr) ELSE 0
    BY <1>2 DEF PropagatedDelay, prior, last
  <2>15. QED
    BY <2>13, <2>14 DEF EventTyped, stops
<1>3. QED
  BY <1>1, <1>2

\* The update found for a visit is one of the stops of its trip's update.
LEMMA TargetFound ==
    ASSUME NEW u, UpdateTyped(u), NEW times, NEW stop, NEW seq,
           TargetUpdate(u.stops, times, stop, seq) # Null
    PROVE  \E i \in DOMAIN u.stops :
               /\ TargetUpdate(u.stops, times, stop, seq) = u.stops[i]
               /\ u.stops[i].seq = seq \/ ~SequenceIdentifiesVisit(u.stops[i], times)
<1> DEFINE stops == u.stops
           named == {i \in DOMAIN stops : stops[i].seq = seq /\ stops[i].stop \in {Null, stop}}
           byStop == {i \in DOMAIN stops : /\ stops[i].stop = stop
                                           /\ ~SequenceIdentifiesVisit(stops[i], times)}
<1>1. IsFiniteSet(DOMAIN stops) /\ DOMAIN stops \subseteq Int
  BY StopsOfUpdate
<1>2. \A S \in SUBSET DOMAIN stops : S # {} => Min(S) \in S
  <2> SUFFICES ASSUME NEW S \in SUBSET DOMAIN stops, S # {} PROVE Min(S) \in S
    OBVIOUS
  <2>1. IsFiniteSet(S) /\ S \in SUBSET Int
    BY <1>1, FS_Subset
  <2>2. QED
    BY <2>1, Extremes
<1>3. TargetUpdate(stops, times, stop, seq) =
          IF named # {} THEN stops[Min(named)] ELSE IF byStop # {} THEN stops[Min(byStop)] ELSE Null
  BY DEF TargetUpdate
<1>4. CASE named # {}
  <2>1. Min(named) \in named
    BY <1>2, <1>4
  <2>2. QED
    BY <1>3, <1>4, <2>1
<1>5. CASE named = {} /\ byStop # {}
  <2>1. Min(byStop) \in byStop
    BY <1>2, <1>5
  <2>2. QED
    BY <1>3, <1>5, <2>1
<1>6. QED
  BY <1>3, <1>4, <1>5

\* What a stop's events say of its times is a number.
LEMMA OffsetIsNumber ==
    ASSUME NEW e, EventTyped(e), NEW scheduled \in Int
    PROVE  EventOffset(e, scheduled) \in Int \cup {Null}
BY DEF EventOffset, EventTyped

\* Of the trip updates published every one is typed.
LEMMA UpdateOfTrip ==
    ASSUME NEW snapshot, SnapshotTyped(snapshot), NEW trip,
           GetTripUpdate(Context(snapshot), trip) # Null
    PROVE  UpdateTyped(GetTripUpdate(Context(snapshot), trip))
BY DEF GetTripUpdate, OneRow, Context, SnapshotTyped

\* Predictions are instants.
LEMMA PredictionIsNumber ==
    ASSUME NEW snapshot, SnapshotTyped(snapshot), NEW st, st.seq \in Int,
           NEW arrival \in Int, NEW departure \in Int,
           GetPredictedTimes(Context(snapshot), st, arrival, departure) # Null
    PROVE  GetPredictedTimes(Context(snapshot), st, arrival, departure).arrival \in Int
<1> DEFINE ctx == Context(snapshot)
           u == GetTripUpdate(ctx, st.trip)
           times == IF Fails(ctx, "GetStopTimesForTrip") THEN <<>> ELSE GetStopTimesForTrip(ctx.db, st.trip)
           target == IF u = Null THEN Null ELSE TargetUpdate(u.stops, times, st.stop, st.seq)
           propagated == IF u = Null THEN Null ELSE PropagatedDelay(u.stops, st.seq)
           arr == IF target = Null THEN Null ELSE EventOffset(target.arr, arrival)
           dep == IF target = Null THEN Null ELSE EventOffset(target.dep, departure)
           general == IF propagated # Null THEN propagated
                      ELSE IF target # Null THEN 0 ELSE IF u = Null THEN Null ELSE u.delay
           offset(own, other) == IF own # Null THEN own ELSE IF other # Null THEN other ELSE general
<1>1. /\ general # Null
      /\ GetPredictedTimes(ctx, st, arrival, departure).arrival = arrival + offset(arr, dep)
  BY DEF GetPredictedTimes
<1>2. u # Null => UpdateTyped(u)
  BY UpdateOfTrip
<1>3. propagated \in Int \cup {Null}
  BY <1>2, DelayHandedOn
<1>4. u # Null => u.delay \in Int \cup {Null}
  BY <1>2 DEF UpdateTyped
<1>5. arr \in Int \cup {Null} /\ dep \in Int \cup {Null}
  <2>1. CASE target = Null
    BY <2>1
  <2>2. CASE target # Null
    <3>1. u # Null /\ TargetUpdate(u.stops, times, st.stop, st.seq) = target
      BY <2>2
    <3>2. \E i \in DOMAIN u.stops : target = u.stops[i]
      <4> HIDE DEF u, times, target
      <4>1. QED
        BY <1>2, <2>2, <3>1, TargetFound
    <3>3. EventTyped(target.arr) /\ EventTyped(target.dep)
      <4> HIDE DEF u, times, target
      <4>1. QED
        BY <1>2, <3>1, <3>2, StopsOfUpdate
    <3> HIDE DEF target
    <3>4. QED
      BY <2>2, <3>3, OffsetIsNumber
  <2>3. QED
    BY <2>1, <2>2
<1> HIDE DEF u, times, target, propagated, arr, dep
<1>6. general \in Int
  BY <1>1, <1>3, <1>4
<1> HIDE DEF general
<1>7. offset(arr, dep) \in Int
  BY <1>5, <1>6
<1>8. QED
  BY <1>1, <1>7

-----------------------------------------------------------------------------
(* The order of arrivals. *)

\* Arrivals are compared by one number after the other.
LEMMA BestBeforeIs ==
    ASSUME NEW a, NEW b
    PROVE  BestBefore(a, b) <=>
               \/ BestArrival(a) < BestArrival(b)
               \/ /\ BestArrival(a) = BestArrival(b)
                  /\ \/ a.trip[1] < b.trip[1]
                     \/ /\ a.trip[1] = b.trip[1]
                        /\ \/ a.trip[2] < b.trip[2]
                           \/ /\ a.trip[2] = b.trip[2]
                              /\ \/ a.stopSequence < b.stopSequence
                                 \/ a.stopSequence = b.stopSequence /\ a.date < b.date
<1> DEFINE key(x) == <<BestArrival(x), x.trip[1], x.trip[2], x.stopSequence, x.date>>
           at(i) == key(a)[i] < key(b)[i] /\ \A j \in 1..i - 1 : key(a)[j] = key(b)[j]
<1>1. BestBefore(a, b) <=> \E i \in 1..5 : at(i)
  BY DEF BestBefore
<1>2. (\E i \in 1..5 : at(i)) <=> at(1) \/ at(2) \/ at(3) \/ at(4) \/ at(5)
  <2> HIDE DEF at
  <2>1. \A i \in 1..5 : i = 1 \/ i = 2 \/ i = 3 \/ i = 4 \/ i = 5
    OBVIOUS
  <2>2. 1 \in 1..5 /\ 2 \in 1..5 /\ 3 \in 1..5 /\ 4 \in 1..5 /\ 5 \in 1..5
    OBVIOUS
  <2>3. QED
    BY <2>1, <2>2
<1>3. /\ key(a)[1] = BestArrival(a) /\ key(b)[1] = BestArrival(b)
      /\ key(a)[2] = a.trip[1] /\ key(b)[2] = b.trip[1]
      /\ key(a)[3] = a.trip[2] /\ key(b)[3] = b.trip[2]
      /\ key(a)[4] = a.stopSequence /\ key(b)[4] = b.stopSequence
      /\ key(a)[5] = a.date /\ key(b)[5] = b.date
  OBVIOUS
<1> HIDE DEF key
<1> DEFINE same(j) == key(a)[j] = key(b)[j]
<1>4. /\ at(1) <=> key(a)[1] < key(b)[1]
      /\ at(2) <=> key(a)[2] < key(b)[2] /\ same(1)
      /\ at(3) <=> key(a)[3] < key(b)[3] /\ same(1) /\ same(2)
      /\ at(4) <=> key(a)[4] < key(b)[4] /\ same(1) /\ same(2) /\ same(3)
      /\ at(5) <=> key(a)[5] < key(b)[5] /\ same(1) /\ same(2) /\ same(3) /\ same(4)
  <2>1. /\ 1..1 - 1 = {} /\ 1..2 - 1 = {1} /\ 1..3 - 1 = {1, 2} /\ 1..4 - 1 = {1, 2, 3}
        /\ 1..5 - 1 = {1, 2, 3, 4}
    OBVIOUS
  <2>2. QED
    BY <2>1
<1> HIDE DEF at
<1>5. QED
  BY <1>1, <1>2, <1>3, <1>4

\* What the order compares of an arrival are numbers.
ArrivalTyped(a) ==
    /\ BestArrival(a) \in Int /\ a.trip[1] \in Int /\ a.trip[2] \in Int
    /\ a.stopSequence \in Int /\ a.date \in Int

\* What the order of arrivals compares tells the members of A apart.
ToldApart(A) ==
    /\ \A a \in A : ArrivalTyped(a)
    /\ \A a, b \in A : /\ a.trip[1] = b.trip[1] /\ a.trip[2] = b.trip[2]
                       /\ a.stopSequence = b.stopSequence /\ a.date = b.date
                       => a = b

\* Then it is a strict total order.
LEMMA BestIsStrict ==
    ASSUME NEW A, ToldApart(A)
    PROVE  /\ \A x, y \in A : x # y => BestBefore(x, y) \/ BestBefore(y, x)
           /\ \A x, y, z \in A : BestBefore(x, y) /\ BestBefore(y, z) => BestBefore(x, z)
           /\ \A x \in A : ~BestBefore(x, x)
<1>1. \A x, y \in A : x # y => BestBefore(x, y) \/ BestBefore(y, x)
  <2> SUFFICES ASSUME NEW x \in A, NEW y \in A, x # y PROVE BestBefore(x, y) \/ BestBefore(y, x)
    OBVIOUS
  <2>1. ~(/\ x.trip[1] = y.trip[1] /\ x.trip[2] = y.trip[2]
          /\ x.stopSequence = y.stopSequence /\ x.date = y.date)
    BY DEF ToldApart
  <2>2. ArrivalTyped(x) /\ ArrivalTyped(y)
    BY DEF ToldApart
  <2>3. QED
    BY <2>1, <2>2, BestBeforeIs DEF ArrivalTyped
<1>2. \A x, y, z \in A : BestBefore(x, y) /\ BestBefore(y, z) => BestBefore(x, z)
  <2> SUFFICES ASSUME NEW x \in A, NEW y \in A, NEW z \in A, BestBefore(x, y), BestBefore(y, z)
               PROVE  BestBefore(x, z)
    OBVIOUS
  <2>1. ArrivalTyped(x) /\ ArrivalTyped(y) /\ ArrivalTyped(z)
    BY DEF ToldApart
  <2>2. QED
    BY <2>1, BestBeforeIs DEF ArrivalTyped
<1>3. \A x \in A : ~BestBefore(x, x)
  BY BestBeforeIs DEF ArrivalTyped, ToldApart
<1>4. QED
  BY <1>1, <1>2, <1>3

\* Finitely many arrivals are sorted without losing one, when what the order
\* compares tells them apart.
LEMMA BestOrders ==
    ASSUME NEW A, IsFiniteSet(A), ToldApart(A)
    PROVE  /\ Cardinality(A) \in Nat
           /\ SortedBy(A, BestBefore) \in [1..Cardinality(A) -> A]
           /\ \A a \in A : \E i \in 1..Cardinality(A) : SortedBy(A, BestBefore)[i] = a
<1> DEFINE R == {p \in A \X A : BestBefore(p[1], p[2])}
<1>1. \A x, y \in A : <<x, y>> \in R <=> BestBefore(x, y)
  OBVIOUS
<1>2. SortedBy(A, BestBefore) = Enumeration(A, R)
  BY DEF SortedBy
<1> HIDE DEF R
<1>3. StrictOrderOn(A, R)
  BY <1>1, BestIsStrict DEF StrictOrderOn
<1>4. QED
  BY <1>2, <1>3, Enumerates

-----------------------------------------------------------------------------
(* The arrivals of a stop. *)

\* What the list says of a visit, when the trips listed are known.
ArrivalOf(v, listed, stop, agency) ==
    BuildArrival(Context(predicted), Context(described), Due(v, stop, agency), listed, request.at)

\* What is built for a visit due names it, and is compared by numbers.
LEMMA BuiltIs ==
    ASSUME RequestInv, request # Null, NEW listed, NEW x,
           x.time \in db.stopTimes, x.zone \in Clocks, x.date \in Int
    PROVE  LET a == BuildArrival(Context(predicted), Context(described), x, listed, request.at)
           IN  /\ a.trip = <<AgencyOf(x.time.trip), x.time.trip>>
               /\ a.stopSequence = x.time.seq - 1 /\ a.date = x.date
               /\ a.predicted = PredictedTimes(Context(predicted), x)
               /\ ArrivalTyped(a)
<1> DEFINE a == BuildArrival(Context(predicted), Context(described), x, listed, request.at)
           st == x.time start == Start(x.zone, x.date)
<1>1. feed \in DOMAIN Feeds /\ request.at \in Int /\ SnapshotTyped(predicted)
  BY DEF RequestInv
<1>2. /\ {st.trip, st.seq, st.arrival, st.departure} \subseteq Int /\ AgencyOf(st.trip) \in Int
  BY <1>1, RowsOfVisit
<1>3. /\ a.trip = <<AgencyOf(st.trip), st.trip>> /\ a.stopSequence = st.seq - 1 /\ a.date = x.date
      /\ a.arrival = start + st.arrival
      /\ a.predicted = PredictedTimes(Context(predicted), x)
  BY DEF BuildArrival, NewArrivalAndDeparture, AgencyOf, CombinedID, Context
<1>4. start \in Int
  BY ClocksAreNumbers
<1>5. start + st.arrival \in Int /\ start + st.departure \in Int
  <2> HIDE DEF start
  <2>1. QED
    BY <1>2, <1>4
<1>6. PredictedTimes(Context(predicted), x)
          = GetPredictedTimes(Context(predicted), st, start + st.arrival, start + st.departure)
  BY DEF PredictedTimes
<1> HIDE DEF start, st, a
<1>7. a.predicted # Null => a.predicted.arrival \in Int
  BY <1>1, <1>2, <1>3, <1>5, <1>6, PredictionIsNumber
<1>8. BestArrival(a) \in Int
  BY <1>3, <1>5, <1>7 DEF BestArrival
<1>9. a.stopSequence \in Int /\ a.date \in Int
  BY <1>2, <1>3
<1>10. ArrivalTyped(a)
  BY <1>2, <1>3, <1>8, <1>9 DEF ArrivalTyped
<1>11. QED
  BY <1>3, <1>10 DEF a, st

\* An arrival names its visit, and is compared by numbers.
LEMMA ArrivalIs ==
    ASSUME RequestInv, request # Null, NEW stop, NEW agency, NEW listed,
           NEW v \in DueVisits(stop), \E z \in DOMAIN Zones : OwnZone(v[1].trip) = Zones[z]
    PROVE  /\ ArrivalOf(v, listed, stop, agency).trip = <<AgencyOf(v[1].trip), v[1].trip>>
           /\ ArrivalOf(v, listed, stop, agency).stopSequence = v[1].seq - 1
           /\ ArrivalOf(v, listed, stop, agency).date = v[2]
           /\ ArrivalOf(v, listed, stop, agency).predicted
                 = PredictedTimes(Context(predicted), Due(v, stop, agency))
           /\ ArrivalTyped(ArrivalOf(v, listed, stop, agency))
<1> DEFINE x == Due(v, stop, agency)
<1>1. v[1] \in db.stopTimes
  BY DueVisitsAre
<1>2. OwnZone(v[1].trip) \in Clocks /\ v[2] \in Int
  <2>1. PICK z \in DOMAIN Zones : OwnZone(v[1].trip) = Zones[z]
    OBVIOUS
  <2>2. DateOf(Zones[z], request.at) \in Int
    BY ZoneAssumption, ClocksAreNumbers DEF RequestInv
  <2>3. v[2] \in DateOf(Zones[z], request.at) - 1..DateOf(Zones[z], request.at) + 1
    BY <2>1, DueVisitsAre
  <2>4. QED
    BY <2>1, <2>2, <2>3, ZoneAssumption
<1>3. x.time = v[1] /\ x.zone = OwnZone(v[1].trip) /\ x.date = v[2]
  BY DEF Due
<1> HIDE DEF x
<1>4. LET a == BuildArrival(Context(predicted), Context(described), x, listed, request.at)
      IN  /\ a.trip = <<AgencyOf(v[1].trip), v[1].trip>>
          /\ a.stopSequence = v[1].seq - 1 /\ a.date = v[2]
          /\ a.predicted = PredictedTimes(Context(predicted), x)
          /\ ArrivalTyped(a)
  BY <1>1, <1>2, <1>3, BuiltIs
<1>5. QED
  BY <1>4 DEF ArrivalOf, x

ArrivalsOf(listed, stop, agency) == {ArrivalOf(v, listed, stop, agency) : v \in DueVisits(stop)}

\* One arrival for each visit, and one place in the list for each arrival.
LEMMA ArrivalsSorted ==
    ASSUME RequestInv, request # Null, NEW stop, NEW agency, NEW listed,
           \A v \in DueVisits(stop) : \E z \in DOMAIN Zones : OwnZone(v[1].trip) = Zones[z]
    PROVE  /\ Cardinality(DueVisits(stop)) \in Nat
           /\ SortedBy(ArrivalsOf(listed, stop, agency), BestBefore)
                 \in [1..Cardinality(DueVisits(stop)) -> ArrivalsOf(listed, stop, agency)]
           /\ Range(SortedBy(ArrivalsOf(listed, stop, agency), BestBefore))
                 = ArrivalsOf(listed, stop, agency)
<1> DEFINE due == DueVisits(stop)
           of(v) == ArrivalOf(v, listed, stop, agency)
           arrivals == {of(v) : v \in due}
           f == [v \in due |-> of(v)]
<1>1. IsFiniteSet(due) /\ Cardinality(due) \in Nat
  BY FewDue
<1>2. \A v \in due : /\ of(v).trip = <<AgencyOf(v[1].trip), v[1].trip>>
                     /\ of(v).stopSequence = v[1].seq - 1 /\ of(v).date = v[2] /\ ArrivalTyped(of(v))
  BY ArrivalIs
<1>3. feed \in DOMAIN Feeds
  BY DEF RequestInv
<1>4. \A v \in due : /\ v[1] \in db.stopTimes /\ v = <<v[1], v[2]>> /\ v[1].seq \in Int
  BY <1>3, DueVisitsAre, RowsOfVisit
<1> HIDE DEF of
<1>5. ASSUME NEW v \in due, NEW w \in due, of(v).trip[2] = of(w).trip[2],
             of(v).stopSequence = of(w).stopSequence, of(v).date = of(w).date
      PROVE  v = w
  <2>1. v[1].trip = w[1].trip /\ v[2] = w[2]
    BY <1>2, <1>5
  <2>2. v[1].seq - 1 = w[1].seq - 1
    BY <1>2, <1>5
  <2>3. v[1].seq = w[1].seq
    BY <1>4, <2>2
  <2>4. v[1] = w[1]
    BY <1>3, <1>4, <2>1, <2>3, TablesImported
  <2>5. QED
    BY <1>4, <2>1, <2>4
<1>6. f \in Injection(due, arrivals) /\ f \in Surjection(due, arrivals)
  BY <1>5 DEF Injection, IsInjective, Surjection
<1>7. IsFiniteSet(arrivals) /\ Cardinality(arrivals) = Cardinality(due)
  BY <1>1, <1>6, FS_Surjection
<1>8. ToldApart(arrivals)
  BY <1>2, <1>5 DEF ToldApart
<1>9. /\ SortedBy(arrivals, BestBefore) \in [1..Cardinality(due) -> arrivals]
      /\ \A a \in arrivals : \E i \in 1..Cardinality(due) : SortedBy(arrivals, BestBefore)[i] = a
  <2> HIDE DEF arrivals
  <2>1. QED
    BY <1>7, <1>8, BestOrders
<1>10. Range(SortedBy(arrivals, BestBefore)) = arrivals
  <2> HIDE DEF arrivals
  <2>1. QED
    BY <1>9 DEF Range
<1>11. ArrivalsOf(listed, stop, agency) = arrivals
  BY DEF ArrivalsOf, of
<1> HIDE DEF arrivals
<1>12. QED
  BY <1>1, <1>9, <1>10, <1>11

\* The trips of the visits due.
TripsDue(stop) == {v[1].trip : v \in DueVisits(stop)}

\* The arrivals of a stop, unless they are an error, are one for each visit
\* due, in an order.
LEMMA ArrivalsListed ==
    ASSUME RequestInv, request # Null, request.fails = {}, NEW stop, NEW agency,
           ArrivalsForStop(Context(predicted), Context(described), stop, agency, Window) # Null
    PROVE  LET arrivals == ArrivalsOf(TripsDue(stop), stop, agency)
               n == Cardinality(DueVisits(stop))
               listed == ArrivalsForStop(Context(predicted), Context(described), stop, agency, Window)
           IN  /\ \A v \in DueVisits(stop) : \E z \in DOMAIN Zones : OwnZone(v[1].trip) = Zones[z]
               /\ ActiveStopTimesForWindow(Context(predicted), stop, agency, Window) # Null
               /\ n \in Nat
               /\ listed \in [1..n -> arrivals]
               /\ Range(listed) = arrivals
<1> DEFINE ctx == Context(predicted)
           later == Context(described)
           visits == DueVisits(stop)
           arrivals == ArrivalsOf(TripsDue(stop), stop, agency)
           due == ActiveStopTimesForWindow(ctx, stop, agency, Window)
           built == BuildArrivals(ctx, later, due, {}, Window.at)
           sorted == SortedBy(built, BestBefore)
           listed == ArrivalsForStop(ctx, later, stop, agency, Window)
<1>1. ~EntitiesFail(ctx) /\ Window.at = request.at
  BY DEF EntitiesFail, Context, Window
<1>2. listed = IF due = Null \/ built = Null THEN Null ELSE sorted
  BY <1>1 DEF ArrivalsForStop
<1>3. due # Null /\ listed = sorted
  BY <1>2
<1>4. /\ due = {Due(v, stop, agency) : v \in visits}
      /\ \A v \in visits : \E z \in DOMAIN Zones : OwnZone(v[1].trip) = Zones[z]
  BY <1>3, DueAtStop
<1>5. built = arrivals
  <2>1. \A x : IsRouteTypeAllowed(x, {})
    BY DEF IsRouteTypeAllowed
  <2>2. {x \in due : IsRouteTypeAllowed(
                GetRoute(ctx.db, GetTrip(ctx.db, x.time.trip).route).type, {})} = due
    BY <2>1
  <2>3. built = {BuildArrival(ctx, later, x, {y.time.trip : y \in due}, request.at) : x \in due}
    BY <1>1, <2>2 DEF BuildArrivals
  <2>4. {y.time.trip : y \in due} = TripsDue(stop)
    <3>1. \A v \in visits : Due(v, stop, agency).time.trip = v[1].trip
      BY DEF Due
    <3> HIDE DEF due, visits
    <3>2. QED
      BY <1>4, <3>1 DEF TripsDue, visits
  <2> HIDE DEF due, visits
  <2>5. built = {BuildArrival(ctx, later, x, TripsDue(stop), request.at) : x \in due}
    BY <2>3, <2>4
  <2>6. QED
    BY <1>4, <2>5 DEF ArrivalsOf, ArrivalOf, visits
<1>6. /\ Cardinality(visits) \in Nat
      /\ SortedBy(arrivals, BestBefore) \in [1..Cardinality(visits) -> arrivals]
      /\ Range(SortedBy(arrivals, BestBefore)) = arrivals
  <2>1. \A v \in visits : \E z \in DOMAIN Zones : OwnZone(v[1].trip) = Zones[z]
    BY <1>4
  <2>2. QED
    BY <2>1, ArrivalsSorted
<1>7. listed = SortedBy(arrivals, BestBefore)
  <2> HIDE DEF due, arrivals, built, listed
  <2>1. QED
    BY <1>3, <1>5
<1>8. QED
  BY <1>3, <1>4, <1>6, <1>7

\* An answer that is not an error lists one arrival for each visit due.
LEMMA AnswerLists ==
    ASSUME RequestInv, Answering("stop"), request.fails = {}, StopAnswer # Null
    PROVE  LET stop == request.of.stop
               agency == request.of.agency
               arrivals == ArrivalsOf(TripsDue(stop), stop, agency)
               n == Cardinality(DueVisits(stop))
           IN  /\ \A v \in DueVisits(stop) : \E z \in DOMAIN Zones : OwnZone(v[1].trip) = Zones[z]
               /\ n \in Nat
               /\ StopAnswer.arrivals \in [1..n -> arrivals]
               /\ Range(StopAnswer.arrivals) = arrivals
<1> DEFINE stop == request.of.stop
           agency == request.of.agency
           ctx == Context(predicted)
           later == Context(described)
           visits == DueVisits(stop)
           arrivals == ArrivalsOf(TripsDue(stop), stop, agency)
           due == ActiveStopTimesForWindow(ctx, stop, agency, Window)
           listed == ArrivalsForStop(ctx, later, stop, agency, Window)
<1>1. request # Null
  BY DEF Answering
<1>2. /\ listed # Null
      /\ StopAnswer.arrivals = IF due = {} THEN <<>> ELSE listed
  <2> HIDE DEF due, listed, ctx, later
  <2>1. \/ StopAnswer = Null
        \/ /\ listed # Null
           /\ StopAnswer = IF due = {} THEN Envelope(<<CombinedID(agency, stop)>>, {agency})
                           ELSE AnswerForStop(ctx, later, stop, agency, listed,
                                              Accumulated(ctx, Range(listed), {stop}))
    BY DEF StopAnswer, ArrivalsAndDeparturesForStop, ctx, later, due, listed
  <2>2. Envelope(<<CombinedID(agency, stop)>>, {agency}).arrivals = <<>>
    BY DEF Envelope
  <2>3. AnswerForStop(ctx, later, stop, agency, listed,
                      Accumulated(ctx, Range(listed), {stop})).arrivals = listed
    BY DEF AnswerForStop
  <2>4. QED
    BY <2>1, <2>2, <2>3
<1>3. /\ \A v \in visits : \E z \in DOMAIN Zones : OwnZone(v[1].trip) = Zones[z]
      /\ due # Null
      /\ Cardinality(visits) \in Nat
      /\ listed \in [1..Cardinality(visits) -> arrivals]
      /\ Range(listed) = arrivals
  BY <1>1, <1>2, ArrivalsListed
<1>4. CASE due = {}
  <2>1. due = {Due(v, stop, agency) : v \in visits}
    BY <1>1, <1>3, DueAtStop
  <2>2. visits = {}
    BY <1>4, <2>1
  <2>3. arrivals = {} /\ Cardinality(visits) = 0
    BY <2>2, FS_EmptySet DEF ArrivalsOf
  <2>4. StopAnswer.arrivals = <<>>
    BY <1>2, <1>4
  <2> HIDE DEF arrivals, visits
  <2>5. StopAnswer.arrivals \in [1..Cardinality(visits) -> arrivals]
    BY <2>3, <2>4
  <2>6. Range(StopAnswer.arrivals) = arrivals
    BY <2>3, <2>4 DEF Range
  <2>7. QED
    BY <1>3, <2>5, <2>6 DEF arrivals, visits
<1>5. CASE due # {}
  <2>1. StopAnswer.arrivals = listed
    BY <1>2, <1>5
  <2>2. QED
    BY <1>3, <2>1
<1>6. QED
  BY <1>4, <1>5

\* Unless it is an error, the answer for a stop lists every visit that falls
\* into the window by the clock of its own agency, and each of them once.
THEOREM EveryDueVisitListedOnce == Spec => []DueVisitsListed
<1>1. RequestInv => DueVisitsListed
  <2> SUFFICES ASSUME RequestInv, Answering("stop"), Undisturbed, StopAnswer # Null
               PROVE  ListedAre(StopAnswer.arrivals, DueVisits(request.of.stop))
    BY DEF DueVisitsListed, AnsweredAre
  <2> DEFINE stop == request.of.stop
             agency == request.of.agency
             visits == DueVisits(stop)
             of(v) == ArrivalOf(v, TripsDue(stop), stop, agency)
             arrivals == {of(v) : v \in visits}
             n == Cardinality(visits)
             name(a) == <<a.trip[2], a.stopSequence + 1, a.date>>
  <2>1. request # Null /\ request.fails = {}
    BY DEF Answering, Undisturbed, Degraded
  <2>2. /\ \A v \in visits : \E z \in DOMAIN Zones : OwnZone(v[1].trip) = Zones[z]
        /\ n \in Nat
        /\ StopAnswer.arrivals \in [1..n -> arrivals]
        /\ Range(StopAnswer.arrivals) = arrivals
    BY <2>1, AnswerLists DEF ArrivalsOf
  <2>3. Len(StopAnswer.arrivals) = n
    BY <2>2, LenProperties
  <2>4. \A v \in visits : name(of(v)) = <<v[1].trip, v[1].seq, v[2]>>
    <3> SUFFICES ASSUME NEW v \in visits PROVE name(of(v)) = <<v[1].trip, v[1].seq, v[2]>>
      OBVIOUS
    <3>1. /\ of(v).trip = <<AgencyOf(v[1].trip), v[1].trip>>
          /\ of(v).stopSequence = v[1].seq - 1 /\ of(v).date = v[2]
      BY <2>1, <2>2, ArrivalIs
    <3>2. v[1].seq \in Int
      BY <2>1, DueVisitsAre, RowsOfVisit DEF RequestInv
    <3> HIDE DEF of
    <3>3. (v[1].seq - 1) + 1 = v[1].seq
      BY <3>2
    <3>4. QED
      BY <3>1, <3>3
  <2>5. {name(a) : a \in arrivals} = {<<v[1].trip, v[1].seq, v[2]>> : v \in visits}
    <3> HIDE DEF of, name, visits
    <3>1. {name(a) : a \in arrivals} = {name(of(v)) : v \in visits}
      OBVIOUS
    <3>2. QED
      BY <2>4, <3>1
  <2>6. QED
    BY <2>2, <2>3, <2>5 DEF ListedAre
<1>2. QED
  BY <1>1, RequestInvariant, PTL

\* An update that names only later visits predicts nothing of this one.
LEMMA NothingFromAhead ==
    ASSUME NEW snapshot, SnapshotTyped(snapshot), request.fails = {},
           NEW st, st.seq \in Int, NEW arrival, NEW departure,
           LET u == GetTripUpdate(Context(snapshot), st.trip)
               times == GetStopTimesForTrip(db, st.trip)
           IN  /\ u # Null /\ u.delay = Null
               /\ \A i \in DOMAIN u.stops :
                     SequenceIdentifiesVisit(u.stops[i], times) /\ u.stops[i].seq > st.seq
    PROVE  GetPredictedTimes(Context(snapshot), st, arrival, departure) = Null
<1> DEFINE ctx == Context(snapshot)
           u == GetTripUpdate(ctx, st.trip)
           times == GetStopTimesForTrip(db, st.trip)
<1>1. u # Null /\ UpdateTyped(u) /\ u.delay = Null
  BY UpdateOfTrip
<1>2. \A i \in DOMAIN u.stops :
          SequenceIdentifiesVisit(u.stops[i], times) /\ u.stops[i].seq > st.seq
  OBVIOUS
<1>3. ctx.db = db /\ ~Fails(ctx, "GetStopTimesForTrip")
  BY DEF Context, Fails
<1> HIDE DEF ctx, u, times
<1>4. \A i \in DOMAIN u.stops : u.stops[i].seq \in Int
  <2>1. \A i \in DOMAIN u.stops : u.stops[i].seq \in Int \cup {Null} /\ u.stops[i].seq # Null
    BY <1>1, <1>2, StopsOfUpdate DEF SequenceIdentifiesVisit
  <2>2. QED
    BY <2>1
<1>5. TargetUpdate(u.stops, times, st.stop, st.seq) = Null
  <2> SUFFICES ASSUME TargetUpdate(u.stops, times, st.stop, st.seq) # Null PROVE FALSE
    OBVIOUS
  <2>1. PICK i \in DOMAIN u.stops :
            u.stops[i].seq = st.seq \/ ~SequenceIdentifiesVisit(u.stops[i], times)
    BY <1>1, TargetFound
  <2>2. QED
    BY <1>2, <1>4, <2>1
<1>6. PropagatedDelay(u.stops, st.seq) = Null
  <2>1. \A i \in DOMAIN u.stops : ~(u.stops[i].seq < st.seq)
    BY <1>2, <1>4
  <2>2. {i \in DOMAIN u.stops : u.stops[i].seq # Null /\ u.stops[i].seq < st.seq} = {}
    BY <2>1
  <2>3. QED
    BY <2>2 DEF PropagatedDelay
<1>7. QED
  BY <1>1, <1>3, <1>5, <1>6 DEF GetPredictedTimes, u, times, ctx

\* What an update says only of later visits is not predicted of an earlier
\* one, whichever snapshot the predictions were made from.
THEOREM PredictionsNeverFromAhead == Spec => []NoPredictionFromAhead
<1>1. RequestInv => NoPredictionFromAhead
  <2> SUFFICES ASSUME RequestInv, Answering("stop"), ~Degraded, StopAnswer # Null,
                      NEW a \in Range(StopAnswer.arrivals)
               PROVE  NotFromAhead(a, GetTripUpdate(Context(predicted), a.trip[2]),
                                   GetStopTimesForTrip(db, a.trip[2]))
    BY DEF NoPredictionFromAhead, AnsweredNotFromAhead
  <2> DEFINE stop == request.of.stop
             agency == request.of.agency
             of(v) == ArrivalOf(v, TripsDue(stop), stop, agency)
             u == GetTripUpdate(Context(predicted), a.trip[2])
             times == GetStopTimesForTrip(db, a.trip[2])
  <2>1. request # Null /\ request.fails = {} /\ SnapshotTyped(predicted) /\ feed \in DOMAIN Feeds
    BY DEF Answering, Degraded, RequestInv
  <2>2. PICK v \in DueVisits(stop) :
            a = of(v) /\ \E z \in DOMAIN Zones : OwnZone(v[1].trip) = Zones[z]
    BY <2>1, AnswerLists DEF ArrivalsOf
  <2> DEFINE st == v[1] start == Start(OwnZone(st.trip), v[2])
  <2>3. /\ a.trip = <<AgencyOf(st.trip), st.trip>> /\ a.stopSequence = st.seq - 1
        /\ a.predicted = PredictedTimes(Context(predicted), Due(v, stop, agency))
    BY <2>1, <2>2, ArrivalIs
  <2>4. st.seq \in Int
    BY <2>1, DueVisitsAre, RowsOfVisit
  <2>5. a.predicted = GetPredictedTimes(Context(predicted), st, start + st.arrival, start + st.departure)
    BY <2>3 DEF PredictedTimes, Due
  <2>6. a.trip[2] = st.trip
    BY <2>3
  <2> HIDE DEF st, start
  <2>7. a.stopSequence + 1 = st.seq
    BY <2>3, <2>4
  <2>8. ASSUME u # Null, u.delay = Null,
               \A i \in DOMAIN u.stops : /\ SequenceIdentifiesVisit(u.stops[i], times)
                                         /\ u.stops[i].seq > a.stopSequence + 1
        PROVE  a.predicted = Null
    BY <2>1, <2>4, <2>5, <2>6, <2>7, <2>8, NothingFromAhead
  <2>9. QED
    BY <2>8 DEF NotFromAhead
<1>2. QED
  BY <1>1, RequestInvariant, PTL

-----------------------------------------------------------------------------
(* A single arrival. *)

\* The day a wall clock shows from one midnight to the next.
LEMMA DayOfWall ==
    ASSUME NEW d \in Int, NEW x \in Int, d * Day <= x, x < d * Day + Day
    PROVE  x \div Day = d
<1> DEFINE q == x \div Day
<1>1. Day \in Int /\ 0 < Day
  BY DayAssumption
<1>2. q \in Int /\ q * Day <= x /\ x < q * Day + Day
  BY <1>1
<1> HIDE DEF q
<1>3. CASE q < d
  <2>1. q + 1 <= d
    BY <1>2, <1>3
  <2>2. (q + 1) * Day <= d * Day
    BY <1>1, <1>2, <2>1
  <2>3. q * Day + Day <= d * Day
    BY <1>1, <1>2, <2>2
  <2>4. QED
    BY <1>1, <1>2, <2>3
<1>4. CASE d < q
  <2>1. d + 1 <= q
    BY <1>2, <1>4
  <2>2. (d + 1) * Day <= q * Day
    BY <1>1, <1>2, <2>1
  <2>3. d * Day + Day <= q * Day
    BY <1>1, <1>2, <2>2
  <2>4. QED
    BY <1>1, <1>2, <2>3
<1>5. QED
  BY <1>2, <1>3, <1>4 DEF q

\* The service date that begins at the start of a service day is that day,
\* when the clocks change in its first hours as well.
LEMMA DateOfStart ==
    ASSUME NEW z \in DOMAIN Zones, NEW d \in Int
    PROVE  FromInstant(Zones[z], Start(Zones[z], d)) = d
<1> DEFINE zone == Zones[z]
           h == Day \div 2
           m == d * Day
           next == (d + 1) * Day
           t == Start(zone, d)
           shift == zone.after - zone.before
<1>1. /\ zone.change \in Int /\ zone.before \in Int /\ zone.after \in Int
      /\ -Day < shift /\ shift < Day
  BY ZoneAssumption, ClockChangeAssumption DEF Clocks
<1>2. Day \in Int /\ 0 < Day /\ h \in Int /\ 0 <= h
  BY DayAssumption
<1>3. m \in Int /\ next = m + Day /\ (d - 1) * Day = m - Day
  BY <1>2
<1> HIDE DEF h, m, next, zone
<1>4. t = IF m + h - zone.before < zone.change THEN m - zone.before ELSE m - zone.after
  BY <1>1, <1>2, <1>3 DEF Start, InstantOf, m, h
<1>5. Start(zone, d + 1) = IF next + h - zone.before < zone.change
                           THEN next - zone.before ELSE next - zone.after
  BY <1>1, <1>2, <1>3 DEF Start, InstantOf, next, h
<1> HIDE DEF t
<1>6. t \in Int /\ Start(zone, d + 1) # t
  BY <1>1, <1>2, <1>3, <1>4, <1>5
<1> DEFINE w == WallAt(zone, t)
<1>7. w = IF t < zone.change THEN t + zone.before ELSE t + zone.after
  BY DEF WallAt, OffsetAt
<1> HIDE DEF w
<1>8. w \in Int /\ ((m <= w /\ w < m + Day) \/ (m - Day <= w /\ w < m))
  BY <1>1, <1>2, <1>3, <1>4, <1>6, <1>7
<1>9. CASE m <= w /\ w < m + Day
  <2>1. DateOf(zone, t) = d
    BY <1>8, <1>9, DayOfWall DEF DateOf, w, m
  <2>2. QED
    BY <1>6, <2>1 DEF FromInstant, zone, t
<1>10. CASE m - Day <= w /\ w < m
  <2>1. d - 1 \in Int /\ (d - 1) * Day <= w /\ w < (d - 1) * Day + Day
    BY <1>2, <1>3, <1>10
  <2>2. DateOf(zone, t) = d - 1
    BY <1>8, <2>1, DayOfWall DEF DateOf, w
  <2>3. Start(zone, (d - 1) + 1) = t
    BY DEF t
  <2>4. FromInstant(zone, t) = (d - 1) + 1
    BY <2>2, <2>3 DEF FromInstant
  <2>5. QED
    BY <2>4 DEF zone, t
<1>11. QED
  BY <1>8, <1>9, <1>10

\* The fields of a status are those of its heading.
LEMMA StatusKeepsFields ==
    ASSUME NEW ctx, NEW memo, NEW heading, NEW trip, NEW dbTrip, NEW v, NEW zone, NEW d, NEW now
    PROVE  DOMAIN StatusReached(ctx, memo, heading, trip, dbTrip, v, zone, d, now) = DOMAIN heading
<1>1. \A status, stops, snapshot, position :
          DOMAIN Located(status, stops, snapshot, position, trip, v, now) = DOMAIN status
  BY DEF Located
<1>2. \A deviation :
          DOMAIN StatusWith(ctx, memo, heading, trip, dbTrip, v, zone, d, now, deviation) = DOMAIN heading
  <2> SUFFICES ASSUME NEW deviation
               PROVE  DOMAIN StatusWith(ctx, memo, heading, trip, dbTrip, v, zone, d, now, deviation)
                          = DOMAIN heading
    OBVIOUS
  <2> DEFINE dev == OrElse(deviation, 0)
             late == [heading EXCEPT !.predicted = @ \/ deviation # Null,
                                     !.deviation = dev, !.effective = now - dev]
  <2>1. DOMAIN late = DOMAIN heading
    OBVIOUS
  <2>2. \/ StatusWith(ctx, memo, heading, trip, dbTrip, v, zone, d, now, deviation) = heading
        \/ \E stops, snapshot, position :
              StatusWith(ctx, memo, heading, trip, dbTrip, v, zone, d, now, deviation)
                  = Located(late, stops, snapshot, position, trip, v, now)
    BY DEF StatusWith
  <2> HIDE DEF late
  <2>3. QED
    BY <1>1, <2>1, <2>2
<1>3. QED
  BY <1>2 DEF StatusReached

FrequencyAside(status) == [status EXCEPT !.frequency = Null]

\* A status says the same whatever trips it is listed with, but for its
\* frequency.
LEMMA StatusAlone ==
    ASSUME NEW ctx, ctx.fails = {}, NEW listed, NEW alone, NEW agency, NEW trip, NEW v,
           NEW zone, NEW d, NEW now
    PROVE  LET s == EntryStatus(ctx, listed, agency, trip, v, zone, d, now)
               t == EntryStatus(ctx, alone, agency, trip, v, zone, d, now)
           IN  /\ FrequencyAside(s) = FrequencyAside(t)
               /\ s.snapshot = t.snapshot /\ s.situations = t.situations
<1> DEFINE dbTrip == DBTrip(ctx, trip, v, now)
           heading == Heading(ctx, agency, trip, dbTrip, v, zone, d, now)
           reached(c) == StatusReached(c, <<>>, heading, trip, dbTrip, v, zone, d, now)
           base == reached([ctx EXCEPT !.fails = {}])
           status(known) == EntryStatus(ctx, known, agency, trip, v, zone, d, now)
<1>1. ASSUME NEW known
      PROVE  status(known) = AtServiceStart(ctx, base, known \cup {dbTrip}, trip, zone, d, now)
  <2>1. Preloaded(ctx, dbTrip, known) = [ctx EXCEPT !.fails = {}]
    BY DEF Preloaded
  <2>2. QED
    BY <2>1 DEF EntryStatus
<1>2. {"frequency", "snapshot", "situations"} \subseteq DOMAIN heading
  BY DEF Heading
<1> HIDE DEF heading
<1>3. {"frequency", "snapshot", "situations"} \subseteq DOMAIN base
  BY <1>2, StatusKeepsFields
<1> HIDE DEF base
<1>4. ASSUME NEW known
      PROVE  status(known) = base \/ \E f : status(known) = [base EXCEPT !.frequency = f]
  BY <1>1 DEF AtServiceStart
<1> HIDE DEF status
<1>5. ASSUME NEW known
      PROVE  /\ [status(known) EXCEPT !.frequency = Null] = [base EXCEPT !.frequency = Null]
             /\ status(known).snapshot = base.snapshot /\ status(known).situations = base.situations
  <2>1. CASE status(known) = base
    BY <2>1
  <2>2. ASSUME NEW f, status(known) = [base EXCEPT !.frequency = f]
        PROVE  /\ [status(known) EXCEPT !.frequency = Null] = [base EXCEPT !.frequency = Null]
               /\ status(known).snapshot = base.snapshot /\ status(known).situations = base.situations
    <3>1. status(known).snapshot = base.snapshot /\ status(known).situations = base.situations
      BY <1>3, <2>2
    <3>2. [[base EXCEPT !.frequency = f] EXCEPT !.frequency = Null] = [base EXCEPT !.frequency = Null]
      OBVIOUS
    <3>3. QED
      BY <2>2, <3>1, <3>2
  <2>3. QED
    BY <1>4, <2>1, <2>2
<1>6. QED
  BY <1>5 DEF status, FrequencyAside

Renumbered(a, number) == [a EXCEPT !.stopSequence = number]

\* Two rows of one visit differ in no more than its number when their
\* statuses differ in no more than their frequencies; with one number, in
\* the frequencies alone.
LEMMA RowsAgree ==
    ASSUME NEW ctx, NEW due, NEW route, NEW v, NEW forecast, NEW s, NEW t, NEW now,
           NEW i, NEW j, NEW total,
           FrequencyAside(s) = FrequencyAside(t), s.snapshot = t.snapshot, s.situations = t.situations
    PROVE  LET a == NewArrivalAndDeparture(ctx, due, route, v, forecast, s, now, i, total)
               b == NewArrivalAndDeparture(ctx, due, route, v, forecast, t, now, j, total)
           IN  /\ WithoutStatusFrequency(Renumbered(b, a.stopSequence)) = WithoutStatusFrequency(a)
               /\ i = j => WithoutStatusFrequency(b) = WithoutStatusFrequency(a)
<1> DEFINE a == NewArrivalAndDeparture(ctx, due, route, v, forecast, s, now, i, total)
           b == NewArrivalAndDeparture(ctx, due, route, v, forecast, t, now, j, total)
           st == due.time
           start == Start(due.zone, due.date)
           away == IF s.snapshot = Null THEN Null ELSE MetricsForStop(s.snapshot, st.trip, st.seq)
           row(status, number) ==
               [route |-> RouteID(route), trip |-> CombinedID(route.agency, st.trip), stop |-> due.stop,
                vehicle |-> CombinedVehicleID(v, route.agency), date |-> due.date,
                arrival |-> start + st.arrival, departure |-> start + st.departure,
                predicted |-> forecast, status |-> status, away |-> away,
                frequency |-> FrequencyForEntry(ctx, due.zone, st.trip, due.date, now),
                situations |-> s.situations, stopSequence |-> number, totalStops |-> total]
<1>1. a = row(s, i) /\ b = row(t, j)
  BY DEF NewArrivalAndDeparture
<1> HIDE DEF st, start, away, a, b
<1>2. Renumbered(row(t, j), i) = row(t, i)
  BY DEF Renumbered
<1>3. /\ WithoutStatusFrequency(row(s, i)) = row(FrequencyAside(s), i)
      /\ WithoutStatusFrequency(row(t, i)) = row(FrequencyAside(t), i)
  BY DEF WithoutStatusFrequency, FrequencyAside
<1>4. a.stopSequence = i
  BY <1>1
<1> HIDE DEF row
<1>5. WithoutStatusFrequency(Renumbered(b, a.stopSequence)) = WithoutStatusFrequency(a)
  BY <1>1, <1>2, <1>3, <1>4
<1>6. i = j => WithoutStatusFrequency(b) = WithoutStatusFrequency(a)
  BY <1>1, <1>3
<1>7. QED
  BY <1>5, <1>6 DEF a, b

\* A trip's visits stand in the list of its stop times, every one once, and
\* its position there finds it among the visits of its stop.
LEMMA VisitInTrip ==
    ASSUME feed \in DOMAIN Feeds, NEW st \in db.stopTimes
    PROVE  LET times == GetStopTimesForTrip(db, st.trip)
           IN  /\ Len(times) \in Nat
               /\ \E i \in 1..Len(times) :
                     /\ times[i] = st
                     /\ {j \in 1..Len(times) : times[j].seq = st.seq} = {i}
                     /\ FindStopTimeByPosition(times, st.stop, i - 1) = i
<1> DEFINE visits == StopTimesOf(db, {st.trip})
           times == GetStopTimesForTrip(db, st.trip)
           n == Cardinality(visits)
<1>1. visits \subseteq db.stopTimes /\ st \in visits /\ \A x \in visits : x.trip = st.trip
  BY DEF StopTimesOf
<1>2. IsFiniteSet(visits)
  BY <1>1, TablesImported, FS_Subset DEF ColumnsTyped
<1>3. \A x \in visits : x.seq \in Int
  BY <1>1, TablesImported DEF ColumnsTyped
<1>4. \A x, y \in visits : x.seq = y.seq => x = y
  BY <1>1, TablesImported
<1>5. /\ n \in Nat /\ times \in [1..n -> visits]
      /\ \A x \in visits : \E i \in 1..n : times[i] = x
      /\ \A i, j \in 1..n : times[i] = times[j] => i = j
  <2> HIDE DEF visits
  <2>1. QED
    BY <1>2, <1>3, <1>4, SequenceOrders DEF GetStopTimesForTrip, visits
<1> HIDE DEF visits, times, n
<1>6. Len(times) = n /\ DOMAIN times = 1..n
  BY <1>5, LenProperties
<1>7. PICK i \in 1..n : times[i] = st
  BY <1>1, <1>5
<1>8. {j \in 1..n : times[j].seq = st.seq} = {i}
  <2>1. \A j \in 1..n : times[j].seq = st.seq => j = i
    BY <1>1, <1>4, <1>5, <1>7
  <2>2. QED
    BY <1>7, <2>1
<1>9. FindStopTimeByPosition(times, st.stop, i - 1) = i
  <2> DEFINE at == {j \in 1..n : times[j].stop = st.stop}
             nearest == {j \in at : \A k \in at : \/ Distance(j, i) < Distance(k, i)
                                                  \/ Distance(j, i) = Distance(k, i) /\ j <= k}
  <2>1. (i - 1) + 1 = i /\ i \in Int /\ n \in Int /\ i <= n
    BY <1>5, <1>7
  <2>2. Min({(i - 1) + 1, n}) = i
    <3>1. {i, n} \in SUBSET Int /\ {i, n} # {} /\ IsFiniteSet({i, n})
      <4>1. IsFiniteSet(i..n)
        BY <2>1, FS_Interval
      <4>2. {i, n} \in SUBSET (i..n)
        BY <2>1
      <4>3. QED
        BY <2>1, <4>1, <4>2, FS_Subset
    <3>2. Min({i, n}) \in {i, n} /\ Min({i, n}) <= i
      BY <3>1, Extremes
    <3>3. QED
      BY <2>1, <3>2
  <2>3. FindStopTimeByPosition(times, st.stop, i - 1) = OneRow(nearest)
    BY <1>6, <2>2 DEF FindStopTimeByPosition
  <2>4. i \in at /\ \A j \in at : j \in Int
    BY <1>7
  <2> HIDE DEF at
  <2>5. Distance(i, i) = 0 /\ \A j \in at : j # i => 0 < Distance(j, i)
    BY <2>1, <2>4 DEF Distance
  <2>6. i \in nearest
    <3> SUFFICES ASSUME NEW k \in at
                 PROVE  Distance(i, i) < Distance(k, i) \/ (Distance(i, i) = Distance(k, i) /\ i <= k)
      BY <2>4
    <3>1. k = i \/ 0 < Distance(k, i)
      BY <2>5
    <3>2. QED
      BY <2>1, <2>5, <3>1
  <2>7. \A j \in nearest : j = i
    <3> SUFFICES ASSUME NEW j \in nearest, j # i PROVE FALSE
      OBVIOUS
    <3>1. Distance(j, i) < Distance(i, i) \/ Distance(j, i) = Distance(i, i)
      BY <2>4
    <3>2. 0 < Distance(j, i) /\ Distance(j, i) \in Int
      BY <2>1, <2>4, <2>5 DEF Distance
    <3>3. QED
      BY <2>5, <3>1, <3>2
  <2> HIDE DEF nearest
  <2>8. nearest = {i}
    BY <2>6, <2>7
  <2>9. QED
    BY <2>3, <2>8 DEF OneRow
<1>10. QED
  BY <1>5, <1>6, <1>7, <1>8, <1>9 DEF times

\* The clocks that the endpoint for one arrival asks for are those that the
\* list has loaded.
LEMMA ClocksOfList ==
    ASSUME RequestInv, Answering("stop"), request.fails = {}, StopAnswer # Null,
           NEW v \in DueVisits(request.of.stop)
    PROVE  ClocksFound(Context(described), request.of.agency, v[1].trip)
<1> DEFINE stop == request.of.stop
           agency == request.of.agency
           ctx == Context(predicted)
           later == Context(described)
           zones == DiscoverStopAgencies(ctx, stop, agency)
           due == ActiveStopTimesForWindow(ctx, stop, agency, Window)
           listed == ArrivalsForStop(ctx, later, stop, agency, Window)
           own == AgencyOf(v[1].trip)
<1>1. request # Null /\ feed \in DOMAIN Feeds
  BY DEF Answering, RequestInv
<1>2. ctx.db = db /\ later.db = db
  BY DEF Context
<1>3. listed # Null /\ GetAgency(db, agency) # Null /\ GetAgency(db, agency).zone \in DOMAIN Zones
  <2> HIDE DEF ctx, later, listed
  <2>1. StopAnswer = ArrivalsAndDeparturesForStop(ctx, later, stop, agency, Window)
    BY DEF StopAnswer, ctx, later
  <2>2. QED
    BY <1>2, <2>1 DEF ArrivalsAndDeparturesForStop, ZoneOf, listed
<1>4. due # Null
  BY <1>1, <1>3, ArrivalsListed
<1>5. zones # Null
  <2> HIDE DEF ctx, zones
  <2>1. QED
    BY <1>4 DEF ActiveStopTimesForWindow, zones
<1>6. v[1] \in db.stopTimes /\ v[1].stop = stop
  BY DueVisitsAre, <1>1 DEF RequestInv
<1>7. own \in DOMAIN zones /\ zones[own] \in DOMAIN Zones
  BY <1>1, <1>5, <1>6, ClockOfVisit
<1>8. \A x \in DOMAIN zones : zones[x] = GetAgency(db, x).zone
  BY <1>5 DEF DiscoverStopAgencies, ZoneOf, Context
<1> HIDE DEF zones
<1>9. GetAgency(db, own) # Null /\ GetAgency(db, own).zone \in DOMAIN Zones
  <2>1. GetAgency(db, own) \in db.agencies
    BY <1>1, <1>6, RowsOfVisit
  <2>2. GetAgency(db, own) # Null
    BY <1>1, <2>1, TablesImported DEF ColumnsTyped
  <2>3. QED
    BY <1>7, <1>8, <2>2
<1>10. RouteAgency(later, GetTrip(later.db, v[1].trip).route) = own
  BY <1>2 DEF RouteAgency, AgencyOf
<1> HIDE DEF later, own
<1>11. QED
  BY <1>2, <1>3, <1>9, <1>10 DEF ClocksFound, ZoneOf, later

\* The endpoint for one arrival, asked for an arrival of the list at its day
\* and its position, says the same of it.
THEOREM SingleArrivalAgrees == Spec => []EndpointsAgree
<1>1. RequestInv => EndpointsAgree
  <2> SUFFICES ASSUME RequestInv, Answering("stop"), Undisturbed, StopAnswer # Null,
                      NEW a \in Range(StopAnswer.arrivals)
               PROVE  WithoutStatusFrequency([AsSingle(a, Position(a)) EXCEPT !.stopSequence = a.stopSequence])
                          = WithoutStatusFrequency(a)
    BY DEF EndpointsAgree, AgreesWithSingle
  <2> DEFINE stop == request.of.stop
             agency == request.of.agency
             ctx == Context(described)
             listed == TripsDue(stop)
  <2>1. /\ request # Null /\ request.fails = {} /\ predicted = described
        /\ feed \in DOMAIN Feeds /\ request.at \in Int
    BY DEF Answering, Undisturbed, Degraded, RequestInv
  <2>2. PICK v \in DueVisits(stop) :
            a = ArrivalOf(v, listed, stop, agency) /\ \E z \in DOMAIN Zones : OwnZone(v[1].trip) = Zones[z]
    BY <2>1, AnswerLists DEF ArrivalsOf
  <2> DEFINE st == v[1]
             trip == st.trip
             d == v[2]
             zone == OwnZone(trip)
             due == Due(v, stop, agency)
             row == GetTrip(db, trip)
             route == GetRoute(db, row.route)
             times == GetStopTimesForTrip(db, trip)
             vehicle == GetVehicleForTrip(ctx, trip)
             forecast == PredictedTimes(ctx, due)
             status(known) == EntryStatus(ctx, known, route.agency, trip, vehicle, zone, d, request.at)
             entry(known, number) ==
                 NewArrivalAndDeparture(ctx, due, route, vehicle, forecast, status(known), request.at,
                                        number, Len(times))
  <2>3. st \in db.stopTimes /\ st.stop = stop
    BY <2>1, DueVisitsAre
  <2>4. due.time = st /\ due.date = d /\ due.zone = zone
    BY DEF Due
  <2>5. ctx.db = db /\ ctx.fails = {} /\ \A query : ~Fails(ctx, query)
    BY <2>1 DEF Context, Fails
  <2>6. \A known : ArrivalStatus(ctx, route.agency, due, vehicle, known, request.at) = status(known)
                   /\ ArrivalStatus(ctx, route.agency, due, Null, known, request.at) = status(known)
    BY <2>4 DEF ArrivalStatus
  <2>7. a = entry(listed, st.seq - 1)
    <3> HIDE DEF due, route, vehicle, forecast, times, status, ctx
    <3>1. a = BuildArrival(ctx, ctx, due, listed, request.at)
      BY <2>1, <2>2 DEF ArrivalOf, ctx, due
    <3>2. QED
      BY <2>4, <2>5, <2>6, <3>1 DEF BuildArrival, route, vehicle, forecast, times
  <2>8. PICK i \in 1..Len(times) :
            /\ times[i] = st
            /\ {j \in 1..Len(times) : times[j].seq = st.seq} = {i}
            /\ FindStopTimeByPosition(times, st.stop, i - 1) = i
    BY <2>1, <2>3, VisitInTrip
  <2>9. Len(times) \in Nat /\ st.seq \in Int
    BY <2>1, <2>3, VisitInTrip, RowsOfVisit
  <2>10. /\ a.trip = <<AgencyOf(trip), trip>> /\ a.stopSequence = st.seq - 1 /\ a.date = d
         /\ a.stop = <<agency, stop>> /\ a.totalStops = Len(times)
    <3>1. a.trip = <<AgencyOf(trip), trip>> /\ a.stopSequence = st.seq - 1 /\ a.date = d
      BY <2>1, <2>2, ArrivalIs
    <3>2. a.stop = due.stop /\ a.totalStops = Len(times)
      BY <2>7 DEF NewArrivalAndDeparture
    <3>3. due.stop = <<agency, stop>>
      BY DEF Due, CombinedID
    <3>4. QED
      BY <3>1, <3>2, <3>3
  <2>11. Position(a) = i - 1
    <3>1. a.trip[2] = trip /\ a.stopSequence + 1 = st.seq
      BY <2>9, <2>10
    <3>2. {j \in 1..a.totalStops : GetStopTimesForTrip(db, a.trip[2])[j].seq = a.stopSequence + 1} = {i}
      BY <2>8, <2>10, <3>1
    <3>3. QED
      BY <3>2 DEF Position, OneRow
  <2> DEFINE q == [stop |-> stop, agency |-> agency, trip |-> trip, day |-> Start(zone, d),
                   index |-> i - 1, vehicle |-> Null, at |-> request.at]
  <2>12. AsSingle(a, Position(a)) = ArrivalAndDepartureForStop(ctx, q)
    <3>1. a.stop[1] = agency /\ a.stop[2] = stop /\ a.trip[2] = trip /\ a.date = d
      BY <2>10
    <3>2. QED
      BY <2>11, <3>1 DEF AsSingle, SingleAnswer, SingleQuery
  <2>13. FromInstant(zone, Start(zone, d)) = d
    <3>1. PICK z \in DOMAIN Zones : zone = Zones[z]
      BY <2>2
    <3>2. DateOf(zone, request.at) \in Int
      BY <2>1, <3>1, ZoneAssumption, ClocksAreNumbers
    <3>3. d \in Int
      BY <2>1, <3>2, DueVisitsAre
    <3>4. QED
      BY <3>1, <3>3, DateOfStart
  <2>14. i - 1 # Null /\ ~(i - 1 < 0) /\ i # Null
    BY <2>9, NullAssumption
  <2>15. row # Null /\ GetStop(db, stop) # Null
    <3>1. row # Null
      BY <2>1, <2>3, RowsOfVisit, TablesImported DEF ColumnsTyped
    <3>2. GetStop(db, stop) # Null
      BY <2>1 DEF StopAnswer, ArrivalsAndDeparturesForStop, Context
    <3>3. QED
      BY <3>1, <3>2
  <2>16. ClocksFound(ctx, agency, trip)
    BY <2>1, ClocksOfList
  <2>17. AsSingle(a, Position(a)) = SingleArrival(ctx, q, route, times, i, d, zone)
    <3>1. Zones[SingleClock(ctx, agency, trip)] = zone
      BY <2>5 DEF SingleClock, ZoneOf, RouteAgency, OwnZone, ZoneOfAgency
    <3>2. FindStopTimeForTripStop(times, stop, i - 1, request.at - Start(zone, d)) = i
      BY <2>3, <2>8, <2>14 DEF FindStopTimeForTripStop
    <3> HIDE DEF ctx, zone, times, row, stop, agency, trip, d
    <3>3. /\ q.stop = stop /\ q.agency = agency /\ q.trip = trip /\ q.day = Start(zone, d)
          /\ q.index = i - 1 /\ q.at = request.at
      OBVIOUS
    <3> HIDE DEF q
    <3>4. QED
      BY <2>5, <2>12, <2>13, <2>15, <2>16, <3>1, <3>2, <3>3
         DEF ArrivalAndDepartureForStop, row, times
  <2>18. SingleArrival(ctx, q, route, times, i, d, zone) = entry({trip}, i - 1)
    <3>1. due = [time |-> times[i], date |-> d, zone |-> zone, stop |-> CombinedID(q.agency, q.stop)]
      BY <2>8 DEF Due
    <3>2. VehicleAsked(ctx, q) = vehicle
      BY DEF VehicleAsked
    <3>3. q.trip = trip /\ q.at = request.at
      OBVIOUS
    <3> HIDE DEF due, q, route, vehicle, forecast, times, status, ctx
    <3>4. QED
      BY <2>6, <2>14, <3>1, <3>2, <3>3 DEF SingleArrival, forecast
  <2>19. LET s == status(listed) t == status({trip})
         IN  /\ FrequencyAside(s) = FrequencyAside(t)
             /\ s.snapshot = t.snapshot /\ s.situations = t.situations
    <3> HIDE DEF ctx, route, vehicle, zone, d, listed, trip, due, times, forecast, q
    <3>1. QED
      BY <2>5, StatusAlone
  <2>20. a.stopSequence = entry(listed, st.seq - 1).stopSequence
    BY <2>7
  <2> HIDE DEF ctx, due, route, vehicle, forecast, status, times, listed, trip
  <2>21. WithoutStatusFrequency(Renumbered(entry({trip}, i - 1), entry(listed, st.seq - 1).stopSequence))
             = WithoutStatusFrequency(entry(listed, st.seq - 1))
    BY <2>19, RowsAgree
  <2> HIDE DEF entry
  <2>22. QED
    BY <2>7, <2>17, <2>18, <2>20, <2>21 DEF Renumbered
<1>2. QED
  BY <1>1, RequestInvariant, PTL

-----------------------------------------------------------------------------
(* The arrivals in an area. *)

\* Where all agencies keep one clock, any two of them have the same zone.
LEMMA OneZone ==
    ASSUME feed \in DOMAIN Feeds, OneClock, NEW a \in db.agencies, NEW b \in db.agencies
    PROVE  a.zone = b.zone
<1> DEFINE zones == {x.zone : x \in db.agencies}
           f == [x \in db.agencies |-> x.zone]
<1>1. f \in Surjection(db.agencies, zones)
  BY DEF Surjection
<1>2. IsFiniteSet(zones)
  BY <1>1, TablesImported, FS_Surjection DEF ColumnsTyped
<1>3. Cardinality(zones) = 1
  BY DEF OneClock
<1>4. a.zone \in zones /\ b.zone \in zones
  OBVIOUS
<1> HIDE DEF zones
<1>5. PICK z : zones = {z}
  BY <1>2, <1>3, FS_Singleton
<1>6. QED
  BY <1>4, <1>5

\* Finitely many agencies have numbers for IDs.
LEMMA AgencyIDs ==
    ASSUME feed \in DOMAIN Feeds
    PROVE  IsFiniteSet({a.id : a \in db.agencies}) /\ {a.id : a \in db.agencies} \in SUBSET Int
<1> DEFINE all == {a.id : a \in db.agencies} f == [a \in db.agencies |-> a.id]
<1>1. f \in Surjection(db.agencies, all)
  BY DEF Surjection
<1>2. IsFiniteSet(all)
  BY <1>1, TablesImported, FS_Surjection DEF ColumnsTyped
<1>3. all \in SUBSET Int
  BY TablesImported DEF ColumnsTyped
<1>4. QED
  BY <1>2, <1>3

\* The index gives the stops it was made for agencies of the tables, and one
\* to every stop that a trip serves.
LEMMA IndexIs ==
    ASSUME feed \in DOMAIN Feeds, NEW stops
    PROVE  LET of == AgenciesForStops(db, stops).of
           IN  /\ \A s \in DOMAIN of : of[s] \in {a.id : a \in db.agencies}
               /\ \A st \in db.stopTimes : st.stop \in stops => st.stop \in DOMAIN of
<1> DEFINE rows == GetAgenciesForStops(db, stops)
           all == {a.id : a \in db.agencies}
           found(s) == {p[1].id : p \in {x \in rows : x[2] = s}}
           of == AgenciesForStops(db, stops).of
<1>1. of = [s \in {p[2] : p \in rows} |-> Min(found(s))]
  BY DEF AgenciesForStops
<1>2. IsFiniteSet(all) /\ all \in SUBSET Int
  BY AgencyIDs
<1>3. \A p \in rows : p[1] \in db.agencies
  BY DEF GetAgenciesForStops
<1> HIDE DEF rows, of
<1>4. ASSUME NEW s \in DOMAIN of
      PROVE  of[s] \in all
  <2>1. found(s) # {} /\ found(s) \in SUBSET all
    BY <1>1, <1>3
  <2>2. of[s] = Min(found(s))
    BY <1>1
  <2> HIDE DEF found, all
  <2>3. IsFiniteSet(found(s)) /\ found(s) \in SUBSET Int
    BY <1>2, <2>1, FS_Subset
  <2>4. Min(found(s)) \in found(s)
    BY <2>1, <2>3, Extremes
  <2>5. QED
    BY <2>1, <2>2, <2>4
<1>5. ASSUME NEW st \in db.stopTimes, st.stop \in stops
      PROVE  st.stop \in DOMAIN of
  <2> DEFINE row == GetTrip(db, st.trip) route == GetRoute(db, row.route)
             agency == GetAgency(db, AgencyOf(st.trip))
  <2>1. /\ row \in db.trips /\ row.id = st.trip /\ route \in db.routes /\ route.id = row.route
        /\ agency \in db.agencies
    BY RowsOfVisit
  <2>2. agency.id = route.agency
    BY <2>1, TablesImported DEF GetAgency, OneRow, AgencyOf, ColumnsTyped
  <2>3. route \in GetRoutesForStop(db, st.stop)
    <3> HIDE DEF row, route, agency
    <3>1. st.trip \in TripsAtStops(db, {st.stop})
      BY DEF TripsAtStops
    <3>2. QED
      BY <2>1, <3>1 DEF GetRoutesForStop, RoutesOfTrips
  <2> HIDE DEF route, row, agency
  <2>4. <<agency, st.stop>> \in rows
    BY <1>5, <2>1, <2>2, <2>3 DEF GetAgenciesForStops, rows
  <2>5. st.stop \in {p[2] : p \in rows}
    BY <2>4
  <2>6. QED
    BY <1>1, <2>5
<1>6. QED
  BY <1>4, <1>5 DEF of

\* A stop that a trip serves is listed under an agency of the tables.
LEMMA StopListedUnder ==
    ASSUME feed \in DOMAIN Feeds, NEW stops, NEW s \in stops, NEW st \in db.stopTimes, st.stop = s
    PROVE  \E a \in db.agencies : /\ a.id = AgencyIDFor(AgenciesForStops(db, stops), s)
                                  /\ GetAgency(db, a.id) = a
<1> DEFINE index == AgenciesForStops(db, stops)
<1>1. s \in DOMAIN index.of /\ index.of[s] \in {a.id : a \in db.agencies}
  BY IndexIs
<1> HIDE DEF index
<1>2. PICK a \in db.agencies : a.id = AgencyIDFor(index, s)
  BY <1>1 DEF AgencyIDFor
<1>3. GetAgency(db, a.id) = a
  <2>1. {x \in db.agencies : x.id = a.id} = {a}
    BY TablesImported
  <2>2. QED
    BY <2>1 DEF GetAgency, OneRow
<1>4. QED
  BY <1>2, <1>3 DEF index

\* With one clock, the visits of a stop go by the clock it is looked up by.
LEMMA ClockOfStop ==
    ASSUME feed \in DOMAIN Feeds, OneClock, NEW snapshot, NEW stops, NEW s \in stops,
           DiscoverStopAgencies(Context(snapshot), s, AgencyIDFor(AgenciesForStops(db, stops), s)) # Null,
           NEW st \in db.stopTimes, st.stop = s
    PROVE  /\ LocationFor(Context(snapshot), AgenciesForStops(db, stops), s) = OwnZone(st.trip)
           /\ \E z \in DOMAIN Zones : OwnZone(st.trip) = Zones[z]
<1> DEFINE index == AgenciesForStops(db, stops)
           zones == DiscoverStopAgencies(Context(snapshot), s, AgencyIDFor(index, s))
           agency == GetAgency(db, AgencyOf(st.trip))
<1>1. PICK a \in db.agencies : a.id = AgencyIDFor(index, s) /\ GetAgency(db, a.id) = a
  BY StopListedUnder
<1>2. /\ zones[AgencyOf(st.trip)] \in DOMAIN Zones
      /\ OwnZone(st.trip) = Zones[zones[AgencyOf(st.trip)]]
      /\ AgencyOf(st.trip) \in DOMAIN zones
  BY ClockOfVisit
<1>3. \A x \in DOMAIN zones : zones[x] = GetAgency(db, x).zone
  BY DEF DiscoverStopAgencies, ZoneOf, Context
<1> HIDE DEF zones
<1>4. agency \in db.agencies /\ agency.zone \in DOMAIN Zones /\ OwnZone(st.trip) = Zones[agency.zone]
  BY <1>2, <1>3, RowsOfVisit
<1> HIDE DEF agency
<1>5. a.zone = agency.zone
  BY <1>4, OneZone
<1>6. a # Null
  BY TablesImported DEF ColumnsTyped
<1> HIDE DEF index
<1>7. LocationFor(Context(snapshot), index, s) = Zones[a.zone]
  BY <1>1, <1>4, <1>5, <1>6 DEF LocationFor, Context
<1>8. QED
  BY <1>4, <1>5, <1>7 DEF index

\* With one clock, what is due at a stop of the area is what is due at it by
\* itself.
LEMMA BatchedAtStop ==
    ASSUME RequestInv, request # Null, request.fails = {}, OneClock, NEW snapshot, NEW stops,
           NEW s \in stops, \E st \in db.stopTimes : st.stop = s,
           DiscoverStopAgencies(Context(snapshot), s, AgencyIDFor(AgenciesForStops(db, stops), s)) # Null
    PROVE  LET index == AgenciesForStops(db, stops)
           IN  \A x : (\E offset \in {-1, 0, 1} :
                          x \in BatchedOn(Context(snapshot), index, Window, s, offset))
                      <=> \E v \in DueVisits(s) : x = Due(v, s, AgencyIDFor(index, s))
<1> DEFINE index == AgenciesForStops(db, stops)
           ctx == Context(snapshot)
           zone == LocationFor(ctx, index, s)
           today == DateOf(zone, request.at)
           on(offset) == StopTimesOn(ctx, {s}, zone, today + offset, Window)
           entry(st, offset) == [time |-> st, date |-> today + offset, zone |-> zone,
                                 stop |-> CombinedID(AgencyIDFor(index, s), s)]
<1>1. feed \in DOMAIN Feeds /\ request.at \in Int
  BY DEF RequestInv
<1>2. \A st \in db.stopTimes : st.stop = s => zone = OwnZone(st.trip)
  BY <1>1, ClockOfStop
<1>3. PICK name \in DOMAIN Zones : zone = Zones[name]
  BY <1>1, ClockOfStop
<1>4. \A offset : BatchedOn(ctx, index, Window, s, offset) = {entry(st, offset) : st \in on(offset)}
  BY DEF BatchedOn, Window
<1>5. \A offset : \A st \in on(offset) : st \in db.stopTimes /\ st.stop = s
  BY DEF StopTimesOn, GetStopTimesForStopsInWindow, Context
<1> HIDE DEF zone, index
<1>6. today \in Int
  BY <1>1, <1>3, ZoneAssumption, ClocksAreNumbers
<1>7. ASSUME NEW st \in db.stopTimes, st.stop = s, NEW offset \in {-1, 0, 1}
      PROVE  st \in on(offset) <=> <<st, today + offset>> \in DueVisits(s)
  <2> DEFINE d == today + offset
  <2>1. d \in DateOf(Zones[name], request.at) - 1..DateOf(Zones[name], request.at) + 1
    BY <1>3, <1>6
  <2>2. OwnZone(st.trip) = Zones[name]
    BY <1>2, <1>3, <1>7
  <2> HIDE DEF d
  <2>3. st \in StopTimesOn(Context(snapshot), {s}, Zones[name], d, Window)
            <=> st.stop = s /\ <<st, d>> \in DueVisits(s)
    BY <2>1, <2>2, VisitsOfGroup
  <2>4. st \in on(offset) <=> st \in StopTimesOn(Context(snapshot), {s}, Zones[name], d, Window)
    BY <1>3 DEF d
  <2>5. QED
    BY <1>7, <2>3, <2>4 DEF d
<1> HIDE DEF on, ctx, today
<1>8. ASSUME NEW x, NEW offset \in {-1, 0, 1}, x \in BatchedOn(ctx, index, Window, s, offset)
      PROVE  \E v \in DueVisits(s) : x = Due(v, s, AgencyIDFor(index, s))
  <2>1. PICK st \in on(offset) : x = entry(st, offset)
    BY <1>4, <1>8
  <2>2. st \in db.stopTimes /\ st.stop = s /\ zone = OwnZone(st.trip)
    BY <1>2, <1>5
  <2>3. <<st, today + offset>> \in DueVisits(s)
    BY <1>7, <2>1, <2>2
  <2>4. x = Due(<<st, today + offset>>, s, AgencyIDFor(index, s))
    BY <2>1, <2>2 DEF Due
  <2>5. QED
    BY <2>3, <2>4
<1>9. ASSUME NEW v \in DueVisits(s)
      PROVE  \E offset \in {-1, 0, 1} :
                 Due(v, s, AgencyIDFor(index, s)) \in BatchedOn(ctx, index, Window, s, offset)
  <2> DEFINE st == v[1] offset == v[2] - today
  <2>1. /\ st \in db.stopTimes /\ st.stop = s /\ v = <<st, v[2]>>
        /\ v[2] \in DateOf(OwnZone(st.trip), request.at) - 1..DateOf(OwnZone(st.trip), request.at) + 1
    BY DueVisitsAre
  <2>2. zone = OwnZone(st.trip)
    BY <1>2, <2>1
  <2>3. v[2] \in today - 1..today + 1
    BY <2>1, <2>2 DEF today
  <2>4. offset \in {-1, 0, 1} /\ today + offset = v[2]
    BY <1>6, <2>3
  <2> HIDE DEF offset
  <2>5. st \in on(offset)
    BY <1>7, <2>1, <2>4
  <2>6. Due(v, s, AgencyIDFor(index, s)) = entry(st, offset)
    BY <2>2, <2>4 DEF Due
  <2>7. QED
    BY <1>4, <2>4, <2>5, <2>6
<1> HIDE DEF entry
<1>10. QED
  BY <1>8, <1>9 DEF ctx, index

\* What is listed of a visit depends on the trips listed with it in no more
\* than the frequency inside its status.
LEMMA ListedWithOthers ==
    ASSUME request.fails = {}, NEW v, NEW listed, NEW others, NEW stop, NEW agency
    PROVE  WithoutStatusFrequency(ArrivalOf(v, listed, stop, agency))
               = WithoutStatusFrequency(ArrivalOf(v, others, stop, agency))
<1> DEFINE ctx == Context(predicted)
           later == Context(described)
           due == Due(v, stop, agency)
           trip == due.time.trip
           route == GetRoute(ctx.db, GetTrip(ctx.db, trip).route)
           vehicle == GetVehicleForTrip(ctx, trip)
           shown == IF vehicle = Null THEN GetVehicleForTrip(later, trip) ELSE vehicle
           total == IF Fails(ctx, "GetStopTimesForTripIDs") THEN 0
                    ELSE Len(GetStopTimesForTrip(ctx.db, trip))
           status(known) == EntryStatus(later, known, route.agency, trip, shown, due.zone, due.date, request.at)
           entry(known) == NewArrivalAndDeparture(ctx, due, route, vehicle, PredictedTimes(ctx, due),
                                                  status(known), request.at, due.time.seq - 1, total)
<1>1. later.fails = {}
  BY DEF Context
<1> HIDE DEF ctx, later, due
<1>2. \A known : ArrivalOf(v, known, stop, agency) = entry(known)
  BY DEF ArrivalOf, BuildArrival, ArrivalStatus, ctx, later, due
<1> HIDE DEF trip, route, vehicle, shown, total
<1>3. LET s == status(others) t == status(listed)
      IN  /\ FrequencyAside(s) = FrequencyAside(t)
          /\ s.snapshot = t.snapshot /\ s.situations = t.situations
  BY <1>1, StatusAlone
<1> HIDE DEF status
<1>4. WithoutStatusFrequency(entry(listed)) = WithoutStatusFrequency(entry(others))
  BY <1>3, RowsAgree
<1>5. QED
  BY <1>2, <1>4

\* The arrivals in an area are those of its stops' visits.
LEMMA ArrivalsInArea ==
    ASSUME RequestInv, request # Null, request.fails = {}, predicted = described, OneClock, NEW stops,
           \A s \in stops : \E st \in db.stopTimes : st.stop = s,
           \A s \in stops : DiscoverStopAgencies(Context(described), s,
                                AgencyIDFor(AgenciesForStops(db, stops), s)) # Null
    PROVE  LET index == AgenciesForStops(db, stops)
               ctx == Context(described)
           IN  \E listed : \A a : a \in ArrivalsForStops(ctx, ctx, stops, index, {}, Window)
                   <=> \E s \in stops : a \in ArrivalsOf(listed, s, AgencyIDFor(index, s))
<1> DEFINE index == AgenciesForStops(db, stops)
           ctx == Context(described)
           due == BatchedStopTimes(ctx, stops, index, Window)
           listed == {x.time.trip : x \in due}
           of(x) == BuildArrival(ctx, ctx, x, listed, request.at)
<1>1. /\ ctx.fails = {} /\ ~EntitiesFail(ctx) /\ DaysToVisit(ctx) = {-1, 0, 1}
      /\ ~Fails(ctx, "GetActiveServiceIDsForDate") /\ Window.at = request.at
  BY DEF EntitiesFail, DaysToVisit, Fails, Context, Window
<1>2. \A x : x \in due <=> \E s \in stops : \E v \in DueVisits(s) : x = Due(v, s, AgencyIDFor(index, s))
  <2>1. \A s \in stops : \A x :
            (\E offset \in {-1, 0, 1} : x \in BatchedOn(ctx, index, Window, s, offset))
            <=> \E v \in DueVisits(s) : x = Due(v, s, AgencyIDFor(index, s))
    BY BatchedAtStop
  <2> DEFINE on(s, offset) == BatchedOn(ctx, index, Window, s, offset)
  <2>2. due = UNION {on(p[1], p[2]) : p \in stops \X {-1, 0, 1}}
    BY <1>1 DEF BatchedStopTimes
  <2> HIDE DEF ctx, index, due
  <2>3. \A x : x \in due <=> \E s \in stops : \E offset \in {-1, 0, 1} : x \in on(s, offset)
    <3> HIDE DEF on
    <3>1. \A x : x \in due <=> \E p \in stops \X {-1, 0, 1} : x \in on(p[1], p[2])
      BY <2>2
    <3>2. \A s \in stops, offset \in {-1, 0, 1} :
              <<s, offset>> \in stops \X {-1, 0, 1} /\ <<s, offset>>[1] = s /\ <<s, offset>>[2] = offset
      OBVIOUS
    <3>3. \A p \in stops \X {-1, 0, 1} : p[1] \in stops /\ p[2] \in {-1, 0, 1}
      OBVIOUS
    <3>4. QED
      BY <3>1, <3>2, <3>3
  <2>4. QED
    BY <2>1, <2>3
<1>3. ArrivalsForStops(ctx, ctx, stops, index, {}, Window) = {of(x) : x \in due}
  <2>1. \A x : IsRouteTypeAllowed(x, {})
    BY DEF IsRouteTypeAllowed
  <2>2. {x \in due : IsRouteTypeAllowed(
            GetRoute(ctx.db, GetTrip(ctx.db, x.time.trip).route).type, {})} = due
    BY <2>1
  <2> HIDE DEF ctx, index
  <2>3. BuildArrivals(ctx, ctx, due, {}, Window.at) = {of(x) : x \in due}
    BY <1>1, <2>2 DEF BuildArrivals
  <2>4. QED
    BY <1>1, <2>3 DEF ArrivalsForStops
<1> HIDE DEF due, listed, index
<1>4. \A v, s : of(Due(v, s, AgencyIDFor(index, s))) = ArrivalOf(v, listed, s, AgencyIDFor(index, s))
  BY DEF ArrivalOf
<1>5. \A a, s : a \in ArrivalsOf(listed, s, AgencyIDFor(index, s))
          <=> \E v \in DueVisits(s) : a = ArrivalOf(v, listed, s, AgencyIDFor(index, s))
  BY DEF ArrivalsOf
<1> HIDE DEF of, ctx
<1>6. \A a : a \in ArrivalsForStops(ctx, ctx, stops, index, {}, Window)
          <=> \E s \in stops : a \in ArrivalsOf(listed, s, AgencyIDFor(index, s))
  BY <1>2, <1>3, <1>4, <1>5
<1>7. QED
  BY <1>6 DEF ctx, index

\* Where all agencies keep one clock, the two ways of looking for arrivals
\* find the same of every stop that is no error by itself.
THEOREM StopsInAreaAgree == Spec => []PipelinesAgree
<1>1. RequestInv => PipelinesAgree
  <2> DEFINE stops == {s.id : s \in GetActiveStopsWithinBounds(db, request.of)}
             index == AgenciesForStops(db, stops)
             ctx == Context(described)
             alone(s) == ArrivalsForStop(ctx, ctx, s, AgencyIDFor(index, s), Window)
             inArea == ArrivalsForStops(ctx, ctx, stops, index, {}, Window)
             oneByOne == UNION {Range(alone(s)) : s \in stops}
  <2> SUFFICES ASSUME RequestInv, Answering("area"), Undisturbed, OneClock, \A s \in stops : alone(s) # Null
               PROVE  WithoutStatusFrequencies(inArea) = WithoutStatusFrequencies(oneByOne)
    BY DEF PipelinesAgree, SameOneByOne
  <2>1. request # Null /\ request.fails = {} /\ predicted = described
    BY DEF Answering, Undisturbed, Degraded
  <2>2. \A s \in stops : \E st \in db.stopTimes : st.stop = s
    BY DEF GetActiveStopsWithinBounds
  <2> HIDE DEF stops, index
  <2>3. \A s \in stops : /\ Range(alone(s)) = ArrivalsOf(TripsDue(s), s, AgencyIDFor(index, s))
                         /\ ActiveStopTimesForWindow(ctx, s, AgencyIDFor(index, s), Window) # Null
    BY <2>1, ArrivalsListed
  <2>4. \A s \in stops : DiscoverStopAgencies(ctx, s, AgencyIDFor(index, s)) # Null
    BY <2>3 DEF ActiveStopTimesForWindow
  <2>5. PICK listed : \A a : a \in inArea
            <=> \E s \in stops : a \in ArrivalsOf(listed, s, AgencyIDFor(index, s))
    BY <2>1, <2>2, <2>4, ArrivalsInArea DEF index
  <2>6. \A a : a \in oneByOne
            <=> \E s \in stops : a \in ArrivalsOf(TripsDue(s), s, AgencyIDFor(index, s))
    <3> HIDE DEF alone
    <3>1. QED
      BY <2>3
  <2> HIDE DEF inArea, oneByOne
  <2>7. \A known, s, a : a \in ArrivalsOf(known, s, AgencyIDFor(index, s))
            <=> \E v \in DueVisits(s) : a = ArrivalOf(v, known, s, AgencyIDFor(index, s))
    BY DEF ArrivalsOf
  <2>8. \A v, s, known, others : WithoutStatusFrequency(ArrivalOf(v, known, s, AgencyIDFor(index, s)))
            = WithoutStatusFrequency(ArrivalOf(v, others, s, AgencyIDFor(index, s)))
    BY <2>1, ListedWithOthers
  <2>9. \A a \in inArea : \E b \in oneByOne : WithoutStatusFrequency(a) = WithoutStatusFrequency(b)
    BY <2>5, <2>6, <2>7, <2>8
  <2>10. \A b \in oneByOne : \E a \in inArea : WithoutStatusFrequency(a) = WithoutStatusFrequency(b)
    BY <2>5, <2>6, <2>7, <2>8
  <2>11. QED
    BY <2>9, <2>10 DEF WithoutStatusFrequencies
<1>2. QED
  BY <1>1, RequestInvariant, PTL

-----------------------------------------------------------------------------
(* What an answer refers to. *)

\* No two stops have one ID.
LEMMA StopsUnique ==
    ASSUME feed \in DOMAIN Feeds
    PROVE  \A a, b \in db.stops : a.id = b.id => a = b
<1>1. KeysUnique(db)
  BY FeedsImportable DEF db, Databases, Importable
<1>2. QED
  BY <1>1 DEF KeysUnique

\* The stop of a visit is a row of the tables.
LEMMA StopOfVisit ==
    ASSUME feed \in DOMAIN Feeds, NEW st \in db.stopTimes
    PROVE  GetStop(db, st.stop) \in db.stops /\ GetStop(db, st.stop).id = st.stop
<1>1. \E s \in db.stops : s.id = st.stop
  BY TablesImported DEF ConstraintsHold
<1>2. QED
  BY <1>1, StopFound

\* What the vehicles of the two snapshots name.
NamedStops == {v.stop : v \in Range(predicted.vehicles) \cup Range(described.vehicles)}

\* What an arrival refers to: its visit's stop under some agency, its trip and
\* its route under theirs, and what a status of that agency names.
Refers(a) ==
    /\ \E st \in db.stopTimes :
          /\ \E agency : a.stop = <<agency, st.stop>>
          /\ a.trip = <<AgencyOf(st.trip), st.trip>>
          /\ a.route = <<AgencyOf(st.trip), GetTrip(db, st.trip).route>>
    /\ StatusNames(NamedStops, a.status) /\ a.status.agency = a.trip[1]

\* What a status of the later snapshot names.
LEMMA NamesOfEntry ==
    ASSUME feed \in DOMAIN Feeds, SnapshotTyped(described), NEW ctx, Reading(ctx, described),
           NEW listed, NEW agency, NEW trip, NEW v, v = Null \/ v.stop \in NamedStops,
           NEW zone \in Clocks, NEW d \in Int, NEW now \in Int
    PROVE  LET s == EntryStatus(ctx, listed, agency, trip, v, zone, d, now)
           IN  StatusNames(NamedStops, s) /\ s.agency = agency
<1>1. PICK snapshot, named : snapshot = described /\ named = NamedStops
  OBVIOUS
<1>2. SnapshotTyped(snapshot) /\ Reading(ctx, snapshot) /\ (v = Null \/ v.stop \in named)
  BY <1>1
<1>3. LET s == EntryStatus(ctx, listed, agency, trip, v, zone, d, now)
      IN  StatusNames(named, s) /\ s.agency = agency
  BY <1>2, StatusOfEntry
<1>4. QED
  BY <1>1, <1>3

\* What is built for a visit due refers to its rows.
LEMMA BuiltRefers ==
    ASSUME RequestInv, SnapshotTyped(described), request # Null, NEW listed,
           NEW due, due.time \in db.stopTimes, due.zone \in Clocks, due.date \in Int,
           \E agency : due.stop = <<agency, due.time.stop>>
    PROVE  LET a == BuildArrival(Context(predicted), Context(described), due, listed, request.at)
           IN  Refers(a) /\ a.stop = due.stop
<1> DEFINE ctx == Context(predicted)
           later == Context(described)
           trip == due.time.trip
           route == GetRoute(db, GetTrip(db, trip).route)
           vehicle == GetVehicleForTrip(ctx, trip)
           shown == IF vehicle = Null THEN GetVehicleForTrip(later, trip) ELSE vehicle
           status == EntryStatus(later, listed, route.agency, trip, shown, due.zone, due.date, request.at)
           a == BuildArrival(ctx, later, due, listed, request.at)
<1>1. feed \in DOMAIN Feeds /\ request.at \in Int /\ SnapshotTyped(predicted)
  BY DEF RequestInv
<1>2. /\ ctx.db = db /\ ctx.rt = predicted /\ later.rt = described
      /\ Reading(later, described)
  BY DEF Context, Reading
<1>3. /\ a.trip = <<route.agency, trip>> /\ a.route = <<route.agency, route.id>>
      /\ a.stop = due.stop /\ a.status = status
  BY DEF BuildArrival, NewArrivalAndDeparture, ArrivalStatus, Context, CombinedID, RouteID
<1>4. route.agency = AgencyOf(trip) /\ route.id = GetTrip(db, trip).route
  BY <1>1, RowsOfVisit DEF AgencyOf
<1>5. shown = Null \/ shown.stop \in NamedStops
  <2>1. \A known \in {ctx, later} : GetVehicleForTrip(known, trip) = Null
                                    \/ GetVehicleForTrip(known, trip) \in Range(known.rt.vehicles)
    BY <1>1, <1>2, VehicleIs
  <2>2. \/ shown = Null
        \/ shown \in Range(predicted.vehicles) \cup Range(described.vehicles)
    BY <1>2, <2>1
  <2> HIDE DEF shown
  <2>3. QED
    BY <2>2 DEF NamedStops
<1> HIDE DEF shown, later, trip, route, a, ctx
<1>6. StatusNames(NamedStops, status) /\ status.agency = route.agency
  <2> DEFINE agency == route.agency zone == due.zone d == due.date now == request.at
  <2>1. status = EntryStatus(later, listed, agency, trip, shown, zone, d, now)
    OBVIOUS
  <2>2. zone \in Clocks /\ d \in Int /\ now \in Int
    BY <1>1
  <2> HIDE DEF agency, zone, d, now, status
  <2>3. StatusNames(NamedStops, status) /\ status.agency = agency
    BY <1>1, <1>2, <1>5, <2>1, <2>2, NamesOfEntry
  <2>4. QED
    BY <2>3 DEF agency
<1> HIDE DEF status
<1>7. Refers(a)
  BY <1>3, <1>4, <1>6 DEF Refers, trip
<1>8. QED
  BY <1>3, <1>7 DEF a, later, ctx

\* What is noted for the references holds all that arrivals refer to.
Covers(acc, arrivals) ==
    \A a \in arrivals :
        /\ a.trip[2] \in acc.trips /\ a.route[2] \in acc.routes /\ a.stop[2] \in acc.stops
        /\ StatusStops(a.status) \subseteq acc.stops
        /\ \A t \in db.trips : t.id = a.status.active[2] => t.id \in acc.trips

\* The stops noted are among the references under the agency of the index,
\* and so are the stations above them.
LEMMA StopsListed ==
    ASSUME RequestInv, NEW ctx, ctx.db = db, ctx.fails = {}, NEW index, NEW ids
    PROVE  LET stops == StopReferencesUnder(ctx, index, ids)
           IN  /\ \A s \in ids : GetStop(db, s) # Null
                      => <<AgencyIDFor(index, s), s>> \in {x.id : x \in stops}
               /\ ParentIDs(stops) = {}
<1> DEFINE model(s) == BuildStopModel(AgencyIDFor(index, s.id), s, RouteIDsOfStop(db, s.id))
           rows == GetStopsByIDs(db, ids)
           named == {model(s) : s \in rows}
           stops == StopReferencesUnder(ctx, index, ids)
<1>1. feed \in DOMAIN Feeds
  BY DEF RequestInv
<1>2. \A query : ~Fails(ctx, query)
  BY DEF Fails
<1>3. stops = named \cup MissingParentStops(ctx, named)
  <2>1. stops = IF ParentsFail(ctx, named) THEN named ELSE named \cup MissingParentStops(ctx, named)
    BY <1>2 DEF StopReferencesUnder
  <2> HIDE DEF named, stops
  <2>2. QED
    BY <2>1 DEF ParentsFail
<1>4. \A s \in rows : s \in db.stops /\ s.id \in ids
  BY DEF GetStopsByIDs
<1>5. \A s \in rows : StopModel(model(s)) /\ model(s).id = <<AgencyIDFor(index, s.id), s.id>>
  BY <1>4, BuiltIsModel
<1> HIDE DEF model, stops
<1>6. ASSUME NEW s \in ids, GetStop(db, s) # Null
      PROVE  <<AgencyIDFor(index, s), s>> \in {x.id : x \in stops}
  <2>1. PICK row \in db.stops : row.id = s
    BY <1>1, <1>6, StopFound
  <2>2. row \in rows
    BY <2>1 DEF GetStopsByIDs
  <2>3. model(row) \in stops /\ model(row).id = <<AgencyIDFor(index, s), s>>
    BY <1>3, <1>5, <2>1, <2>2
  <2>4. QED
    BY <2>3
<1>7. \A m \in named : StopModel(m)
  BY <1>5
<1> HIDE DEF named
<1>8. ParentIDs(stops) = {}
  BY <1>1, <1>3, <1>7, ParentsClosed
<1>9. QED
  BY <1>6, <1>8 DEF stops

\* The trips noted are among the references under the agency of their route.
LEMMA TripsListed ==
    ASSUME NEW ctx, ctx.db = db, ctx.fails = {}, NEW trips, NEW known
    PROVE  \A t \in db.trips : t.id \in trips
               => <<GetRoute(db, t.route).agency, t.id>> \in {x.id : x \in TripReferences(ctx, trips, known)}
<1> DEFINE listed == {u \in GetTripsByIDs(ctx.db, trips) : u.route \in known \/ ~Fails(ctx, "GetRoute")}
           model(u) == [id |-> CombinedID(RouteAgency(ctx, u.route), u.id),
                        route |-> CombinedID(RouteAgency(ctx, u.route), u.route)]
           refs == TripReferences(ctx, trips, known)
<1> SUFFICES ASSUME NEW t \in db.trips, t.id \in trips
             PROVE  <<GetRoute(db, t.route).agency, t.id>> \in {x.id : x \in refs}
  OBVIOUS
<1>1. t \in listed
  BY DEF GetTripsByIDs, Fails
<1>2. refs = {model(u) : u \in listed}
  BY DEF TripReferences
<1>3. model(t).id = <<GetRoute(db, t.route).agency, t.id>>
  BY DEF CombinedID, RouteAgency
<1> HIDE DEF listed, model, refs
<1>4. model(t) \in refs
  BY <1>1, <1>2
<1>5. QED
  BY <1>3, <1>4

\* With one agency there is one to name trips and stops under.
LEMMA OneAgency ==
    ASSUME feed \in DOMAIN Feeds, Cardinality(db.agencies) = 1,
           NEW a \in {x.id : x \in db.agencies}, NEW b \in {x.id : x \in db.agencies}
    PROVE  a = b
<1>1. IsFiniteSet(db.agencies)
  BY TablesImported DEF ColumnsTyped
<1>2. PICK x : db.agencies = {x}
  BY <1>1, FS_Singleton
<1>3. QED
  BY <1>2

\* Arrivals that go by the index, and of which what they refer to is noted,
\* have their references.
LEMMA ReferencesCover ==
    ASSUME RequestInv, NEW ctx, ctx.db = db, ctx.fails = {}, NEW arrivals,
           \A a \in arrivals : Refers(a), NEW index, NEW primary, NEW acc, Covers(acc, arrivals),
           \A a \in arrivals : a.stop[1] = AgencyIDFor(index, a.stop[2]),
           Cardinality(db.agencies) = 1 =>
               \A s \in acc.stops : AgencyIDFor(index, s) \in {x.id : x \in db.agencies}
    PROVE  ArrivalsResolve(arrivals, BuildArrivalsReferences(ctx, index, primary, acc))
<1> DEFINE refs == BuildArrivalsReferences(ctx, index, primary, acc)
           trips == {t.id : t \in refs.trips}
           stops == {s.id : s \in refs.stops}
           found == {RouteID(r) : r \in GetRoutesByIDs(db, acc.routes)}
<1>1. feed \in DOMAIN Feeds
  BY DEF RequestInv
<1>2. /\ refs.stops = StopReferencesUnder(ctx, index, acc.stops)
      /\ refs.trips = TripReferences(ctx, acc.trips, acc.routes)
      /\ refs.routes = found \cup {t.route : t \in refs.trips} \cup RoutesOfStops(refs.stops)
  BY DEF BuildArrivalsReferences
<1> HIDE DEF refs
<1>3. \A s \in acc.stops : GetStop(db, s) # Null => <<AgencyIDFor(index, s), s>> \in stops
  BY <1>2, StopsListed
<1>4. ParentIDs(refs.stops) = {}
  BY <1>2, StopsListed
<1>5. \A t \in db.trips : t.id \in acc.trips => <<GetRoute(db, t.route).agency, t.id>> \in trips
  BY <1>2, TripsListed
<1> HIDE DEF stops, trips
<1>6. ASSUME NEW a \in arrivals
      PROVE  /\ a.stop \in stops /\ a.trip \in trips /\ a.route \in found
             /\ a.status.agency \in {x.id : x \in db.agencies}
  <2>1. PICK st \in db.stopTimes :
            /\ \E agency : a.stop = <<agency, st.stop>>
            /\ a.trip = <<AgencyOf(st.trip), st.trip>>
            /\ a.route = <<AgencyOf(st.trip), GetTrip(db, st.trip).route>>
    BY DEF Refers
  <2>2. /\ a.status.agency = AgencyOf(st.trip)
        /\ a.trip[2] \in acc.trips /\ a.route[2] \in acc.routes /\ a.stop[2] \in acc.stops
    BY <2>1 DEF Refers, Covers
  <2> DEFINE row == GetTrip(db, st.trip) route == GetRoute(db, row.route)
  <2>3. /\ row \in db.trips /\ row.id = st.trip /\ route \in db.routes /\ route.id = row.route
        /\ GetAgency(db, AgencyOf(st.trip)) \in db.agencies
    BY <1>1, RowsOfVisit
  <2>4. route.agency = AgencyOf(st.trip)
    BY DEF AgencyOf
  <2> HIDE DEF row, route
  <2>5. \E x \in db.agencies : x.id = route.agency
    BY <1>1, <2>3, TablesImported DEF ConstraintsHold
  <2>6. a.stop \in stops
    <3>1. a.stop = <<a.stop[1], st.stop>> /\ a.stop[2] = st.stop
      BY <2>1
    <3>2. GetStop(db, st.stop) # Null
      BY <1>1, StopFound, TablesImported DEF ConstraintsHold
    <3>3. a.stop[1] = AgencyIDFor(index, a.stop[2])
      OBVIOUS
    <3>4. a.stop = <<AgencyIDFor(index, st.stop), st.stop>>
      BY <3>1, <3>3
    <3>5. st.stop \in acc.stops
      BY <2>2, <3>1
    <3>6. QED
      BY <1>3, <3>2, <3>4, <3>5
  <2>7. a.trip \in trips
    <3>1. row.id \in acc.trips
      BY <2>1, <2>2, <2>3
    <3>2. <<route.agency, row.id>> \in trips
      BY <1>5, <2>3, <3>1 DEF route
    <3>3. QED
      BY <2>1, <2>3, <2>4, <3>2
  <2>8. a.route \in found
    <3>1. a.route = <<AgencyOf(st.trip), row.route>>
      BY <2>1 DEF row
    <3>2. row.route \in acc.routes
      BY <2>2, <3>1
    <3>3. route \in GetRoutesByIDs(db, acc.routes)
      BY <2>3, <3>2 DEF GetRoutesByIDs
    <3>4. RouteID(route) = a.route
      BY <2>3, <2>4, <3>1 DEF RouteID, CombinedID
    <3>5. QED
      BY <3>3, <3>4
  <2>9. a.status.agency \in {x.id : x \in db.agencies}
    BY <2>2, <2>4, <2>5
  <2>10. QED
    BY <2>6, <2>7, <2>8, <2>9
<1>7. ASSUME Cardinality(db.agencies) = 1, NEW a \in arrivals
      PROVE  Named(a) \subseteq stops /\ NamedTrip(a) \subseteq trips
  <2> DEFINE agencies == {x.id : x \in db.agencies}
  <2>1. a.status.agency \in agencies
    BY <1>6
  <2>2. ASSUME NEW s \in StatusStops(a.status), ~Unknown(s)
        PROVE  <<a.status.agency, s>> \in stops
    <3>1. s \in KnownStops(NamedStops) /\ s # NoText
      BY DEF StatusStops, Refers, StatusNames
    <3>2. GetStop(db, s) # Null
      <4>1. CASE \E st \in db.stopTimes : s = st.stop
        BY <1>1, <4>1, StopFound, TablesImported DEF ConstraintsHold
      <4>2. CASE s \in NamedStops
        BY <2>2, <4>2 DEF NamedStops, Unknown
      <4>3. QED
        BY <3>1, <4>1, <4>2 DEF KnownStops
    <3>3. s \in acc.stops
      BY DEF Covers
    <3>4. AgencyIDFor(index, s) \in agencies
      BY <1>7, <3>3
    <3> HIDE DEF agencies
    <3>5. AgencyIDFor(index, s) = a.status.agency
      BY <1>1, <1>7, <2>1, <3>4, OneAgency DEF agencies
    <3>6. QED
      BY <1>3, <3>2, <3>3, <3>5
  <2>3. ASSUME NEW t \in db.trips, a.status.active = <<a.status.agency, t.id>>
        PROVE  a.status.active \in trips
    <3>1. t.id \in acc.trips
      <4>1. a.status.active[2] = t.id
        BY <2>3
      <4>2. QED
        BY <4>1 DEF Covers
    <3>2. \E r \in db.routes : r.id = t.route
      BY <1>1, TablesImported DEF ConstraintsHold
    <3>3. GetRoute(db, t.route) \in db.routes
      BY <3>2 DEF GetRoute, OneRow
    <3>4. GetRoute(db, t.route).agency \in agencies
      <4> DEFINE r == GetRoute(db, t.route)
      <4>1. r \in db.routes
        BY <3>3
      <4> HIDE DEF r
      <4>2. \E x \in db.agencies : x.id = r.agency
        BY <1>1, <4>1, TablesImported DEF ConstraintsHold
      <4>3. QED
        BY <4>2 DEF r
    <3> HIDE DEF agencies
    <3>5. GetRoute(db, t.route).agency = a.status.agency
      BY <1>1, <1>7, <2>1, <3>4, OneAgency DEF agencies
    <3>6. QED
      BY <1>5, <2>3, <3>1, <3>5
  <2>4. Named(a) \subseteq stops
    BY <2>2 DEF Named
  <2>5. NamedTrip(a) \subseteq trips
    BY <2>3 DEF NamedTrip
  <2>6. QED
    BY <2>4, <2>5
<1>8. QED
  <2>1. {a.stop : a \in arrivals} \subseteq stops /\ {a.trip : a \in arrivals} \subseteq trips
    BY <1>6
  <2>2. {a.route : a \in arrivals} \cup {t.route : t \in refs.trips} \cup RoutesOfStops(refs.stops)
            \subseteq refs.routes
    <3>1. {a.route : a \in arrivals} \subseteq found
      BY <1>6
    <3> HIDE DEF found
    <3>2. QED
      BY <1>2, <3>1
  <2>3. Cardinality(db.agencies) = 1 =>
            /\ UNION {Named(a) : a \in arrivals} \subseteq stops
            /\ UNION {NamedTrip(a) : a \in arrivals} \subseteq trips
    BY <1>7
  <2>4. QED
    BY <1>4, <2>1, <2>2, <2>3 DEF ArrivalsResolve, stops, trips, refs

\* An answer without arrivals needs no references.
LEMMA NothingToResolve ==
    ASSUME NEW agencies
    PROVE  ArrivalsResolve({}, [NoReferences EXCEPT !.agencies = agencies])
<1> DEFINE refs == [NoReferences EXCEPT !.agencies = agencies]
<1>1. refs.stops = {} /\ refs.trips = {} /\ refs.routes = {}
  BY DEF NoReferences
<1>2. RoutesOfStops({}) = {} /\ ParentIDs({}) = {}
  BY DEF RoutesOfStops, ParentIDs
<1> HIDE DEF refs
<1>3. ArrivalsResolve({}, refs)
  <2>1. {t.route : t \in refs.trips} = {} /\ RoutesOfStops(refs.stops) = {} /\ ParentIDs(refs.stops) = {}
    BY <1>1, <1>2
  <2>2. \A S : UNION {S : a \in {}} = {}
    OBVIOUS
  <2>3. UNION {Named(a) : a \in {}} = {} /\ UNION {NamedTrip(a) : a \in {}} = {}
    OBVIOUS
  <2>4. QED
    BY <2>1, <2>3 DEF ArrivalsResolve
<1>4. QED
  BY <1>3 DEF refs

\* All that arrivals refer to is noted while they are listed.
LEMMA AllNoted ==
    ASSUME NEW ctx, ctx.db = db, ctx.fails = {}, NEW arrivals, NEW stops,
           \A a \in arrivals : a.stop[2] \in stops
    PROVE  Covers(Accumulated(ctx, arrivals, stops), arrivals)
<1> DEFINE acc == Accumulated(ctx, arrivals, stops)
<1>1. \A a : ReassignedTrips(ctx, a) = ({a.status.active[2]} \cap {t.id : t \in db.trips}) \ {a.trip[2]}
  BY DEF ReassignedTrips, Fails
<1>2. /\ acc.trips = {a.trip[2] : a \in arrivals} \cup UNION {ReassignedTrips(ctx, a) : a \in arrivals}
      /\ acc.routes = {a.route[2] : a \in arrivals}
      /\ acc.stops = stops \cup UNION {StatusStops(a.status) : a \in arrivals}
  BY DEF Accumulated
<1> HIDE DEF acc
<1>3. SUFFICES ASSUME NEW a \in arrivals
               PROVE  /\ a.trip[2] \in acc.trips /\ a.route[2] \in acc.routes /\ a.stop[2] \in acc.stops
                      /\ StatusStops(a.status) \subseteq acc.stops
                      /\ \A t \in db.trips : t.id = a.status.active[2] => t.id \in acc.trips
  BY DEF Covers, acc
<1>4. ASSUME NEW t \in db.trips, t.id = a.status.active[2] PROVE t.id \in acc.trips
  <2>1. t.id = a.trip[2] \/ t.id \in ReassignedTrips(ctx, a)
    BY <1>1, <1>4
  <2>2. QED
    BY <1>2, <2>1
<1>5. QED
  BY <1>2, <1>4

\* What an answer for a stop names is among its references.
LEMMA StopResolves ==
    ASSUME RequestInv, Answering("stop"), request.fails = {}, StopAnswer # Null
    PROVE  ArrivalsResolve(Range(StopAnswer.arrivals), StopAnswer.refs)
<1> DEFINE stop == request.of.stop
           agency == request.of.agency
           ctx == Context(predicted)
           later == Context(described)
           due == ActiveStopTimesForWindow(ctx, stop, agency, Window)
           listed == ArrivalsForStop(ctx, later, stop, agency, Window)
           acc == Accumulated(ctx, Range(listed), {stop})
           index == UnderOneAgency(agency)
           noted == [acc EXCEPT !.situations = @ \cup StopSituations(later, stop, agency)]
<1>1. request # Null /\ described # Null
  BY DEF Answering
<1>2. /\ listed # Null /\ GetAgency(db, agency) # Null
      /\ \/ StopAnswer = Envelope(<<CombinedID(agency, stop)>>, {agency})
         \/ StopAnswer = AnswerForStop(ctx, later, stop, agency, listed, acc)
  <2>1. ctx.db = db
    BY DEF Context
  <2> HIDE DEF due, listed, ctx, later, acc
  <2>2. /\ listed # Null /\ GetAgency(ctx.db, agency) # Null
        /\ StopAnswer = IF due = {} THEN Envelope(<<CombinedID(agency, stop)>>, {agency})
                        ELSE AnswerForStop(ctx, later, stop, agency, listed, acc)
    BY DEF StopAnswer, ArrivalsAndDeparturesForStop, ctx, later, due, listed, acc
  <2>3. QED
    BY <2>1, <2>2
<1>3. CASE StopAnswer = Envelope(<<CombinedID(agency, stop)>>, {agency})
  <2>1. /\ StopAnswer.arrivals = <<>>
        /\ StopAnswer.refs = [NoReferences EXCEPT !.agencies = {agency}]
    BY <1>3 DEF Envelope
  <2>2. Range(StopAnswer.arrivals) = {}
    BY <2>1 DEF Range
  <2>3. ArrivalsResolve({}, [NoReferences EXCEPT !.agencies = {agency}])
    BY NothingToResolve
  <2>4. QED
    BY <2>1, <2>2, <2>3
<1>4. CASE StopAnswer = AnswerForStop(ctx, later, stop, agency, listed, acc)
  <2>1. /\ StopAnswer.arrivals = listed
        /\ StopAnswer.refs = BuildArrivalsReferences(ctx, index, {agency}, noted)
    <3> HIDE DEF ctx, later, listed, acc
    <3>1. QED
      BY <1>4 DEF AnswerForStop, noted
  <2>2. /\ \A v \in DueVisits(stop) : \E z \in DOMAIN Zones : OwnZone(v[1].trip) = Zones[z]
        /\ Range(listed) = ArrivalsOf(TripsDue(stop), stop, agency)
    BY <1>1, <1>2, ArrivalsListed
  <2>3. \A a \in Range(listed) : Refers(a) /\ a.stop = <<agency, stop>>
    <3> SUFFICES ASSUME NEW v \in DueVisits(stop)
                 PROVE  LET a == ArrivalOf(v, TripsDue(stop), stop, agency)
                        IN  Refers(a) /\ a.stop = <<agency, stop>>
      BY <2>2 DEF ArrivalsOf
    <3> DEFINE x == Due(v, stop, agency)
    <3>1. /\ v[1] \in db.stopTimes /\ v[1].stop = stop
          /\ v[2] \in DateOf(OwnZone(v[1].trip), request.at) - 1..DateOf(OwnZone(v[1].trip), request.at) + 1
      BY <1>1, DueVisitsAre
    <3>2. OwnZone(v[1].trip) \in Clocks
      BY <2>2, ZoneAssumption
    <3>3. v[2] \in Int
      BY <1>1, <3>1, <3>2, ClocksAreNumbers DEF RequestInv
    <3>4. /\ x.time = v[1] /\ x.zone = OwnZone(v[1].trip) /\ x.date = v[2]
          /\ x.stop = <<agency, v[1].stop>>
      BY <3>1 DEF Due, CombinedID
    <3>5. SnapshotTyped(described)
      BY <1>1 DEF RequestInv
    <3> HIDE DEF x
    <3>6. LET a == BuildArrival(Context(predicted), Context(described), x, TripsDue(stop), request.at)
          IN  Refers(a) /\ a.stop = x.stop
      BY <1>1, <3>1, <3>2, <3>3, <3>4, <3>5, BuiltRefers
    <3>7. QED
      BY <3>1, <3>4, <3>6 DEF ArrivalOf, x
  <2>4. ctx.db = db /\ ctx.fails = {}
    BY DEF Context
  <2>5. \A s : AgencyIDFor(index, s) = agency
    BY DEF AgencyIDFor, UnderOneAgency
  <2>6. agency \in {x.id : x \in db.agencies}
    <3>1. GetAgency(db, agency) \in db.agencies /\ GetAgency(db, agency).id = agency
      BY <1>2 DEF GetAgency, OneRow
    <3>2. QED
      BY <3>1
  <2> HIDE DEF ctx, later, listed, index
  <2>7. Covers(noted, Range(listed))
    <3>1. \A a \in Range(listed) : a.stop[2] \in {stop}
      BY <2>3
    <3>2. Covers(acc, Range(listed))
      BY <2>4, <3>1, AllNoted
    <3>3. noted.trips = acc.trips /\ noted.routes = acc.routes /\ noted.stops = acc.stops
      BY DEF Accumulated
    <3> HIDE DEF noted, acc
    <3>4. QED
      BY <3>2, <3>3 DEF Covers
  <2> HIDE DEF noted
  <2>8. \A a \in Range(listed) : Refers(a) /\ a.stop[1] = AgencyIDFor(index, a.stop[2])
    BY <2>3, <2>5
  <2>9. \A s \in noted.stops : AgencyIDFor(index, s) \in {x.id : x \in db.agencies}
    BY <2>5, <2>6
  <2>10. ArrivalsResolve(Range(listed), BuildArrivalsReferences(ctx, index, {agency}, noted))
    BY <2>4, <2>7, <2>8, <2>9, ReferencesCover
  <2>11. QED
    BY <2>1, <2>10
<1>5. QED
  BY <1>2, <1>3, <1>4

-----------------------------------------------------------------------------
(* The lists of an answer for an area. *)

\* What is cut off a list gives no new member.
LEMMA TruncatedIs ==
    ASSUME NEW T, NEW list \in Seq(T), NEW max \in Nat
    PROVE  Range(Truncated(list, max)) \subseteq T
<1> DEFINE n == Min({Len(list), max})
           cut == SubSeq(list, 1, n)
<1>1. Len(list) \in Nat /\ list \in [1..Len(list) -> T]
  BY LenProperties
<1>2. n \in Int /\ n <= Len(list)
  <2> DEFINE len == Len(list)
  <2>1. len \in Int /\ max \in Int
    BY <1>1
  <2> HIDE DEF len
  <2>2. Min({len, max}) \in Int /\ Min({len, max}) <= len
    BY <2>1, LesserIs
  <2>3. QED
    BY <2>2 DEF len
<1> HIDE DEF n
<1>3. \A i \in 1..n : list[i] \in T
  BY <1>1, <1>2
<1>4. cut \in Seq(T)
  BY <1>2, <1>3, SubSeqProperties
<1>5. Truncated(list, max) = cut
  BY DEF Truncated, n
<1> HIDE DEF cut
<1>6. \A i \in DOMAIN cut : cut[i] \in T
  BY <1>4
<1>7. QED
  BY <1>5, <1>6 DEF Range

\* A finite set in a strict total order is put into a list of its members.
LEMMA ListOf ==
    ASSUME NEW S, IsFiniteSet(S), NEW R, StrictOrderOn(S, R)
    PROVE  /\ Enumeration(S, R) \in Seq(S)
           /\ DOMAIN Enumeration(S, R) = 1..Cardinality(S)
           /\ \A i \in DOMAIN Enumeration(S, R) : Enumeration(S, R)[i] \in S
<1> DEFINE n == Cardinality(S) e == Enumeration(S, R)
<1>1. n \in Nat /\ e \in [1..n -> S]
  BY Enumerates
<1> HIDE DEF n, e
<1>2. e \in Seq(S) /\ DOMAIN e = 1..n /\ \A i \in DOMAIN e : e[i] \in S
  BY <1>1
<1>3. QED
  BY <1>2 DEF n, e

\* Where there is one agency, the index names stops under it.
LEMMA IndexOfOne ==
    ASSUME feed \in DOMAIN Feeds, Cardinality(db.agencies) = 1, NEW stops, IsFiniteSet(stops),
           NEW s0 \in DOMAIN AgenciesForStops(db, stops).of
    PROVE  AgenciesForStops(db, stops).fallback \in {a.id : a \in db.agencies}
<1> DEFINE rows == GetAgenciesForStops(db, stops)
           all == {a.id : a \in db.agencies}
           served(a) == Cardinality({p \in rows : p[1].id = a})
           agencies == {p[1].id : p \in rows}
           most == {a \in agencies : \A b \in agencies : served(b) <= served(a)}
           index == AgenciesForStops(db, stops)
<1>1. index.fallback = IF agencies = {} THEN NoText ELSE Min(most)
  BY DEF AgenciesForStops
<1>2. s0 \in {p[2] : p \in rows}
  BY DEF AgenciesForStops
<1>3. IsFiniteSet(all) /\ all \in SUBSET Int
  BY AgencyIDs
<1>4. rows \subseteq db.agencies \X stops
  BY DEF GetAgenciesForStops
<1>5. IsFiniteSet(rows)
  BY <1>4, TablesImported, FS_Product, FS_Subset DEF ColumnsTyped
<1> HIDE DEF rows, index
<1>6. \A a : served(a) \in Nat
  BY <1>5, FS_Subset, FS_CardinalityType
<1>7. agencies # {}
  BY <1>2
<1>8. agencies \in SUBSET all
  BY <1>4
<1> HIDE DEF served
<1>9. \A a, b \in agencies : a = b
  BY <1>8, OneAgency
<1> HIDE DEF agencies
<1>10. most # {} /\ most \in SUBSET all
  <2>1. PICK a \in agencies : TRUE
    BY <1>7
  <2>2. \A b \in agencies : served(b) <= served(a)
    BY <1>6, <1>9, <2>1
  <2>3. a \in most
    BY <2>1, <2>2
  <2>4. QED
    BY <1>8, <2>3
<1> HIDE DEF most, all
<1>11. IsFiniteSet(most) /\ most \in SUBSET Int
  BY <1>3, <1>10, FS_Subset
<1>12. Min(most) \in all
  BY <1>10, <1>11, Extremes
<1>13. QED
  BY <1>1, <1>7, <1>12 DEF index, all

\* What is due in an area.
DueInArea(snapshot, stops, index) == BatchedStopTimes(Context(snapshot), stops, index, Window)

\* These are finitely many visits of its stops, each under the agency and by
\* the clock that its stop is looked up by.
LEMMA DueInAreaAre ==
    ASSUME RequestInv, request # Null, request.fails = {}, NEW snapshot, NEW stops, NEW index
    PROVE  LET due == DueInArea(snapshot, stops, index)
           IN  /\ IsFiniteSet(due)
               /\ \A x \in due :
                     /\ x.time \in db.stopTimes /\ x.time.stop \in stops
                     /\ x.zone \in Clocks /\ x.date \in Int
                     /\ x.stop = <<AgencyIDFor(index, x.time.stop), x.time.stop>>
               /\ \A x, y \in due : x.time = y.time /\ x.date = y.date => x = y
<1> DEFINE ctx == Context(snapshot)
           zone(s) == LocationFor(ctx, index, s)
           day(s, offset) == DateOf(zone(s), request.at) + offset
           entry(st, s, offset) == [time |-> st, date |-> day(s, offset), zone |-> zone(s),
                                    stop |-> <<AgencyIDFor(index, s), s>>]
           on(s, offset) == StopTimesOn(ctx, {s}, zone(s), day(s, offset), Window)
           due == DueInArea(snapshot, stops, index)
           days == {-1, 0, 1}
<1>1. feed \in DOMAIN Feeds /\ request.at \in Int
  BY DEF RequestInv
<1>2. DaysToVisit(ctx) = days /\ Window.at = request.at
  BY DEF DaysToVisit, Fails, Context, Window
<1>3. \A s, offset : BatchedOn(ctx, index, Window, s, offset) = {entry(st, s, offset) : st \in on(s, offset)}
  BY <1>2 DEF BatchedOn, CombinedID
<1>4. \A s, offset : \A st \in on(s, offset) : st \in db.stopTimes /\ st.stop = s
  BY DEF StopTimesOn, GetStopTimesForStopsInWindow, Context
<1>5. \A s : zone(s) \in Clocks
  <2>1. UTC \in Clocks
    BY DEF UTC, Clocks
  <2>2. QED
    BY <2>1, ZoneAssumption DEF LocationFor
<1> HIDE DEF ctx, zone, on
<1>6. \A s : \A offset \in days : day(s, offset) \in Int
  <2>1. \A s : DateOf(zone(s), request.at) \in Int
    BY <1>1, <1>5, ClocksAreNumbers
  <2>2. QED
    BY <2>1
<1>7. ASSUME NEW x \in due
      PROVE  \E st \in db.stopTimes : \E offset \in days :
                 st.stop \in stops /\ x = entry(st, st.stop, offset)
  <2>1. due = UNION {BatchedOn(ctx, index, Window, p[1], p[2]) : p \in stops \X days}
    BY <1>2 DEF DueInArea, BatchedStopTimes, ctx
  <2>2. PICK p \in stops \X days : x \in BatchedOn(ctx, index, Window, p[1], p[2])
    BY <2>1
  <2>3. p[1] \in stops /\ p[2] \in days
    OBVIOUS
  <2>4. PICK st \in on(p[1], p[2]) : x = entry(st, p[1], p[2])
    BY <1>3, <2>2
  <2>5. st \in db.stopTimes /\ st.stop = p[1]
    BY <1>4
  <2>6. QED
    BY <2>3, <2>4, <2>5
<1> HIDE DEF due, day, days
<1>8. IsFiniteSet(due)
  <2> DEFINE places == db.stopTimes \X days
             all == {entry(p[1], p[1].stop, p[2]) : p \in places}
             f == [p \in places |-> entry(p[1], p[1].stop, p[2])]
  <2>1. IsFiniteSet(days)
    <3>1. -1 \in Int /\ 1 \in Int
      OBVIOUS
    <3>2. IsFiniteSet(-1..1)
      BY <3>1, FS_Interval
    <3>3. -1..1 = days
      BY DEF days
    <3>4. QED
      BY <3>2, <3>3
  <2>2. IsFiniteSet(places)
    BY <1>1, <2>1, TablesImported, FS_Product DEF ColumnsTyped
  <2> HIDE DEF entry
  <2>3. f \in Surjection(places, all)
    BY DEF Surjection
  <2>4. IsFiniteSet(all)
    BY <2>2, <2>3, FS_Surjection
  <2>5. due \subseteq all
    <3> SUFFICES ASSUME NEW x \in due PROVE x \in all
      OBVIOUS
    <3>1. PICK st \in db.stopTimes, offset \in days : x = entry(st, st.stop, offset)
      BY <1>7
    <3>2. <<st, offset>> \in places
      OBVIOUS
    <3>3. QED
      BY <3>1, <3>2
  <2> HIDE DEF all
  <2>6. QED
    BY <2>4, <2>5, FS_Subset
<1>9. ASSUME NEW x \in due
      PROVE  /\ x.time \in db.stopTimes /\ x.time.stop \in stops
             /\ x.zone \in Clocks /\ x.date \in Int
             /\ x.stop = <<AgencyIDFor(index, x.time.stop), x.time.stop>>
             /\ x = [time |-> x.time, date |-> x.date, zone |-> zone(x.time.stop), stop |-> x.stop]
  <2>1. PICK st \in db.stopTimes, offset \in days : st.stop \in stops /\ x = entry(st, st.stop, offset)
    BY <1>7
  <2>2. QED
    BY <1>5, <1>6, <2>1
<1>10. ASSUME NEW x \in due, NEW y \in due, x.time = y.time, x.date = y.date
       PROVE  x = y
  BY <1>9, <1>10
<1>11. QED
  BY <1>8, <1>9, <1>10 DEF due

\* R orders the members of S, which a, b and c tell apart, by a and, where
\* that is the same, by the next.
ByNumbers(S, R, a, b, c) ==
    /\ \A x, y \in S : a[x] = a[y] /\ b[x] = b[y] /\ c[x] = c[y] => x = y
    /\ \A x, y \in S : <<x, y>> \in R <=>
           \/ a[x] < a[y]
           \/ a[x] = a[y] /\ b[x] < b[y]
           \/ a[x] = a[y] /\ b[x] = b[y] /\ c[x] < c[y]

\* That is a strict total order.
LEMMA OrderedByNumbers ==
    ASSUME NEW S, NEW R, NEW a \in [S -> Int], NEW b \in [S -> Int], NEW c \in [S -> Int],
           ByNumbers(S, R, a, b, c)
    PROVE  StrictOrderOn(S, R)
<1>1. \A x \in S : a[x] \in Int /\ b[x] \in Int /\ c[x] \in Int
  OBVIOUS
<1>2. ASSUME NEW x \in S, NEW y \in S, x # y PROVE <<x, y>> \in R \/ <<y, x>> \in R
  <2>1. a[x] # a[y] \/ b[x] # b[y] \/ c[x] # c[y]
    BY <1>2 DEF ByNumbers
  <2>2. QED
    BY <1>1, <2>1 DEF ByNumbers
<1>3. ASSUME NEW x \in S, NEW y \in S, NEW z \in S, <<x, y>> \in R, <<y, z>> \in R
      PROVE  <<x, z>> \in R
  BY <1>1, <1>3 DEF ByNumbers
<1>4. \A x \in S : <<x, x>> \notin R
  BY <1>1 DEF ByNumbers
<1>5. QED
  BY <1>2, <1>3, <1>4 DEF StrictOrderOn

\* How far a stop is from the centre of an area is a number.
LEMMA FromCentreIs ==
    ASSUME feed \in DOMAIN Feeds, NEW area, {area.from, area.to} \subseteq Int, NEW s \in db.stops
    PROVE  FromCentre(area, s) \in Int
<1>1. s.at \in Int
  BY TablesImported DEF ColumnsTyped
<1>2. QED
  BY <1>1 DEF FromCentre, Distance

\* The stops of an area are put into a list.
LEMMA StopsListedByDistance ==
    ASSUME feed \in DOMAIN Feeds, NEW area, {area.from, area.to} \subseteq Int, NEW stops \in SUBSET db.stops
    PROVE  StopsByDistance(area, stops) \in Seq(stops)
<1> DEFINE a == [s \in stops |-> FromCentre(area, s)]
           b == [s \in stops |-> s.id]
           c == [s \in stops |-> 0]
           before(s, t) == \/ FromCentre(area, s) < FromCentre(area, t)
                           \/ FromCentre(area, s) = FromCentre(area, t) /\ s.id < t.id
           R == {p \in stops \X stops : before(p[1], p[2])}
<1>1. a \in [stops -> Int]
  BY FromCentreIs
<1>2. b \in [stops -> Int] /\ c \in [stops -> Int]
  BY TablesImported DEF ColumnsTyped
<1>3. \A x, y \in stops : b[x] = b[y] => x = y
  BY StopsUnique
<1>4. \A x, y \in stops : <<x, y>> \in R <=> before(x, y)
  OBVIOUS
<1>5. \A x, y \in stops : before(x, y) <=>
          \/ a[x] < a[y]
          \/ a[x] = a[y] /\ b[x] < b[y]
          \/ a[x] = a[y] /\ b[x] = b[y] /\ c[x] < c[y]
  OBVIOUS
<1>6. StopsByDistance(area, stops) = Enumeration(stops, R)
  BY DEF StopsByDistance, SortedBy
<1> HIDE DEF R, before, a, b, c
<1>7. \A x, y \in stops : <<x, y>> \in R <=>
          \/ a[x] < a[y]
          \/ a[x] = a[y] /\ b[x] < b[y]
          \/ a[x] = a[y] /\ b[x] = b[y] /\ c[x] < c[y]
  BY <1>4, <1>5
<1>8. StrictOrderOn(stops, R)
  <2>1. ByNumbers(stops, R, a, b, c)
    BY <1>3, <1>7 DEF ByNumbers
  <2>2. QED
    BY <1>1, <1>2, <2>1, OrderedByNumbers
<1>9. IsFiniteSet(stops)
  BY TablesImported, FS_Subset DEF ColumnsTyped
<1>10. QED
  BY <1>6, <1>8, <1>9, ListOf

\* The arrivals in an area are put into a list.
LEMMA ArrivalsListedByDistance ==
    ASSUME feed \in DOMAIN Feeds, NEW ctx, ctx.db = db, NEW area, {area.from, area.to} \subseteq Int,
           NEW A, IsFiniteSet(A), ToldApart(A), \A a \in A : GetStop(db, a.stop[2]) \in db.stops
    PROVE  ArrivalsByStopDistance(ctx, area, A) \in Seq(A)
<1> DEFINE away(a) == FromCentre(area, GetStop(ctx.db, a.stop[2]))
           before(a, b) == away(a) < away(b) \/ (away(a) = away(b) /\ BestBefore(a, b))
           R == {p \in A \X A : before(p[1], p[2])}
<1>1. \A a \in A : away(a) \in Int
  BY FromCentreIs
<1>2. \A x, y \in A : <<x, y>> \in R <=> before(x, y)
  OBVIOUS
<1>3. ArrivalsByStopDistance(ctx, area, A) = Enumeration(A, R)
  BY DEF ArrivalsByStopDistance, SortedBy
<1> HIDE DEF R, away
<1>4. \A x, y \in A : x # y => before(x, y) \/ before(y, x)
  BY <1>1, BestIsStrict
<1>5. ASSUME NEW x \in A, NEW y \in A, NEW z \in A, before(x, y), before(y, z)
      PROVE  before(x, z)
  <2>1. BestBefore(x, y) /\ BestBefore(y, z) => BestBefore(x, z)
    BY BestIsStrict
  <2>2. away(x) \in Int /\ away(y) \in Int /\ away(z) \in Int
    BY <1>1
  <2>3. QED
    BY <1>5, <2>1, <2>2
<1>6. \A x \in A : ~before(x, x)
  BY <1>1, BestIsStrict
<1> HIDE DEF before
<1>7. StrictOrderOn(A, R)
  BY <1>2, <1>4, <1>5, <1>6 DEF StrictOrderOn
<1>8. QED
  BY <1>3, <1>7, ListOf

\* The stops around those of an area keep the agencies that their own index
\* names, where the area's does not.
LEMMA AroundIs ==
    ASSUME feed \in DOMAIN Feeds, NEW ctx, ctx.db = db, NEW stops, NEW ids,
           \A s \in ids : \E st \in db.stopTimes : st.stop = s
    PROVE  LET index == AgenciesForStops(db, stops)
               around == WithNearby(ctx, index, ids)
           IN  /\ \A s \in DOMAIN index.of : AgencyIDFor(around, s) = AgencyIDFor(index, s)
               /\ \A s \in ids : AgencyIDFor(around, s) \in {a.id : a \in db.agencies}
               /\ \A s : \/ AgencyIDFor(around, s) \in {a.id : a \in db.agencies}
                         \/ AgencyIDFor(around, s) = index.fallback
<1> DEFINE index == AgenciesForStops(db, stops)
           others == AgenciesForStops(db, ids)
           around == WithNearby(ctx, index, ids)
           all == {a.id : a \in db.agencies}
<1>1. around.of = Extended(index.of, others.of) /\ around.fallback = index.fallback
  <2>1. index = [of |-> index.of, fallback |-> index.fallback]
    BY DEF AgenciesForStops
  <2> HIDE DEF index
  <2>2. QED
    BY <2>1 DEF WithNearby
<1>2. /\ \A s \in DOMAIN index.of : index.of[s] \in all
      /\ \A s \in DOMAIN others.of : others.of[s] \in all
      /\ \A st \in db.stopTimes : st.stop \in ids => st.stop \in DOMAIN others.of
  BY IndexIs
<1> HIDE DEF index, others, around, all
<1>3. \A s \in ids : s \in DOMAIN others.of
  BY <1>2
<1> DEFINE f == index.of g == others.of both == around.of
<1>4. both = Extended(f, g)
  BY <1>1
<1> HIDE DEF f, g, both
<1>5. /\ DOMAIN both = DOMAIN f \cup DOMAIN g
      /\ \A s \in DOMAIN f : both[s] = f[s]
      /\ \A s \in DOMAIN g : s \notin DOMAIN f => both[s] = g[s]
  BY <1>4 DEF Extended
<1>6. \A s \in DOMAIN index.of : AgencyIDFor(around, s) = index.of[s] /\ AgencyIDFor(index, s) = index.of[s]
  BY <1>5 DEF AgencyIDFor, f, both
<1>7. ASSUME NEW s \in ids PROVE AgencyIDFor(around, s) \in all
  <2>1. CASE s \in DOMAIN index.of
    BY <1>2, <1>6, <2>1
  <2>2. CASE s \notin DOMAIN index.of
    <3>1. s \in DOMAIN around.of /\ around.of[s] = others.of[s]
      BY <1>3, <1>5, <2>2 DEF f, g, both
    <3>2. QED
      BY <1>2, <1>3, <3>1 DEF AgencyIDFor
  <2>3. QED
    BY <2>1, <2>2
<1>8. ASSUME NEW s PROVE AgencyIDFor(around, s) \in all \/ AgencyIDFor(around, s) = index.fallback
  <2>1. CASE s \in DOMAIN around.of
    <3>1. s \in DOMAIN f \cup DOMAIN g /\ AgencyIDFor(around, s) = both[s]
      BY <1>5, <2>1 DEF AgencyIDFor, both
    <3>2. both[s] \in all
      BY <1>2, <1>5, <3>1 DEF f, g
    <3>3. QED
      BY <3>1, <3>2
  <2>2. CASE s \notin DOMAIN around.of
    BY <1>1, <2>2 DEF AgencyIDFor
  <2>3. QED
    BY <2>1, <2>2
<1>9. QED
  BY <1>6, <1>7, <1>8 DEF index, around, all

\* The IDs of the stops around those of an area.
NearbyIDs(ctx, stops) == {s.id : s \in NearbyCandidates(ctx, request.of, stops)}

\* They are told apart by their IDs, and so the nearest is first.
LEMMA NearbyOrdered ==
    ASSUME NEW S, \A n \in S : n.away \in Int /\ n.id[1] \in Int /\ n.id[2] \in Int,
           \A m, n \in S : m.id[2] = n.id[2] => m = n, NEW R,
           \A x, y \in S : <<x, y>> \in R <=>
               \/ x.away < y.away \/ (x.away = y.away /\ x.id[1] < y.id[1])
               \/ (x.away = y.away /\ x.id[1] = y.id[1] /\ x.id[2] < y.id[2])
    PROVE  StrictOrderOn(S, R)
<1> DEFINE a == [n \in S |-> n.away] b == [n \in S |-> n.id[1]] c == [n \in S |-> n.id[2]]
<1>1. \A x \in S : a[x] \in Int /\ b[x] \in Int /\ c[x] \in Int
  OBVIOUS
<1>2. \A x, y \in S : c[x] = c[y] => x = y
  OBVIOUS
<1>3. \A x, y \in S : <<x, y>> \in R <=>
          \/ a[x] < a[y]
          \/ a[x] = a[y] /\ b[x] < b[y]
          \/ a[x] = a[y] /\ b[x] = b[y] /\ c[x] < c[y]
  OBVIOUS
<1>4. a \in [S -> Int] /\ b \in [S -> Int] /\ c \in [S -> Int]
  BY <1>1
<1> HIDE DEF a, b, c
<1>5. ByNumbers(S, R, a, b, c)
  BY <1>2, <1>3 DEF ByNumbers
<1>6. QED
  BY <1>4, <1>5, OrderedByNumbers

\* The stops around those of an area are put into a list, each under its
\* agency.
LEMMA NearbyAre ==
    ASSUME RequestInv, request # Null, request.fails = {}, {request.of.from, request.of.to} \subseteq Int,
           NEW stops, NEW ids
    PROVE  LET ctx == Context(predicted)
               index == AgenciesForStops(db, ids)
               around == WithNearby(ctx, index, NearbyIDs(ctx, stops))
           IN  \E found : /\ NearbyStops(ctx, AreaQuery, stops, index) \in Seq(found)
                          /\ \A n \in found : \E s \in db.stops :
                                s.id \in NearbyIDs(ctx, stops) /\ n.id = <<AgencyIDFor(around, s.id), s.id>>
<1> DEFINE ctx == Context(predicted)
           index == AgenciesForStops(db, ids)
           near == NearbyIDs(ctx, stops)
           around == WithNearby(ctx, index, near)
           serves(s) == \E r \in RoutesRunningAt(ctx, around, s, request.at) :
                           IsRouteTypeAllowed(GetRoute(ctx.db, r[2]).type, request.of.types)
           served == {x \in GetStopsByIDs(db, near) : serves(x.id)}
           entry(s) == [id |-> <<AgencyIDFor(around, s.id), s.id>>, away |-> FromCentre(request.of, s)]
           found == {entry(s) : s \in served}
           before(a, b) == \/ a.away < b.away \/ (a.away = b.away /\ a.id[1] < b.id[1])
                           \/ (a.away = b.away /\ a.id[1] = b.id[1] /\ a.id[2] < b.id[2])
           R == {p \in found \X found : before(p[1], p[2])}
<1>1. feed \in DOMAIN Feeds
  BY DEF RequestInv
<1>2. ctx.db = db /\ ctx.fails = {}
  BY DEF Context
<1>3. NearbyStops(ctx, AreaQuery, stops, index) = Enumeration(found, R)
  <2>1. AreaQuery.area = request.of /\ AreaQuery.types = request.of.types /\ AreaQuery.window.at = request.at
    BY DEF AreaQuery, Window
  <2>2. \A some, other : ~NearbyFail(ctx, AreaQuery, some, other)
    BY <1>2 DEF NearbyFail
  <2> HIDE DEF ctx, index
  <2>3. QED
    BY <1>2, <2>1, <2>2 DEF NearbyStops, NearbyIDs, CombinedID, SortedBy
<1> HIDE DEF serves
<1>4. \A s \in served : s \in db.stops /\ s.id \in near
  BY DEF GetStopsByIDs
<1>5. \A s \in near : \E st \in db.stopTimes : st.stop = s
  BY <1>2 DEF NearbyIDs, NearbyCandidates, GetActiveStopsWithinBounds
<1> HIDE DEF ctx, near
<1>6. \A s \in near : AgencyIDFor(around, s) \in Int
  <2>1. \A s \in near : AgencyIDFor(around, s) \in {a.id : a \in db.agencies}
    BY <1>1, <1>2, <1>5, AroundIs
  <2>2. QED
    BY <1>1, <2>1, AgencyIDs
<1> HIDE DEF around, index, served
<1>7. ASSUME NEW n \in found
      PROVE  /\ n.away \in Int /\ n.id[1] \in Int /\ n.id[2] \in Int
             /\ \E s \in db.stops : s.id \in near /\ n = entry(s)
  <2>1. PICK s \in served : n = entry(s)
    OBVIOUS
  <2>2. s \in db.stops /\ s.id \in near /\ s.id \in Int
    BY <1>1, <1>4, TablesImported DEF ColumnsTyped
  <2>3. FromCentre(request.of, s) \in Int
    BY <1>1, <2>2, FromCentreIs
  <2>4. QED
    BY <1>6, <2>1, <2>2, <2>3
<1>8. IsFiniteSet(found)
  <2> DEFINE f == [s \in served |-> entry(s)]
  <2>1. IsFiniteSet(served)
    BY <1>1, <1>4, TablesImported, FS_Subset DEF ColumnsTyped
  <2>2. f \in Surjection(served, found)
    BY DEF Surjection
  <2>3. QED
    BY <2>1, <2>2, FS_Surjection
<1>9. ASSUME NEW m \in found, NEW n \in found, m.id[2] = n.id[2] PROVE m = n
  <2>1. PICK s \in db.stops, t \in db.stops : m = entry(s) /\ n = entry(t)
    BY <1>7
  <2>2. s = t
    BY <1>1, <1>9, <2>1, StopsUnique
  <2>3. QED
    BY <2>1, <2>2
<1>10. StrictOrderOn(found, R)
  <2>1. \A x, y \in found : <<x, y>> \in R <=> before(x, y)
    OBVIOUS
  <2>2. \A n \in found : n.away \in Int /\ n.id[1] \in Int /\ n.id[2] \in Int
    BY <1>7
  <2> HIDE DEF R, found
  <2>3. \A x, y \in found : <<x, y>> \in R <=>
            \/ x.away < y.away \/ (x.away = y.away /\ x.id[1] < y.id[1])
            \/ (x.away = y.away /\ x.id[1] = y.id[1] /\ x.id[2] < y.id[2])
    BY <2>1
  <2>4. QED
    BY <1>9, <2>2, <2>3, NearbyOrdered
<1> HIDE DEF found, R
<1>11. Enumeration(found, R) \in Seq(found)
  BY <1>8, <1>10, ListOf
<1>12. \A n \in found : \E s \in db.stops : s.id \in near /\ n.id = <<AgencyIDFor(around, s.id), s.id>>
  BY <1>7
<1>13. QED
  BY <1>3, <1>11, <1>12 DEF ctx, index, near, around

\* What was noted still holds all that some of the arrivals refer to.
LEMMA RetainedCovers ==
    ASSUME NEW acc, NEW arrivals, Covers(acc, arrivals), NEW kept, kept \subseteq arrivals, NEW stops
    PROVE  Covers(RetainedAccumulator(acc, kept, stops), kept)
<1> DEFINE left == RetainedAccumulator(acc, kept, stops)
<1>1. /\ left.trips = acc.trips \cap ({a.trip[2] : a \in kept} \cup {a.status.active[2] : a \in kept})
      /\ left.routes = acc.routes \cap {a.route[2] : a \in kept}
      /\ left.stops = stops \cup {a.stop[2] : a \in kept} \cup UNION {StatusStops(a.status) : a \in kept}
  BY DEF RetainedAccumulator
<1> HIDE DEF left
<1>2. SUFFICES ASSUME NEW a \in kept
               PROVE  /\ a.trip[2] \in left.trips /\ a.route[2] \in left.routes /\ a.stop[2] \in left.stops
                      /\ StatusStops(a.status) \subseteq left.stops
                      /\ \A t \in db.trips : t.id = a.status.active[2] => t.id \in left.trips
  BY DEF Covers, left
<1>3. /\ a.trip[2] \in acc.trips /\ a.route[2] \in acc.routes
      /\ \A t \in db.trips : t.id = a.status.active[2] => t.id \in acc.trips
  BY DEF Covers
<1>4. a.trip[2] \in left.trips /\ \A t \in db.trips : t.id = a.status.active[2] => t.id \in left.trips
  BY <1>1, <1>3
<1>5. a.route[2] \in left.routes
  BY <1>1, <1>3
<1>6. a.stop[2] \in left.stops /\ StatusStops(a.status) \subseteq left.stops
  BY <1>1
<1>7. QED
  BY <1>4, <1>5, <1>6

\* The arrivals of an area refer to the rows of their visits, each stop under
\* its agency, and the order they are listed in tells them apart.
LEMMA AreaArrivals ==
    ASSUME RequestInv, request # Null, request.fails = {}, described # Null, NEW stops, NEW index, NEW types,
           ArrivalsForStops(Context(predicted), Context(described), stops, index, types, Window) # Null
    PROVE  LET A == ArrivalsForStops(Context(predicted), Context(described), stops, index, types, Window)
           IN  /\ IsFiniteSet(A) /\ ToldApart(A)
               /\ \A a \in A : /\ Refers(a) /\ a.stop[2] \in stops
                               /\ a.stop[1] = AgencyIDFor(index, a.stop[2])
                               /\ GetStop(db, a.stop[2]) \in db.stops
<1> DEFINE ctx == Context(predicted)
           later == Context(described)
           A == ArrivalsForStops(ctx, later, stops, index, types, Window)
           due == DueInArea(predicted, stops, index)
           all == {v.time.trip : v \in due}
           of(x) == BuildArrival(ctx, later, x, all, request.at)
           shown == {x \in due : IsRouteTypeAllowed(GetRoute(db, GetTrip(db, x.time.trip).route).type, types)}
<1>1. feed \in DOMAIN Feeds /\ SnapshotTyped(described)
  BY DEF RequestInv
<1>2. A = {of(x) : x \in shown}
  <2>1. A = BuildArrivals(ctx, later, due, types, request.at)
    <3> HIDE DEF ctx, later
    <3>1. due = BatchedStopTimes(ctx, stops, index, Window) /\ Window.at = request.at
      BY DEF DueInArea, ctx, Window
    <3> HIDE DEF due
    <3>2. QED
      BY <3>1 DEF ArrivalsForStops, ctx, later
  <2>2. ctx.db = db
    BY DEF Context
  <2> HIDE DEF A, due, ctx, later
  <2>3. QED
    BY <2>1, <2>2 DEF BuildArrivals
<1>3. /\ IsFiniteSet(due)
      /\ \A x \in due : /\ x.time \in db.stopTimes /\ x.time.stop \in stops
                        /\ x.zone \in Clocks /\ x.date \in Int
                        /\ x.stop = <<AgencyIDFor(index, x.time.stop), x.time.stop>>
      /\ \A x, y \in due : x.time = y.time /\ x.date = y.date => x = y
  BY DueInAreaAre
<1> HIDE DEF due, all, A
<1>4. shown \in SUBSET due
  OBVIOUS
<1> HIDE DEF shown
<1>5. ASSUME NEW x \in shown
      PROVE  /\ of(x).trip = <<AgencyOf(x.time.trip), x.time.trip>>
             /\ of(x).stopSequence = x.time.seq - 1 /\ of(x).date = x.date
             /\ ArrivalTyped(of(x))
  BY <1>3, <1>4, BuiltIs
<1>6. ASSUME NEW x \in shown
      PROVE  Refers(of(x)) /\ of(x).stop = <<AgencyIDFor(index, x.time.stop), x.time.stop>>
  <2>1. /\ x.time \in db.stopTimes /\ x.zone \in Clocks /\ x.date \in Int
        /\ x.stop = <<AgencyIDFor(index, x.time.stop), x.time.stop>>
    BY <1>3, <1>4
  <2>2. \E agency : x.stop = <<agency, x.time.stop>>
    BY <2>1
  <2>3. LET a == BuildArrival(Context(predicted), Context(described), x, all, request.at)
        IN  Refers(a) /\ a.stop = x.stop
    BY <1>1, <2>1, <2>2, BuiltRefers
  <2>4. QED
    BY <2>1, <2>3
<1>7. \A x \in shown : /\ x.time \in db.stopTimes /\ x.time.stop \in stops /\ x.time.seq \in Int
                       /\ GetStop(db, x.time.stop) \in db.stops
  BY <1>1, <1>3, <1>4, RowsOfVisit, StopOfVisit
<1> HIDE DEF of
<1>8. IsFiniteSet(A)
  <2> DEFINE f == [x \in shown |-> of(x)]
  <2>1. f \in Surjection(shown, A)
    BY <1>2 DEF Surjection
  <2>2. IsFiniteSet(shown)
    BY <1>3, <1>4, FS_Subset
  <2>3. QED
    BY <2>1, <2>2, FS_Surjection
<1>9. ToldApart(A)
  <2>1. \A a \in A : ArrivalTyped(a)
    BY <1>2, <1>5
  <2>2. ASSUME NEW x \in shown, NEW y \in shown, of(x).trip[2] = of(y).trip[2],
               of(x).stopSequence = of(y).stopSequence, of(x).date = of(y).date
        PROVE  x = y
    <3>1. x.time.trip = y.time.trip /\ x.date = y.date
      BY <1>5, <2>2
    <3>2. x.time.seq = y.time.seq
      BY <1>5, <1>7, <2>2
    <3>3. x.time = y.time
      BY <1>1, <1>7, <3>1, <3>2, TablesImported
    <3>4. QED
      BY <1>3, <1>4, <3>1, <3>3
  <2>3. QED
    BY <1>2, <2>1, <2>2 DEF ToldApart
<1>10. ASSUME NEW a \in A
       PROVE  /\ Refers(a) /\ a.stop[2] \in stops
              /\ a.stop[1] = AgencyIDFor(index, a.stop[2])
              /\ GetStop(db, a.stop[2]) \in db.stops
  <2>1. PICK x \in shown : a = of(x)
    BY <1>2
  <2>2. a.stop = <<AgencyIDFor(index, x.time.stop), x.time.stop>>
    BY <1>6, <2>1
  <2>3. a.stop[1] = AgencyIDFor(index, x.time.stop) /\ a.stop[2] = x.time.stop
    BY <2>2
  <2>4. QED
    BY <1>6, <1>7, <2>1, <2>3
<1>11. QED
  BY <1>8, <1>9, <1>10 DEF A

\* An index under which the stops of another keep their agencies.
Widens(wider, index) == \A s \in DOMAIN index.of : AgencyIDFor(wider, s) = AgencyIDFor(index, s)

\* The stops of the arrivals in A are in the tables.
StopsKnown(A) == \A a \in A : GetStop(db, a.stop[2]) \in db.stops

\* The members of lists, the stops of the area under their agencies.
CutFrom(lists, index, inArea, A, found) ==
    /\ Range(lists.arrivals) \subseteq A /\ Range(lists.nearby) \subseteq found
    /\ \A id \in Range(lists.stops) : \E s \in inArea : id = <<AgencyIDFor(index, s.id), s.id>>

\* Each of the lists of an answer for an area has the members it was cut from.
LEMMA ListsAre ==
    ASSUME feed \in DOMAIN Feeds, NEW ctx, ctx.db = db, NEW q,
           q.area.from \in Int, q.area.to \in Int, q.max \in Nat, NEW index, NEW inArea \in SUBSET db.stops,
           NEW A, IsFiniteSet(A), ToldApart(A), StopsKnown(A),
           NEW found, NEW nearby \in Seq(found)
    PROVE  CutFrom(Lists(ctx, q, index, inArea, A, nearby), index, inArea, A, found)
<1> DEFINE lists == Lists(ctx, q, index, inArea, A, nearby)
           sorted == StopsByDistance(q.area, inArea)
           ids == [i \in DOMAIN sorted |-> CombinedID(AgencyIDFor(index, sorted[i].id), sorted[i].id)]
           inOrder == ArrivalsByStopDistance(ctx, q.area, A)
           named == {<<AgencyIDFor(index, s.id), s.id>> : s \in inArea}
<1>1. /\ lists.stops = Truncated(ids, q.max) /\ lists.arrivals = Truncated(inOrder, q.max)
      /\ lists.nearby = Truncated(nearby, q.max)
  BY DEF Lists
<1> HIDE DEF lists
<1>2. ids \in Seq(named)
  <2>1. sorted \in Seq(inArea)
    <3>1. {q.area.from, q.area.to} \subseteq Int
      OBVIOUS
    <3>2. QED
      BY <3>1, StopsListedByDistance
  <2> HIDE DEF sorted
  <2>2. Len(sorted) \in Nat /\ DOMAIN sorted = 1..Len(sorted) /\ \A i \in DOMAIN sorted : sorted[i] \in inArea
    BY <2>1
  <2>3. \A i \in DOMAIN sorted : ids[i] \in named
    BY <2>2 DEF CombinedID
  <2>4. ids \in [1..Len(sorted) -> named]
    BY <2>2, <2>3
  <2> HIDE DEF ids, named
  <2>5. QED
    BY <2>2, <2>4
<1>3. inOrder \in Seq(A)
  <2>1. {q.area.from, q.area.to} \subseteq Int
    OBVIOUS
  <2>2. QED
    BY <2>1, ArrivalsListedByDistance DEF StopsKnown
<1> HIDE DEF ids, inOrder
<1>4. Range(lists.arrivals) \subseteq A /\ Range(lists.nearby) \subseteq found /\ Range(lists.stops) \subseteq named
  <2> HIDE DEF named
  <2>1. Range(lists.arrivals) \subseteq A
    BY <1>1, <1>3, TruncatedIs
  <2>2. Range(lists.nearby) \subseteq found
    BY <1>1, TruncatedIs
  <2>3. Range(lists.stops) \subseteq named
    BY <1>1, <1>2, TruncatedIs
  <2>4. QED
    BY <2>1, <2>2, <2>3
<1>5. QED
  BY <1>4 DEF lists, CutFrom

\* What is among the references of an area's answer, its parts by themselves:
\* the arrivals and the nearby stops that its lists name.
LEMMA ListsCovered ==
    ASSUME RequestInv, NEW ctx, ctx.db = db, ctx.fails = {}, NEW index, NEW wider,
           Widens(wider, index), NEW noted, NEW A, Covers(noted, A),
           \A a \in A : /\ Refers(a) /\ a.stop[1] = AgencyIDFor(index, a.stop[2])
                        /\ a.stop[2] \in DOMAIN index.of,
           NEW lists, Range(lists.arrivals) \subseteq A,
           \A id \in Range(lists.stops) : /\ id = <<AgencyIDFor(index, id[2]), id[2]>>
                                          /\ id[2] \in DOMAIN index.of /\ GetStop(db, id[2]) # Null,
           \A n \in Range(lists.nearby) : /\ n.id = <<AgencyIDFor(wider, n.id[2]), n.id[2]>>
                                          /\ AgencyIDFor(wider, n.id[2]) \in {x.id : x \in db.agencies}
                                          /\ GetStop(db, n.id[2]) # Null,
           Cardinality(db.agencies) = 1 => \A s : AgencyIDFor(wider, s) \in {x.id : x \in db.agencies}
    PROVE  LET refs == ReferencesOfLists(ctx, lists, wider, noted)
           IN  /\ ArrivalsResolve(Range(lists.arrivals), refs)
               /\ Range(lists.stops) \cup {n.id : n \in Range(lists.nearby)} \subseteq {s.id : s \in refs.stops}
<1> DEFINE near == Range(lists.nearby)
           kept == Range(lists.arrivals)
           stops == {s[2] : s \in Range(lists.stops)} \cup {n.id[2] : n \in near}
           left == RetainedAccumulator(noted, kept, stops)
           refs == ReferencesOfLists(ctx, lists, wider, noted)
<1>1. refs = BuildArrivalsReferences(ctx, wider, {}, left)
  BY DEF ReferencesOfLists
<1> HIDE DEF refs
<1>2. \A s \in DOMAIN index.of : AgencyIDFor(wider, s) = AgencyIDFor(index, s)
  BY DEF Widens
<1>3. Covers(left, kept)
  BY RetainedCovers
<1>4. refs.stops = StopReferencesUnder(ctx, wider, left.stops) /\ stops \subseteq left.stops
  BY <1>1 DEF BuildArrivalsReferences, RetainedAccumulator
<1> HIDE DEF left, kept, near
<1>5. Cardinality(db.agencies) = 1 => \A s \in left.stops : AgencyIDFor(wider, s) \in {x.id : x \in db.agencies}
  OBVIOUS
<1>6. ArrivalsResolve(kept, refs)
  <2>1. \A a \in kept : Refers(a) /\ a.stop[1] = AgencyIDFor(wider, a.stop[2])
    BY <1>2 DEF kept
  <2>2. ArrivalsResolve(kept, BuildArrivalsReferences(ctx, wider, {}, left))
    BY <1>3, <1>5, <2>1, ReferencesCover
  <2>3. QED
    BY <1>1, <2>2
<1>7. \A s \in left.stops : GetStop(db, s) # Null
          => <<AgencyIDFor(wider, s), s>> \in {x.id : x \in refs.stops}
  <2> DEFINE shown == left.stops
  <2> HIDE DEF shown
  <2>1. LET found == StopReferencesUnder(ctx, wider, shown)
        IN  \A s \in shown : GetStop(db, s) # Null
                => <<AgencyIDFor(wider, s), s>> \in {x.id : x \in found}
    BY StopsListed
  <2>2. QED
    BY <1>4, <2>1 DEF shown
<1>8. \A id \in Range(lists.stops) : id \in {x.id : x \in refs.stops}
  <2> SUFFICES ASSUME NEW id \in Range(lists.stops) PROVE id \in {x.id : x \in refs.stops}
    OBVIOUS
  <2>1. /\ id = <<AgencyIDFor(wider, id[2]), id[2]>> /\ GetStop(db, id[2]) # Null
    BY <1>2
  <2>2. id[2] \in left.stops
    BY <1>4
  <2> HIDE DEF stops
  <2>3. QED
    BY <1>7, <2>1, <2>2
<1>9. \A n \in near : n.id \in {x.id : x \in refs.stops}
  <2> SUFFICES ASSUME NEW n \in near PROVE n.id \in {x.id : x \in refs.stops}
    OBVIOUS
  <2>1. n.id = <<AgencyIDFor(wider, n.id[2]), n.id[2]>> /\ GetStop(db, n.id[2]) # Null
    BY DEF near
  <2>3. n.id[2] \in left.stops
    BY <1>4
  <2> HIDE DEF stops
  <2>4. QED
    BY <1>7, <2>1, <2>3
<1>10. QED
  BY <1>6, <1>8, <1>9 DEF refs, kept, near

\* What an answer for an area names is among its references.
LEMMA AreaResolves ==
    ASSUME RequestInv, Answering("area"), request.fails = {}, AreaAnswer # Null
    PROVE  AreaAnswerResolves(AreaAnswer)
<1> DEFINE ctx == Context(predicted)
           later == Context(described)
           area == request.of
           inArea == GetActiveStopsWithinBounds(db, area)
           ids == {s.id : s \in inArea}
           index == AgenciesForStops(db, ids)
           A == ArrivalsForStops(ctx, later, ids, index, area.types, Window)
           nearby == NearbyStops(ctx, AreaQuery, inArea, index)
           near == NearbyIDs(ctx, inArea)
           wider == WithNearby(ctx, index, near)
           noted == WithStopSituations(ctx, later, Accumulated(ctx, A, ids), index, ids,
                        BatchedStopTimes(ctx, ids, index, Window))
           lists == Lists(ctx, AreaQuery, index, inArea, A, nearby)
           all == {x.id : x \in db.agencies}
<1>1. /\ request # Null /\ described # Null /\ feed \in DOMAIN Feeds
      /\ area \in AreasAsked /\ {area.from, area.to} \subseteq Int /\ area.max \in Nat
  BY RequestAssumption DEF Answering, RequestInv
<1>2. ctx.db = db /\ ctx.fails = {}
  BY DEF Context
<1>3. /\ AreaQuery.area = area /\ AreaQuery.types = area.types /\ AreaQuery.max = area.max
      /\ AreaQuery.window = Window
  BY DEF AreaQuery
<1>4. \/ AreaAnswer = Envelope(<<>>, {})
      \/ /\ A # Null /\ nearby # Null /\ inArea # {}
         /\ AreaAnswer = AnswerOfLists(ctx, lists, wider, noted)
  <2>1. near = {s.id : s \in NearbyCandidates(ctx, AreaQuery.area, inArea)}
    BY <1>3 DEF NearbyIDs
  <2> HIDE DEF ctx, later, A, nearby, lists, noted, index, near, wider
  <2>2. AreaAnswer = IF inArea = {} THEN Envelope(<<>>, {})
                     ELSE IF A = Null \/ nearby = Null THEN Null
                     ELSE AnswerOfLists(ctx, lists, wider, noted)
    BY <1>2, <1>3, <2>1
       DEF AreaAnswer, ArrivalsAndDeparturesForLocation, ctx, later, A, nearby, lists, noted, index, wider
  <2> HIDE DEF inArea
  <2>3. QED
    BY <2>2
<1>5. CASE AreaAnswer = Envelope(<<>>, {})
  <2>1. AreaAnswer.arrivals = <<>> /\ AreaAnswer.refs = [NoReferences EXCEPT !.agencies = {}]
    BY <1>5 DEF Envelope
  <2>2. Range(AreaAnswer.arrivals) = {}
    BY <2>1 DEF Range
  <2>3. AreaAnswer.refs = NoReferences
    BY <2>1 DEF NoReferences
  <2>4. QED
    BY <2>1, <2>2, <2>3, NothingToResolve DEF AreaAnswerResolves, StopAnswerResolves
<1>6. CASE /\ A # Null /\ nearby # Null /\ inArea # {}
           /\ AreaAnswer = AnswerOfLists(ctx, lists, wider, noted)
  <2>1. /\ inArea \in SUBSET db.stops
        /\ \A s \in inArea : \E st \in db.stopTimes : st.stop = s.id
    BY DEF GetActiveStopsWithinBounds
  <2>2. /\ \A s \in DOMAIN index.of : index.of[s] \in all
        /\ \A st \in db.stopTimes : st.stop \in ids => st.stop \in DOMAIN index.of
        /\ index = [of |-> index.of, fallback |-> index.fallback]
    <3>1. index = [of |-> index.of, fallback |-> index.fallback]
      BY DEF AgenciesForStops
    <3> HIDE DEF ids, all
    <3>2. QED
      BY <1>1, <3>1, IndexIs DEF all
  <2>3. ids \subseteq DOMAIN index.of
    <3> SUFFICES ASSUME NEW s \in inArea PROVE s.id \in DOMAIN index.of
      OBVIOUS
    <3>1. PICK st \in db.stopTimes : st.stop = s.id
      BY <2>1
    <3>2. st.stop \in ids
      BY <3>1
    <3> HIDE DEF index
    <3>3. QED
      BY <2>2, <3>1, <3>2
  <2>4. Cardinality(db.agencies) = 1 => index.fallback \in all
    <3>1. PICK s \in inArea : TRUE
      BY <1>6
    <3>2. s.id \in DOMAIN index.of
      BY <2>3
    <3>3. IsFiniteSet(ids)
      <4> DEFINE f == [x \in inArea |-> x.id]
      <4>1. f \in Surjection(inArea, ids)
        BY DEF Surjection
      <4>2. IsFiniteSet(inArea)
        BY <1>1, <2>1, TablesImported, FS_Subset DEF ColumnsTyped
      <4> HIDE DEF inArea
      <4>3. QED
        BY <4>1, <4>2, FS_Surjection
    <3> HIDE DEF ids, all
    <3>4. QED
      BY <1>1, <3>2, <3>3, IndexOfOne DEF all
  <2>5. /\ Widens(wider, index)
        /\ \A s \in NearbyIDs(ctx, inArea) : AgencyIDFor(wider, s) \in all
        /\ \A s : AgencyIDFor(wider, s) \in all \/ AgencyIDFor(wider, s) = index.fallback
    <3>1. \A s \in NearbyIDs(ctx, inArea) : \E st \in db.stopTimes : st.stop = s
      BY <1>2 DEF NearbyIDs, NearbyCandidates, GetActiveStopsWithinBounds
    <3> HIDE DEF ctx, ids, inArea, all
    <3>2. QED
      BY <1>1, <1>2, <3>1, AroundIs DEF all, Widens
  <2>6. /\ IsFiniteSet(A) /\ ToldApart(A)
        /\ \A a \in A : /\ Refers(a) /\ a.stop[2] \in ids
                        /\ a.stop[1] = AgencyIDFor(index, a.stop[2])
                        /\ GetStop(db, a.stop[2]) \in db.stops
    <3> HIDE DEF ids, index
    <3>1. QED
      BY <1>1, <1>6, AreaArrivals
  <2>7. PICK found : /\ nearby \in Seq(found)
                     /\ \A n \in found : \E s \in db.stops :
                           s.id \in NearbyIDs(ctx, inArea) /\ n.id = <<AgencyIDFor(wider, s.id), s.id>>
    <3> HIDE DEF ids, inArea
    <3>1. QED
      BY <1>1, NearbyAre
  <2> HIDE DEF ctx, index, A, nearby, wider
  <2>8. /\ Range(lists.arrivals) \subseteq A /\ Range(lists.nearby) \subseteq found
        /\ \A id \in Range(lists.stops) : \E s \in inArea : id = <<AgencyIDFor(index, s.id), s.id>>
    <3>1. PICK q : q = AreaQuery
      OBVIOUS
    <3>2. q.area.from \in Int /\ q.area.to \in Int /\ q.max \in Nat
      BY <1>1, <1>3, <3>1
    <3>3. IsFiniteSet(A) /\ ToldApart(A) /\ StopsKnown(A)
      BY <2>6 DEF StopsKnown
    <3> HIDE DEF inArea
    <3>4. CutFrom(Lists(ctx, q, index, inArea, A, nearby), index, inArea, A, found)
      BY <1>1, <1>2, <2>1, <2>7, <3>2, <3>3, ListsAre
    <3>5. CutFrom(lists, index, inArea, A, found)
      BY <3>1, <3>4
    <3> HIDE DEF lists
    <3>6. QED
      BY <3>5 DEF CutFrom
  <2> HIDE DEF lists
  <2>9. Covers(noted, A)
    <3>1. Covers(Accumulated(ctx, A, ids), A)
      BY <1>2, <2>6, AllNoted
    <3> DEFINE acc == Accumulated(ctx, A, ids)
    <3>2. acc.trips = noted.trips /\ acc.routes = noted.routes /\ acc.stops = noted.stops
      BY DEF WithStopSituations, Accumulated
    <3> HIDE DEF acc, noted
    <3>3. QED
      BY <3>1, <3>2 DEF Covers, acc
  <2>10. \A id \in Range(lists.stops) : /\ id = <<AgencyIDFor(index, id[2]), id[2]>>
                                        /\ id[2] \in DOMAIN index.of /\ GetStop(db, id[2]) # Null
    <3> SUFFICES ASSUME NEW id \in Range(lists.stops)
                 PROVE  /\ id = <<AgencyIDFor(index, id[2]), id[2]>>
                        /\ id[2] \in DOMAIN index.of /\ GetStop(db, id[2]) # Null
      OBVIOUS
    <3>1. PICK s \in inArea : id = <<AgencyIDFor(index, s.id), s.id>>
      BY <2>8
    <3>2. id[2] = s.id /\ s.id \in DOMAIN index.of
      BY <2>3, <3>1
    <3>3. GetStop(db, s.id) # Null
      BY <1>1, <2>1, StopFound
    <3>4. QED
      BY <3>1, <3>2, <3>3
  <2>11. \A n \in Range(lists.nearby) : /\ n.id = <<AgencyIDFor(wider, n.id[2]), n.id[2]>>
                                        /\ AgencyIDFor(wider, n.id[2]) \in all
                                        /\ GetStop(db, n.id[2]) # Null
    <3> SUFFICES ASSUME NEW n \in Range(lists.nearby)
                 PROVE  /\ n.id = <<AgencyIDFor(wider, n.id[2]), n.id[2]>>
                        /\ AgencyIDFor(wider, n.id[2]) \in all
                        /\ GetStop(db, n.id[2]) # Null
      OBVIOUS
    <3>1. PICK s \in db.stops : s.id \in NearbyIDs(ctx, inArea) /\ n.id = <<AgencyIDFor(wider, s.id), s.id>>
      BY <2>7, <2>8
    <3>2. n.id[2] = s.id /\ AgencyIDFor(wider, s.id) \in all
      BY <2>5, <3>1
    <3>3. GetStop(db, s.id) # Null
      BY <1>1, StopFound
    <3>4. QED
      BY <3>1, <3>2, <3>3
  <2>12. \A a \in A : /\ Refers(a) /\ a.stop[1] = AgencyIDFor(index, a.stop[2])
                      /\ a.stop[2] \in DOMAIN index.of
    BY <2>3, <2>6
  <2>13. Cardinality(db.agencies) = 1 => \A s : AgencyIDFor(wider, s) \in all
    BY <2>4, <2>5
  <2> HIDE DEF ids, inArea, noted
  <2>14. LET refs == ReferencesOfLists(ctx, lists, wider, noted)
         IN  /\ ArrivalsResolve(Range(lists.arrivals), refs)
             /\ Range(lists.stops) \cup {n.id : n \in Range(lists.nearby)} \subseteq {s.id : s \in refs.stops}
    BY <1>2, <2>5, <2>8, <2>9, <2>10, <2>11, <2>12, <2>13, ListsCovered
  <2>15. /\ AreaAnswer.stops = lists.stops /\ AreaAnswer.arrivals = lists.arrivals
         /\ AreaAnswer.nearby = lists.nearby
         /\ AreaAnswer.refs = ReferencesOfLists(ctx, lists, wider, noted)
    BY <1>6 DEF AnswerOfLists
  <2>16. QED
    BY <2>14, <2>15 DEF AreaAnswerResolves, StopAnswerResolves, ListsResolve
<1>7. QED
  BY <1>4, <1>5, <1>6

\* Whatever the limit cuts off, the stops, trips and routes that the answers
\* for stops and areas name are among their references, each under the agency
\* that the answer names it under; so are those that statuses name where there
\* is one agency, but for stops that are not in the feed.
THEOREM EmittedIDsFound == Spec => []EmittedIDsResolve
<1>1. RequestInv => EmittedIDsResolve
  <2>1. ASSUME RequestInv, Answering("stop"), ~Degraded PROVE StopAnswerResolves(StopAnswer)
    BY <2>1, StopResolves DEF StopAnswerResolves, Degraded
  <2>2. ASSUME RequestInv, Answering("area"), ~Degraded PROVE AreaAnswerResolves(AreaAnswer)
    <3>1. CASE AreaAnswer = Null
      BY <3>1 DEF AreaAnswerResolves, StopAnswerResolves
    <3>2. CASE AreaAnswer # Null
      BY <2>2, <3>2, AreaResolves DEF Degraded
    <3>3. QED
      BY <3>1, <3>2
  <2>3. QED
    BY <2>1, <2>2 DEF EmittedIDsResolve
<1>2. QED
  BY <1>1, RequestInvariant, PTL

=============================================================================
