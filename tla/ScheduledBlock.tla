--------------------------- MODULE ScheduledBlock ---------------------------
(***************************************************************************)
(* Where the vehicle of a block is by its schedule, and how late it runs:  *)
(* the block snapshot of scheduled_block_helper.go and the schedule        *)
(* deviation of trip_updates_helper.go.                                    *)
(*                                                                         *)
(* The map is a line: a stop, a point of a shape and a position are        *)
(* numbers, the projection onto a segment is the nearest number of it. A   *)
(* distance between two stops' times is a fraction [n, d].                 *)
(***************************************************************************)
EXTENDS ServiceDays

CONSTANTS GoodMatch,      \* a projection closer than this ends the search
          EarlyExit,      \* once a segment is so much farther
          DeviationLimit  \* blockNotActiveThresholdSeconds

-----------------------------------------------------------------------------
(* Projection onto a shape. *)

Distance(a, b) == IF a < b THEN b - a ELSE a - b

Nearest(p, a, b) ==
    IF p < Min({a, b}) THEN Min({a, b}) ELSE IF p > Max({a, b}) THEN Max({a, b}) ELSE p

ProjectOntoSegment(p, a, b) ==
    [away |-> Distance(p, Nearest(p, a, b)),
     along |-> Distance(a, Nearest(p, a, b)),
     atEnd |-> a # b /\ Nearest(p, a, b) = b]

\* preCalculateCumulativeDistances
CumulativeDistances(shape) ==
    LET c[i \in 1..Len(shape)] ==
          IF i = 1 THEN 0 ELSE c[i - 1] + Distance(shape[i - 1], shape[i])
    IN  c

\* projectStopGeometric: the nearest segment from the cursor on, giving up
\* once the shape leads away from a good match; a stop at the end of its
\* segment moves the cursor past it, so that a loop does not match it twice.
Scan(shape, at, found, j) ==
    LET p == ProjectOntoSegment(at, shape[j], shape[j + 1]) IN
    IF found.done THEN found
    ELSE IF found.segment = 0 \/ p.away < found.p.away
         THEN [segment |-> j, p |-> p, done |-> FALSE]
         ELSE [found EXCEPT !.done = found.p.away < GoodMatch
                                     /\ p.away > found.p.away + EarlyExit]

BestSegment(shape, at, cursor) ==
    FoldLeft(LAMBDA found, j : Scan(shape, at, found, j),
             [segment |-> 0, done |-> FALSE],
             [k \in 1..Len(shape) - cursor |-> cursor + k - 1])

ProjectStop(shape, cumulative, at, cursor) ==
    LET on(best) == [dist |-> cumulative[best.segment] + best.p.along,
                     cursor |-> IF best.p.atEnd /\ best.segment < Len(shape) - 1
                                THEN best.segment + 1 ELSE best.segment]
    IN  on(BestSegment(shape, at, Min({cursor, Len(shape) - 1})))

\* The position of a stop among those fetched, Null when it was not.
PositionOf(stops, id) == LET s == OneRow({x \in stops : x.id = id})
                         IN  IF s = Null THEN Null ELSE s.at

\* A stop that was not fetched is at 0 and leaves the cursor.
ProjectNext(shape, acc, at) ==
    LET add(p) == [dists |-> Append(acc.dists, p.dist), cursor |-> p.cursor]
    IN  IF at = Null THEN [acc EXCEPT !.dists = Append(@, 0)]
        ELSE add(ProjectStop(shape, CumulativeDistances(shape), at, acc.cursor))

ProjectStopsInSequence(times, stops, shape) ==
    IF Len(shape) < 2 THEN [i \in DOMAIN times |-> 0]
    ELSE FoldLeft(LAMBDA acc, st : ProjectNext(shape, acc, PositionOf(stops, st.stop)),
                  [dists |-> <<>>, cursor |-> 1], times).dists

\* haversineStopDistances: from stop to stop, where a trip has no shape.
StopToStopDistances(times, stops) ==
    LET at(i) == PositionOf(stops, times[i].stop)
        c[i \in 1..Len(times)] ==
          IF i = 1 THEN 0
          ELSE c[i - 1] + (IF Null \in {at(i - 1), at(i)} THEN 0
                           ELSE Distance(at(i - 1), at(i)))
    IN  c

-----------------------------------------------------------------------------
(* The trips of a block and the shift of a trip. *)

\* A trip stands alone when it has no block or a query fails.
BlockTripIDsForServiceDate(ctx, trip, d) ==
    LET block == GetBlockIDByTripID(ctx.db, trip)
        active == {t.id : t \in {u \in GetTripsByBlockID(ctx.db, block) :
                     u.service \in GetActiveServiceIDsForDate(ctx.db, d)}}
    IN  IF \/ ctx.fails \cap {"GetBlockIDByTripID", "GetTripsByBlockID",
                              "GetActiveServiceIDsForDate"} # {}
           \/ block \in {Null, NoText}
           \/ active = {}
        THEN {trip}
        ELSE active

ShapePoints(ctx, query, trip) ==
    LET points == GetShapePointsByTripID(ctx.db, trip)
    IN  IF Fails(ctx, query) THEN <<>> ELSE [i \in DOMAIN points |-> points[i].at]

BlockTripData(ctx, trip) ==
    LET times == GetStopTimesForTrip(ctx.db, trip) IN
    [id |-> trip, times |-> times, shape |-> ShapePoints(ctx, "GetShapePointsByTripIDs", trip),
     first |-> EffectiveStopTime(times[1]),
     last |-> EffectiveStopTime(times[Len(times)])]

LoadBlockTripData(ctx, trips) ==
    IF Fails(ctx, "GetStopTimesForTripIDs") THEN {}
    ELSE {BlockTripData(ctx, t) :
            t \in {u \in trips : GetStopTimesForTrip(ctx.db, u) # <<>>}}

\* By first stop time (the sort leaves equal ones in any order).
ByFirst(trips) ==
    SortedBy(trips, LAMBDA a, b : a.first < b.first \/ (a.first = b.first /\ a.id < b.id))

\* Fault: walking back, a trip that starts when the one before it ends
\* opens a shift of its own.
KeepShiftUneven(trips, target) ==
    LET at == OneRow({i \in DOMAIN trips : trips[i].id = target})
        opens == {i \in 2..at : trips[i].first <= trips[i - 1].last}
        closes == {i \in at..Len(trips) - 1 : trips[i + 1].first < trips[i].last}
    IN  SubSeq(trips, IF opens = {} THEN 1 ELSE Max(opens),
                      IF closes = {} THEN Len(trips) ELSE Min(closes))

\* The trips around the target up to the nearest two that overlap, which one
\* vehicle cannot run.
KeepShiftContainingTrip(trips, target) ==
    LET at == OneRow({i \in DOMAIN trips : trips[i].id = target})
        opens == {i \in 2..at : trips[i].first < trips[i - 1].last}
        closes == {i \in at..Len(trips) - 1 : trips[i + 1].first < trips[i].last}
    IN  IF at = Null THEN <<>>
        ELSE SubSeq(trips, IF opens = {} THEN 1 ELSE Max(opens),
                           IF closes = {} THEN Len(trips) ELSE Min(closes))

LoadShiftTrips(ctx, target, d) ==
    KeepShiftContainingTrip(
        ByFirst(LoadBlockTripData(ctx, BlockTripIDsForServiceDate(ctx, target, d))), target)

-----------------------------------------------------------------------------
(* The snapshot of a shift. *)

StopsFetched(ctx, trips) ==
    IF Fails(ctx, "GetStopsByIDs") THEN {}
    ELSE GetStopsByIDs(ctx.db, UNION {{st.stop : st \in Range(trips[i].times)} :
                                        i \in DOMAIN trips})

TripDistances(stops, trip) ==
    IF Len(trip.shape) >= 2 THEN ProjectStopsInSequence(trip.times, stops, trip.shape)
    ELSE StopToStopDistances(trip.times, stops)

TripLength(stops, trip) ==
    LET shape == trip.shape IN
    IF Len(shape) >= 2 THEN CumulativeDistances(shape)[Len(shape)]
    ELSE StopToStopDistances(trip.times, stops)[Len(trip.times)]

TripOffsets(stops, trips) ==
    LET c[i \in DOMAIN trips] ==
          IF i = 1 THEN 0 ELSE c[i - 1] + TripLength(stops, trips[i - 1])
    IN  c

\* Every stop of the shift with its distance along the block.
EmitBlockStops(stops, trips) ==
    LET offsets == TripOffsets(stops, trips)
        emit(trip, offset, dists) ==
            [k \in DOMAIN trip.times |->
                LET st == trip.times[k] IN
                [trip |-> trip.id, stop |-> st.stop, seq |-> st.seq,
                 time |-> EffectiveStopTime(st),
                 dist |-> offset + dists[k], along |-> dists[k]]]
    IN  FlattenSeq([i \in DOMAIN trips |->
                        emit(trips[i], offsets[i], TripDistances(stops, trips[i]))])

StopsAreMonotonic(stops) == \A i \in 2..Len(stops) : stops[i - 1].time <= stops[i].time

\* The first stop not yet due, Null past the last one.
FindNextStopIndex(stops, t) ==
    LET due == {i \in DOMAIN stops : stops[i].time >= t}
    IN  IF due = {} THEN Null ELSE Min(due)

\* The stop at the end of the leg that holds t: the search of a sorted block
\* takes the first stop at or after t, the scan of another the first after it.
LegEnd(stops, t) ==
    LET ends == {i \in 2..Len(stops) : IF StopsAreMonotonic(stops)
                                       THEN stops[i].time >= t ELSE stops[i].time > t}
    IN  IF ends = {} THEN Len(stops) ELSE Min(ends)

Fraction(n, d) == [n |-> n, d |-> d]
AtMost(a, b) == a.n * b.d <= b.n * a.d

\* Fault: the leg begins where it ends.
InterpolateFromEnd(stops, t) ==
    LET i == LegEnd(stops, t) IN Fraction(stops[i].dist, 1)

InterpolateBlockDistance(stops, t) ==
    LET last == stops[Len(stops)]
        i == LegEnd(stops, t)
        from == stops[i - 1]
        span == stops[i].time - from.time
    IN  CASE t <= stops[1].time -> Fraction(stops[1].dist, 1)
          [] t > stops[1].time /\ t >= last.time -> Fraction(last.dist, 1)
          [] OTHER -> IF span = 0 THEN Fraction(from.dist, 1)
                      ELSE Fraction(from.dist * span + (t - from.time)
                                                       * (stops[i].dist - from.dist), span)

\* The latest trip whose start the position has reached.
ActiveTripIndex(offsets, position) ==
    LET reached == {i \in DOMAIN offsets : AtMost(Fraction(offsets[i], 1), position)}
    IN  IF reached = {} THEN Null ELSE Max(reached)

\* The active trip of a position, and how far along it is.
ActiveAt(trips, offsets, position, active) ==
    IF active = Null THEN [trip |-> Null, shape |-> <<>>, along |-> Null]
    ELSE [trip |-> trips[active].id, shape |-> trips[active].shape,
          along |-> Fraction(position.n - offsets[active] * position.d, position.d)]

SnapshotAt(trips, stops, seconds, position, running) ==
    [stops |-> stops,
     next |-> FindNextStopIndex(stops, seconds),
     dist |-> position,
     inRange |-> InRange(seconds, stops[1].time, stops[Len(stops)].time),
     shift |-> {trips[i].id : i \in DOMAIN trips},
     active |-> running.trip, shape |-> running.shape, along |-> running.along]

ShiftSnapshot(trips, stops, offsets, seconds) ==
    LET at(position) ==
          SnapshotAt(trips, stops, seconds, position,
                     ActiveAt(trips, offsets, position, ActiveTripIndex(offsets, position)))
    IN  at(InterpolateBlockDistance(stops, seconds))

ComputeScheduledBlockSnapshot(ctx, target, zone, t, d) ==
    LET of(trips, fetched) ==
          IF trips = <<>> THEN Null
          ELSE ShiftSnapshot(trips, EmitBlockStops(fetched, trips), TripOffsets(fetched, trips),
                             SecondsSince(zone, t, d))
        shift(trips) == of(trips, StopsFetched(ctx, trips))
    IN  shift(LoadShiftTrips(ctx, target, d))

CacheKey(trip, t, d) == <<trip, t, d>>

\* lookupCachedSnapshot: what the request has computed for the trip's shift.
SnapshotOf(ctx, memo, trip, zone, t, d) ==
    IF CacheKey(trip, t, d) \in DOMAIN memo THEN memo[CacheKey(trip, t, d)]
    ELSE ComputeScheduledBlockSnapshot(ctx, trip, zone, t, d)

\* populateSnapshotCache: a snapshot is kept under every trip of its shift;
\* that there is none is not kept.
Memoize(memo, snapshot, t, d) ==
    LET keys == {CacheKey(trip, t, d) : trip \in snapshot.shift}
    IN  IF snapshot = Null THEN memo
        ELSE [k \in keys \cup DOMAIN memo |-> IF k \in keys THEN snapshot ELSE memo[k]]

\* Distance and stops from the vehicle to a stop; Null off the schedule.
MetricsForStop(snapshot, trip, seq) ==
    LET index == OneRow({i \in DOMAIN snapshot.stops :
                    snapshot.stops[i].trip = trip /\ snapshot.stops[i].seq = seq})
    IN  IF index = Null \/ snapshot.next = Null \/ ~snapshot.inRange THEN Null
        ELSE [distance |-> Fraction(snapshot.stops[index].dist * snapshot.dist.d - snapshot.dist.n,
                                    snapshot.dist.d),
              away |-> index - snapshot.next]

\* The place on a shape at a distance, Null without a shape.
PositionAtDistance(shape, dist) ==
    LET cumulative == CumulativeDistances(shape)
        ends == {i \in 2..Len(shape) : AtMost(dist, Fraction(cumulative[i], 1))}
        i == IF ends = {} THEN Len(shape) ELSE Min(ends)
        along == dist.n - cumulative[i - 1] * dist.d
    IN  CASE Len(shape) < 2 -> Null
          [] Len(shape) >= 2 /\ dist.n <= 0 -> Fraction(shape[1], 1)
          [] Len(shape) >= 2 /\ dist.n > 0 /\ ends = {} -> Fraction(shape[Len(shape)], 1)
          [] OTHER -> Fraction(shape[i - 1] * dist.d
                               + (IF shape[i] >= shape[i - 1] THEN along ELSE -along), dist.d)

\* interpolateDistanceAtScheduledTime: within one trip, between departure
\* and arrival.
DistanceAtScheduledTime(times, dists, t) ==
    LET legs == {i \in 1..Len(times) - 1 : InRange(t, times[i].departure, times[i + 1].arrival)}
        i == Min(legs)
        span == times[i + 1].arrival - times[i].departure
    IN  IF legs # {}
        THEN IF span = 0 THEN Fraction(dists[i], 1)
             ELSE Fraction(dists[i] * span + (t - times[i].departure)
                                             * (dists[i + 1] - dists[i]), span)
        ELSE Fraction(IF t < times[1].arrival THEN 0 ELSE dists[Len(dists)], 1)

\* scheduledTripPosition
ScheduledTripPosition(times, stops, shape, zone, t, d) ==
    PositionAtDistance(shape,
        DistanceAtScheduledTime(times, ProjectStopsInSequence(times, stops, shape),
                                SecondsSince(zone, t, d)))

\* scheduledPositionAtTime: no position at all when a stop is missing.
ScheduledPositionAtTime(times, shape, stops, zone, t, d) ==
    IF \/ times = <<>> \/ Len(shape) < 2
       \/ \E i \in DOMAIN times : PositionOf(stops, times[i].stop) = Null
    THEN Null
    ELSE ScheduledTripPosition(times, stops, shape, zone, t, d)

=============================================================================
