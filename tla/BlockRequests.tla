---------------------------- MODULE BlockRequests ---------------------------
(***************************************************************************)
(* Requests that ask for the block snapshots and the status of trips while *)
(* the clock runs and realtime reports arrive. A request keeps the time it *)
(* was made at, and memoizes the snapshots it has computed; any of its     *)
(* queries may fail.                                                       *)
(***************************************************************************)
EXTENDS RequestData

CONSTANTS Zone,       \* the zone of the agencies
          Failures,   \* the sets of queries that may fail together
          MaxRows,    \* bound: the trips a request asks for
          FirstTime, LastTime

ASSUME ClockAssumption ==
    /\ Zone \in Clocks
    /\ FirstTime \in Int /\ LastTime \in Int

VARIABLES now,      \* the clock, and the time of the open request
          rows,     \* the trips the open request has asked for, 0 when none is open
          memo,     \* snapshotCache.m
          degraded, \* a query of the open request failed
          status    \* the last status it built, what it was read from, or Null

vars == <<feed, now, rt, rows, memo, degraded, status>>

Context(fails) == [db |-> db, rt |-> rt, fails |-> fails]
NoFailures == Context({})

TripIDs == {t.id : t \in db.trips}
AgencyOf(trip) == GetRoute(db, GetTrip(db, trip).route).agency

\* The service date a handler resolves for a trip that may be running.
DateFor(trip) ==
    LET day == FromInstant(Zone, now)
        services == ServiceIDsForDays(NoFailures, day)
    IN  Resolve(NewServiceDateResolverFor(Zone, day, now, services), GetTrip(db, trip))

\* The clock stands while a request is open: it keeps the time it began at.
Tick ==
    /\ now < LastTime
    /\ rows = 0
    /\ now' = now + 1
    /\ UNCHANGED <<feed, rt, rows, memo, degraded, status>>

\* Bound: between requests and between two rows of one; once its last row is
\* built a request reads no snapshot.
PublishRealtime ==
    /\ rows < MaxRows
    /\ \E snapshot \in Realtimes \ {rt} : rt' = snapshot
    /\ UNCHANGED <<feed, now, rows, memo, degraded, status>>

\* One row of the response: the vehicle is looked up, the status built, and
\* the snapshot it needed memoized. Bound: queries fail in one row at most.
Describe(trip, fails) ==
    LET ctx == Context(fails)
        d == DateFor(trip)
        v == GetVehicleForTrip(ctx, trip)
        built == BuildTripStatus(ctx, memo, AgencyOf(trip), trip, v, Zone, d, now)
    IN  /\ rows < MaxRows
        /\ degraded => fails = {}
        /\ rows' = rows + 1
        /\ status' = [trip |-> trip, fails |-> fails, rt |-> rt, vehicle |-> v, date |-> d,
                      is |-> built]
        /\ memo' = IF status'.is = Null THEN memo
                   ELSE Memoize(memo, status'.is.snapshot, status'.is.effective, d)
        /\ degraded' = (degraded \/ fails # {})
        /\ UNCHANGED <<feed, now, rt>>

Answer ==
    /\ rows > 0
    /\ rows' = 0
    /\ memo' = <<>>
    /\ degraded' = FALSE
    /\ status' = Null
    /\ UNCHANGED <<feed, now, rt>>

Init ==
    /\ feed \in DOMAIN Feeds
    /\ now = FirstTime
    /\ rt = NoRealtime
    /\ rows = 0
    /\ memo = <<>>
    /\ degraded = FALSE
    /\ status = Null

Next ==
    \/ Tick
    \/ PublishRealtime
    \/ \E trip \in TripIDs, fails \in Failures : Describe(trip, fails)
    \/ Answer

Spec == Init /\ [][Next]_vars

-----------------------------------------------------------------------------
(* Correctness. *)

Described == status # Null /\ (status # Null => status.is # Null)
SeesStale == Described /\ (Described => IsStale(status.vehicle, now))

\* What the last status was read from, and the status it would have been.
Read == [db |-> db, fails |-> status.fails, rt |-> status.rt]

StatusFrom(ctx, v) ==
    BuildTripStatus(ctx, <<>>, AgencyOf(status.trip), status.trip, v, Zone, status.date, now)

TripRead == DBTrip(Read, status.trip, status.vehicle, now)

UpdatesRead == UpdatesOf(Read, BlockShiftTripIDsSortedByStartTime(Read, TripRead, status.date))

\* The bounds kept with the trips of the block put them in the order of their
\* first visits. A trip that arrives there at midnight and leaves later, or
\* whose times go back, may have another place among the ones than the others.
BoundsKeepOrder ==
    LET block == {t \in db.trips :
                    t.id \in BlockTripIDsForServiceDate(Read, TripRead, status.date)}
        first(t) == EffectiveStopTime(GetStopTimesForTrip(db, t.id)[1])
    IN  \A t, u \in block : t.minArrival < u.minArrival <=> first(t) < first(u)

\* What a request finds under a trip is that trip's own snapshot: two trips
\* share one only if each, asked for first, would have computed the same.
MemoIsOwnSnapshot ==
    ~degraded => \A k \in DOMAIN memo :
        memo[k] = ComputeScheduledBlockSnapshot(NoFailures, k[1], Zone, k[2], k[3])

\* While the block runs, its position lies between the stop it has left and
\* the next one.
NextStopAhead ==
    \A k \in DOMAIN memo :
        LET s == memo[k] IN
        s.inRange /\ StopsAreMonotonic(s.stops) =>
            /\ s.next # Null
            /\ AtMost(s.dist, Fraction(s.stops[s.next].dist, 1))
            /\ s.next > 1 => AtMost(Fraction(s.stops[s.next - 1].dist, 1), s.dist)

\* It never goes back as the clock runs, unless the clock is put back.
NeverDrivesBack ==
    ~degraded => \A k \in DOMAIN memo :
        LET later == ComputeScheduledBlockSnapshot(NoFailures, k[1], Zone, k[2] + 1, k[3])
        IN  OffsetAt(Zone, k[2]) = OffsetAt(Zone, k[2] + 1) =>
                AtMost(memo[k].dist, later.dist)

\* A vehicle drives forward along its block and from stop to stop, over the
\* turns and loops of its trips and the layovers between them.
BlockDrivesForward == NextStopAhead /\ NeverDrivesBack

\* A trip that is running, or about to, or just over, is reported on the day
\* whose schedule puts it there.
ResolvedDayRuns ==
    LET day == FromInstant(Zone, now)
        window(t, d) == InRange(now - Start(Zone, d), t.minArrival - RunningEarly,
                                t.maxDeparture + RunningLate)
    IN  \A t \in db.trips :
            (\E d \in {day - 1, day} : window(t, d) /\ IsServiceActiveOnDate(db, t.service, d))
            => window(t, DateFor(t.id))

\* Without a delay for a whole trip, the deviation is that of the prediction
\* closest to now, and of one still to come when two are as close.
DeviationOfNearestPrediction ==
    Described =>
        LET updates == UpdatesRead
            all == {p \in Range(FlattenSeq([i \in DOMAIN updates |->
                        Predictions(Read, updates[i], Zone, status.date, now)])) :
                        p.scheduled > 0 /\ p.predicted > 0}
            seconds == SecondsSince(Zone, now, status.date)
            near == {p \in all : \A q \in all :
                        Distance(p.predicted, seconds) <= Distance(q.predicted, seconds)}
            ahead == {p \in near : p.predicted >= seconds}
            best == IF ahead = {} THEN near ELSE ahead
        IN  all # {} => ClosestDeviation(Read, updates, Zone, status.date, now)
                            \in {p.predicted - p.scheduled : p \in best}

\* The delay of a bus on another shift of the block never reaches a trip, where
\* the shifts by the bounds and by the visits are cut from the same order.
DeviationOfOwnShift ==
    Described /\ (Described => status.is.snapshot # Null /\ BoundsKeepOrder) /\ ~degraded =>
        LET own == [Read EXCEPT !.rt.updates = {u \in @ : u.trip \in status.is.snapshot.shift}]
        IN  StatusFrom(own, status.vehicle).deviation = status.is.deviation

\* A trip is as late as the prediction that counts most says, of those for the
\* bus that runs it.
DeviationOfRunningShift == DeviationOfNearestPrediction /\ DeviationOfOwnShift

\* A vehicle last heard of too long ago does not move the distance of a trip
\* from where its schedule has it.
StaleVehicleDoesNotMoveTrip ==
    SeesStale => status.is.along \in {status.is.scheduledAlong, Fraction(0, 1)}

=============================================================================
