----------------------------- MODULE TripStatus -----------------------------
(***************************************************************************)
(* What a response says of one trip at one moment: its vehicle, how late   *)
(* it is, its closest and next stops and its place on the block            *)
(* (trip_updates_helper.go, vehicles_helper.go, BuildTripStatus).          *)
(*                                                                         *)
(* rt = [updates, vehicles, alerts] is the published realtime snapshot. An *)
(* update is [trip, delay, stops], a stop update [stop, seq, arr, dep], an *)
(* event [time, delay]; Null stands for each part that is absent. A        *)
(* vehicle is [id, trip, relation, at, stop, seq, stopped, time].          *)
(***************************************************************************)
EXTENDS ScheduledBlock

CONSTANTS StaleAge,  \* StaleDetector.threshold
          OffRoute   \* a vehicle farther from a shape is not on it

\* The vehicles, and the stops of a trip update, are lists; the parts of an
\* update that are there are numbers.
EventTyped(e) == e # Null => e.time \in Int \cup {Null} /\ e.delay \in Int \cup {Null}

UpdateTyped(u) ==
    /\ u # Null
    /\ u.delay \in Int \cup {Null}
    /\ u.stops \in Seq(Range(u.stops))
    /\ \A i \in DOMAIN u.stops : /\ u.stops[i].seq \in Int \cup {Null}
                                /\ EventTyped(u.stops[i].arr) /\ EventTyped(u.stops[i].dep)

SnapshotTyped(snapshot) ==
    /\ DOMAIN snapshot = {"updates", "vehicles", "alerts"}
    /\ snapshot.vehicles \in Seq(Range(snapshot.vehicles))
    /\ \A u \in snapshot.updates : UpdateTyped(u)

-----------------------------------------------------------------------------
(* The schedule deviation of a block. *)

GetTripUpdate(ctx, trip) == OneRow({u \in ctx.rt.updates : u.trip = trip})

\* The shift by the bounds kept with the trips, in the order of their starts;
\* the whole block where the trip itself does not run on the day.
BlockShiftTripIDsSortedByStartTime(ctx, target, d) ==
    LET bounds(ids) == {[id |-> r.id, first |-> r.minArrival, last |-> r.maxDeparture] :
                            r \in GetTripTimeBoundsByIDs(ctx.db, ids)}
        idsOf(trips) == [i \in DOMAIN trips |-> trips[i].id]
        orAll(shift, trips) == IF shift = <<>> THEN trips ELSE shift
        around(trips) == orAll(KeepShiftContainingTrip(trips, target), trips)
        of(ids) == IF Cardinality(ids) <= 1 \/ Fails(ctx, "GetTripTimeBoundsByIDs")
                   THEN SortedBy(ids, LAMBDA a, b : a < b)
                   ELSE idsOf(around(ByFirst(bounds(ids))))
    IN  of(BlockTripIDsForServiceDate(ctx, target, d))

Exceeds(deviation) == deviation > DeviationLimit \/ deviation < -DeviationLimit

UpdatesOf(ctx, trips) ==
    Taken([i \in DOMAIN trips |-> GetTripUpdate(ctx, trips[i])],
          {i \in DOMAIN trips : GetTripUpdate(ctx, trips[i]) # Null})

\* The last trip of the block with a delay counts.
TripLevelDelay(updates) ==
    LET given == {i \in DOMAIN updates : updates[i].delay # Null}
    IN  IF given = {} THEN Null ELSE updates[Max(given)].delay

\* stuReferenceTime: about when the stop is, to tell two visits apart.
ReferenceTime(su, zone, d, now) ==
    LET of(e) == CASE e = Null -> Null
                   [] e # Null /\ e.time # Null -> SecondsSince(zone, e.time, d)
                   [] e # Null /\ e.time = Null /\ e.delay # Null -> SecondsSince(zone, now, d) - e.delay
                   [] OTHER -> Null
    IN  CASE of(su.arr) # Null -> of(su.arr)
          [] of(su.arr) = Null /\ of(su.dep) # Null -> of(su.dep)
          [] OTHER -> -1

\* matchScheduleEntry: the visit with the sequence of the update, else the
\* one closest to the reference time, the earlier of two as close.
MatchScheduleEntry(entries, su, ref) ==
    LET named == {i \in DOMAIN entries : entries[i].seq = su.seq}
        away(e) == Min({Distance(e.arrival, ref), Distance(e.departure, ref)})
        closest == {i \in DOMAIN entries : \A j \in DOMAIN entries : away(entries[i]) <= away(entries[j])}
    IN  CASE entries = <<>> -> Null
          [] entries # <<>> /\ named # {} -> entries[Min(named)]
          [] OTHER -> entries[IF ref <= 0 THEN 1 ELSE Min(closest)]

\* The scheduled visit a stop update is about; without a stop, by sequence.
ScheduledVisit(ctx, trip, su, zone, d, now) ==
    LET times == IF Fails(ctx, "GetStopTimesForTripIDs") THEN <<>>
                 ELSE GetStopTimesForTrip(ctx.db, trip)
    IN  IF su.stop = Null THEN OneRow({st \in Range(times) : st.seq = su.seq})
        ELSE MatchScheduleEntry(Taken(times, {i \in DOMAIN times : times[i].stop = su.stop}), su,
                                ReferenceTime(su, zone, d, now))

\* stuPredictedFromEvent; 0 when nothing can be predicted.
PredictedFromEvent(event, scheduled, zone, d) ==
    CASE event = Null \/ scheduled <= 0 -> 0
      [] event # Null /\ scheduled > 0 /\ event.time # Null -> SecondsSince(zone, event.time, d)
      [] event # Null /\ scheduled > 0 /\ event.time = Null /\ event.delay # Null -> scheduled + event.delay
      [] OTHER -> 0

\* The (scheduled, predicted) pairs an update offers, in its order.
Predictions(ctx, u, zone, d, now) ==
    LET of(su, visit) ==
          IF visit = Null THEN <<>>
          ELSE <<[scheduled |-> visit.arrival,
                  predicted |-> PredictedFromEvent(su.arr, visit.arrival, zone, d)],
                 [scheduled |-> visit.departure,
                  predicted |-> PredictedFromEvent(su.dep, visit.departure, zone, d)]>>
    IN  FlattenSeq([i \in DOMAIN u.stops |->
                        of(u.stops[i], ScheduledVisit(ctx, u.trip, u.stops[i], zone, d, now))])

NoPick == [delta |-> Null, past |-> TRUE, deviation |-> 0]

\* Fault: a stop still to come replaces one that is closer but past.
ShouldReplaceFuture(best, delta, past) ==
    best.delta = Null \/ delta < best.delta \/ (~past /\ best.past)

ShouldReplace(best, delta, past) ==
    best.delta = Null \/ delta < best.delta \/ (~past /\ best.past /\ delta <= best.delta)

\* stuDeviationPicker.consider
Consider(best, p, seconds) ==
    LET delta == Distance(p.predicted, seconds)
        past == p.predicted < seconds
    IN  IF p.scheduled > 0 /\ p.predicted > 0 /\ ShouldReplace(best, delta, past)
        THEN [delta |-> delta, past |-> past, deviation |-> p.predicted - p.scheduled]
        ELSE best

ClosestDeviation(ctx, updates, zone, d, now) ==
    LET picked(best) == IF best.delta = Null THEN Null ELSE best.deviation
    IN  picked(FoldLeft(LAMBDA b, p : Consider(b, p, SecondsSince(zone, now, d)), NoPick,
                        FlattenSeq([i \in DOMAIN updates |->
                                        Predictions(ctx, updates[i], zone, d, now)])))

\* pickFirstAvailableSTUDelay: when the schedule cannot be read.
FirstAvailableDelay(updates) ==
    LET delay(e) == IF e = Null THEN Null ELSE e.delay
        of(su) == IF delay(su.arr) # Null THEN delay(su.arr) ELSE delay(su.dep)
        stops == FlattenSeq([i \in DOMAIN updates |-> updates[i].stops])
        given == {i \in DOMAIN stops : of(stops[i]) # Null}
    IN  IF given = {} THEN Null ELSE of(stops[Min(given)])

\* Null without a usable update; a deviation beyond the limit discards the
\* record, a smaller one elsewhere in it is not taken instead.
GetScheduleDeviationForBlock(ctx, trips, zone, d, now) ==
    LET usable(deviation) == IF deviation = Null \/ Exceeds(deviation) THEN Null ELSE deviation
        of(updates) == OrElse(OrElse(TripLevelDelay(updates),
                                     ClosestDeviation(ctx, updates, zone, d, now)),
                              FirstAvailableDelay(updates))
    IN  usable(of(UpdatesOf(ctx, trips)))

\* sequenceIdentifiesVisit: the sequence counts when it names the same stop.
SequenceIdentifiesVisit(su, times) ==
    /\ su.seq # Null
    /\ su.stop = Null \/ times = <<>>
       \/ \E i \in DOMAIN times : times[i].seq = su.seq /\ times[i].stop = su.stop

\* StopDelays.For: the last update of a visit, by sequence before by stop.
StopDelayFor(ctx, trip, times, st) ==
    LET u == GetTripUpdate(ctx, trip)
        stops == IF u = Null THEN <<>> ELSE u.stops
        bySequence == {i \in DOMAIN stops : /\ SequenceIdentifiesVisit(stops[i], times)
                                            /\ stops[i].seq = st.seq}
        byStop == {i \in DOMAIN stops : /\ ~SequenceIdentifiesVisit(stops[i], times)
                                        /\ stops[i].stop # Null /\ stops[i].stop = st.stop}
        delay(e) == IF e = Null \/ e.delay = Null THEN 0 ELSE e.delay
        of(i) == [arrival |-> delay(stops[i].arr), departure |-> delay(stops[i].dep)]
    IN  CASE bySequence # {} -> of(Max(bySequence))
          [] bySequence = {} /\ byStop # {} -> of(Max(byStop))
          [] OTHER -> Null

-----------------------------------------------------------------------------
(* The vehicle of a trip. *)

IsStale(v, now) ==
    IF v = Null THEN TRUE
    ELSE IF v.time = Null THEN v.at = Null ELSE Distance(now, v.time) > StaleAge

\* The vehicle of the trip, else the first on another trip of its block.
GetVehicleForTrip(ctx, trip) ==
    LET vehicles == ctx.rt.vehicles
        own == {i \in DOMAIN vehicles : vehicles[i].trip = trip}
        row == GetTrip(ctx.db, trip)
        mates == {t.id : t \in GetTripsByBlockID(ctx.db, row.block)}
        near == {i \in DOMAIN vehicles : vehicles[i].trip # NoText /\ vehicles[i].trip \in mates}
        fails == ctx.fails \cap {"GetTrip", "GetTripsByBlockID"} # {}
    IN  CASE own # {} -> vehicles[Max(own)]
          [] own = {} /\ (fails \/ row = Null) -> Null
          [] OTHER -> IF near = {} THEN Null ELSE vehicles[Min(near)]

GetVehicleActiveTripID(v) == IF v = Null THEN NoText ELSE v.trip

\* GetVehicleStatusAndPhase
StatusOf(v) == IF v = Null THEN "default" ELSE v.relation
PhaseOf(v) == IF v = Null THEN "scheduled" ELSE IF v.relation = "CANCELED" THEN "" ELSE "in_progress"

\* resolveActiveTripID: the trip of the block that is under way, by the
\* clocks of the service's days, today's before yesterday's.
ActiveTripInBlockAt(ctx, block, d, seconds) ==
    LET trips == GetTripsByBlockIDOrdered(ctx.db, block, GetActiveServiceIDsForDate(ctx.db, d))
        running == {i \in DOMAIN trips : InRange(seconds, trips[i].minArrival, trips[i].maxDeparture)}
    IN  IF running = {} \/ ctx.fails \cap {"GetActiveServiceIDsForDate", "GetTripsByBlockIDOrdered"} # {}
        THEN Null ELSE trips[Min(running)].id

ResolveActiveTripID(ctx, trip, zone, now) ==
    LET row == GetTrip(ctx.db, trip)
        activeOn(d) == ActiveTripInBlockAt(ctx, row.block, d, SecondsSince(zone, now, d))
        today == DateOf(zone, now)
    IN  CASE Fails(ctx, "GetTrip") \/ row = Null -> trip
          [] ~Fails(ctx, "GetTrip") /\ row # Null /\ row.block \in {Null, NoText} -> trip
          [] OTHER -> OrElse(OrElse(activeOn(today), activeOn(today - 1)), trip)

\* projectVehicleDistanceOnShape: Null far from the shape.
ProjectVehicleDistanceOnShape(shape, at) ==
    LET nearest == {j \in 1..Len(shape) - 1 :
                      ProjectOntoSegment(at, shape[j], shape[j + 1]).away <= OffRoute}
        closest == {j \in nearest : \A k \in nearest :
                      ProjectOntoSegment(at, shape[j], shape[j + 1]).away
                          <= ProjectOntoSegment(at, shape[k], shape[k + 1]).away}
        on(j) == Fraction(CumulativeDistances(shape)[j]
                          + ProjectOntoSegment(at, shape[j], shape[j + 1]).along, 1)
    IN  IF nearest = {} THEN Null ELSE on(Min(closest))

-----------------------------------------------------------------------------
(* The closest and the next stop. *)

NoStop == [stop |-> NoText, offset |-> 0]

StopAt(st, dev, seconds) ==
    [stop |-> st.stop, offset |-> EffectiveStopTime(st) + dev - seconds]

\* By the stop the vehicle names: its first visit.
VisitOf(times, stop) == OneRow({Min(v) : v \in {{i \in DOMAIN times : times[i].stop = stop}} \ {{}}})

CalculateOffsetForStop(times, stop, dev, seconds) ==
    LET i == VisitOf(times, stop)
    IN  [stop |-> stop, offset |-> IF i = Null THEN 0 ELSE StopAt(times[i], dev, seconds).offset]

FindNextStopAfter(times, stop, dev, seconds) ==
    LET i == VisitOf(times, stop)
    IN  IF i = Null \/ i = Len(times) THEN NoStop ELSE StopAt(times[i + 1], dev, seconds)

\* By the sequence number the vehicle names.
FindClosestStopBySequence(times, seq, dev, seconds) ==
    LET st == OneRow({x \in Range(times) : x.seq = seq})
    IN  IF st = Null THEN NoStop ELSE StopAt(st, dev, seconds)

\* getFirstStopOfNextTripInBlock: of the next trip of the same service.
FirstStopOfNextTrip(ctx, trip) ==
    LET row == GetTrip(ctx.db, trip)
    IN  IF \/ ctx.fails \cap {"GetTrip", "GetFirstStopOfNextTripInBlock"} # {}
           \/ row = Null
        THEN Null
        ELSE GetFirstStopOfNextTripInBlock(ctx.db, trip, row.block, {row.service})

\* After the last stop comes the first of the block's next trip.
FindNextStopBySequence(ctx, trip, times, v, dev, seconds) ==
    LET i == OneRow({j \in DOMAIN times : times[j].seq = v.seq})
        at(st) == IF st = Null THEN NoStop ELSE StopAt(st, dev, seconds)
    IN  CASE i = Null -> NoStop
          [] i # Null /\ ~v.stopped -> at(times[i])
          [] i # Null /\ v.stopped /\ i < Len(times) -> at(times[i + 1])
          [] OTHER -> at(FirstStopOfNextTrip(ctx, trip))

\* By the schedule alone: the stop nearest in time, and the one after it.
FindStopsByScheduleDeviation(times, dev, seconds) ==
    LET away(i) == Distance(EffectiveStopTime(times[i]), seconds - dev)
        i == Min({j \in DOMAIN times : \A k \in DOMAIN times : away(j) <= away(k)})
    IN  [closest |-> StopAt(times[i], dev, seconds),
         next |-> IF i = Len(times) THEN NoStop ELSE StopAt(times[i + 1], dev, seconds)]

\* By the delays of the single stops: departure before arrival; a visit
\* without either time is left out.
DelayedStopTime(delay, st) ==
    LET base == IF st.departure > 0 THEN st.departure ELSE st.arrival
    IN  IF delay = Null THEN base
        ELSE IF st.departure > 0 /\ delay.departure # 0 THEN base + delay.departure
             ELSE base + delay.arrival

\* The stop of S whose time is nearest, the first of two as near.
NearestInTime(times, at, seconds, S) ==
    LET away(i) == Distance(at[i], seconds)
        found(i) == [stop |-> times[i].stop, offset |-> at[i] - seconds]
    IN  IF S = {} THEN NoStop ELSE found(Min({i \in S : \A j \in S : away(i) <= away(j)}))

FindStopsWithDelays(ctx, trip, times, seconds) ==
    LET usable == {i \in DOMAIN times : times[i].departure > 0}
        found(at) == [closest |-> NearestInTime(times, at, seconds, usable),
                      next |-> NearestInTime(times, at, seconds, {i \in usable : at[i] > seconds})]
    IN  found([i \in usable |->
                  DelayedStopTime(StopDelayFor(ctx, trip, times, times[i]), times[i])])

\* fillStopsFromSchedule: whichever of the two is still missing.
FillStopsFromSchedule(found, times, dev, seconds) ==
    LET due == {i \in DOMAIN times : EffectiveStopTime(times[i]) + dev > seconds}
        i == Min(due)
        last == IF due = {} THEN Len(times) ELSE i - 1
    IN  IF times = <<>> THEN found
        ELSE [closest |-> IF found.closest.stop = NoText /\ last > 0
                          THEN StopAt(times[last], dev, seconds) ELSE found.closest,
              next |-> IF found.next.stop = NoText /\ due # {}
                       THEN StopAt(times[i], dev, seconds) ELSE found.next]

\* The branch of BuildTripStatus the vehicle's report selects.
FindStops(ctx, trip, dbTrip, times, v, dev, seconds) ==
    CASE times = <<>> -> [closest |-> NoStop, next |-> NoStop]
      [] times # <<>> /\ (v = Null \/ v.at = Null) -> FindStopsWithDelays(ctx, dbTrip, times, seconds)
      [] OTHER ->
           IF v.stop # NoText
           THEN LET closest == CalculateOffsetForStop(times, v.stop, dev, seconds)
                IN  [closest |-> closest,
                     next |-> IF v.stopped THEN FindNextStopAfter(times, v.stop, dev, seconds)
                              ELSE closest]
           ELSE IF v.seq # Null
           THEN [closest |-> FindClosestStopBySequence(times, v.seq, dev, seconds),
                 next |-> FindNextStopBySequence(ctx, trip, times, v, dev, seconds)]
           ELSE FindStopsByScheduleDeviation(times, dev, seconds)

-----------------------------------------------------------------------------
(* The status. *)

\* A situation is named under the agency its alert informs of, else the one
\* it was looked up for.
SituationID(alert, agency) == CombinedID(IF alert.agency # NoText THEN alert.agency ELSE agency, alert.id)

\* GetAlertsByIDs and situationRefsFromAlerts; no alert informs of NoText.
SituationRefs(ctx, trip, route, agency) ==
    LET of == {<<"trip", trip>>, <<"route", route>>, <<"agency", agency>>}
    IN  {SituationID(a, agency) : a \in {x \in ctx.rt.alerts : x.informed \cap of # {}}}

\* situationRefsForTrip: the alerts of a trip, its route and its route's agency.
SituationsOfTrip(ctx, trip) ==
    LET row == IF Fails(ctx, "GetTrip") THEN Null ELSE GetTrip(ctx.db, trip)
        route == IF row = Null \/ Fails(ctx, "GetRoute") THEN Null ELSE GetRoute(ctx.db, row.route)
    IN  SituationRefs(ctx, trip, IF row = Null THEN NoText ELSE row.route,
                      IF route = Null THEN NoText ELSE route.agency)

\* calculateBlockTripSequence: 0 stands for none as well.
BlockTripSequence(ctx, trip, d) ==
    LET row == GetTrip(ctx.db, trip) IN
        IF \/ ctx.fails \cap {"GetTrip", "GetActiveServiceIDsForDate", "GetBlockTripSequence"} # {}
           \/ row = Null
        THEN 0
        ELSE OrElse(GetBlockTripSequence(ctx.db, trip, row.block,
                                         GetActiveServiceIDsForDate(ctx.db, d)), 0)

\* The active trip the vehicle reports, when it is a trip of the feed.
DBTrip(ctx, trip, v, now) ==
    IF IsStale(v, now) THEN trip
    ELSE IF v.trip = NoText \/ Fails(ctx, "GetTrip") \/ GetTrip(ctx.db, v.trip) = Null THEN trip
         ELSE v.trip

\* Fault: a vehicle's position counts however old it is.
DistanceAlongTripAnyAge(trip, snapshot, v, now) ==
    LET live == IF v.at = Null \/ snapshot.active # v.trip THEN Null
                ELSE ProjectVehicleDistanceOnShape(snapshot.shape, v.at)
    IN  IF {v.trip, trip} \subseteq snapshot.shift THEN OrElse(live, snapshot.along)
        ELSE Fraction(0, 1)

\* Where the vehicle is on its trip: by its report when that is fresh and of
\* the active trip, else by the schedule.
DistanceAlongTrip(trip, snapshot, v, now) ==
    LET live == IF v.at = Null \/ snapshot.active # v.trip \/ IsStale(v, now) THEN Null
                ELSE ProjectVehicleDistanceOnShape(snapshot.shape, v.at)
    IN  IF {v.trip, trip} \subseteq snapshot.shift THEN OrElse(live, snapshot.along)
        ELSE Fraction(0, 1)

\* The vehicle's own position on the trip's shape, the scheduled one on the
\* block without a vehicle, on the trip outside the block's hours; Null
\* stands for the zero location.
StatusPosition(ctx, dbTrip, snapshot, v, zone, d, now) ==
    LET shape == ShapePoints(ctx, "GetShapePointsByTripID", dbTrip)
        times == GetStopTimesForTrip(ctx.db, dbTrip)
        stops == IF Fails(ctx, "GetStopsByIDs") THEN {} ELSE ctx.db.stops
        reported == IF IsStale(v, now) THEN Null ELSE v.at
        place(dist) == IF dist = Null THEN Fraction(reported, 1) ELSE PositionAtDistance(shape, dist)
    IN  IF v # Null /\ v.at # Null
        THEN IF reported = Null THEN Null
             ELSE place(ProjectVehicleDistanceOnShape(shape, reported))
        ELSE IF Len(shape) < 2 THEN Null
        ELSE IF snapshot # Null /\ snapshot.inRange /\ snapshot.active # Null
        THEN PositionAtDistance(snapshot.shape, snapshot.along)
        ELSE IF times = <<>> THEN Null
        ELSE ScheduledTripPosition(times, stops, shape, zone, now, d)

\* What a status says whether or not the trip is canceled; a fresh vehicle is
\* where it reports from until it is placed on the shape.
Heading(ctx, agency, trip, dbTrip, v, zone, d, now) ==
    LET live == v # Null /\ ~IsStale(v, now)
        seen == IF live THEN v ELSE Null
    IN  [agency |-> agency,
         active |-> CombinedID(agency, IF live /\ v.trip # NoText THEN v.trip ELSE trip),
         vehicle |-> IF v = Null THEN Null ELSE CombinedID(agency, v.id),
         date |-> d, status |-> StatusOf(seen), phase |-> PhaseOf(seen),
         sequence |-> BlockTripSequence(ctx, trip, d),
         frequency |-> FrequencyForEntry(ctx, zone, dbTrip, d, now),
         situations |-> SituationsOfTrip(ctx, trip),
         predicted |-> live, deviation |-> 0, closest |-> NoStop, next |-> NoStop,
         scheduledAlong |-> Fraction(0, 1), along |-> Fraction(0, 1),
         position |-> IF seen = Null THEN Null ELSE IF v.at = Null THEN Null ELSE Fraction(v.at, 1),
         snapshot |-> Null, effective |-> now]

\* The stops around the vehicle and its place on the block.
Located(status, stops, snapshot, position, trip, v, now) ==
    LET onBlock == snapshot # Null /\ snapshot.inRange /\ snapshot.active # Null
    IN  [status EXCEPT
           !.active = IF onBlock THEN CombinedID(status.agency, snapshot.active) ELSE @,
           !.closest = stops.closest,
           !.next = stops.next,
           !.scheduledAlong = IF onBlock THEN snapshot.along ELSE @,
           !.along = IF onBlock /\ v # Null THEN DistanceAlongTrip(trip, snapshot, v, now) ELSE @,
           !.position = position,
           !.snapshot = snapshot]

\* The status of a trip by its deviation; a canceled one keeps its heading.
StatusWith(ctx, memo, heading, trip, dbTrip, v, zone, d, now, deviation) ==
    LET dev == OrElse(deviation, 0)
        seconds == SecondsSince(zone, now, d)
        times == IF Fails(ctx, "GetStopTimesForTrip") THEN <<>> ELSE GetStopTimesForTrip(ctx.db, dbTrip)
        late == [heading EXCEPT !.predicted = @ \/ deviation # Null,
                                !.deviation = dev, !.effective = now - dev]
        at(stops, snapshot) ==
          Located(late, stops, snapshot, StatusPosition(ctx, dbTrip, snapshot, v, zone, d, now),
                  trip, v, now)
    IN  IF heading.status = "CANCELED" THEN heading
        ELSE at(FillStopsFromSchedule(FindStops(ctx, trip, dbTrip, times, v, dev, seconds),
                                      times, dev, seconds),
                IF times = <<>> THEN Null ELSE SnapshotOf(ctx, memo, dbTrip, zone, now - dev, d))

\* What BuildTripStatus returns, with its error or without: a failing
\* frequency query ends it at the heading.
StatusReached(ctx, memo, heading, trip, dbTrip, v, zone, d, now) ==
    IF Fails(ctx, "GetFrequenciesForTrip")
    THEN [heading EXCEPT !.frequency = Null, !.predicted = FALSE]
    ELSE StatusWith(ctx, memo, heading, trip, dbTrip, v, zone, d, now,
                    GetScheduleDeviationForBlock(ctx,
                        BlockShiftTripIDsSortedByStartTime(ctx, dbTrip, d), zone, d, now))

\* BuildTripStatus with the vehicle it was given or has looked up, and the
\* snapshots its request has memoized; Null is its error.
BuildTripStatus(ctx, memo, agency, trip, v, zone, d, now) ==
    LET dbTrip == DBTrip(ctx, trip, v, now) IN
    IF Fails(ctx, "GetFrequenciesForTrip") THEN Null
    ELSE StatusReached(ctx, memo, Heading(ctx, agency, trip, dbTrip, v, zone, d, now),
                       trip, dbTrip, v, zone, d, now)

-----------------------------------------------------------------------------
(* The status of an entry, where the frequencies of several trips are known. *)

\* The batched frequencies leave a query only to trips that are not in it.
Preloaded(ctx, trip, known) ==
    [ctx EXCEPT !.fails = IF trip \in known THEN @ \ {"GetFrequenciesForTrip"} ELSE @]

\* startTripStatusAtServiceStart: a frequency becomes that of the active trip
\* where its rows are known, else that of the trip asked for.
AtServiceStart(ctx, status, known, trip, zone, d, now) ==
    LET rowsOf(t) == t \in known /\ GetFrequenciesForTrip(ctx.db, t) # <<>>
        used == IF rowsOf(status.active[2]) THEN status.active[2] ELSE trip
    IN  IF status.frequency = Null \/ ~rowsOf(used) THEN status
        ELSE [status EXCEPT !.frequency = FrequencyForEntry(ctx, zone, used, d, now)]

\* The status of an entry, whether its frequency query fails or not.
EntryStatus(ctx, known, agency, trip, v, zone, d, now) ==
    LET dbTrip == DBTrip(ctx, trip, v, now)
    IN  AtServiceStart(ctx,
            StatusReached(Preloaded(ctx, dbTrip, known), <<>>,
                          Heading(ctx, agency, trip, dbTrip, v, zone, d, now),
                          trip, dbTrip, v, zone, d, now),
            known \cup {dbTrip}, trip, zone, d, now)

\* An entry goes without a status that could not be built.
StatusForEntry(ctx, known, agency, trip, v, zone, d, now) ==
    IF Fails(Preloaded(ctx, DBTrip(ctx, trip, v, now), known), "GetFrequenciesForTrip") THEN Null
    ELSE EntryStatus(ctx, known, agency, trip, v, zone, d, now)

-----------------------------------------------------------------------------
(* The schedule of a trip. *)

\* GetNextAndPreviousTripIDs: the trips beside it in its block, of its service.
NextAndPreviousTripIDs(ctx, agency, row) ==
    LET around == GetNextAndPreviousTripsInBlock(ctx.db, row.id, row.block, {row.service})
        id(trip) == IF trip = Null THEN Null ELSE CombinedID(agency, trip)
    IN  CASE \/ Fails(ctx, "GetStopTimesForTrip")
             \/ row.block # Null /\ Fails(ctx, "GetNextAndPreviousTripsInBlock") -> Null
          [] OTHER -> IF row.block = Null \/ around = Null THEN [next |-> Null, prev |-> Null]
                      ELSE [next |-> id(around.next), prev |-> id(around.prev)]

\* Its stops, its neighbours, and the frequency its day opens with.
ScheduleOf(ctx, agency, row, zone, d) ==
    LET around == NextAndPreviousTripIDs(ctx, agency, row)
        times == GetStopTimesForTrip(ctx.db, row.id)
    IN  IF around = Null \/ Fails(ctx, "GetFrequenciesForTrip") THEN Null
        ELSE [next |-> around.next, prev |-> around.prev,
              stops |-> [i \in DOMAIN times |-> CombinedID(agency, times[i].stop)],
              frequency |-> FrequencyForEntry(ctx, zone, row.id, d, Midnight(zone, d))]

\* Null when a query fails.
BuildTripSchedule(ctx, agency, row, zone, d) ==
    IF Fails(ctx, "GetStopsByIDs") THEN Null ELSE ScheduleOf(ctx, agency, row, zone, d)

=============================================================================
