----------------------------- MODULE ServiceDays ----------------------------
(***************************************************************************)
(* The clocks of the service: what instant a service day starts at, how    *)
(* long a day has lasted, on which service day a trip runs that is running *)
(* now (internal/servicedate, serviceDateResolver), and the frequency and  *)
(* direction groups computed from them.                                    *)
(*                                                                         *)
(* Instants are numbers of one unit of UTC. A zone shifts them by an       *)
(* offset that changes once: [change, before, after]. A service date is    *)
(* written as its number where its zone is known. A request is a record    *)
(* [db, rt, fails]: the tables and the realtime snapshot it reads, and the *)
(* queries of it that return an error.                                     *)
(***************************************************************************)
EXTENDS GtfsTables

CONSTANTS Day,          \* units in a day of 24 hours
          RunningLate,  \* a trip is running until so long after its end
          RunningEarly  \* and from so long before its start

ASSUME DayAssumption == Day \in Nat \ {0} /\ RunningLate \in Nat /\ RunningEarly \in Nat

Fails(ctx, query) == query \in ctx.fails

-----------------------------------------------------------------------------
(* Clocks. *)

\* When a zone changes its offset, and the offsets.
Clocks == [change : Int, before : Int, after : Int]

OffsetAt(zone, t) == IF t < zone.change THEN zone.before ELSE zone.after
WallAt(zone, t) == t + OffsetAt(zone, t)

\* time.Date: the instant the clocks of a zone show w.
InstantOf(zone, w) ==
    IF w - zone.before < zone.change THEN w - zone.before ELSE w - zone.after

\* The calendar date of an instant, and the service date that Start begins.
DateOf(zone, t) == WallAt(zone, t) \div Day
Midnight(zone, d) == InstantOf(zone, d * Day)
Start(zone, d) == InstantOf(zone, d * Day + Day \div 2) - Day \div 2

FromInstant(zone, t) ==
    LET date == DateOf(zone, t) IN IF Start(zone, date + 1) = t THEN date + 1 ELSE date

\* What offsets are added to, for any instant of the service date.
OffsetBase(zone, t) == Start(zone, FromInstant(zone, t))

\* CalculateSecondsSinceServiceDate: what the clocks show, not what elapsed.
SecondsSince(zone, t, d) == WallAt(zone, t) - d * Day

\* A stop time counts by its arrival, unless that is midnight.
EffectiveStopTime(st) == IF st.arrival > 0 THEN st.arrival ELSE st.departure

-----------------------------------------------------------------------------
(* The service day of a trip that is running now. *)

\* serviceIDsForDays; Null when either lookup fails.
ServiceIDsForDays(ctx, queryDay) ==
    IF Fails(ctx, "GetActiveServiceIDsForDate") THEN Null
    ELSE [query |-> GetActiveServiceIDsForDate(ctx.db, queryDay),
          previous |-> GetActiveServiceIDsForDate(ctx.db, queryDay - 1)]

NewServiceDateResolverFor(zone, queryDay, now, services) ==
    [day |-> queryDay,
     since |-> now - Start(zone, queryDay),
     previousSince |-> now - Start(zone, queryDay - 1),
     query |-> services.query,
     previous |-> services.previous]

RunsOn(services, trip, since) ==
    /\ trip.service \in services
    /\ trip.minArrival <= since + RunningEarly
    /\ trip.maxDeparture >= since - RunningLate

\* Fault: the day before is not looked at.
ResolveToday(r, trip) == r.day

Resolve(r, trip) ==
    IF ~RunsOn(r.query, trip, r.since) /\ RunsOn(r.previous, trip, r.previousSince)
    THEN r.day - 1
    ELSE r.day

ServiceDaysOf(r) ==
    <<[services |-> r.query, since |-> r.since, date |-> r.day],
      [services |-> r.previous, since |-> r.previousSince, date |-> r.day - 1]>>

\* IsServiceActiveOnDate asks for one service what the query asks for all.
IsServiceActiveOnDate(db, service, d) ==
    LET exceptions == {cd \in db.calendarDates : cd.service = service /\ cd.date = d}
        calendar == OneRow({c \in db.calendar : c.id = service})
    IN  IF exceptions # {} THEN (OneRow(exceptions)).type = 1
        ELSE /\ calendar # Null
             /\ InRange(d, calendar.start, calendar.end)
             /\ d % 7 \in calendar.weekdays

-----------------------------------------------------------------------------
(* Frequencies and directions. *)

\* The first row whose window [start, end) holds t, else the first row.
SelectFrequencyFromStart(freqs, start, t) ==
    LET open == {i \in DOMAIN freqs : start + freqs[i].start <= t /\ t < start + freqs[i].end}
    IN  freqs[IF open = {} THEN 1 ELSE Min(open)]

\* frequencyForEntry: the window in absolute time, Null without rows.
FrequencyForEntry(ctx, zone, trip, d, t) ==
    LET freqs == GetFrequenciesForTrip(ctx.db, trip)
        start == OffsetBase(zone, Midnight(zone, d))
        row == SelectFrequencyFromStart(freqs, start, t)
    IN  IF freqs = <<>> THEN Null
        ELSE [start |-> start + row.start, end |-> start + row.end, headway |-> row.headway]

\* Trips by direction, those without one last; each group sorted by ID.
GroupTripsByDirection(trips) ==
    LET byID(ts) == SortedBy(ts, LAMBDA a, b : a.id < b.id)
        withDir(d) == {t \in trips : t.dir = d}
        dirs == SortedBy({t.dir : t \in trips} \ {Null}, LAMBDA a, b : a < b)
    IN  [i \in DOMAIN dirs |-> [dir |-> dirs[i], trips |-> byID(withDir(dirs[i]))]]
        \o (IF withDir(Null) = {} THEN <<>>
            ELSE <<[dir |-> Null, trips |-> byID(withDir(Null))]>>)

=============================================================================
