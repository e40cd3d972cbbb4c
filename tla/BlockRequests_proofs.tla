------------------------- MODULE BlockRequests_proofs -------------------------
(***************************************************************************)
(* What a request says of the day, the place and the block of a trip, for  *)
(* every feed that can be imported, every zone and every published report. *)
(* The lemmas come first: rows in an order are enumerated by it, the shift *)
(* cut out of a block is the same from each of its trips, and the          *)
(* prediction that a fold picks is the nearest.                            *)
(***************************************************************************)
EXTENDS BlockRequests, RequestData_proofs

-----------------------------------------------------------------------------
(* The day of a trip. *)

\* The inductive invariant of the clock and the feed.
ClockInv == feed \in DOMAIN Feeds /\ now \in Int

\* A request works on the rows of a feed that could be imported, whatever the
\* time.
LEMMA ClockInvariant == Spec => []ClockInv
<1>1. Init => ClockInv
  BY ClockAssumption DEF Init, ClockInv
<1>2. ClockInv /\ [Next]_vars => ClockInv'
  <2> SUFFICES ASSUME ClockInv, [Next]_vars PROVE ClockInv'
    OBVIOUS
  <2>1. CASE Tick
    BY <2>1 DEF ClockInv, Tick
  <2>2. CASE PublishRealtime
    BY <2>2 DEF ClockInv, PublishRealtime
  <2>3. CASE \E trip \in TripIDs, fails \in Failures : Describe(trip, fails)
    BY <2>3 DEF ClockInv, Describe
  <2>4. CASE Answer
    BY <2>4 DEF ClockInv, Answer
  <2>5. CASE UNCHANGED vars
    BY <2>5 DEF ClockInv, vars
  <2>6. QED
    BY <2>1, <2>2, <2>3, <2>4, <2>5 DEF Next
<1>3. QED
  BY <1>1, <1>2, PTL DEF Spec

\* A trip that is running, or about to, or just over, is reported on the day
\* whose schedule puts it there, whatever the zone and the feed.
THEOREM TripsKeepTheirDay == Spec => []ResolvedDayRuns
<1>1. ClockInv => ResolvedDayRuns
  <2> SUFFICES ASSUME ClockInv PROVE ResolvedDayRuns
    OBVIOUS
  <2> DEFINE day == FromInstant(Zone, now)
             active(d) == GetActiveServiceIDsForDate(db, d)
             window(t, d) == InRange(now - Start(Zone, d), t.minArrival - RunningEarly,
                                     t.maxDeparture + RunningLate)
             services == ServiceIDsForDays(NoFailures, day)
             r == NewServiceDateResolverFor(Zone, day, now, services)
  <2>1. feed \in DOMAIN Feeds /\ now \in Int
    BY DEF ClockInv
  <2>2. /\ r.day = day
        /\ r.since = now - Start(Zone, day) /\ r.previousSince = now - Start(Zone, day - 1)
        /\ r.query = active(day) /\ r.previous = active(day - 1)
    BY DEF NewServiceDateResolverFor, ServiceIDsForDays, NoFailures, Context, Fails
  <2>3. day \in Int /\ Start(Zone, day) \in Int /\ Start(Zone, day - 1) \in Int
    BY <2>1, ClockAssumption, ClocksAreNumbers
  <2>4. SUFFICES ASSUME NEW t \in db.trips, NEW d \in {day - 1, day},
                        window(t, d), IsServiceActiveOnDate(db, t.service, d)
                 PROVE  window(t, DateFor(t.id))
    BY DEF ResolvedDayRuns
  <2>5. DateFor(t.id) = Resolve(r, t)
    BY <2>1, TripFound DEF DateFor
  <2>6. t.minArrival \in Int /\ t.maxDeparture \in Int
    BY <2>1, TablesImported DEF ColumnsTyped
  <2>7. t.service \in active(d)
    BY <2>1, <2>4, ServiceInAnswer
  <2> HIDE DEF day, active, services, r
  <2>8. /\ RunsOn(r.query, t, r.since) <=> t.service \in active(day) /\ window(t, day)
        /\ RunsOn(r.previous, t, r.previousSince)
             <=> t.service \in active(day - 1) /\ window(t, day - 1)
    BY <2>1, <2>2, <2>3, <2>6, DayAssumption DEF RunsOn, InRange
  <2> HIDE DEF window
  <2>9. CASE RunsOn(r.query, t, r.since)
    BY <2>2, <2>5, <2>8, <2>9 DEF Resolve
  <2>10. CASE ~RunsOn(r.query, t, r.since)
    <3>1. d = day - 1
      BY <2>4, <2>7, <2>8, <2>10
    <3>2. RunsOn(r.previous, t, r.previousSince)
      BY <2>4, <2>7, <2>8, <3>1
    <3>3. QED
      BY <2>2, <2>4, <2>5, <2>10, <3>1, <3>2 DEF Resolve
  <2>11. QED
    BY <2>9, <2>10
<1>2. QED
  BY <1>1, ClockInvariant, PTL

-----------------------------------------------------------------------------
(* The place of a stale vehicle. *)

\* A status that has no place yet takes one from the snapshot alone.
LEMMA LocatedBySchedule ==
    ASSUME NEW s, NEW stops, NEW snapshot, NEW position, NEW trip, NEW v, NEW t,
           IsStale(v, t), {"along", "scheduledAlong"} \subseteq DOMAIN s,
           s.along = Fraction(0, 1)
    PROVE  Located(s, stops, snapshot, position, trip, v, t).along
              \in {Located(s, stops, snapshot, position, trip, v, t).scheduledAlong, Fraction(0, 1)}
<1> DEFINE onBlock == snapshot # Null /\ snapshot.inRange /\ snapshot.active # Null
           located == Located(s, stops, snapshot, position, trip, v, t)
<1>1. located.along = IF onBlock /\ v # Null THEN DistanceAlongTrip(trip, snapshot, v, t)
                      ELSE Fraction(0, 1)
  BY DEF Located
<1>2. located.scheduledAlong = IF onBlock THEN snapshot.along ELSE s.scheduledAlong
  BY DEF Located
<1>3. DistanceAlongTrip(trip, snapshot, v, t) \in {snapshot.along, Fraction(0, 1)}
  BY DEF DistanceAlongTrip, OrElse
<1>4. QED
  BY <1>1, <1>2, <1>3

\* However it is built, the status of a trip whose vehicle is stale has the
\* distance of the schedule, or none.
LEMMA StaleStatusBySchedule ==
    ASSUME NEW ctx, NEW m, NEW agency, NEW trip, NEW v, NEW d, NEW t, IsStale(v, t),
           BuildTripStatus(ctx, m, agency, trip, v, Zone, d, t) # Null
    PROVE  BuildTripStatus(ctx, m, agency, trip, v, Zone, d, t).along
              \in {BuildTripStatus(ctx, m, agency, trip, v, Zone, d, t).scheduledAlong,
                   Fraction(0, 1)}
<1> DEFINE dbTrip == DBTrip(ctx, trip, v, t)
           heading == Heading(ctx, agency, trip, dbTrip, v, Zone, d, t)
           deviation == GetScheduleDeviationForBlock(ctx,
                            BlockShiftTripIDsSortedByStartTime(ctx, dbTrip, d), Zone, d, t)
           built == StatusWith(ctx, m, heading, trip, dbTrip, v, Zone, d, t, deviation)
<1>1. BuildTripStatus(ctx, m, agency, trip, v, Zone, d, t) = built
  BY DEF BuildTripStatus, StatusReached
<1>2. /\ {"along", "scheduledAlong", "predicted", "deviation", "effective"} \subseteq DOMAIN heading
      /\ heading.along = Fraction(0, 1)
  BY DEF Heading
<1> HIDE DEF heading, deviation, dbTrip
<1>3. CASE heading.status = "CANCELED"
  BY <1>1, <1>2, <1>3 DEF StatusWith
<1>4. CASE heading.status # "CANCELED"
  <2> DEFINE dev == OrElse(deviation, 0)
             late == [heading EXCEPT !.predicted = @ \/ deviation # Null,
                                     !.deviation = dev, !.effective = t - dev]
  <2>1. \E stops, snapshot, position :
           built = Located(late, stops, snapshot, position, trip, v, t)
    BY <1>4 DEF StatusWith
  <2>2. {"along", "scheduledAlong"} \subseteq DOMAIN late /\ late.along = Fraction(0, 1)
    BY <1>2
  <2> HIDE DEF late
  <2>3. QED
    BY <1>1, <2>1, <2>2, LocatedBySchedule
<1>5. QED
  BY <1>3, <1>4

\* The inductive invariant: the clock moves only while no status is kept.
PlaceInv ==
    /\ rows \in Nat
    /\ rows = 0 => status = Null
    /\ StaleVehicleDoesNotMoveTrip

\* A vehicle last heard of too long ago does not move the distance of a trip
\* from where its schedule has it: whatever the feed, the published reports,
\* the queries that fail and the snapshots the request has memoized.
THEOREM StaleVehicleLeftAside == Spec => []StaleVehicleDoesNotMoveTrip
<1>1. Init => PlaceInv
  BY DEF Init, PlaceInv, StaleVehicleDoesNotMoveTrip, SeesStale, Described
<1>2. PlaceInv /\ [Next]_vars => PlaceInv'
  <2> SUFFICES ASSUME PlaceInv, [Next]_vars PROVE PlaceInv'
    OBVIOUS
  <2>1. CASE Tick
    BY <2>1 DEF PlaceInv, Tick, StaleVehicleDoesNotMoveTrip, SeesStale, Described
  <2>2. CASE PublishRealtime
    BY <2>2 DEF PlaceInv, PublishRealtime, StaleVehicleDoesNotMoveTrip, SeesStale, Described
  <2>3. ASSUME NEW trip \in TripIDs, NEW fails \in Failures, Describe(trip, fails)
        PROVE  PlaceInv'
    <3> DEFINE ctx == Context(fails)
               v == GetVehicleForTrip(ctx, trip)
               built == BuildTripStatus(ctx, memo, AgencyOf(trip), trip, v, Zone, DateFor(trip), now)
    <3>1. /\ status' = [trip |-> trip, fails |-> fails, rt |-> rt, vehicle |-> v,
                        date |-> DateFor(trip), is |-> built]
          /\ rows' = rows + 1 /\ now' = now
      BY <2>3 DEF Describe
    <3>2. IsStale(v, now) /\ built # Null => built.along \in {built.scheduledAlong, Fraction(0, 1)}
      BY StaleStatusBySchedule
    <3> HIDE DEF v, built
    <3>3. StaleVehicleDoesNotMoveTrip'
      BY <3>1, <3>2 DEF StaleVehicleDoesNotMoveTrip, SeesStale, Described
    <3>4. QED
      BY <3>1, <3>3 DEF PlaceInv
  <2>4. CASE Answer
    BY <2>4 DEF PlaceInv, Answer, StaleVehicleDoesNotMoveTrip, SeesStale, Described
  <2>5. CASE UNCHANGED vars
    BY <2>5 DEF PlaceInv, vars, StaleVehicleDoesNotMoveTrip, SeesStale, Described
  <2>6. QED
    BY <2>1, <2>2, <2>3, <2>4, <2>5 DEF Next
<1>3. PlaceInv => StaleVehicleDoesNotMoveTrip
  BY DEF PlaceInv
<1>4. QED
  BY <1>1, <1>2, <1>3, PTL DEF Spec

-----------------------------------------------------------------------------
(* The shifts of a block. *)

\* The places at which a trip starts before the one ahead of it has ended.
Overlaps(s, n) == {i \in 2..n : s[i].first < s[i - 1].last}

\* The first and the last place of the shift that place a belongs to, when a
\* trip at one of the places B starts before the one ahead of it ends.
ShiftOpens(B, a) == IF B \cap 2..a = {} THEN 1 ELSE Max(B \cap 2..a)

ShiftCloses(B, n, a) ==
    LET closes == {i \in a..n - 1 : i + 1 \in B} IN IF closes = {} THEN n ELSE Min(closes)

\* A shift reaches back to the overlap before it and on to the one after it.
LEMMA ShiftBounds ==
    ASSUME NEW n \in Nat, NEW B \in SUBSET (2..n), NEW a \in 1..n
    PROVE  /\ ShiftOpens(B, a) \in 1..a
           /\ ShiftOpens(B, a) = 1 \/ ShiftOpens(B, a) \in B
           /\ \A b \in B : b <= a => b <= ShiftOpens(B, a)
           /\ ShiftCloses(B, n, a) \in a..n
           /\ ShiftCloses(B, n, a) = n \/ ShiftCloses(B, n, a) + 1 \in B
           /\ \A b \in B : a < b => ShiftCloses(B, n, a) < b
<1> DEFINE opens == B \cap 2..a
           closes == {i \in a..n - 1 : i + 1 \in B}
<1>1. IsFiniteSet(2..a) /\ IsFiniteSet(a..n - 1)
  BY FS_Interval
<1>2. IsFiniteSet(opens) /\ IsFiniteSet(closes)
  BY <1>1, FS_Subset
<1>3. opens \in SUBSET Int /\ closes \in SUBSET Int
  OBVIOUS
<1>4. opens # {} => Max(opens) \in opens /\ \A x \in opens : x <= Max(opens)
  BY <1>2, <1>3, Extremes
<1>5. closes # {} => Min(closes) \in closes /\ \A x \in closes : Min(closes) <= x
  BY <1>2, <1>3, Extremes
<1>6. /\ ShiftOpens(B, a) \in 1..a
      /\ ShiftOpens(B, a) = 1 \/ ShiftOpens(B, a) \in B
      /\ \A b \in B : b <= a => b <= ShiftOpens(B, a)
  <2>1. CASE opens = {}
    <3>1. ShiftOpens(B, a) = 1
      BY <2>1 DEF ShiftOpens
    <3>2. \A b \in B : ~(b <= a)
      BY <2>1
    <3>3. QED
      BY <3>1, <3>2
  <2>2. CASE opens # {}
    <3>1. ShiftOpens(B, a) = Max(opens)
      BY <2>2 DEF ShiftOpens
    <3>2. \A b \in B : b <= a => b \in opens
      OBVIOUS
    <3>3. QED
      BY <2>2, <1>4, <3>1, <3>2
  <2>3. QED
    BY <2>1, <2>2
<1>7. /\ ShiftCloses(B, n, a) \in a..n
      /\ ShiftCloses(B, n, a) = n \/ ShiftCloses(B, n, a) + 1 \in B
      /\ \A b \in B : a < b => ShiftCloses(B, n, a) < b
  <2>1. \A b \in B : a < b => b - 1 \in closes
    OBVIOUS
  <2>2. CASE closes = {}
    <3>1. ShiftCloses(B, n, a) = n
      BY <2>2 DEF ShiftCloses
    <3>2. \A b \in B : ~(a < b)
      BY <2>1, <2>2
    <3>3. QED
      BY <3>1, <3>2
  <2>3. CASE closes # {}
    <3>1. ShiftCloses(B, n, a) = Min(closes)
      BY <2>3 DEF ShiftCloses
    <3> HIDE DEF closes
    <3>2. ShiftCloses(B, n, a) \in closes /\ \A x \in closes : ShiftCloses(B, n, a) <= x
      BY <2>3, <1>5, <3>1
    <3>3. \A b \in B : a < b => ShiftCloses(B, n, a) <= b - 1
      BY <2>1, <3>2
    <3>4. ShiftCloses(B, n, a) \in a..n - 1 /\ ShiftCloses(B, n, a) + 1 \in B
      BY <3>2 DEF closes
    <3>5. QED
      BY <3>3, <3>4
  <2>4. QED
    BY <2>2, <2>3
<1>8. QED
  BY <1>6, <1>7

\* Every place of a shift has the shift's own bounds.
LEMMA SameShift ==
    ASSUME NEW n \in Nat, NEW B \in SUBSET (2..n), NEW a \in 1..n,
           NEW k \in ShiftOpens(B, a)..ShiftCloses(B, n, a)
    PROVE  k \in 1..n /\ ShiftOpens(B, k) = ShiftOpens(B, a)
                      /\ ShiftCloses(B, n, k) = ShiftCloses(B, n, a)
<1> DEFINE la == ShiftOpens(B, a)
           ha == ShiftCloses(B, n, a)
           lk == ShiftOpens(B, k)
           hk == ShiftCloses(B, n, k)
<1>1. /\ la \in 1..a /\ ha \in a..n
      /\ la = 1 \/ la \in B
      /\ ha = n \/ ha + 1 \in B
      /\ \A b \in B : (b <= a => b <= la) /\ (a < b => ha < b)
  BY ShiftBounds
<1>2. k \in 1..n /\ la <= k /\ k <= ha
  BY <1>1
<1>3. /\ lk \in 1..k /\ hk \in k..n
      /\ lk = 1 \/ lk \in B
      /\ hk = n \/ hk + 1 \in B
      /\ \A b \in B : (b <= k => b <= lk) /\ (k < b => hk < b)
  BY <1>2, ShiftBounds
<1> HIDE DEF la, ha, lk, hk
<1>4. B \subseteq Int
  OBVIOUS
<1>5. \A b \in B : (b <= k <=> b <= a) /\ (k < b <=> a < b)
  BY <1>1, <1>2, <1>4
<1>6. lk = la
  BY <1>1, <1>2, <1>3, <1>4, <1>5
<1>7. hk = ha
  BY <1>1, <1>2, <1>3, <1>4, <1>5
<1>8. QED
  BY <1>2, <1>6, <1>7 DEF la, ha, lk, hk

\* What is kept of the trips s around the one with the ID target, when no two
\* of them have an ID in common.
LEMMA ShiftKept ==
    ASSUME NEW n \in Nat, NEW T, NEW s \in [1..n -> T], NEW a \in 1..n,
           \A i \in 1..n : s[i].id = s[a].id => i = a
    PROVE  KeepShiftContainingTrip(s, s[a].id)
             = SubSeq(s, ShiftOpens(Overlaps(s, n), a), ShiftCloses(Overlaps(s, n), n, a))
<1> DEFINE B == Overlaps(s, n)
           at == OneRow({i \in DOMAIN s : s[i].id = s[a].id})
           opens == {i \in 2..at : s[i].first < s[i - 1].last}
           closes == {i \in at..Len(s) - 1 : s[i + 1].first < s[i].last}
<1>1. DOMAIN s = 1..n /\ Len(s) = n
  BY LenProperties
<1>2. {i \in DOMAIN s : s[i].id = s[a].id} = {a}
  BY <1>1
<1>3. at = a
  BY <1>2 DEF OneRow
<1>4. at # Null
  BY <1>3, NullAssumption
<1> HIDE DEF at
<1>5. opens = B \cap 2..a
  BY <1>3 DEF Overlaps
<1>6. closes = {i \in a..n - 1 : i + 1 \in B}
  <2>1. \A i \in a..n - 1 : i + 1 \in 2..n /\ (i + 1) - 1 = i
    OBVIOUS
  <2>2. \A i \in a..n - 1 : i + 1 \in B <=> s[i + 1].first < s[i].last
    BY <2>1 DEF Overlaps
  <2>3. QED
    BY <1>1, <1>3, <2>2
<1> HIDE DEF opens, closes
<1>7. KeepShiftContainingTrip(s, s[a].id)
        = SubSeq(s, IF opens = {} THEN 1 ELSE Max(opens), IF closes = {} THEN Len(s) ELSE Min(closes))
  BY <1>4 DEF KeepShiftContainingTrip, at, opens, closes
<1>8. QED
  BY <1>1, <1>5, <1>6, <1>7 DEF ShiftOpens, ShiftCloses

\* The shift of a trip is that of every trip on it.
LEMMA ShiftOfMember ==
    ASSUME NEW n \in Nat, NEW T, NEW s \in [1..n -> T], NEW target,
           \A i, j \in 1..n : s[i].id = s[j].id => i = j,
           NEW i \in DOMAIN KeepShiftContainingTrip(s, target)
    PROVE  LET kept == KeepShiftContainingTrip(s, target)
           IN  kept[i] \in T /\ KeepShiftContainingTrip(s, kept[i].id) = kept
<1> DEFINE B == Overlaps(s, n)
           kept == KeepShiftContainingTrip(s, target)
<1>1. DOMAIN s = 1..n
  OBVIOUS
<1>2. \E a \in 1..n : s[a].id = target
  <2> SUFFICES ASSUME ~\E a \in 1..n : s[a].id = target PROVE FALSE
    OBVIOUS
  <2>1. OneRow({j \in DOMAIN s : s[j].id = target}) = Null
    BY <1>1 DEF OneRow
  <2>2. kept = <<>>
    BY <2>1 DEF KeepShiftContainingTrip
  <2>3. QED
    BY <2>2
<1>3. PICK a \in 1..n : s[a].id = target
  BY <1>2
<1> DEFINE lo == ShiftOpens(B, a)
           hi == ShiftCloses(B, n, a)
<1>4. B \in SUBSET (2..n)
  BY DEF Overlaps
<1>5. kept = SubSeq(s, lo, hi)
  BY <1>3, ShiftKept
<1>6. lo \in 1..a /\ hi \in a..n
  BY <1>4, ShiftBounds
<1> HIDE DEF lo, hi, kept
<1>7. \A j \in lo..hi : s[j] \in T
  BY <1>6
<1>8. /\ kept \in Seq(T)
      /\ Len(kept) = hi - lo + 1
      /\ \A j \in 1..hi - lo + 1 : kept[j] = s[lo + j - 1]
  <2>1. lo \in Int /\ hi \in Int /\ lo <= hi
    BY <1>6
  <2>2. QED
    BY <1>5, <1>7, <2>1, SubSeqProperties
<1>9. i \in 1..hi - lo + 1
  BY <1>8, LenProperties DEF kept
<1>10. PICK k \in lo..hi : kept[i] = s[k]
  <2>1. lo + i - 1 \in lo..hi
    BY <1>6, <1>9
  <2>2. QED
    BY <1>8, <1>9, <2>1
<1>11. k \in 1..n /\ ShiftOpens(B, k) = lo /\ ShiftCloses(B, n, k) = hi
  BY <1>4, <1>10, SameShift DEF lo, hi
<1>12. KeepShiftContainingTrip(s, s[k].id) = SubSeq(s, lo, hi)
  <2>1. \A j \in 1..n : s[j].id = s[k].id => j = k
    BY <1>11
  <2>2. KeepShiftContainingTrip(s, s[k].id)
          = SubSeq(s, ShiftOpens(B, k), ShiftCloses(B, n, k))
    BY <1>11, <2>1, ShiftKept
  <2>3. QED
    BY <1>11, <2>2
<1>13. QED
  BY <1>5, <1>7, <1>10, <1>12 DEF kept

-----------------------------------------------------------------------------
(* The snapshot of a shift. *)

\* The trips of a block that run are the same whichever of them is asked for.
LEMMA BlockOfMember ==
    ASSUME feed \in DOMAIN Feeds, NEW target \in TripIDs, NEW d,
           NEW u \in BlockTripIDsForServiceDate(NoFailures, target, d)
    PROVE  /\ BlockTripIDsForServiceDate(NoFailures, target, d) \subseteq TripIDs
           /\ BlockTripIDsForServiceDate(NoFailures, u, d)
                = BlockTripIDsForServiceDate(NoFailures, target, d)
<1> DEFINE active(block) == {t.id : t \in {r \in GetTripsByBlockID(db, block) :
                               r.service \in GetActiveServiceIDsForDate(db, d)}}
           alone(trip) == GetBlockIDByTripID(db, trip) \in {Null, NoText}
                          \/ active(GetBlockIDByTripID(db, trip)) = {}
           block == GetBlockIDByTripID(db, target)
<1>1. \A trip : BlockTripIDsForServiceDate(NoFailures, trip, d)
                  = IF alone(trip) THEN {trip} ELSE active(GetBlockIDByTripID(db, trip))
  BY DEF BlockTripIDsForServiceDate, NoFailures, Context
<1>2. \A b : active(b) \subseteq TripIDs
  BY DEF GetTripsByBlockID, TripIDs
<1> HIDE DEF alone
<1>3. CASE alone(target)
  BY <1>1, <1>3
<1>4. CASE ~alone(target)
  <2>1. u \in active(block)
    BY <1>1, <1>4
  <2>2. PICK t \in db.trips : t.id = u /\ t.block = block
    BY <2>1 DEF GetTripsByBlockID
  <2>3. GetTrip(db, u) = t /\ t # Null
    BY <2>2, TripFound, TablesImported DEF ColumnsTyped
  <2>4. GetBlockIDByTripID(db, u) = block
    BY <2>2, <2>3 DEF GetBlockIDByTripID
  <2>5. ~alone(u)
    BY <1>4, <2>4 DEF alone
  <2>6. QED
    BY <1>1, <1>2, <1>4, <2>4, <2>5
<1>5. QED
  BY <1>3, <1>4

\* The trips that are loaded can be put in order: they are finitely many, each
\* has its own ID and starts at a time that is a number.
LEMMA TripsLoaded ==
    ASSUME feed \in DOMAIN Feeds, NEW ids \in SUBSET TripIDs
    PROVE  LET loaded == LoadBlockTripData(NoFailures, ids)
           IN  /\ IsFiniteSet(loaded)
               /\ \A t \in loaded : t.first \in Int /\ t.id \in Int /\ t.id \in ids
               /\ \A a, b \in loaded : a.id = b.id => a = b
<1> DEFINE loaded == LoadBlockTripData(NoFailures, ids)
           timed == {u \in ids : GetStopTimesForTrip(db, u) # <<>>}
           data == [u \in timed |-> BlockTripData(NoFailures, u)]
           named == [t \in db.trips |-> t.id]
<1>1. loaded = {BlockTripData(NoFailures, u) : u \in timed}
  BY DEF LoadBlockTripData, NoFailures, Context, Fails
<1>2. \A u : BlockTripData(NoFailures, u).id = u
  BY DEF BlockTripData
<1>3. \A u \in timed : BlockTripData(NoFailures, u).first \in Int
  BY FirstTimeIsNumber DEF BlockTripData, NoFailures, Context
<1>4. IsFiniteSet(db.trips) /\ TripIDs \subseteq Int
  BY TablesImported DEF ColumnsTyped, TripIDs
<1>5. named \in Surjection(db.trips, TripIDs)
  BY DEF Surjection, TripIDs
<1>6. IsFiniteSet(timed)
  <2>1. IsFiniteSet(TripIDs)
    BY <1>4, <1>5, FS_Surjection
  <2>2. QED
    BY <2>1, FS_Subset
<1> HIDE DEF timed, loaded
<1>7. data \in Surjection(timed, loaded)
  BY <1>1 DEF Surjection
<1>8. IsFiniteSet(loaded)
  BY <1>6, <1>7, FS_Surjection
<1>9. \A t \in loaded : t.first \in Int /\ t.id \in Int /\ t.id \in ids
  BY <1>1, <1>2, <1>3, <1>4 DEF timed
<1>10. \A a, b \in loaded : a.id = b.id => a = b
  BY <1>1, <1>2
<1>11. QED
  BY <1>8, <1>9, <1>10 DEF loaded

\* The shift loaded for a trip is the one loaded for every trip on it.
LEMMA ShiftLoadedOfMember ==
    ASSUME feed \in DOMAIN Feeds, NEW target \in TripIDs, NEW d,
           NEW i \in DOMAIN LoadShiftTrips(NoFailures, target, d)
    PROVE  LoadShiftTrips(NoFailures, LoadShiftTrips(NoFailures, target, d)[i].id, d)
             = LoadShiftTrips(NoFailures, target, d)
<1> DEFINE ids == BlockTripIDsForServiceDate(NoFailures, target, d)
           loaded == LoadBlockTripData(NoFailures, ids)
           s == ByFirst(loaded)
           n == Cardinality(loaded)
           kept == LoadShiftTrips(NoFailures, target, d)
<1>1. ids \subseteq TripIDs
  <2>1. \A u \in ids : ids \subseteq TripIDs
    BY BlockOfMember
  <2>2. QED
    BY <2>1
<1>2. /\ IsFiniteSet(loaded)
      /\ \A t \in loaded : t.first \in Int /\ t.id \in Int /\ t.id \in ids
      /\ \A a, b \in loaded : a.id = b.id => a = b
  BY <1>1, TripsLoaded
<1>3. kept = KeepShiftContainingTrip(s, target)
  BY DEF LoadShiftTrips
<1>4. /\ n \in Nat /\ s \in [1..n -> loaded]
      /\ \A j, k \in 1..n : s[j] = s[k] => j = k
  BY <1>2, FirstOrders
<1> HIDE DEF n, s, kept
<1>5. \A j, k \in 1..n : s[j].id = s[k].id => j = k
  BY <1>2, <1>4
<1>6. kept[i] \in loaded /\ KeepShiftContainingTrip(s, kept[i].id) = kept
  BY <1>3, <1>4, <1>5, ShiftOfMember DEF kept
<1>7. BlockTripIDsForServiceDate(NoFailures, kept[i].id, d) = ids
  BY <1>2, <1>6, BlockOfMember
<1> HIDE DEF ids
<1>8. QED
  BY <1>6, <1>7 DEF kept, s, LoadShiftTrips

\* A snapshot is that of every trip of its shift.
LEMMA SnapshotOfMember ==
    ASSUME feed \in DOMAIN Feeds, NEW target \in TripIDs, NEW t, NEW d,
           ComputeScheduledBlockSnapshot(NoFailures, target, Zone, t, d) # Null,
           NEW u \in ComputeScheduledBlockSnapshot(NoFailures, target, Zone, t, d).shift
    PROVE  ComputeScheduledBlockSnapshot(NoFailures, u, Zone, t, d)
             = ComputeScheduledBlockSnapshot(NoFailures, target, Zone, t, d)
<1> DEFINE trips == LoadShiftTrips(NoFailures, target, d)
           snapshot(ts) ==
             IF ts = <<>> THEN Null
             ELSE ShiftSnapshot(ts, EmitBlockStops(StopsFetched(NoFailures, ts), ts),
                                TripOffsets(StopsFetched(NoFailures, ts), ts),
                                SecondsSince(Zone, t, d))
<1>1. \A trip : ComputeScheduledBlockSnapshot(NoFailures, trip, Zone, t, d)
                  = snapshot(LoadShiftTrips(NoFailures, trip, d))
  BY DEF ComputeScheduledBlockSnapshot
<1> HIDE DEF trips
<1>2. trips # <<>>
  BY <1>1 DEF trips
<1>3. snapshot(trips).shift = {trips[i].id : i \in DOMAIN trips}
  BY <1>2 DEF ShiftSnapshot, SnapshotAt
<1> HIDE DEF snapshot
<1>4. PICK i \in DOMAIN trips : u = trips[i].id
  BY <1>1, <1>3 DEF trips
<1>5. LoadShiftTrips(NoFailures, u, d) = trips
  BY <1>4, ShiftLoadedOfMember DEF trips
<1>6. QED
  BY <1>1, <1>5 DEF trips

-----------------------------------------------------------------------------
(* What a request memoizes. *)

\* The snapshot of a status is the memoized or the computed one of the trip
\* the status is about, at the time it is kept under.
LEMMA SnapshotOfStatus ==
    ASSUME NEW ctx, NEW m, NEW agency, NEW trip, NEW v, NEW d, NEW t,
           BuildTripStatus(ctx, m, agency, trip, v, Zone, d, t) # Null,
           BuildTripStatus(ctx, m, agency, trip, v, Zone, d, t).snapshot # Null
    PROVE  LET built == BuildTripStatus(ctx, m, agency, trip, v, Zone, d, t)
           IN  built.snapshot = SnapshotOf(ctx, m, DBTrip(ctx, trip, v, t), Zone, built.effective, d)
<1> DEFINE dbTrip == DBTrip(ctx, trip, v, t)
           heading == Heading(ctx, agency, trip, dbTrip, v, Zone, d, t)
           deviation == GetScheduleDeviationForBlock(ctx,
                            BlockShiftTripIDsSortedByStartTime(ctx, dbTrip, d), Zone, d, t)
           built == StatusWith(ctx, m, heading, trip, dbTrip, v, Zone, d, t, deviation)
<1>1. BuildTripStatus(ctx, m, agency, trip, v, Zone, d, t) = built
  BY DEF BuildTripStatus, StatusReached
<1>2. {"snapshot", "predicted", "deviation", "effective"} \subseteq DOMAIN heading
      /\ heading.snapshot = Null
  BY DEF Heading
<1> HIDE DEF heading, deviation, dbTrip
<1>3. heading.status # "CANCELED"
  BY <1>1, <1>2 DEF StatusWith
<1> DEFINE dev == OrElse(deviation, 0)
           late == [heading EXCEPT !.predicted = @ \/ deviation # Null,
                                   !.deviation = dev, !.effective = t - dev]
           snapshot == IF (IF Fails(ctx, "GetStopTimesForTrip") THEN <<>>
                           ELSE GetStopTimesForTrip(ctx.db, dbTrip)) = <<>>
                       THEN Null ELSE SnapshotOf(ctx, m, dbTrip, Zone, t - dev, d)
<1>4. \E stops, position : built = Located(late, stops, snapshot, position, trip, v, t)
  BY <1>3 DEF StatusWith
<1>5. {"snapshot", "effective"} \subseteq DOMAIN late /\ late.effective = t - dev
  BY <1>2
<1> HIDE DEF late, snapshot, dev
<1>6. \A stops, position :
         /\ Located(late, stops, snapshot, position, trip, v, t).snapshot = snapshot
         /\ Located(late, stops, snapshot, position, trip, v, t).effective = t - dev
  BY <1>5 DEF Located
<1>7. built.snapshot = snapshot /\ built.effective = t - dev
  BY <1>4, <1>6
<1>8. snapshot = Null \/ snapshot = SnapshotOf(ctx, m, dbTrip, Zone, t - dev, d)
  BY DEF snapshot
<1> HIDE DEF built
<1>9. QED
  BY <1>1, <1>7, <1>8 DEF dbTrip

\* The trip whose stop times a status is built from is a trip of the feed.
LEMMA StatusTripFound ==
    ASSUME NEW ctx, ctx.db = db, NEW trip \in TripIDs, NEW v, NEW t
    PROVE  DBTrip(ctx, trip, v, t) \in TripIDs
<1>1. GetTrip(db, v.trip) # Null => v.trip \in TripIDs
  <2>1. GetTrip(db, v.trip) # Null => \E r \in db.trips : r.id = v.trip
    BY DEF GetTrip, OneRow
  <2>2. QED
    BY <2>1 DEF TripIDs
<1>2. QED
  BY <1>1 DEF DBTrip

\* A snapshot is computed from the tables, whatever reports are published.
LEMMA ComputedFromTables ==
    ASSUME NEW c, NEW e, c.db = e.db, c.fails = e.fails, NEW trip, NEW t, NEW d
    PROVE  ComputeScheduledBlockSnapshot(c, trip, Zone, t, d)
             = ComputeScheduledBlockSnapshot(e, trip, Zone, t, d)
<1>1. \A u : BlockTripIDsForServiceDate(c, u, d) = BlockTripIDsForServiceDate(e, u, d)
  BY DEF BlockTripIDsForServiceDate
<1>2. \A u : BlockTripData(c, u) = BlockTripData(e, u)
  BY DEF BlockTripData, ShapePoints, Fails
<1>3. \A ids : LoadBlockTripData(c, ids) = LoadBlockTripData(e, ids)
  BY <1>2 DEF LoadBlockTripData, Fails
<1>4. LoadShiftTrips(c, trip, d) = LoadShiftTrips(e, trip, d)
  BY <1>1, <1>3 DEF LoadShiftTrips
<1>5. \A trips : StopsFetched(c, trips) = StopsFetched(e, trips)
  BY DEF StopsFetched, Fails
<1>6. QED
  BY <1>4, <1>5 DEF ComputeScheduledBlockSnapshot

\* The inductive invariant: what the snapshots are of, over the rows of a feed
\* that could be imported.
MemoInv == ClockInv /\ MemoIsOwnSnapshot

\* What a request finds under a trip is that trip's own snapshot: two trips
\* share one only if each, asked for first, would have computed the same.
THEOREM MemoServesEveryTrip == Spec => []MemoIsOwnSnapshot
<1>1. Init => MemoInv
  BY ClockAssumption DEF Init, MemoInv, ClockInv, MemoIsOwnSnapshot
<1>2. MemoInv /\ [Next]_vars => MemoInv'
  <2> SUFFICES ASSUME MemoInv, [Next]_vars PROVE MemoInv'
    OBVIOUS
  <2>1. ClockInv'
    <3>1. CASE Tick
      BY <3>1 DEF MemoInv, ClockInv, Tick
    <3>2. CASE PublishRealtime \/ Answer \/ UNCHANGED vars
      BY <3>2 DEF MemoInv, ClockInv, PublishRealtime, Answer, vars
    <3>3. CASE \E trip \in TripIDs, fails \in Failures : Describe(trip, fails)
      BY <3>3 DEF MemoInv, ClockInv, Describe
    <3>4. QED
      BY <3>1, <3>2, <3>3 DEF Next
  <2>2. ASSUME feed' = feed
        PROVE  \A trip, t, d : ComputeScheduledBlockSnapshot(NoFailures, trip, Zone, t, d)'
                                 = ComputeScheduledBlockSnapshot(NoFailures, trip, Zone, t, d)
    <3>1. NoFailures'.db = NoFailures.db /\ NoFailures'.fails = NoFailures.fails
      BY <2>2 DEF NoFailures, Context, db
    <3>2. QED
      BY <3>1, ComputedFromTables
  <2>3. CASE Tick \/ PublishRealtime \/ UNCHANGED vars
    <3>1. feed' = feed /\ memo' = memo /\ degraded' = degraded
      BY <2>3 DEF Tick, PublishRealtime, vars
    <3>2. MemoIsOwnSnapshot'
      BY <2>2, <3>1 DEF MemoInv, MemoIsOwnSnapshot
    <3>3. QED
      BY <2>1, <3>2 DEF MemoInv
  <2>4. CASE Answer
    BY <2>1, <2>4 DEF MemoInv, MemoIsOwnSnapshot, Answer
  <2>5. ASSUME NEW trip \in TripIDs, NEW fails \in Failures, Describe(trip, fails)
        PROVE  MemoInv'
    <3> DEFINE d == DateFor(trip)
               v == GetVehicleForTrip(Context(fails), trip)
               built == BuildTripStatus(Context(fails), memo, AgencyOf(trip), trip, v, Zone, d, now)
               kept == {CacheKey(u, built.effective, d) : u \in built.snapshot.shift}
               own(k) == ComputeScheduledBlockSnapshot(NoFailures, k[1], Zone, k[2], k[3])
               dbTrip == DBTrip(Context(fails), trip, v, now)
    <3>1. /\ feed' = feed
          /\ degraded' = (degraded \/ fails # {})
          /\ memo' = IF built = Null THEN memo ELSE Memoize(memo, built.snapshot, built.effective, d)
      BY <2>5 DEF Describe
    <3> SUFFICES ASSUME ~degraded' PROVE MemoIsOwnSnapshot'
      BY <2>1 DEF MemoInv, MemoIsOwnSnapshot
    <3>2. ~degraded /\ Context(fails) = NoFailures /\ feed \in DOMAIN Feeds
      BY <3>1 DEF NoFailures, MemoInv, ClockInv
    <3>3. \A k \in DOMAIN memo : memo[k] = own(k)
      BY <3>2 DEF MemoInv, MemoIsOwnSnapshot
    <3> HIDE DEF own
    <3>4. \A k \in DOMAIN memo' : memo'[k] = own(k)
      <4>1. CASE built = Null \/ built.snapshot = Null
        BY <3>1, <3>3, <4>1 DEF Memoize
      <4>2. CASE built # Null /\ built.snapshot # Null
        <5>1. dbTrip \in TripIDs
          BY StatusTripFound DEF Context
        <5>2. built.snapshot = SnapshotOf(NoFailures, memo, dbTrip, Zone, built.effective, d)
          BY <3>2, <4>2, SnapshotOfStatus
        <5> HIDE DEF built, dbTrip, d
        <5>3. built.snapshot = ComputeScheduledBlockSnapshot(NoFailures, dbTrip, Zone, built.effective, d)
          BY <3>3, <5>2 DEF SnapshotOf, CacheKey, own
        <5>4. \A u \in built.snapshot.shift :
                 ComputeScheduledBlockSnapshot(NoFailures, u, Zone, built.effective, d) = built.snapshot
          BY <3>2, <4>2, <5>1, <5>3, SnapshotOfMember
        <5>5. \A k \in kept : own(k) = built.snapshot
          BY <5>4 DEF CacheKey, own
        <5>6. memo' = [k \in kept \cup DOMAIN memo |->
                              IF k \in kept THEN built.snapshot ELSE memo[k]]
          BY <3>1, <4>2 DEF Memoize
        <5> HIDE DEF kept
        <5>7. QED
          BY <3>3, <5>5, <5>6
      <4>3. QED
        BY <4>1, <4>2
    <3>5. \A k : own(k)' = own(k)
      BY <2>2, <3>1 DEF own
    <3>6. QED
      BY <3>4, <3>5 DEF MemoIsOwnSnapshot, own
  <2>6. QED
    BY <2>3, <2>4, <2>5 DEF Next
<1>3. QED
  BY <1>1, <1>2, PTL DEF Spec, MemoInv

-----------------------------------------------------------------------------
(* The trips whose delays count. *)

\* The deviation is that of a nearest prediction, and of one still to come
\* where there is such a nearest one.
AsNearest(ctx, updates, d, moment) ==
    LET all == {p \in Range(FlattenSeq([i \in DOMAIN updates |->
                    Predictions(ctx, updates[i], Zone, d, moment)])) :
                    p.scheduled > 0 /\ p.predicted > 0}
        seconds == SecondsSince(Zone, moment, d)
        near == {p \in all : \A q \in all :
                    Distance(p.predicted, seconds) <= Distance(q.predicted, seconds)}
        ahead == {p \in near : p.predicted >= seconds}
        best == IF ahead = {} THEN near ELSE ahead
    IN  all # {} => ClosestDeviation(ctx, updates, Zone, d, moment)
                        \in {p.predicted - p.scheduled : p \in best}

\* The stops of some updates give the deviation of a nearest of their
\* predictions.
LEMMA NearestDeviation ==
    ASSUME feed \in DOMAIN Feeds, NEW ctx, ctx.db = db, NEW S, \A u \in S : UpdateTyped(u),
           NEW updates \in Seq(S), NEW d \in Int, NEW moment \in Int
    PROVE  AsNearest(ctx, updates, d, moment)
<1> DEFINE given == [i \in DOMAIN updates |-> Predictions(ctx, updates[i], Zone, d, moment)]
           pairs == FlattenSeq(given)
           all == {p \in Range(pairs) : p.scheduled > 0 /\ p.predicted > 0}
           seconds == SecondsSince(Zone, moment, d)
           near == {p \in all : \A q \in all :
                        Distance(p.predicted, seconds) <= Distance(q.predicted, seconds)}
           ahead == {p \in near : p.predicted >= seconds}
           best == IF ahead = {} THEN near ELSE ahead
           pick == FoldLeft(LAMBDA b, p : Consider(b, p, seconds), NoPick, pairs)
<1>1. ClosestDeviation(ctx, updates, Zone, d, moment)
        = IF pick.delta = Null THEN Null ELSE pick.deviation
  BY DEF ClosestDeviation
<1>2. /\ Len(updates) \in Nat /\ DOMAIN updates = 1..Len(updates)
      /\ \A i \in DOMAIN updates : updates[i] \in S
  BY PlacesOf
<1>3. \A i \in DOMAIN updates : Predictions(ctx, updates[i], Zone, d, moment) \in Seq(Pairs)
  BY <1>2, ClockAssumption, PairsAre
<1>4. given \in [1..Len(updates) -> Seq(Pairs)]
  BY <1>2, <1>3
<1>5. seconds \in Int
  BY ClockAssumption, SecondsAre
<1> HIDE DEF given, seconds
<1>6. pairs \in Seq(Pairs)
  BY <1>2, <1>4, Flattened
<1> HIDE DEF pairs
<1>7. Len(pairs) \in Nat /\ pairs \in [1..Len(pairs) -> Pairs]
  BY <1>6, LenProperties
<1>8. all = {p \in Range(pairs) : Offers(p)} /\ all \in SUBSET Pairs
  BY <1>7 DEF Offers, Range
<1>9. PickedFrom(pick, all, seconds)
  BY <1>5, <1>7, <1>8, PicksFold
<1> HIDE DEF all, pick
<1>10. ASSUME all # {} PROVE pick.delta # Null /\ pick.deviation \in {p.predicted - p.scheduled : p \in best}
  <2>1. PICK p \in all :
          /\ pick = PickOf(p, seconds)
          /\ \A q \in all : Distance(p.predicted, seconds) <= Distance(q.predicted, seconds)
          /\ p.predicted < seconds =>
                \A q \in all : Distance(p.predicted, seconds) = Distance(q.predicted, seconds)
                               => q.predicted < seconds
    BY <1>9, <1>10 DEF PickedFrom
  <2>2. \A q \in all : q.predicted \in Int /\ Distance(q.predicted, seconds) \in Int
    BY <1>5, <1>8 DEF Pairs, Distance
  <2>3. pick.delta = Distance(p.predicted, seconds) /\ pick.deviation = p.predicted - p.scheduled
    BY <2>1 DEF PickOf
  <2>4. pick.delta # Null
    BY <2>2, <2>3, NullAssumption
  <2>5. p \in near
    BY <2>1
  <2>6. p.predicted < seconds => ahead = {}
    <3> SUFFICES ASSUME p.predicted < seconds, NEW q \in near PROVE ~(q.predicted >= seconds)
      OBVIOUS
    <3>1. q \in all /\ Distance(q.predicted, seconds) <= Distance(p.predicted, seconds)
      OBVIOUS
    <3>2. Distance(p.predicted, seconds) = Distance(q.predicted, seconds)
      BY <2>1, <2>2, <3>1
    <3>3. q.predicted < seconds
      BY <2>1, <3>1, <3>2
    <3>4. QED
      BY <1>5, <2>2, <3>1, <3>3
  <2>7. ~(p.predicted < seconds) => p \in ahead
    BY <1>5, <2>2, <2>5
  <2>8. p \in best
    BY <2>5, <2>6, <2>7
  <2> HIDE DEF best
  <2>9. QED
    BY <2>3, <2>4, <2>8
<1>11. all # {} => ClosestDeviation(ctx, updates, Zone, d, moment) \in {p.predicted - p.scheduled : p \in best}
  BY <1>1, <1>10
<1>12. QED
  BY <1>11 DEF all, seconds, pairs, given, AsNearest

-----------------------------------------------------------------------------
(* Two orders of the same trips. *)

\* f lists the members of S in the order R.
Lists(f, n, S, R) ==
    /\ n \in Nat
    /\ f \in [1..n -> S]
    /\ \A x \in S : \E i \in 1..n : f[i] = x
    /\ \A i, j \in 1..n : i < j => <<f[i], f[j]>> \in R

Before(S, R, x) == {y \in S : <<y, x>> \in R}

\* Where the members of an order are enumerated in it, as many are before a
\* member as there are places before its own.
LEMMA Ranked ==
    ASSUME NEW S, NEW R, StrictOrderOn(S, R), NEW n, NEW f, Lists(f, n, S, R)
    PROVE  /\ Cardinality(S) = n
           /\ \A i \in 1..n : Cardinality(Before(S, R, f[i])) = i - 1
<1> USE DEF Lists
<1>1. \A i, j \in 1..n : f[i] = f[j] => i = j
  <2> SUFFICES ASSUME NEW i \in 1..n, NEW j \in 1..n, f[i] = f[j], i # j PROVE FALSE
    OBVIOUS
  <2>1. i < j \/ j < i
    OBVIOUS
  <2>2. <<f[i], f[i]>> \in R
    BY <2>1
  <2>3. QED
    BY <2>2 DEF StrictOrderOn
<1>2. Cardinality(S) = n
  <2>1. f \in Bijection(1..n, S)
    BY <1>1 DEF Bijection, Injection, Surjection, IsInjective
  <2>2. QED
    BY <2>1, FS_CountingElements DEF ExistsBijection
<1>3. ASSUME NEW i \in 1..n PROVE Cardinality(Before(S, R, f[i])) = i - 1
  <2> DEFINE before == {y \in S : <<y, f[i]>> \in R}
             g == [j \in 1..i - 1 |-> f[j]]
  <2>1. \A j \in 1..i - 1 : j \in 1..n /\ j < i /\ g[j] = f[j]
    OBVIOUS
  <2>2. \A j \in 1..i - 1 : g[j] \in before
    BY <2>1
  <2>3. \A y \in before : \E j \in 1..i - 1 : g[j] = y
    <3> SUFFICES ASSUME NEW y \in before PROVE \E j \in 1..i - 1 : g[j] = y
      OBVIOUS
    <3>1. PICK j \in 1..n : f[j] = y
      OBVIOUS
    <3>2. j # i
      BY <3>1 DEF StrictOrderOn
    <3>3. ~(i < j)
      <4> SUFFICES ASSUME i < j PROVE FALSE
        OBVIOUS
      <4>1. <<f[i], y>> \in R /\ <<y, f[i]>> \in R /\ f[i] \in S /\ y \in S
        BY <3>1
      <4>2. QED
        BY <4>1 DEF StrictOrderOn
    <3>4. j \in 1..i - 1
      BY <3>2, <3>3
    <3>5. QED
      BY <2>1, <3>1, <3>4
  <2> HIDE DEF before
  <2>4. g \in [1..i - 1 -> before]
    BY <2>2
  <2>5. \A j, k \in 1..i - 1 : g[j] = g[k] => j = k
    BY <1>1, <2>1
  <2> HIDE DEF g
  <2>6. g \in Bijection(1..i - 1, before)
    BY <2>3, <2>4, <2>5 DEF Bijection, Injection, Surjection, IsInjective
  <2>7. i - 1 \in Nat
    OBVIOUS
  <2>8. Cardinality(before) = i - 1
    BY <2>6, <2>7, FS_CountingElements DEF ExistsBijection
  <2>9. QED
    BY <2>8 DEF before, Before
<1>4. QED
  BY <1>2, <1>3

\* An order has one enumeration.
LEMMA OneEnumeration ==
    ASSUME NEW S, NEW R, StrictOrderOn(S, R), NEW n, NEW f, Lists(f, n, S, R),
           NEW m, NEW g, Lists(g, m, S, R)
    PROVE  n = m /\ \A i \in 1..n : f[i] = g[i]
<1>1. Cardinality(S) = n /\ \A i \in 1..n : Cardinality(Before(S, R, f[i])) = i - 1
  BY Ranked
<1>2. Cardinality(S) = m /\ \A i \in 1..m : Cardinality(Before(S, R, g[i])) = i - 1
  BY Ranked
<1>3. ASSUME NEW i \in 1..n PROVE f[i] = g[i]
  <2>1. PICK j \in 1..m : g[j] = f[i]
    BY DEF Lists
  <2>2. i - 1 = j - 1
    BY <1>1, <1>2, <2>1
  <2>3. i = j
    BY <2>2 DEF Lists
  <2>4. QED
    BY <2>1, <2>3
<1>4. QED
  BY <1>1, <1>2, <1>3

\* Two sets of the same trips, in the same order by their first times, name
\* them place by place.
LEMMA SameOrder ==
    ASSUME NEW A, IsFiniteSet(A), \A t \in A : t.first \in Int /\ t.id \in Int,
           \A a, b \in A : a.id = b.id => a = b,
           NEW B, IsFiniteSet(B), \A t \in B : t.first \in Int /\ t.id \in Int,
           \A a, b \in B : a.id = b.id => a = b,
           {t.id : t \in A} = {t.id : t \in B},
           \A a, b \in A : \A c, d \in B :
              a.id = c.id /\ b.id = d.id => (a.first < b.first <=> c.first < d.first)
    PROVE  /\ Cardinality(A) = Cardinality(B)
           /\ \A i \in 1..Cardinality(A) : ByFirst(A)[i].id = ByFirst(B)[i].id
<1> DEFINE n == Cardinality(A)
           m == Cardinality(B)
           r == ByFirst(A)
           s == ByFirst(B)
           ids == {t.id : t \in A}
           earlier(a, b) == a.first < b.first \/ (a.first = b.first /\ a.id < b.id)
           R == {p \in ids \X ids : \E a, b \in A : a.id = p[1] /\ b.id = p[2] /\ earlier(a, b)}
           f == [i \in 1..n |-> r[i].id]
           g == [i \in 1..m |-> s[i].id]
<1>1. /\ n \in Nat /\ r \in [1..n -> A]
      /\ \A t \in A : \E i \in 1..n : r[i] = t
      /\ \A i, j \in 1..n : i < j => earlier(r[i], r[j])
  BY FirstOrders
<1>2. /\ m \in Nat /\ s \in [1..m -> B]
      /\ \A t \in B : \E i \in 1..m : s[i] = t
      /\ \A i, j \in 1..m : i < j => earlier(s[i], s[j])
  BY FirstOrders
<1>3. \A a, b \in A : <<a.id, b.id>> \in R <=> earlier(a, b)
  <2> SUFFICES ASSUME NEW a \in A, NEW b \in A PROVE <<a.id, b.id>> \in R <=> earlier(a, b)
    OBVIOUS
  <2>1. <<a.id, b.id>> \in R <=> \E x, y \in A : x.id = a.id /\ y.id = b.id /\ earlier(x, y)
    OBVIOUS
  <2>2. \A x, y \in A : x.id = a.id /\ y.id = b.id => x = a /\ y = b
    OBVIOUS
  <2> HIDE DEF earlier, R
  <2>3. QED
    BY <2>1, <2>2
<1>4. \A c, d \in B : earlier(c, d) => <<c.id, d.id>> \in R
  <2> SUFFICES ASSUME NEW c \in B, NEW d \in B, earlier(c, d) PROVE <<c.id, d.id>> \in R
    OBVIOUS
  <2>1. c.id \in {t.id : t \in A} /\ d.id \in {t.id : t \in A}
    OBVIOUS
  <2>2. PICK a \in A, b \in A : a.id = c.id /\ b.id = d.id
    BY <2>1
  <2>3. (a.first < b.first <=> c.first < d.first) /\ (b.first < a.first <=> d.first < c.first)
    BY <2>2
  <2>4. a.first \in Int /\ b.first \in Int /\ c.first \in Int /\ d.first \in Int
    OBVIOUS
  <2>5. earlier(a, b)
    BY <2>2, <2>3, <2>4
  <2> HIDE DEF earlier, R
  <2>6. QED
    BY <1>3, <2>2, <2>5
<1> HIDE DEF R, n, m, r, s
<1>5. StrictOrderOn(ids, R)
  <2>1. \A x, y \in ids : x # y => <<x, y>> \in R \/ <<y, x>> \in R
    <3> SUFFICES ASSUME NEW a \in A, NEW b \in A, a.id # b.id
                 PROVE  <<a.id, b.id>> \in R \/ <<b.id, a.id>> \in R
      OBVIOUS
    <3>1. a.first \in Int /\ b.first \in Int /\ a.id \in Int /\ b.id \in Int
      OBVIOUS
    <3>2. earlier(a, b) \/ earlier(b, a)
      BY <3>1
    <3>3. QED
      BY <1>3, <3>2
  <2>2. \A x, y, z \in ids : <<x, y>> \in R /\ <<y, z>> \in R => <<x, z>> \in R
    <3> SUFFICES ASSUME NEW a \in A, NEW b \in A, NEW c \in A, <<a.id, b.id>> \in R, <<b.id, c.id>> \in R
                 PROVE  <<a.id, c.id>> \in R
      OBVIOUS
    <3>1. /\ a.first \in Int /\ b.first \in Int /\ c.first \in Int
          /\ a.id \in Int /\ b.id \in Int /\ c.id \in Int
      OBVIOUS
    <3>2. earlier(a, b) /\ earlier(b, c)
      BY <1>3
    <3>3. earlier(a, c)
      BY <3>1, <3>2
    <3>4. QED
      BY <1>3, <3>3
  <2>3. \A x \in ids : <<x, x>> \notin R
    <3> SUFFICES ASSUME NEW a \in A PROVE <<a.id, a.id>> \notin R
      OBVIOUS
    <3>1. a.first \in Int /\ a.id \in Int
      OBVIOUS
    <3>2. ~earlier(a, a)
      BY <3>1
    <3>3. QED
      BY <1>3, <3>2
  <2> HIDE DEF ids
  <2>4. QED
    BY <2>1, <2>2, <2>3 DEF StrictOrderOn
<1> HIDE DEF earlier
<1>6. Lists(f, n, ids, R)
  <2>1. \A i \in 1..n : f[i] = r[i].id /\ r[i] \in A
    BY <1>1
  <2>2. \A i, j \in 1..n : i < j => <<f[i], f[j]>> \in R
    BY <1>1, <1>3, <2>1
  <2>3. \A x \in ids : \E i \in 1..n : f[i] = x
    BY <1>1, <2>1
  <2>4. QED
    BY <1>1, <2>2, <2>3 DEF Lists
<1>7. Lists(g, m, ids, R)
  <2>1. \A i \in 1..m : g[i] = s[i].id /\ s[i] \in B
    BY <1>2
  <2>2. \A i, j \in 1..m : i < j => <<g[i], g[j]>> \in R
    BY <1>2, <1>4, <2>1
  <2>3. ids = {t.id : t \in B}
    OBVIOUS
  <2>4. \A x \in ids : \E i \in 1..m : g[i] = x
    <3> SUFFICES ASSUME NEW x \in ids PROVE \E i \in 1..m : g[i] = x
      OBVIOUS
    <3>1. PICK t \in B : x = t.id
      BY <2>3
    <3>2. PICK i \in 1..m : s[i] = t
      BY <1>2
    <3>3. g[i] = x
      BY <2>1, <3>1, <3>2
    <3>4. QED
      BY <3>3
  <2>5. \A t \in B : t.id \in ids
    BY <2>3
  <2>6. QED
    BY <1>2, <2>1, <2>2, <2>4, <2>5 DEF Lists
<1> HIDE DEF f, g, ids
<1>8. n = m /\ \A i \in 1..n : f[i] = g[i]
  BY <1>5, <1>6, <1>7, OneEnumeration
<1>9. QED
  BY <1>8 DEF f, g, n, m, r, s

ShiftPlaces(s, n, a) == ShiftOpens(Overlaps(s, n), a)..ShiftCloses(Overlaps(s, n), n, a)

\* A part of s that holds its members at some places.
CutFrom(kept, s, places) ==
    /\ kept # <<>>
    /\ \A i \in DOMAIN kept : \E k \in places : kept[i] = s[k]
    /\ \A k \in places : \E i \in DOMAIN kept : kept[i] = s[k]

\* A place of a shift lies between its bounds.
LEMMA PlaceInShift ==
    ASSUME NEW n \in Nat, NEW T, NEW s \in [1..n -> T], NEW a \in 1..n,
           \A i \in 1..n : s[i].id = s[a].id => i = a
    PROVE  CutFrom(KeepShiftContainingTrip(s, s[a].id), s, ShiftPlaces(s, n, a))
<1> DEFINE kept == KeepShiftContainingTrip(s, s[a].id)
           lo == ShiftOpens(Overlaps(s, n), a)
           hi == ShiftCloses(Overlaps(s, n), n, a)
<1>1. Overlaps(s, n) \in SUBSET (2..n)
  BY DEF Overlaps
<1>2. lo \in 1..a /\ hi \in a..n
  BY <1>1, ShiftBounds
<1>3. kept = SubSeq(s, lo, hi)
  BY ShiftKept
<1> HIDE DEF lo, hi, kept
<1>4. \A j \in lo..hi : s[j] \in T
  BY <1>2
<1>5. /\ kept \in Seq(T)
      /\ Len(kept) = hi - lo + 1
      /\ \A j \in 1..hi - lo + 1 : kept[j] = s[lo + j - 1]
  <2>1. lo \in Int /\ hi \in Int /\ lo <= hi
    BY <1>2
  <2>2. QED
    BY <1>3, <1>4, <2>1, SubSeqProperties
<1>6. DOMAIN kept = 1..hi - lo + 1
  BY <1>5, LenProperties
<1>7. \A j \in 1..hi - lo + 1 : lo + j - 1 \in lo..hi
  BY <1>2
<1>8. \A k \in lo..hi : /\ k - lo + 1 \in 1..hi - lo + 1
                       /\ lo + (k - lo + 1) - 1 = k
  BY <1>2
<1>9. kept # <<>>
  <2>1. lo \in lo..hi
    BY <1>2
  <2>2. DOMAIN kept # {}
    BY <1>6, <1>8, <2>1
  <2>3. QED
    BY <2>2
<1>10. \A i \in DOMAIN kept : \E k \in lo..hi : kept[i] = s[k]
  BY <1>5, <1>6, <1>7
<1>11. \A k \in lo..hi : \E i \in DOMAIN kept : kept[i] = s[k]
  BY <1>5, <1>6, <1>8
<1>12. lo..hi = ShiftPlaces(s, n, a)
  BY DEF ShiftPlaces, lo, hi
<1>13. QED
  BY <1>9, <1>10, <1>11, <1>12 DEF CutFrom, kept

\* s and r are the same trips, in s with the wider bounds.
Wider(s, r, n) ==
    /\ \A i \in 1..n : s[i].id = r[i].id
    /\ \A i, j \in 1..n : s[i].id = s[j].id => i = j
    /\ \A i \in 1..n : /\ {s[i].first, s[i].last, r[i].first, r[i].last} \subseteq Int
                       /\ s[i].first <= r[i].first /\ r[i].last <= s[i].last

IDsWithin(wide, kept) ==
    wide # <<>> /\ \A i \in DOMAIN wide : \E k \in DOMAIN kept : wide[i].id = kept[k].id

\* Trips whose bounds are wider overlap where those of the others do: the shift
\* cut out of the wider ones lies within the other.
LEMMA ShiftContained ==
    ASSUME NEW n \in Nat, NEW T, NEW s \in [1..n -> T], NEW U, NEW r \in [1..n -> U],
           Wider(s, r, n), NEW a \in 1..n
    PROVE  IDsWithin(KeepShiftContainingTrip(s, s[a].id), KeepShiftContainingTrip(r, r[a].id))
<1> USE DEF Wider
<1> DEFINE wide == KeepShiftContainingTrip(s, s[a].id)
           kept == KeepShiftContainingTrip(r, r[a].id)
           B == Overlaps(s, n)
           C == Overlaps(r, n)
<1>1. C \subseteq B
  <2> SUFFICES ASSUME NEW i \in 2..n, r[i].first < r[i - 1].last PROVE s[i].first < s[i - 1].last
    BY DEF Overlaps
  <2>1. i \in 1..n /\ i - 1 \in 1..n
    OBVIOUS
  <2>2. /\ s[i].first \in Int /\ r[i].first \in Int /\ s[i].first <= r[i].first
        /\ s[i - 1].last \in Int /\ r[i - 1].last \in Int /\ r[i - 1].last <= s[i - 1].last
    BY <2>1
  <2>3. QED
    BY <2>2
<1>2. B \in SUBSET (2..n) /\ C \in SUBSET (2..n)
  BY DEF Overlaps
<1>3. /\ ShiftOpens(B, a) \in 1..a /\ ShiftCloses(B, n, a) \in a..n
      /\ \A b \in B : b <= a => b <= ShiftOpens(B, a)
      /\ \A b \in B : a < b => ShiftCloses(B, n, a) < b
  BY <1>2, ShiftBounds
<1>4. /\ ShiftOpens(C, a) \in 1..a /\ ShiftCloses(C, n, a) \in a..n
      /\ ShiftOpens(C, a) = 1 \/ ShiftOpens(C, a) \in C
      /\ ShiftCloses(C, n, a) = n \/ ShiftCloses(C, n, a) + 1 \in C
  BY <1>2, ShiftBounds
<1> HIDE DEF B, C
<1>5. ShiftOpens(C, a) <= ShiftOpens(B, a)
  <2>1. CASE ShiftOpens(C, a) = 1
    BY <1>3, <2>1
  <2>2. CASE ShiftOpens(C, a) \in C
    <3>1. ShiftOpens(C, a) \in B /\ ShiftOpens(C, a) <= a
      BY <1>1, <1>4, <2>2
    <3>2. QED
      BY <1>3, <3>1
  <2>3. QED
    BY <1>4, <2>1, <2>2
<1>6. ShiftCloses(B, n, a) <= ShiftCloses(C, n, a)
  <2>1. CASE ShiftCloses(C, n, a) = n
    BY <1>3, <2>1
  <2>2. CASE ShiftCloses(C, n, a) + 1 \in C
    <3>1. ShiftCloses(C, n, a) + 1 \in B /\ a < ShiftCloses(C, n, a) + 1
      BY <1>1, <1>4, <2>2
    <3>2. ShiftCloses(B, n, a) < ShiftCloses(C, n, a) + 1
      BY <1>3, <3>1
    <3>3. QED
      BY <1>3, <1>4, <3>2
  <2>3. QED
    BY <1>4, <2>1, <2>2
<1>7. \A i \in 1..n : s[i].id = s[a].id => i = a
  OBVIOUS
<1>8. \A i \in 1..n : r[i].id = r[a].id => i = a
  BY <1>7
<1>9. CutFrom(wide, s, ShiftPlaces(s, n, a))
  BY <1>7, PlaceInShift
<1>10. CutFrom(kept, r, ShiftPlaces(r, n, a))
  BY <1>8, PlaceInShift
<1> HIDE DEF wide, kept
<1>p. /\ ShiftPlaces(s, n, a) = ShiftOpens(B, a)..ShiftCloses(B, n, a)
      /\ ShiftPlaces(r, n, a) = ShiftOpens(C, a)..ShiftCloses(C, n, a)
  BY DEF ShiftPlaces, B, C
<1>11. ASSUME NEW i \in DOMAIN wide PROVE \E k \in DOMAIN kept : wide[i].id = kept[k].id
  <2>1. PICK k \in ShiftOpens(B, a)..ShiftCloses(B, n, a) : wide[i] = s[k]
    BY <1>9, <1>p DEF CutFrom
  <2>2. k \in ShiftOpens(C, a)..ShiftCloses(C, n, a) /\ k \in 1..n
    BY <1>3, <1>4, <1>5, <1>6
  <2>3. PICK j \in DOMAIN kept : kept[j] = r[k]
    BY <1>10, <1>p, <2>2 DEF CutFrom
  <2>4. s[k].id = r[k].id
    BY <2>2
  <2>5. QED
    BY <2>1, <2>3, <2>4
<1>12. QED
  BY <1>9, <1>11 DEF CutFrom, IDsWithin, wide, kept

-----------------------------------------------------------------------------
(* The bounds of a trip and its visits. *)

\* The visits of a trip are among the rows of its stop times, at least one of
\* them; the bounds kept with the trip hold them all.
LEMMA BoundsHold ==
    ASSUME feed \in DOMAIN Feeds, NEW r \in db.trips
    PROVE  /\ StopTimesOf(db, {r.id}) # {}
           /\ \A st \in StopTimesOf(db, {r.id}) :
                 /\ r.minArrival <= st.arrival
                 /\ st.arrival <= st.departure
                 /\ st.departure <= r.maxDeparture
<1> DEFINE F == Feeds[feed]
           arrivals(t) == {t.times[i].arrival : i \in DOMAIN t.times}
           departures(t) == {t.times[i].departure : i \in DOMAIN t.times}
<1>1. db = Rows(F)
  BY DEF db, Databases
<1>2. Importable(F)
  BY FeedsImportable
<1>3. /\ db.trips = {TripRow(t) : t \in ValidTrips(F)}
      /\ db.stopTimes = UNION {StopTimeRows(t) : t \in ValidTrips(F)}
  BY <1>1 DEF Rows
<1>4. ASSUME NEW t \in ValidTrips(F)
      PROVE  /\ DOMAIN t.times # {} /\ IsFiniteSet(DOMAIN t.times)
             /\ StopTimeRows(t) \subseteq db.stopTimes /\ TripRow(t) \in db.trips
             /\ \A st \in StopTimeRows(t) : st.trip = t.id
  <2>1. t.times \in Seq(Range(t.times)) /\ t.times # <<>>
    BY <1>2 DEF Importable, ValidTrips
  <2>2. DOMAIN t.times = 1..Len(t.times) /\ Len(t.times) \in Nat
    BY <2>1, LenProperties
  <2>3. DOMAIN t.times # {}
    <3>1. \A S : \A s \in Seq(S) : s # <<>> => 1 \in 1..Len(s)
      BY EmptySeq, LenProperties
    <3>2. 1 \in 1..Len(t.times)
      BY <2>1, <3>1
    <3>3. QED
      BY <2>2, <3>2
  <2>4. IsFiniteSet(DOMAIN t.times)
    BY <2>2, FS_Interval
  <2>5. \A st \in StopTimeRows(t) : st.trip = t.id
    BY DEF StopTimeRows
  <2>6. QED
    BY <1>3, <2>3, <2>4, <2>5
<1>5. ASSUME NEW t \in ValidTrips(F), NEW i \in DOMAIN t.times
      PROVE  \E st \in StopTimeRows(t) : st.arrival = t.times[i].arrival /\ st.departure = t.times[i].departure
  <2> DEFINE st == [trip |-> t.id, seq |-> t.times[i].seq, stop |-> t.times[i].stop,
                    arrival |-> t.times[i].arrival, departure |-> t.times[i].departure]
  <2>1. st \in StopTimeRows(t)
    BY DEF StopTimeRows
  <2>2. st.arrival = t.times[i].arrival /\ st.departure = t.times[i].departure
    OBVIOUS
  <2> HIDE DEF st
  <2>3. QED
    BY <2>1, <2>2
<1>6. \A st \in db.stopTimes : st.arrival \in Int /\ st.departure \in Int
  BY TablesImported DEF ColumnsTyped
<1>7. \A st \in db.stopTimes : st.arrival <= st.departure
  BY <1>1, <1>2 DEF Importable, ConstraintsHold
<1>8. ASSUME NEW t \in ValidTrips(F)
      PROVE  /\ \A a \in arrivals(t) : TripRow(t).minArrival <= a
             /\ \A e \in departures(t) : e <= TripRow(t).maxDeparture
  <2> DEFINE arrival == [i \in DOMAIN t.times |-> t.times[i].arrival]
             departure == [i \in DOMAIN t.times |-> t.times[i].departure]
  <2>1. arrivals(t) \subseteq Int /\ departures(t) \subseteq Int
    <3>1. \A i \in DOMAIN t.times : t.times[i].arrival \in Int /\ t.times[i].departure \in Int
      BY <1>4, <1>5, <1>6
    <3>2. QED
      BY <3>1
  <2>2. arrivals(t) # {} /\ departures(t) # {}
    BY <1>4
  <2>3. arrival \in Surjection(DOMAIN t.times, arrivals(t))
        /\ departure \in Surjection(DOMAIN t.times, departures(t))
    BY DEF Surjection
  <2>4. TripRow(t).minArrival = Min(arrivals(t)) /\ TripRow(t).maxDeparture = Max(departures(t))
    BY DEF TripRow
  <2> HIDE DEF arrivals, departures, arrival, departure
  <2>5. IsFiniteSet(arrivals(t)) /\ IsFiniteSet(departures(t))
    BY <1>4, <2>3, FS_Surjection
  <2>6. QED
    BY <2>1, <2>2, <2>4, <2>5, Extremes
<1>9. PICK t \in ValidTrips(F) : r = TripRow(t)
  BY <1>3
<1>10. r.id = t.id
  BY <1>9 DEF TripRow
<1>11. StopTimesOf(db, {r.id}) # {}
  <2>1. PICK i \in DOMAIN t.times : TRUE
    BY <1>4
  <2>2. PICK st \in StopTimeRows(t) : TRUE
    BY <1>5, <2>1
  <2>3. st \in db.stopTimes /\ st.trip = r.id
    BY <1>4, <1>10
  <2>4. QED
    BY <2>3 DEF StopTimesOf
<1>12. ASSUME NEW st \in StopTimesOf(db, {r.id})
       PROVE  r.minArrival <= st.arrival /\ st.arrival <= st.departure /\ st.departure <= r.maxDeparture
  <2>1. st \in db.stopTimes /\ st.trip = r.id
    BY DEF StopTimesOf
  <2>2. PICK u \in ValidTrips(F) : st \in StopTimeRows(u)
    BY <1>3, <2>1
  <2>3. u.id = r.id
    BY <1>4, <2>1, <2>2
  <2>4. TripRow(u).id = u.id
    BY DEF TripRow
  <2>5. TripRow(u) = r
    BY <1>4, <2>3, <2>4, TablesImported
  <2>6. st.arrival \in arrivals(u) /\ st.departure \in departures(u)
    BY <2>2 DEF StopTimeRows
  <2>7. QED
    BY <1>7, <1>8, <2>1, <2>5, <2>6
<1>13. QED
  BY <1>11, <1>12

\* A trip of the tables has a first and a last visit, between its bounds.
LEMMA TripTimed ==
    ASSUME feed \in DOMAIN Feeds, NEW r \in db.trips
    PROVE  LET times == GetStopTimesForTrip(db, r.id)
               first == EffectiveStopTime(times[1])
               last == EffectiveStopTime(times[Len(times)])
           IN  /\ times # <<>> /\ first \in Int /\ last \in Int
               /\ r.minArrival <= first /\ last <= r.maxDeparture
<1> DEFINE visits == StopTimesOf(db, {r.id})
           times == GetStopTimesForTrip(db, r.id)
           n == Cardinality(visits)
<1>1. visits \subseteq db.stopTimes /\ \A st \in visits : st.trip = r.id
  BY DEF StopTimesOf
<1>2. /\ IsFiniteSet(db.stopTimes)
      /\ \A st \in db.stopTimes : st.seq \in Int /\ st.arrival \in Int /\ st.departure \in Int
      /\ \A a, b \in db.stopTimes : a.trip = b.trip /\ a.seq = b.seq => a = b
  BY TablesImported DEF ColumnsTyped
<1>3. /\ visits # {}
      /\ \A st \in visits : r.minArrival <= st.arrival /\ st.arrival <= st.departure
                            /\ st.departure <= r.maxDeparture
  BY BoundsHold
<1>4. r.minArrival \in Int /\ r.maxDeparture \in Int
  BY TablesImported DEF ColumnsTyped
<1>5. times = BySequence(visits)
  BY DEF GetStopTimesForTrip
<1> HIDE DEF visits, times
<1>6. IsFiniteSet(visits)
  BY <1>1, <1>2, FS_Subset
<1>7. (\A st \in visits : st.seq \in Int) /\ \A a, b \in visits : a.seq = b.seq => a = b
  BY <1>1, <1>2
<1>8. n \in Nat /\ times \in [1..n -> visits] /\ \A x \in visits : \E i \in 1..n : times[i] = x
  BY <1>5, <1>6, <1>7, SequenceOrders
<1> HIDE DEF n
<1>9. n >= 1
  <2>1. PICK x \in visits, i \in 1..n : times[i] = x
    BY <1>3, <1>8
  <2>2. QED
    BY <1>8, <2>1
<1>10. times \in Seq(visits) /\ Len(times) = n /\ times # <<>>
  <2>1. times \in Seq(visits) /\ Len(times) = n
    BY <1>8
  <2>2. QED
    BY <1>9, <2>1
<1>11. times[1] \in visits /\ times[Len(times)] \in visits
  BY <1>8, <1>9, <1>10
<1>12. \A st \in visits : /\ EffectiveStopTime(st) \in Int
                          /\ st.arrival <= EffectiveStopTime(st)
                          /\ EffectiveStopTime(st) <= st.departure
  BY <1>1, <1>2, <1>3 DEF EffectiveStopTime
<1>13. QED
  <2> DEFINE first == EffectiveStopTime(times[1])
             last == EffectiveStopTime(times[Len(times)])
  <2>1. /\ first \in Int /\ times[1].arrival \in Int /\ times[1].arrival <= first
        /\ r.minArrival <= times[1].arrival
    BY <1>1, <1>2, <1>3, <1>11, <1>12
  <2>2. /\ last \in Int /\ times[Len(times)].departure \in Int /\ last <= times[Len(times)].departure
        /\ times[Len(times)].departure <= r.maxDeparture
    BY <1>1, <1>2, <1>3, <1>11, <1>12
  <2> HIDE DEF first, last
  <2>3. r.minArrival <= first /\ last <= r.maxDeparture
    BY <1>4, <2>1, <2>2
  <2>4. QED
    BY <1>10, <2>1, <2>2, <2>3 DEF first, last, times

\* The bounds of a block's trips are in the order of their first visits.
OrderKept(target, d) ==
    LET block == {t \in db.trips : t.id \in BlockTripIDsForServiceDate(NoFailures, target, d)}
        first(t) == EffectiveStopTime(GetStopTimesForTrip(db, t.id)[1])
    IN  \A t, u \in block : t.minArrival < u.minArrival <=> first(t) < first(u)

\* The trips whose delays count run on the shift of the snapshot, where the two
\* are cut from the same order: the bounds of a trip lie around its visits.
LEMMA DelaysOfShift ==
    ASSUME feed \in DOMAIN Feeds, NEW target \in TripIDs, NEW d, OrderKept(target, d),
           LoadShiftTrips(NoFailures, target, d) # <<>>
    PROVE  \A i \in DOMAIN BlockShiftTripIDsSortedByStartTime(NoFailures, target, d) :
              \E k \in DOMAIN LoadShiftTrips(NoFailures, target, d) :
                 BlockShiftTripIDsSortedByStartTime(NoFailures, target, d)[i]
                    = LoadShiftTrips(NoFailures, target, d)[k].id
<1> DEFINE ids == BlockTripIDsForServiceDate(NoFailures, target, d)
           block == {t \in db.trips : t.id \in ids}
           first(t) == EffectiveStopTime(GetStopTimesForTrip(db, t.id)[1])
           last(t) == LET times == GetStopTimesForTrip(db, t.id)
                      IN  EffectiveStopTime(times[Len(times)])
           bound(t) == [id |-> t.id, first |-> t.minArrival, last |-> t.maxDeparture]
           A == {bound(t) : t \in GetTripTimeBoundsByIDs(db, ids)}
           B == LoadBlockTripData(NoFailures, ids)
           s == ByFirst(A)
           r == ByFirst(B)
           n == Cardinality(A)
           wide == KeepShiftContainingTrip(s, target)
           kept == KeepShiftContainingTrip(r, target)
           around == IF wide = <<>> THEN s ELSE wide
           byID == Enumeration(ids, {p \in ids \X ids : p[1] < p[2]})
           trips == BlockShiftTripIDsSortedByStartTime(NoFailures, target, d)
<1>1. LoadShiftTrips(NoFailures, target, d) = kept
  BY DEF LoadShiftTrips
<1>2. trips = IF Cardinality(ids) <= 1 THEN byID ELSE [i \in DOMAIN around |-> around[i].id]
  BY DEF BlockShiftTripIDsSortedByStartTime, SortedBy, NoFailures, Context, Fails
<1> HIDE DEF trips, byID, around
<1>3. ids \subseteq TripIDs
  <2>1. \A u \in ids : ids \subseteq TripIDs
    BY BlockOfMember
  <2>2. QED
    BY <2>1
<1>4. /\ IsFiniteSet(B)
      /\ \A t \in B : t.first \in Int /\ t.id \in Int /\ t.id \in ids
      /\ \A a, b \in B : a.id = b.id => a = b
  BY <1>3, TripsLoaded
<1>5. IsFiniteSet(A) /\ (\A b \in A : b.first \in Int /\ b.id \in Int) /\ \A a, b \in A : a.id = b.id => a = b
  <2>1. ids \in SUBSET {t.id : t \in db.trips}
    BY <1>3 DEF TripIDs
  <2> HIDE DEF ids
  <2>2. QED
    BY <2>1, BoundsAre
<1>6. /\ \A a \in A : \E t \in block : a = bound(t)
      /\ \A t \in block : bound(t) \in A
  BY DEF GetTripTimeBoundsByIDs
<1>7. \A t \in block : /\ GetStopTimesForTrip(db, t.id) # <<>>
                       /\ first(t) \in Int /\ last(t) \in Int
                       /\ t.minArrival \in Int /\ t.maxDeparture \in Int
                       /\ t.minArrival <= first(t) /\ last(t) <= t.maxDeparture
  <2>1. \A t \in db.trips : t.minArrival \in Int /\ t.maxDeparture \in Int
    BY TablesImported DEF ColumnsTyped
  <2>2. QED
    BY <2>1, TripTimed
<1>8. \A t \in block : \E b \in B : b.id = t.id
  <2> SUFFICES ASSUME NEW t \in block PROVE \E b \in B : b.id = t.id
    OBVIOUS
  <2>1. BlockTripData(NoFailures, t.id) \in B
    BY <1>7 DEF LoadBlockTripData, NoFailures, Context, Fails
  <2>2. BlockTripData(NoFailures, t.id).id = t.id
    BY DEF BlockTripData
  <2> HIDE DEF B
  <2>3. QED
    BY <2>1, <2>2
<1>9. \A b \in B : \A t \in block : b.id = t.id => b.first = first(t) /\ b.last = last(t)
  BY DEF LoadBlockTripData, BlockTripData, NoFailures, Context, Fails
<1>10. \A x \in ids : \E t \in block : t.id = x
  BY <1>3 DEF TripIDs
<1>11. \A t, u \in block : t.minArrival < u.minArrival <=> first(t) < first(u)
  BY DEF OrderKept
<1>12. \A t \in block : bound(t).id = t.id /\ bound(t).first = t.minArrival /\ bound(t).last = t.maxDeparture
  OBVIOUS
<1>13. \A t, u \in block : t.id = u.id => t = u
  BY TablesImported
<1> HIDE DEF A, B, bound, first, last
<1>14. {t.id : t \in A} = ids /\ {t.id : t \in B} = ids
  <2>1. \A a \in A : a.id \in ids
    BY <1>6, <1>12
  <2>2. \A x \in ids : \E a \in A : a.id = x
    <3> SUFFICES ASSUME NEW x \in ids PROVE \E a \in A : a.id = x
      OBVIOUS
    <3>1. PICK t \in block : t.id = x
      BY <1>10
    <3>2. bound(t) \in A /\ bound(t).id = x
      BY <1>6, <1>12, <3>1
    <3>3. QED
      BY <3>2
  <2>3. \A x \in ids : \E b \in B : b.id = x
    <3> SUFFICES ASSUME NEW x \in ids PROVE \E b \in B : b.id = x
      OBVIOUS
    <3>1. PICK t \in block : t.id = x
      BY <1>10
    <3>2. QED
      BY <1>8, <3>1
  <2> HIDE DEF ids
  <2>4. {t.id : t \in A} = ids
    BY <2>1, <2>2
  <2>5. {t.id : t \in B} = ids
    BY <1>4, <2>3
  <2>6. QED
    BY <2>4, <2>5
<1>15. \A a, b \in A : \A c, e \in B :
          a.id = c.id /\ b.id = e.id => (a.first < b.first <=> c.first < e.first)
  <2> SUFFICES ASSUME NEW a \in A, NEW b \in A, NEW c \in B, NEW e \in B, a.id = c.id, b.id = e.id
               PROVE  a.first < b.first <=> c.first < e.first
    OBVIOUS
  <2>1. PICK t \in block : a = bound(t)
    BY <1>6
  <2>2. PICK u \in block : b = bound(u)
    BY <1>6
  <2>3. a.first = t.minArrival /\ b.first = u.minArrival /\ a.id = t.id /\ b.id = u.id
    BY <1>12, <2>1, <2>2
  <2>4. c.first = first(t) /\ e.first = first(u)
    BY <1>9, <2>3
  <2>5. QED
    BY <1>11, <2>3, <2>4
<1>16. n = Cardinality(B) /\ \A i \in 1..n : s[i].id = r[i].id
  <2>1. \A t \in B : t.first \in Int /\ t.id \in Int
    BY <1>4
  <2>2. {t.id : t \in A} = {t.id : t \in B}
    BY <1>14
  <2>3. QED
    BY <1>4, <1>5, <1>15, <2>1, <2>2, SameOrder
<1>17. n \in Nat /\ s \in [1..n -> A] /\ \A i, j \in 1..n : s[i] = s[j] => i = j
  BY <1>5, FirstOrders
<1>18. r \in [1..n -> B]
  BY <1>4, <1>16, FirstOrders
<1> HIDE DEF n, s, r
<1>19. \A i, j \in 1..n : s[i].id = s[j].id => i = j
  BY <1>5, <1>17
<1>20. ASSUME NEW i \in 1..n
       PROVE  /\ {s[i].first, s[i].last, r[i].first, r[i].last} \subseteq Int
              /\ s[i].first <= r[i].first /\ r[i].last <= s[i].last
  <2>1. PICK t \in block : s[i] = bound(t)
    BY <1>6, <1>17
  <2>2. s[i].id = t.id /\ s[i].first = t.minArrival /\ s[i].last = t.maxDeparture
    BY <1>12, <2>1
  <2>3. r[i] \in B /\ r[i].id = t.id
    BY <1>16, <1>18, <2>2
  <2>4. r[i].first = first(t) /\ r[i].last = last(t)
    BY <1>9, <2>3
  <2>5. QED
    BY <1>7, <2>2, <2>4
<1>21. \E a \in 1..n : r[a].id = target
  <2> SUFFICES ASSUME ~\E a \in 1..n : r[a].id = target PROVE FALSE
    OBVIOUS
  <2>1. DOMAIN r = 1..n
    BY <1>18
  <2>2. OneRow({j \in DOMAIN r : r[j].id = target}) = Null
    BY <2>1 DEF OneRow
  <2>3. kept = <<>>
    BY <2>2 DEF KeepShiftContainingTrip
  <2>4. QED
    BY <1>1, <2>3
<1>22. PICK a \in 1..n : r[a].id = target
  BY <1>21
<1>23. s[a].id = target
  BY <1>16, <1>22
<1>24. wide # <<>> /\ \A i \in DOMAIN wide : \E k \in DOMAIN kept : wide[i].id = kept[k].id
  <2>1. Wider(s, r, n)
    BY <1>16, <1>19, <1>20 DEF Wider
  <2>2. IDsWithin(KeepShiftContainingTrip(s, s[a].id), KeepShiftContainingTrip(r, r[a].id))
    BY <1>17, <1>18, <2>1, ShiftContained
  <2>3. QED
    BY <1>22, <1>23, <2>2 DEF IDsWithin
<1>25. IsFiniteSet(ids)
  <2> DEFINE named == [b \in B |-> b.id]
  <2> HIDE DEF ids
  <2>1. named \in [B -> ids] /\ \A x \in ids : \E b \in B : named[b] = x
    BY <1>4, <1>14
  <2> HIDE DEF named
  <2>2. named \in Surjection(B, ids)
    BY <2>1 DEF Surjection
  <2>3. QED
    BY <1>4, <2>2, FS_Surjection
<1>26. Cardinality(ids) \in Nat
  BY <1>25, FS_CardinalityType
<1> HIDE DEF wide, kept
<1>27. CASE Cardinality(ids) > 1
  <2>1. ~(Cardinality(ids) <= 1)
    BY <1>26, <1>27
  <2>2. around = wide
    BY <1>24 DEF around
  <2>3. trips = [i \in DOMAIN wide |-> wide[i].id]
    BY <1>2, <2>1, <2>2
  <2>4. \A i \in DOMAIN trips : i \in DOMAIN wide /\ trips[i] = wide[i].id
    BY <2>3
  <2>5. QED
    BY <1>1, <1>24, <2>4 DEF trips
<1>28. CASE Cardinality(ids) <= 1
  <2> DEFINE R == {p \in ids \X ids : p[1] < p[2]}
  <2>1. target \in ids
    <3>1. r[a] \in B
      BY <1>18
    <3>2. QED
      BY <1>4, <1>22, <3>1
  <2>2. ids \subseteq Int
    BY <1>3, TablesImported DEF ColumnsTyped, TripIDs
  <2> HIDE DEF ids
  <2>3. \A x \in ids : x = target
    <3>1. ids # {}
      BY <2>1
    <3>2. Cardinality(ids) # 0
      BY <1>25, <3>1, FS_EmptySet
    <3>3. Cardinality(ids) = 1
      BY <1>26, <1>28, <3>2
    <3>4. PICK x : ids = {x}
      BY <1>25, <3>3, FS_Singleton
    <3>5. QED
      BY <2>1, <3>4
  <2>4. \A x, y \in ids : <<x, y>> \in R <=> x < y
    OBVIOUS
  <2> HIDE DEF R
  <2>5. StrictOrderOn(ids, R)
    BY <2>2, <2>4 DEF StrictOrderOn
  <2>6. Enumeration(ids, R) \in [1..Cardinality(ids) -> ids]
    BY <1>25, <2>5, Enumerates
  <2>7. trips = Enumeration(ids, R)
    BY <1>2, <1>28 DEF byID, R
  <2>8. \A i \in DOMAIN trips : trips[i] = target
    BY <2>3, <2>6, <2>7
  <2>9. \E k \in DOMAIN kept : kept[k].id = target
    <3>1. kept \in Seq(B) /\ kept # <<>>
      BY <1>1, <1>17, <1>18, ShiftWithin DEF kept
    <3>2. \A S : \A q \in Seq(S) : q # <<>> => 1 \in DOMAIN q
      BY EmptySeq, LenProperties
    <3>3. 1 \in DOMAIN kept
      BY <3>1, <3>2
    <3>4. kept[1] \in B
      BY <3>1, <3>3
    <3>5. QED
      BY <1>4, <2>3, <3>3, <3>4
  <2>10. QED
    BY <1>1, <2>8, <2>9 DEF trips
<1>29. QED
  BY <1>26, <1>27, <1>28

-----------------------------------------------------------------------------
(* The deviation of a status. *)

\* What a request reads of the trips of a block depends on the tables and on
\* the queries that fail.
LEMMA ReadFromTables ==
    ASSUME NEW c, NEW e, c.db = e.db, c.fails = e.fails, NEW trip, NEW d
    PROVE  /\ BlockTripIDsForServiceDate(c, trip, d) = BlockTripIDsForServiceDate(e, trip, d)
           /\ BlockShiftTripIDsSortedByStartTime(c, trip, d)
                = BlockShiftTripIDsSortedByStartTime(e, trip, d)
           /\ LoadShiftTrips(c, trip, d) = LoadShiftTrips(e, trip, d)
<1>1. \A u : BlockTripIDsForServiceDate(c, u, d) = BlockTripIDsForServiceDate(e, u, d)
  BY DEF BlockTripIDsForServiceDate
<1>2. \A u : BlockTripData(c, u) = BlockTripData(e, u)
  BY DEF BlockTripData, ShapePoints, Fails
<1>3. \A ids : LoadBlockTripData(c, ids) = LoadBlockTripData(e, ids)
  BY <1>2 DEF LoadBlockTripData, Fails
<1>4. LoadShiftTrips(c, trip, d) = LoadShiftTrips(e, trip, d)
  BY <1>1, <1>3 DEF LoadShiftTrips
<1>5. BlockShiftTripIDsSortedByStartTime(c, trip, d) = BlockShiftTripIDsSortedByStartTime(e, trip, d)
  <2> DEFINE bounds(base, ids) == {[id |-> r.id, first |-> r.minArrival, last |-> r.maxDeparture] :
                                     r \in GetTripTimeBoundsByIDs(base, ids)}
             shift(base, ids) == KeepShiftContainingTrip(ByFirst(bounds(base, ids)), trip)
             around(base, ids) == IF shift(base, ids) = <<>> THEN ByFirst(bounds(base, ids))
                                  ELSE shift(base, ids)
             of(base, fails, ids) ==
               IF Cardinality(ids) <= 1 \/ "GetTripTimeBoundsByIDs" \in fails
               THEN Enumeration(ids, {p \in ids \X ids : p[1] < p[2]})
               ELSE [i \in DOMAIN around(base, ids) |-> around(base, ids)[i].id]
  <2>1. /\ BlockShiftTripIDsSortedByStartTime(c, trip, d)
              = of(c.db, c.fails, BlockTripIDsForServiceDate(c, trip, d))
        /\ BlockShiftTripIDsSortedByStartTime(e, trip, d)
              = of(e.db, e.fails, BlockTripIDsForServiceDate(e, trip, d))
    BY DEF BlockShiftTripIDsSortedByStartTime, SortedBy, Fails
  <2> HIDE DEF of
  <2>2. QED
    BY <1>1, <2>1
<1>6. QED
  BY <1>1, <1>4, <1>5

\* So does the trip whose stop times a status is built from.
LEMMA TripFromTables ==
    ASSUME NEW c, NEW e, c.db = e.db, c.fails = e.fails, NEW trip, NEW v, NEW t
    PROVE  DBTrip(c, trip, v, t) = DBTrip(e, trip, v, t)
BY DEF DBTrip, Fails

\* The deviation of the block of a trip that is not canceled.
Deviation(ctx, trip, v, d, t) ==
    IF StatusOf(IF v # Null /\ ~IsStale(v, t) THEN v ELSE Null) = "CANCELED" THEN 0
    ELSE OrElse(GetScheduleDeviationForBlock(ctx,
                    BlockShiftTripIDsSortedByStartTime(ctx, DBTrip(ctx, trip, v, t), d), Zone, d, t), 0)

\* A status has that deviation, whatever has been memoized.
LEMMA DeviationOfStatus ==
    ASSUME NEW ctx, NEW m, NEW agency, NEW trip, NEW v, NEW d, NEW t,
           ~Fails(ctx, "GetFrequenciesForTrip")
    PROVE  BuildTripStatus(ctx, m, agency, trip, v, Zone, d, t).deviation
             = Deviation(ctx, trip, v, d, t)
<1> DEFINE dbTrip == DBTrip(ctx, trip, v, t)
           heading == Heading(ctx, agency, trip, dbTrip, v, Zone, d, t)
           deviation == GetScheduleDeviationForBlock(ctx,
                            BlockShiftTripIDsSortedByStartTime(ctx, dbTrip, d), Zone, d, t)
           built == StatusWith(ctx, m, heading, trip, dbTrip, v, Zone, d, t, deviation)
<1>1. BuildTripStatus(ctx, m, agency, trip, v, Zone, d, t) = built
  BY DEF BuildTripStatus, StatusReached
<1>2. /\ {"predicted", "deviation", "effective"} \subseteq DOMAIN heading
      /\ heading.deviation = 0
      /\ heading.status = StatusOf(IF v # Null /\ ~IsStale(v, t) THEN v ELSE Null)
  BY DEF Heading
<1>3. Deviation(ctx, trip, v, d, t) = IF heading.status = "CANCELED" THEN 0 ELSE OrElse(deviation, 0)
  BY <1>2 DEF Deviation
<1> HIDE DEF heading, deviation, dbTrip
<1>4. CASE heading.status = "CANCELED"
  BY <1>1, <1>2, <1>3, <1>4 DEF StatusWith
<1>5. CASE heading.status # "CANCELED"
  <2> DEFINE dev == OrElse(deviation, 0)
             late == [heading EXCEPT !.predicted = @ \/ deviation # Null,
                                     !.deviation = dev, !.effective = t - dev]
  <2>1. \E stops, snapshot, position :
           built = Located(late, stops, snapshot, position, trip, v, t)
    BY <1>5 DEF StatusWith
  <2>2. {"deviation"} \subseteq DOMAIN late /\ late.deviation = dev
    BY <1>2
  <2> HIDE DEF late, dev
  <2>3. \A stops, snapshot, position :
           Located(late, stops, snapshot, position, trip, v, t).deviation = dev
    BY <2>2 DEF Located
  <2>4. built.deviation = dev
    BY <2>1, <2>3
  <2>5. QED
    BY <1>1, <1>3, <1>5, <2>4 DEF dev
<1>6. QED
  BY <1>4, <1>5

\* Two requests read the same updates for some trips.
SameUpdates(c, e, trips) ==
    \A i \in DOMAIN trips : GetTripUpdate(c, trips[i]) = GetTripUpdate(e, trips[i])

\* The delays of trips are those of the updates for them.
LEMMA DelaysOfTrips ==
    ASSUME NEW c, NEW e, c.db = e.db, c.fails = e.fails, NEW trips, SameUpdates(c, e, trips),
           NEW d, NEW t
    PROVE  GetScheduleDeviationForBlock(c, trips, Zone, d, t)
             = GetScheduleDeviationForBlock(e, trips, Zone, d, t)
<1>1. UpdatesOf(c, trips) = UpdatesOf(e, trips)
  <2> USE DEF SameUpdates
  <2>1. [i \in DOMAIN trips |-> GetTripUpdate(c, trips[i])] = [i \in DOMAIN trips |-> GetTripUpdate(e, trips[i])]
    OBVIOUS
  <2>2. {i \in DOMAIN trips : GetTripUpdate(c, trips[i]) # Null}
          = {i \in DOMAIN trips : GetTripUpdate(e, trips[i]) # Null}
    OBVIOUS
  <2>3. QED
    BY <2>1, <2>2 DEF UpdatesOf
<1>2. \A trip, su : ScheduledVisit(c, trip, su, Zone, d, t) = ScheduledVisit(e, trip, su, Zone, d, t)
  BY DEF ScheduledVisit, Fails
<1>3. \A u : Predictions(c, u, Zone, d, t) = Predictions(e, u, Zone, d, t)
  BY <1>2 DEF Predictions
<1>4. \A updates : ClosestDeviation(c, updates, Zone, d, t) = ClosestDeviation(e, updates, Zone, d, t)
  <2> SUFFICES ASSUME NEW updates
               PROVE  ClosestDeviation(c, updates, Zone, d, t) = ClosestDeviation(e, updates, Zone, d, t)
    OBVIOUS
  <2> DEFINE pick(given) ==
               FoldLeft(LAMBDA b, p : Consider(b, p, SecondsSince(Zone, t, d)), NoPick, FlattenSeq(given))
             picked(given) == IF pick(given).delta = Null THEN Null ELSE pick(given).deviation
             offered(x) == [i \in DOMAIN updates |-> Predictions(x, updates[i], Zone, d, t)]
  <2>1. ClosestDeviation(c, updates, Zone, d, t) = picked(offered(c))
    BY DEF ClosestDeviation
  <2>2. ClosestDeviation(e, updates, Zone, d, t) = picked(offered(e))
    BY DEF ClosestDeviation
  <2>3. offered(c) = offered(e)
    BY <1>3
  <2> HIDE DEF picked, offered
  <2>4. QED
    BY <2>1, <2>2, <2>3
<1>5. QED
  BY <1>1, <1>4 DEF GetScheduleDeviationForBlock

\* What the inductive invariant says of the last status: the service date is a
\* number, and where no query has failed it is the status of what it was read
\* from, its snapshot the one of its own trip.
StatusOwn ==
    /\ status.trip \in TripIDs /\ status.date \in Int /\ SnapshotTyped(status.rt)
    /\ ~degraded /\ status.is # Null =>
          /\ status.fails = {}
          /\ status.is.deviation = Deviation(Read, status.trip, status.vehicle, status.date, now)
          /\ status.is.snapshot # Null =>
                /\ LoadShiftTrips(Read, TripRead, status.date) # <<>>
                /\ status.is.snapshot.shift
                     = LET trips == LoadShiftTrips(Read, TripRead, status.date)
                       IN  {trips[i].id : i \in DOMAIN trips}

StatusInv ==
    /\ ClockInv
    /\ SnapshotTyped(rt)
    /\ rows \in Nat
    /\ rows = 0 => status = Null
    /\ status # Null => StatusOwn

\* The day a handler resolves is a number.
LEMMA DayResolved ==
    ASSUME now \in Int, NEW trip
    PROVE  DateFor(trip) \in Int
<1>1. FromInstant(Zone, now) \in Int
  BY ClockAssumption, ClocksAreNumbers
<1> DEFINE day == FromInstant(Zone, now)
<1>2. DateFor(trip) \in {day, day - 1}
  BY DEF DateFor, Resolve, NewServiceDateResolverFor
<1> HIDE DEF day
<1>3. QED
  BY <1>1, <1>2 DEF day

\* A snapshot is of the shift that is loaded.
LEMMA ShiftOfSnapshot ==
    ASSUME NEW ctx, NEW trip, NEW t, NEW d,
           ComputeScheduledBlockSnapshot(ctx, trip, Zone, t, d) # Null
    PROVE  LET trips == LoadShiftTrips(ctx, trip, d)
           IN  /\ trips # <<>>
               /\ ComputeScheduledBlockSnapshot(ctx, trip, Zone, t, d).shift
                    = {trips[i].id : i \in DOMAIN trips}
<1> DEFINE trips == LoadShiftTrips(ctx, trip, d)
           snapshot(ts) ==
             IF ts = <<>> THEN Null
             ELSE ShiftSnapshot(ts, EmitBlockStops(StopsFetched(ctx, ts), ts),
                                TripOffsets(StopsFetched(ctx, ts), ts), SecondsSince(Zone, t, d))
<1>1. ComputeScheduledBlockSnapshot(ctx, trip, Zone, t, d) = snapshot(trips)
  BY DEF ComputeScheduledBlockSnapshot
<1> HIDE DEF trips
<1>2. trips # <<>>
  BY <1>1
<1>3. snapshot(trips).shift = {trips[i].id : i \in DOMAIN trips}
  BY <1>2 DEF ShiftSnapshot, SnapshotAt
<1>4. QED
  BY <1>1, <1>2, <1>3 DEF trips

\* A status that is built without a failing query is its own.
LEMMA DescribedOwn ==
    ASSUME StatusInv, MemoIsOwnSnapshot, NEW trip \in TripIDs, NEW fails \in Failures,
           Describe(trip, fails)
    PROVE  StatusOwn'
<1> DEFINE ctx == Context(fails)
           v == GetVehicleForTrip(ctx, trip)
           d == DateFor(trip)
           built == BuildTripStatus(ctx, memo, AgencyOf(trip), trip, v, Zone, d, now)
           dbTrip == DBTrip(ctx, trip, v, now)
           read == [db |-> db, fails |-> fails, rt |-> rt]
<1>1. /\ status' = [trip |-> trip, fails |-> fails, rt |-> rt, vehicle |-> v, date |-> d, is |-> built]
      /\ degraded' = (degraded \/ fails # {})
      /\ feed' = feed /\ now' = now
  BY DEF Describe
<1>2. d \in Int
  BY DayResolved DEF StatusInv, ClockInv
<1>3. db' = db /\ TripIDs' = TripIDs
  BY <1>1 DEF db, TripIDs
<1> HIDE DEF v, d, built, dbTrip
<1>4. /\ status'.trip = trip /\ status'.fails = fails /\ status'.rt = rt
      /\ status'.vehicle = v /\ status'.date = d /\ status'.is = built
  BY <1>1
<1>5. Read' = read
  BY <1>3, <1>4 DEF Read
<1>6. read.db = ctx.db /\ read.fails = ctx.fails /\ read = ctx
  BY DEF Context
<1>7. TripRead' = dbTrip
  BY <1>1, <1>4, <1>5, <1>6 DEF TripRead, dbTrip
<1>8. status'.trip \in TripIDs' /\ status'.date \in Int /\ SnapshotTyped(status'.rt)
  BY <1>2, <1>3, <1>4 DEF StatusInv
<1>9. ASSUME ~degraded', built # Null
      PROVE  /\ fails = {}
             /\ built.deviation = Deviation(read, trip, v, d, now)
             /\ built.snapshot # Null =>
                   /\ LoadShiftTrips(read, dbTrip, d) # <<>>
                   /\ built.snapshot.shift
                        = LET trips == LoadShiftTrips(read, dbTrip, d)
                          IN  {trips[i].id : i \in DOMAIN trips}
  <2>1. fails = {} /\ ~degraded
    BY <1>1, <1>9
  <2>2. ~Fails(ctx, "GetFrequenciesForTrip")
    BY <2>1 DEF Fails, Context
  <2>3. built.deviation = Deviation(ctx, trip, v, d, now)
    BY <2>2, DeviationOfStatus DEF built
  <2>4. ASSUME built.snapshot # Null
        PROVE  built.snapshot = ComputeScheduledBlockSnapshot(ctx, dbTrip, Zone, built.effective, d)
    <3>1. ctx = NoFailures
      BY <2>1 DEF NoFailures
    <3>2. \A k \in DOMAIN memo : memo[k] = ComputeScheduledBlockSnapshot(ctx, k[1], Zone, k[2], k[3])
      BY <2>1, <3>1 DEF MemoIsOwnSnapshot
    <3>3. built.snapshot = SnapshotOf(ctx, memo, dbTrip, Zone, built.effective, d)
      BY <1>9, <2>4, SnapshotOfStatus DEF built, dbTrip
    <3> HIDE DEF ctx
    <3>4. QED
      BY <3>2, <3>3 DEF SnapshotOf, CacheKey
  <2>5. ASSUME built.snapshot # Null
        PROVE  /\ LoadShiftTrips(ctx, dbTrip, d) # <<>>
               /\ built.snapshot.shift = LET trips == LoadShiftTrips(ctx, dbTrip, d)
                                         IN  {trips[i].id : i \in DOMAIN trips}
    <3> DEFINE snapshot == ComputeScheduledBlockSnapshot(ctx, dbTrip, Zone, built.effective, d)
    <3>1. built.snapshot = snapshot /\ snapshot # Null
      BY <2>4, <2>5
    <3> HIDE DEF ctx
    <3>2. LET trips == LoadShiftTrips(ctx, dbTrip, d)
          IN  trips # <<>> /\ snapshot.shift = {trips[i].id : i \in DOMAIN trips}
      BY <3>1, ShiftOfSnapshot
    <3> HIDE DEF snapshot
    <3>3. QED
      BY <3>1, <3>2
  <2> HIDE DEF ctx, read
  <2>6. QED
    BY <1>6, <2>1, <2>3, <2>5
<1>10. QED
  BY <1>1, <1>4, <1>5, <1>7, <1>8, <1>9 DEF StatusOwn

\* What a status was read from stands as long as the request is open: reports
\* published in the meantime leave it alone.
LEMMA StatusInvariant == Spec => []StatusInv
<1>1. Init => StatusInv
  <2>1. SnapshotTyped(NoRealtime)
    <3>1. <<>> \in Seq(Range(<<>>))
      OBVIOUS
    <3>2. QED
      BY <3>1 DEF SnapshotTyped, NoRealtime
  <2>2. QED
    BY <2>1, ClockAssumption DEF Init, StatusInv, ClockInv
<1>2. StatusInv /\ ClockInv' /\ MemoIsOwnSnapshot /\ [Next]_vars => StatusInv'
  <2> SUFFICES ASSUME StatusInv, ClockInv', MemoIsOwnSnapshot, [Next]_vars PROVE StatusInv'
    OBVIOUS
  <2>1. CASE Tick
    BY <2>1 DEF StatusInv, Tick
  <2>2. ASSUME feed' = feed, now' = now, status' = status, degraded' = degraded, status # Null
        PROVE  StatusOwn'
    <3>1. db' = db /\ TripIDs' = TripIDs
      BY <2>2 DEF db, TripIDs
    <3>2. Read' = Read
      BY <2>2, <3>1 DEF Read
    <3>3. TripRead' = TripRead
      BY <2>2, <3>2 DEF TripRead
    <3>4. StatusOwn
      BY <2>2 DEF StatusInv
    <3>5. QED
      BY <2>2, <3>1, <3>2, <3>3, <3>4 DEF StatusOwn
  <2>3. CASE PublishRealtime
    <3>1. PICK snapshot \in Realtimes \ {rt} : rt' = snapshot
      BY <2>3 DEF PublishRealtime
    <3>2. SnapshotTyped(snapshot)
      BY <3>1, RealtimeAssumption
    <3>3. UNCHANGED <<feed, now, rows, degraded, status>>
      BY <2>3 DEF PublishRealtime
    <3>4. status' # Null => StatusOwn'
      BY <2>2, <3>3
    <3>5. QED
      BY <3>1, <3>2, <3>3, <3>4 DEF StatusInv
  <2>4. ASSUME NEW trip \in TripIDs, NEW fails \in Failures, Describe(trip, fails)
        PROVE  StatusInv'
    <3>1. rows' = rows + 1 /\ rt' = rt
      BY <2>4 DEF Describe
    <3>2. StatusOwn'
      BY <2>4, DescribedOwn
    <3>3. QED
      BY <3>1, <3>2 DEF StatusInv
  <2>5. CASE Answer
    BY <2>5 DEF StatusInv, Answer
  <2>6. CASE UNCHANGED vars
    <3>1. status' # Null => StatusOwn'
      BY <2>2, <2>6 DEF vars
    <3>2. QED
      BY <2>6, <3>1 DEF StatusInv, vars
  <2>7. QED
    BY <2>1, <2>3, <2>4, <2>5, <2>6 DEF Next
<1>3. QED
  BY <1>1, <1>2, ClockInvariant, MemoServesEveryTrip, PTL DEF Spec

\* A trip is as late as the prediction that counts most says, of those for the
\* bus that runs it: without a delay for a whole trip, as the prediction nearest
\* to now (trip_updates_helper.go, GetScheduleDeviationForBlock), and never as
\* the bus of another shift of its block.
THEOREM DelaysReachTheirOwnShift == Spec => []DeviationOfRunningShift
<1>1. StatusInv => DeviationOfNearestPrediction
  <2> SUFFICES ASSUME StatusInv, status # Null PROVE DeviationOfNearestPrediction
    BY DEF DeviationOfNearestPrediction, Described
  <2> DEFINE trips == BlockShiftTripIDsSortedByStartTime(Read, TripRead, status.date)
  <2>1. /\ feed \in DOMAIN Feeds /\ now \in Int /\ status.date \in Int
        /\ \A u \in status.rt.updates : UpdateTyped(u)
    BY DEF StatusInv, StatusOwn, ClockInv, SnapshotTyped
  <2>2. Read.db = db /\ Read.rt = status.rt
    BY DEF Read
  <2>3. UpdatesRead = UpdatesOf(Read, trips)
    BY DEF UpdatesRead
  <2>4. \E n \in Nat : DOMAIN trips = 1..n
    BY <2>1, <2>2, ShiftIDsAre
  <2> HIDE DEF trips
  <2>5. UpdatesRead \in Seq(Read.rt.updates)
    BY <2>3, <2>4, UpdatesAre
  <2>6. \A u \in Read.rt.updates : UpdateTyped(u)
    BY <2>1, <2>2
  <2>7. AsNearest(Read, UpdatesRead, status.date, now)
    BY <2>1, <2>2, <2>5, <2>6, NearestDeviation
  <2>8. QED
    BY <2>7 DEF DeviationOfNearestPrediction, AsNearest
<1>2. StatusInv => DeviationOfOwnShift
  <2> SUFFICES ASSUME StatusInv, status # Null, status.is # Null, status.is.snapshot # Null,
                      BoundsKeepOrder, ~degraded
               PROVE  LET own == [Read EXCEPT !.rt.updates = {u \in @ : u.trip \in status.is.snapshot.shift}]
                      IN  StatusFrom(own, status.vehicle).deviation = status.is.deviation
    BY DEF DeviationOfOwnShift, Described
  <2> DEFINE own == [Read EXCEPT !.rt.updates = {u \in @ : u.trip \in status.is.snapshot.shift}]
             d == status.date
             v == status.vehicle
             loaded == LoadShiftTrips(Read, TripRead, d)
             trips == BlockShiftTripIDsSortedByStartTime(Read, TripRead, d)
  <2>1. /\ feed \in DOMAIN Feeds
        /\ status.trip \in TripIDs /\ SnapshotTyped(status.rt)
        /\ status.fails = {}
        /\ status.is.deviation = Deviation(Read, status.trip, v, d, now)
        /\ loaded # <<>> /\ status.is.snapshot.shift = {loaded[i].id : i \in DOMAIN loaded}
    BY DEF StatusInv, StatusOwn, ClockInv
  <2>2. Read.db = db /\ Read.fails = {} /\ Read.rt = status.rt
    BY <2>1 DEF Read
  <2>3. /\ own.db = db /\ own.fails = {}
        /\ own.rt.updates = {u \in status.rt.updates : u.trip \in status.is.snapshot.shift}
    BY <2>1 DEF Read, SnapshotTyped
  <2>4. NoFailures.db = db /\ NoFailures.fails = {}
    BY DEF NoFailures, Context
  <2>5. TripRead \in TripIDs
    BY <2>1, <2>2, StatusTripFound DEF TripRead
  <2>6. /\ BlockTripIDsForServiceDate(Read, TripRead, d) = BlockTripIDsForServiceDate(NoFailures, TripRead, d)
        /\ trips = BlockShiftTripIDsSortedByStartTime(NoFailures, TripRead, d)
        /\ loaded = LoadShiftTrips(NoFailures, TripRead, d)
    BY <2>2, <2>4, ReadFromTables
  <2>7. OrderKept(TripRead, d)
    BY <2>6 DEF OrderKept, BoundsKeepOrder
  <2> HIDE DEF own
  <2>8. \A i \in DOMAIN trips : trips[i] \in status.is.snapshot.shift
    <3>1. \A i \in DOMAIN trips : \E k \in DOMAIN loaded : trips[i] = loaded[k].id
      BY <2>1, <2>5, <2>6, <2>7, DelaysOfShift
    <3>2. QED
      BY <2>1, <3>1
  <2> HIDE DEF trips, loaded
  <2>9. \A i \in DOMAIN trips : GetTripUpdate(own, trips[i]) = GetTripUpdate(Read, trips[i])
    <3> SUFFICES ASSUME NEW i \in DOMAIN trips
                 PROVE  GetTripUpdate(own, trips[i]) = GetTripUpdate(Read, trips[i])
      OBVIOUS
    <3>1. {u \in own.rt.updates : u.trip = trips[i]} = {u \in Read.rt.updates : u.trip = trips[i]}
      BY <2>2, <2>3, <2>8
    <3>2. QED
      BY <3>1 DEF GetTripUpdate
  <2>10. own.db = Read.db /\ own.fails = Read.fails
    BY <2>2, <2>3
  <2>11. /\ GetScheduleDeviationForBlock(own, trips, Zone, d, now)
             = GetScheduleDeviationForBlock(Read, trips, Zone, d, now)
         /\ DBTrip(own, status.trip, v, now) = TripRead
         /\ DBTrip(Read, status.trip, v, now) = TripRead
         /\ BlockShiftTripIDsSortedByStartTime(own, TripRead, d) = trips
    <3>1. SameUpdates(own, Read, trips)
      BY <2>9 DEF SameUpdates
    <3>2. GetScheduleDeviationForBlock(own, trips, Zone, d, now)
            = GetScheduleDeviationForBlock(Read, trips, Zone, d, now)
      BY <2>10, <3>1, DelaysOfTrips
    <3>3. DBTrip(own, status.trip, v, now) = DBTrip(Read, status.trip, v, now)
      BY <2>10, TripFromTables
    <3>4. DBTrip(Read, status.trip, v, now) = TripRead
      BY DEF TripRead
    <3>5. BlockShiftTripIDsSortedByStartTime(own, TripRead, d) = trips
      BY <2>10, ReadFromTables DEF trips
    <3>6. QED
      BY <3>2, <3>3, <3>4, <3>5
  <2>12. Deviation(own, status.trip, v, d, now) = Deviation(Read, status.trip, v, d, now)
    BY <2>11 DEF Deviation, trips
  <2>13. StatusFrom(own, v).deviation = Deviation(own, status.trip, v, d, now)
    <3>1. ~Fails(own, "GetFrequenciesForTrip")
      BY <2>3 DEF Fails
    <3>2. QED
      BY <3>1, DeviationOfStatus DEF StatusFrom
  <2>14. QED
    BY <2>1, <2>12, <2>13 DEF own
<1>3. StatusInv => DeviationOfRunningShift
  BY <1>1, <1>2 DEF DeviationOfRunningShift
<1>4. QED
  BY <1>3, StatusInvariant, PTL
=============================================================================
