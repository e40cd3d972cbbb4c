-------------------------- MODULE RequestData_proofs --------------------------
(***************************************************************************)
(* What the proofs about all requests rest on: how rows are sorted, summed *)
(* and folded, what the tables of a feed hold, that a shift lies within    *)
(* its block and a prediction among those offered, and that the stops a    *)
(* status names are stops of the feed or named by the vehicle.             *)
(***************************************************************************)
EXTENDS RequestData, References, FiniteSetTheorems, SequenceTheorems, TLAPS

-----------------------------------------------------------------------------
(* Sorting. *)

\* A strict total order on S.
StrictOrderOn(S, R) ==
    /\ \A x, y \in S : x # y => <<x, y>> \in R \/ <<y, x>> \in R
    /\ \A x, y, z \in S : <<x, y>> \in R /\ <<y, z>> \in R => <<x, z>> \in R
    /\ \A x \in S : <<x, x>> \notin R

\* A finite set in a strict total order is enumerated by it, every member once.
LEMMA Enumerates ==
    ASSUME NEW S, IsFiniteSet(S), NEW R, StrictOrderOn(S, R)
    PROVE  /\ Cardinality(S) \in Nat
           /\ Enumeration(S, R) \in [1..Cardinality(S) -> S]
           /\ \A x \in S : \E i \in 1..Cardinality(S) : Enumeration(S, R)[i] = x
           /\ \A i, j \in 1..Cardinality(S) :
                 Enumeration(S, R)[i] = Enumeration(S, R)[j] => i = j
           /\ \A i, j \in 1..Cardinality(S) :
                 i < j => <<Enumeration(S, R)[i], Enumeration(S, R)[j]>> \in R
<1> DEFINE n == Cardinality(S)
           before(x) == {y \in S : <<y, x>> \in R}
           rank == [x \in S |-> Cardinality(before(x))]
           e == Enumeration(S, R)
<1>1. n \in Nat
  BY FS_CardinalityType
<1>2. \A x \in S : IsFiniteSet(before(x)) /\ rank[x] \in Nat /\ rank[x] <= n
  BY FS_Subset, FS_CardinalityType
<1>3. ASSUME NEW x \in S, NEW y \in S, <<x, y>> \in R
      PROVE  rank[x] < rank[y]
  <2>1. before(x) \subseteq before(y) /\ x \in before(y) /\ x \notin before(x)
    BY <1>3 DEF StrictOrderOn
  <2>2. rank[x] <= rank[y] /\ rank[x] # rank[y]
    BY <1>2, <2>1, FS_Subset
  <2>3. QED
    BY <1>2, <2>2
<1> HIDE DEF rank
<1>4. \A x \in S : rank[x] \in 0..n - 1
  <2> SUFFICES ASSUME NEW x \in S PROVE rank[x] \in 0..n - 1
    OBVIOUS
  <2>1. before(x) \in SUBSET S /\ x \notin before(x)
    BY DEF StrictOrderOn
  <2>2. rank[x] # n
    BY <2>1, FS_Subset DEF rank
  <2>3. \A k \in Nat : k <= n /\ k # n => k \in 0..n - 1
    BY <1>1
  <2>4. QED
    BY <1>2, <2>2, <2>3
<1>5. \A x, y \in S : rank[x] = rank[y] => x = y
  <2> SUFFICES ASSUME NEW x \in S, NEW y \in S, rank[x] = rank[y], x # y PROVE FALSE
    OBVIOUS
  <2>1. <<x, y>> \in R \/ <<y, x>> \in R
    BY DEF StrictOrderOn
  <2>2. rank[x] < rank[y] \/ rank[y] < rank[x]
    BY <1>3, <2>1
  <2>3. rank[x] \in Nat
    BY <1>2
  <2>4. \A k \in Nat : ~(k < k)
    OBVIOUS
  <2>5. QED
    BY <2>2, <2>3, <2>4
<1>6. rank \in Surjection(S, 0..n - 1)
  <2>1. rank \in Injection(S, 0..n - 1)
    BY <1>4, <1>5 DEF Injection, IsInjective, rank
  <2>2. IsFiniteSet(0..n - 1) /\ Cardinality(0..n - 1) = n
    BY <1>1, FS_Interval
  <2>3. QED
    BY <2>1, <2>2, FS_Injection
<1>7. ASSUME NEW i \in 1..n
      PROVE  e[i] \in S /\ rank[e[i]] = i - 1
  <2>1. i - 1 \in 0..n - 1
    BY <1>1
  <2>2. \E x \in S : rank[x] = i - 1
    BY <1>6, <2>1 DEF Surjection
  <2>3. e[i] = CHOOSE x \in S : rank[x] = i - 1
    BY DEF rank, Enumeration
  <2>4. QED
    BY <2>2, <2>3
<1>8. e \in [1..n -> S]
  BY <1>7 DEF Enumeration
<1>9. ASSUME NEW x \in S
      PROVE  \E i \in 1..n : e[i] = x
  <2>1. rank[x] + 1 \in 1..n /\ (rank[x] + 1) - 1 = rank[x]
    BY <1>1, <1>4
  <2>2. rank[e[rank[x] + 1]] = rank[x]
    BY <1>7, <2>1
  <2>3. QED
    BY <1>5, <1>7, <2>1, <2>2
<1>10. ASSUME NEW i \in 1..n, NEW j \in 1..n, e[i] = e[j]
       PROVE  i = j
  BY <1>1, <1>7, <1>10
<1>11. ASSUME NEW i \in 1..n, NEW j \in 1..n, i < j
       PROVE  <<e[i], e[j]>> \in R
  <2>1. e[i] \in S /\ e[j] \in S /\ e[i] # e[j]
    BY <1>7, <1>10, <1>11
  <2>2. CASE <<e[j], e[i]>> \in R
    <3>1. rank[e[j]] < rank[e[i]]
      BY <1>3, <2>1, <2>2
    <3>2. j - 1 < i - 1
      BY <1>7, <3>1
    <3>3. QED
      BY <1>1, <1>11, <3>2
  <2>3. QED
    BY <2>1, <2>2 DEF StrictOrderOn
<1>12. QED
  BY <1>1, <1>8, <1>9, <1>10, <1>11

\* The least and the greatest of finitely many numbers.
LEMMA Extremes ==
    ASSUME NEW S \in SUBSET Int, IsFiniteSet(S), S # {}
    PROVE  /\ Min(S) \in S /\ \A x \in S : Min(S) <= x
           /\ Max(S) \in S /\ \A x \in S : x <= Max(S)
<1> DEFINE R == {p \in S \X S : p[1] < p[2]}
           e == Enumeration(S, R)
           n == Cardinality(S)
<1>1. \A x, y \in S : <<x, y>> \in R <=> x < y
  OBVIOUS
<1> HIDE DEF R
<1>2. StrictOrderOn(S, R)
  BY <1>1 DEF StrictOrderOn
<1>3. /\ n \in Nat
      /\ e \in [1..n -> S]
      /\ \A x \in S : \E i \in 1..n : e[i] = x
      /\ \A i, j \in 1..n : i < j => <<e[i], e[j]>> \in R
  BY <1>2, Enumerates
<1> HIDE DEF e, n
<1>4. 1 \in 1..n /\ n \in 1..n
  <2>1. PICK x \in S, i \in 1..n : e[i] = x
    BY <1>3
  <2>2. 1 <= n
    BY <1>3, <2>1
  <2>3. QED
    BY <1>3, <2>2
<1>5. \A x \in S : e[1] <= x /\ x <= e[n]
  <2> SUFFICES ASSUME NEW x \in S PROVE e[1] <= x /\ x <= e[n]
    OBVIOUS
  <2>1. PICK i \in 1..n : e[i] = x
    BY <1>3
  <2>2. e[1] \in S /\ e[n] \in S
    BY <1>3, <1>4
  <2>3. (i = 1 \/ 1 < i) /\ (i = n \/ i < n)
    BY <1>3
  <2>4. i = 1 \/ <<e[1], x>> \in R
    BY <1>3, <1>4, <2>1, <2>3
  <2>5. i = n \/ <<x, e[n]>> \in R
    BY <1>3, <1>4, <2>1, <2>3
  <2>6. (e[1] = x \/ e[1] < x) /\ (e[n] = x \/ x < e[n])
    BY <1>1, <2>1, <2>2, <2>4, <2>5
  <2>7. e[1] \in Int /\ e[n] \in Int /\ x \in Int
    BY <2>2
  <2>8. QED
    BY <2>6, <2>7
<1>6. e[1] \in S /\ e[n] \in S
  BY <1>3, <1>4
<1>7. QED
  BY <1>5, <1>6 DEF Min, Max

\* The stop times of a trip, in the order of their sequence numbers.
LEMMA SequenceOrders ==
    ASSUME NEW visits, IsFiniteSet(visits), \A st \in visits : st.seq \in Int,
           \A a, b \in visits : a.seq = b.seq => a = b
    PROVE  /\ Cardinality(visits) \in Nat
           /\ BySequence(visits) \in [1..Cardinality(visits) -> visits]
           /\ \A x \in visits : \E i \in 1..Cardinality(visits) : BySequence(visits)[i] = x
           /\ \A i, j \in 1..Cardinality(visits) : BySequence(visits)[i] = BySequence(visits)[j] => i = j
<1> DEFINE R == {p \in visits \X visits : p[1].seq < p[2].seq}
<1>1. \A x, y \in visits : <<x, y>> \in R <=> x.seq < y.seq
  OBVIOUS
<1>2. BySequence(visits) = Enumeration(visits, R)
  BY DEF BySequence, SortedBy
<1> HIDE DEF R
<1>3. StrictOrderOn(visits, R)
  BY <1>1 DEF StrictOrderOn
<1>4. QED
  BY <1>2, <1>3, Enumerates

\* The trips of a block, in the order of their first stop times.
LEMMA FirstOrders ==
    ASSUME NEW trips, IsFiniteSet(trips),
           \A t \in trips : t.first \in Int /\ t.id \in Int,
           \A a, b \in trips : a.id = b.id => a = b
    PROVE  /\ Cardinality(trips) \in Nat
           /\ ByFirst(trips) \in [1..Cardinality(trips) -> trips]
           /\ \A i, j \in 1..Cardinality(trips) : ByFirst(trips)[i] = ByFirst(trips)[j] => i = j
           /\ \A t \in trips : \E i \in 1..Cardinality(trips) : ByFirst(trips)[i] = t
           /\ \A i, j \in 1..Cardinality(trips) : i < j =>
                 \/ ByFirst(trips)[i].first < ByFirst(trips)[j].first
                 \/ /\ ByFirst(trips)[i].first = ByFirst(trips)[j].first
                    /\ ByFirst(trips)[i].id < ByFirst(trips)[j].id
<1> DEFINE R == {p \in trips \X trips :
                   p[1].first < p[2].first \/ (p[1].first = p[2].first /\ p[1].id < p[2].id)}
<1>1. \A x, y \in trips : <<x, y>> \in R <=> x.first < y.first \/ (x.first = y.first /\ x.id < y.id)
  OBVIOUS
<1>2. ByFirst(trips) = Enumeration(trips, R)
  BY DEF ByFirst, SortedBy
<1> HIDE DEF R
<1>3. StrictOrderOn(trips, R)
  BY <1>1 DEF StrictOrderOn
<1>4. /\ Cardinality(trips) \in Nat
      /\ ByFirst(trips) \in [1..Cardinality(trips) -> trips]
      /\ \A i, j \in 1..Cardinality(trips) : ByFirst(trips)[i] = ByFirst(trips)[j] => i = j
      /\ \A t \in trips : \E i \in 1..Cardinality(trips) : ByFirst(trips)[i] = t
      /\ \A i, j \in 1..Cardinality(trips) : i < j => <<ByFirst(trips)[i], ByFirst(trips)[j]>> \in R
  BY <1>2, <1>3, Enumerates
<1>5. \A i \in 1..Cardinality(trips) : ByFirst(trips)[i] \in trips
  BY <1>4
<1>6. QED
  BY <1>1, <1>4, <1>5

-----------------------------------------------------------------------------
(* The tables. *)

\* What the schema and the import keep out of the tables.
LEMMA TablesImported ==
    ASSUME feed \in DOMAIN Feeds
    PROVE  /\ ColumnsTyped(db) /\ ConstraintsHold(db)
           /\ \A a, b \in db.trips : a.id = b.id => a = b
           /\ \A a, b \in db.routes : a.id = b.id => a = b
           /\ \A a, b \in db.agencies : a.id = b.id => a = b
           /\ \A a, b \in db.calendar : a.id = b.id => a = b
           /\ \A a, b \in db.stopTimes : a.trip = b.trip /\ a.seq = b.seq => a = b
           /\ \A a, b \in db.calendarDates : a.service = b.service /\ a.date = b.date => a = b
<1>1. db = Rows(Feeds[feed])
  BY DEF db, Databases
<1>2. ColumnsTyped(db) /\ KeysUnique(db) /\ ConstraintsHold(db)
  BY <1>1, FeedsImportable DEF Importable
<1>3. QED
  BY <1>2 DEF KeysUnique

\* The rows of a calendar's exceptions add a date or remove it.
LEMMA ExceptionTypes ==
    ASSUME feed \in DOMAIN Feeds, NEW row \in db.calendarDates
    PROVE  row.type \in {1, 2}
<1> DEFINE services == Feeds[feed].services
<1>1. db.calendarDates = UNION {CalendarDateRows(s) : s \in services}
  BY DEF db, Databases, Rows
<1>2. PICK s \in services : row \in CalendarDateRows(s)
  BY <1>1
<1>3. QED
  BY <1>2 DEF CalendarDateRows

\* A row of the trips is found by its key.
LEMMA TripFound ==
    ASSUME feed \in DOMAIN Feeds, NEW t \in db.trips
    PROVE  GetTrip(db, t.id) = t
<1>1. t \in {u \in db.trips : u.id = t.id}
  OBVIOUS
<1>2. \A u \in {v \in db.trips : v.id = t.id} : u = t
  BY TablesImported
<1>3. QED
  BY <1>1, <1>2 DEF GetTrip, OneRow

\* A stop time belongs to a trip that was stored.
LEMMA TripOfVisit ==
    ASSUME feed \in DOMAIN Feeds, NEW st \in db.stopTimes
    PROVE  \E t \in db.trips : t.id = st.trip
<1> DEFINE trips == ValidTrips(Feeds[feed])
<1>1. db.stopTimes = UNION {StopTimeRows(t) : t \in trips} /\ db.trips = {TripRow(t) : t \in trips}
  BY DEF db, Databases, Rows
<1> HIDE DEF trips
<1>2. PICK t \in trips : st \in StopTimeRows(t)
  BY <1>1
<1>3. st.trip = t.id
  BY <1>2 DEF StopTimeRows
<1>4. TripRow(t) \in db.trips /\ TripRow(t).id = t.id
  BY <1>1 DEF TripRow
<1>5. QED
  BY <1>3, <1>4

\* The question asked for one service has the answer it has for all of them.
LEMMA ServiceInAnswer ==
    ASSUME feed \in DOMAIN Feeds, NEW s, NEW d
    PROVE  IsServiceActiveOnDate(db, s, d) <=> s \in GetActiveServiceIDsForDate(db, d)
<1> DEFINE exceptions == {cd \in db.calendarDates : cd.service = s /\ cd.date = d}
           calendar == OneRow({c \in db.calendar : c.id = s})
           typed(type) == {cd.service : cd \in {x \in db.calendarDates : x.date = d /\ x.type = type}}
<1>1. GetActiveServiceIDsForDate(db, d) = (ServicesByWeekday(db, d) \ typed(2)) \cup typed(1)
  BY DEF GetActiveServiceIDsForDate
<1>2. \A type : s \in typed(type) <=> \E x \in exceptions : x.type = type
  OBVIOUS
<1>3. CASE exceptions # {}
  <2>1. PICK x \in exceptions : OneRow(exceptions) = x
    BY <1>3 DEF OneRow
  <2>2. \A y \in exceptions : y = x
    BY TablesImported
  <2>3. IsServiceActiveOnDate(db, s, d) <=> x.type = 1
    BY <1>3, <2>1 DEF IsServiceActiveOnDate
  <2>4. x.type \in {1, 2}
    BY ExceptionTypes
  <2>5. s \in typed(1) <=> x.type = 1
    BY <1>2, <2>2
  <2>6. s \in typed(2) <=> x.type = 2
    BY <1>2, <2>2
  <2> HIDE DEF typed
  <2>7. QED
    BY <1>1, <2>3, <2>4, <2>5, <2>6
<1>4. CASE exceptions = {}
  <2>1. IsServiceActiveOnDate(db, s, d) <=>
            /\ calendar # Null
            /\ InRange(d, calendar.start, calendar.end)
            /\ d % 7 \in calendar.weekdays
    BY <1>4 DEF IsServiceActiveOnDate
  <2>2. s \in GetActiveServiceIDsForDate(db, d) <=> s \in ServicesByWeekday(db, d)
    BY <1>1, <1>2, <1>4
  <2>3. s \in ServicesByWeekday(db, d) <=>
            \E c \in db.calendar : c.id = s /\ InRange(d, c.start, c.end) /\ d % 7 \in c.weekdays
    BY DEF ServicesByWeekday
  <2>4. ASSUME NEW c \in db.calendar, c.id = s PROVE calendar = c
    <3>1. {x \in db.calendar : x.id = s} = {c}
      BY <2>4, TablesImported
    <3>2. QED
      BY <3>1 DEF OneRow
  <2>5. calendar # Null => calendar \in db.calendar /\ calendar.id = s
    BY DEF OneRow
  <2>6. \A c \in db.calendar : c # Null
    BY TablesImported DEF ColumnsTyped
  <2> HIDE DEF calendar
  <2>7. QED
    BY <2>1, <2>2, <2>3, <2>4, <2>5, <2>6
<1>5. QED
  BY <1>3, <1>4

\* Instants and dates are numbers.
LEMMA ClocksAreNumbers ==
    ASSUME NEW zone \in Clocks
    PROVE  /\ \A t \in Int : DateOf(zone, t) \in Int /\ FromInstant(zone, t) \in Int
           /\ \A d \in Int : Start(zone, d) \in Int
<1>1. \A w \in Int : InstantOf(zone, w) \in Int
  BY DEF Clocks, InstantOf
<1>2. \A d \in Int : d * Day + Day \div 2 \in Int /\ Day \div 2 \in Int
  BY DayAssumption
<1>3. \A d \in Int : Start(zone, d) \in Int
  BY <1>1, <1>2 DEF Start
<1>4. \A t \in Int : WallAt(zone, t) \in Int
  BY DEF Clocks, WallAt, OffsetAt
<1>5. \A t \in Int : DateOf(zone, t) \in Int
  BY <1>4, DayAssumption DEF DateOf
<1>6. \A t \in Int : FromInstant(zone, t) \in Int
  BY <1>5 DEF FromInstant
<1>7. QED
  BY <1>3, <1>5, <1>6

\* What the clocks of a zone show is a number.
LEMMA SecondsAre ==
    ASSUME NEW zone \in Clocks, NEW t \in Int, NEW d \in Int
    PROVE  SecondsSince(zone, t, d) \in Int
<1>1. WallAt(zone, t) \in Int
  BY DEF Clocks, WallAt, OffsetAt
<1>2. d * Day \in Int
  BY DayAssumption
<1>3. QED
  BY <1>1, <1>2 DEF SecondsSince

\* A stop of the tables is found by its ID.
LEMMA StopFound ==
    ASSUME feed \in DOMAIN Feeds, NEW id
    PROVE  /\ GetStop(db, id) # Null => GetStop(db, id) \in db.stops /\ GetStop(db, id).id = id
           /\ (\E s \in db.stops : s.id = id) => GetStop(db, id) # Null
<1>1. \A s \in db.stops : s # Null
  BY TablesImported DEF ColumnsTyped
<1>2. QED
  BY <1>1 DEF GetStop, OneRow

\* A row that is not Null.
LEMMA OneOf ==
    ASSUME NEW rows
    PROVE  OneRow(rows) # Null => OneRow(rows) \in rows
BY DEF OneRow

\* The visits of a trip, as stored, in the order of their sequence numbers.
LEMMA VisitsAre ==
    ASSUME feed \in DOMAIN Feeds, NEW trip
    PROVE  GetStopTimesForTrip(db, trip) \in Seq(db.stopTimes)
<1> DEFINE visits == StopTimesOf(db, {trip})
<1>1. visits \subseteq db.stopTimes /\ \A st \in visits : st.trip = trip
  BY DEF StopTimesOf
<1>2. /\ IsFiniteSet(db.stopTimes)
      /\ \A st \in db.stopTimes : st.seq \in Int
      /\ \A a, b \in db.stopTimes : a.trip = b.trip /\ a.seq = b.seq => a = b
  BY TablesImported DEF ColumnsTyped
<1>3. IsFiniteSet(visits)
  BY <1>1, <1>2, FS_Subset
<1>4. (\A st \in visits : st.seq \in Int) /\ \A a, b \in visits : a.seq = b.seq => a = b
  BY <1>1, <1>2
<1> HIDE DEF visits
<1>5. Cardinality(visits) \in Nat /\ BySequence(visits) \in [1..Cardinality(visits) -> visits]
  BY <1>3, <1>4, SequenceOrders
<1>6. GetStopTimesForTrip(db, trip) = BySequence(visits)
  BY DEF GetStopTimesForTrip, visits
<1>7. BySequence(visits) \in [1..Cardinality(visits) -> db.stopTimes]
  BY <1>1, <1>5
<1>8. QED
  BY <1>5, <1>6, <1>7

-----------------------------------------------------------------------------
(* Sums, and sequences joined and folded. *)

\* The first numbers are finitely many.
LEMMA CountFinite == \A k \in Nat : IsFiniteSet(0..k) /\ IsFiniteSet(1..k)
<1> SUFFICES ASSUME NEW k \in Nat PROVE IsFiniteSet(0..k) /\ IsFiniteSet(1..k)
  OBVIOUS
<1>1. 0 \in Int /\ 1 \in Int /\ k \in Int
  OBVIOUS
<1>2. QED
  BY <1>1, FS_Interval, SMTT(30)

\* The first member that is something.
LEMMA FirstFoundIs ==
    ASSUME NEW n \in Nat, NEW T, NEW s \in [1..n -> T]
    PROVE  /\ FirstFound(s) # Null => \E i \in 1..n : FirstFound(s) = s[i]
           /\ (\E i \in 1..n : s[i] # Null) => FirstFound(s) # Null
<1> DEFINE found == {i \in 1..n : s[i] # Null}
<1>1. FirstFound(s) = IF found = {} THEN Null ELSE s[Min(found)]
  BY DEF FirstFound
<1>2. IsFiniteSet(found) /\ found \in SUBSET Int
  BY FS_Interval, FS_Subset
<1>3. found # {} => Min(found) \in found
  BY <1>2, Extremes
<1>4. QED
  BY <1>1, <1>3

\* The sums of a sequence, as far as m.
SumsTo(f, m, steps) ==
    f = [i \in 1..m |-> IF i = 1 THEN 0 ELSE f[i - 1] + steps[i - 1]]

\* A sequence of any length has its sums: with those of the sequence without
\* its last member, one can be added.
LEMMA SumsExist ==
    ASSUME NEW n \in Nat, NEW steps
    PROVE  \E f : SumsTo(f, n, steps)
<1> DEFINE missing == {m \in 0..n : ~\E f : SumsTo(f, m, steps)}
<1>1. SUFFICES ASSUME missing # {} PROVE FALSE
  OBVIOUS
<1>2. IsFiniteSet(missing) /\ missing \in SUBSET Int
  <2>1. missing \in SUBSET (0..n)
    OBVIOUS
  <2> HIDE DEF missing
  <2>2. IsFiniteSet(0..n)
    BY CountFinite
  <2>3. IsFiniteSet(missing)
    BY <2>1, <2>2, FS_Subset
  <2>4. missing \in SUBSET Int
    BY <2>1
  <2>5. QED
    BY <2>3, <2>4
<1>3. Min(missing) \in missing /\ \A x \in missing : Min(missing) <= x
  BY <1>1, <1>2, Extremes
<1>4. PICK m : m = Min(missing)
  OBVIOUS
<1>5. m \in 0..n /\ (~\E f : SumsTo(f, m, steps)) /\ \A x \in missing : m <= x
  BY <1>3, <1>4
<1>6. m # 0
  <2>1. SumsTo([i \in 1..0 |-> 0], 0, steps)
    BY DEF SumsTo
  <2>2. QED
    BY <1>5, <2>1
<1>7. m - 1 \in 0..n /\ m - 1 \notin missing
  BY <1>5, <1>6
<1>8. PICK f : SumsTo(f, m - 1, steps)
  BY <1>7
<1> DEFINE next == IF m = 1 THEN 0 ELSE f[m - 1] + steps[m - 1]
           g == [i \in 1..m |-> IF i = m THEN next ELSE f[i]]
<1>9. \A i \in 1..m : g[i] = IF i = 1 THEN 0 ELSE g[i - 1] + steps[i - 1]
  <2> SUFFICES ASSUME NEW i \in 1..m PROVE g[i] = IF i = 1 THEN 0 ELSE g[i - 1] + steps[i - 1]
    OBVIOUS
  <2>1. i # 1 => i - 1 \in 1..m /\ i - 1 # m /\ g[i - 1] = f[i - 1]
    BY <1>5
  <2>2. CASE i = m
    BY <2>1, <2>2, <1>5
  <2>3. CASE i # m
    <3>1. i \in 1..m - 1
      BY <1>5, <2>3
    <3>2. f[i] = IF i = 1 THEN 0 ELSE f[i - 1] + steps[i - 1]
      BY <1>8, <3>1 DEF SumsTo
    <3>3. QED
      BY <2>1, <2>3, <3>2
  <2>4. QED
    BY <2>2, <2>3
<1>10. SumsTo(g, m, steps)
  <2>1. [i \in 1..m |-> IF i = 1 THEN 0 ELSE g[i - 1] + steps[i - 1]] = [i \in 1..m |-> g[i]]
    BY <1>9
  <2>2. g = [i \in 1..m |-> g[i]]
    OBVIOUS
  <2>3. QED
    BY <2>1, <2>2 DEF SumsTo
<1>11. QED
  BY <1>5, <1>10

\* The first m of some sequences, one after the other.
JoinedTo(f, m, ss) ==
    f = [i \in 1..m |-> IF i = 1 THEN ss[i] ELSE f[i - 1] \o ss[i]]

\* Sequences can be put one after the other, and give no new member.
LEMMA JoinExists ==
    ASSUME NEW n \in Nat, NEW T, NEW ss \in [1..n -> Seq(T)]
    PROVE  \E f \in [1..n -> Seq(T)] : JoinedTo(f, n, ss)
<1> DEFINE Joins(m) == \E f \in [1..m -> Seq(T)] : JoinedTo(f, m, ss)
           missing == {m \in 0..n : ~Joins(m)}
<1>1. SUFFICES ASSUME missing # {} PROVE FALSE
  OBVIOUS
<1> HIDE DEF Joins
<1>2. IsFiniteSet(missing) /\ missing \in SUBSET Int
  <2>1. missing \in SUBSET (0..n)
    OBVIOUS
  <2> HIDE DEF missing
  <2>2. IsFiniteSet(0..n)
    BY CountFinite
  <2>3. IsFiniteSet(missing)
    BY <2>1, <2>2, FS_Subset
  <2>4. missing \in SUBSET Int
    BY <2>1
  <2>5. QED
    BY <2>3, <2>4
<1>3. Min(missing) \in missing /\ \A x \in missing : Min(missing) <= x
  BY <1>1, <1>2, Extremes
<1>4. PICK m : m = Min(missing)
  OBVIOUS
<1>5. m \in 0..n /\ ~Joins(m) /\ \A x \in missing : m <= x
  BY <1>3, <1>4
<1>6. m # 0
  <2> DEFINE none == [i \in 1..0 |-> <<>>]
  <2>1. none \in [1..0 -> Seq(T)]
    OBVIOUS
  <2>2. JoinedTo(none, 0, ss)
    BY DEF JoinedTo
  <2>3. QED
    BY <1>5, <2>1, <2>2 DEF Joins
<1>7. m - 1 \in 0..n /\ m - 1 \notin missing
  BY <1>5, <1>6
<1>8. PICK f \in [1..m - 1 -> Seq(T)] : JoinedTo(f, m - 1, ss)
  BY <1>7 DEF Joins
<1> DEFINE next == IF m = 1 THEN ss[m] ELSE f[m - 1] \o ss[m]
           g == [i \in 1..m |-> IF i = m THEN next ELSE f[i]]
<1>9. g \in [1..m -> Seq(T)]
  <2>1. m \in 1..n /\ ss[m] \in Seq(T)
    BY <1>5, <1>6
  <2>2. m # 1 => m - 1 \in 1..m - 1 /\ f[m - 1] \in Seq(T)
    BY <1>5, <1>6
  <2>3. m # 1 => f[m - 1] \o ss[m] \in Seq(T)
    BY <2>1, <2>2, ConcatProperties
  <2>4. next \in Seq(T)
    BY <2>1, <2>3
  <2>5. \A i \in 1..m : i # m => i \in 1..m - 1 /\ f[i] \in Seq(T)
    BY <2>1
  <2> HIDE DEF next
  <2>6. QED
    BY <2>4, <2>5
<1>10. \A i \in 1..m : g[i] = IF i = 1 THEN ss[i] ELSE g[i - 1] \o ss[i]
  <2> SUFFICES ASSUME NEW i \in 1..m PROVE g[i] = IF i = 1 THEN ss[i] ELSE g[i - 1] \o ss[i]
    OBVIOUS
  <2>1. i # 1 => i - 1 \in 1..m /\ i - 1 # m /\ g[i - 1] = f[i - 1]
    BY <1>5
  <2>2. CASE i = m
    BY <2>1, <2>2, <1>5
  <2>3. CASE i # m
    <3>1. i \in 1..m - 1
      BY <1>5, <2>3
    <3>2. f[i] = IF i = 1 THEN ss[i] ELSE f[i - 1] \o ss[i]
      BY <1>8, <3>1 DEF JoinedTo
    <3>3. QED
      BY <2>1, <2>3, <3>2
  <2>4. QED
    BY <2>2, <2>3
<1>11. JoinedTo(g, m, ss)
  <2> HIDE DEF g
  <2>1. [i \in 1..m |-> IF i = 1 THEN ss[i] ELSE g[i - 1] \o ss[i]] = [i \in 1..m |-> g[i]]
    BY <1>10
  <2>2. g = [i \in 1..m |-> g[i]]
    BY <1>9
  <2>3. QED
    BY <2>1, <2>2 DEF JoinedTo
<1>12. QED
  BY <1>5, <1>9, <1>11 DEF Joins

\* What lies in sequences lies in their join.
LEMMA Flattened ==
    ASSUME NEW n \in Nat, NEW T, NEW ss \in [1..n -> Seq(T)]
    PROVE  FlattenSeq(ss) \in Seq(T)
<1> DEFINE join == CHOOSE f : JoinedTo(f, n, ss)
<1>1. ss \in Seq(Seq(T)) /\ Len(ss) = n
  BY LenProperties
<1>2. CASE n = 0
  BY <1>1, <1>2 DEF FlattenSeq
<1>3. CASE n # 0
  <2>1. FlattenSeq(ss) = join[n]
    BY <1>1, <1>3 DEF FlattenSeq, JoinedTo
  <2>2. PICK f \in [1..n -> Seq(T)] : JoinedTo(f, n, ss)
    BY JoinExists
  <2>3. JoinedTo(join, n, ss)
    BY <2>2
  <2> HIDE DEF join
  <2>4. ASSUME NEW i \in 1..n, \A j \in 1..i - 1 : join[j] \in Seq(T)
        PROVE  join[i] \in Seq(T)
    <3>1. join[i] = IF i = 1 THEN ss[i] ELSE join[i - 1] \o ss[i]
      BY <2>3 DEF JoinedTo
    <3>2. i # 1 => i - 1 \in 1..i - 1
      OBVIOUS
    <3>3. QED
      BY <2>4, <3>1, <3>2, ConcatProperties
  <2> DEFINE strange == {i \in 1..n : join[i] \notin Seq(T)}
  <2>5. IsFiniteSet(strange) /\ strange \in SUBSET Int
    BY FS_Interval, FS_Subset
  <2>6. CASE strange = {}
    <3>1. n \in 1..n
      BY <1>3
    <3>2. join[n] \in Seq(T)
      BY <2>6, <3>1
    <3>3. QED
      BY <2>1, <3>2
  <2>7. CASE strange # {}
    <3>1. Min(strange) \in strange /\ \A x \in strange : Min(strange) <= x
      BY <2>5, <2>7, Extremes
    <3>2. PICK i : i = Min(strange)
      OBVIOUS
    <3>3. i \in 1..n /\ join[i] \notin Seq(T) /\ \A x \in strange : i <= x
      BY <3>1, <3>2
    <3>4. \A j \in 1..i - 1 : j \in 1..n /\ ~(i <= j)
      BY <3>3
    <3>5. \A j \in 1..i - 1 : join[j] \in Seq(T)
      BY <3>3, <3>4
    <3>6. QED
      BY <2>4, <3>3, <3>5
  <2>8. QED
    BY <2>6, <2>7
<1>4. QED
  BY <1>2, <1>3

\* What holds at 0, and at the next number wherever it holds, holds up to n.
LEMMA CountingUp ==
    ASSUME NEW n \in Nat, NEW S, 0 \in S, \A m \in 0..n - 1 : m \in S => m + 1 \in S
    PROVE  \A m \in 0..n : m \in S
<1> DEFINE missing == {m \in 0..n : m \notin S}
<1>1. SUFFICES ASSUME missing # {} PROVE FALSE
  OBVIOUS
<1>2. missing \in SUBSET (0..n) /\ missing \in SUBSET Int
  OBVIOUS
<1>3. \A m \in missing : m \notin S
  OBVIOUS
<1>4. \A m \in 0..n : m \in S \/ m \in missing
  OBVIOUS
<1> HIDE DEF missing
<1>5. IsFiniteSet(missing)
  BY <1>2, CountFinite, FS_Subset
<1>6. PICK m : m = Min(missing)
  OBVIOUS
<1>7. m \in missing /\ \A x \in missing : m <= x
  BY <1>1, <1>2, <1>5, <1>6, Extremes
<1>8. m \in 0..n /\ m \notin S /\ m # 0
  BY <1>2, <1>3, <1>7
<1>9. m - 1 \in 0..n - 1 /\ m - 1 \in 0..n /\ ~(m <= m - 1)
  BY <1>8
<1>10. m - 1 \in S
  BY <1>4, <1>7, <1>9
<1>11. (m - 1) + 1 = m
  BY <1>8
<1>12. QED
  BY <1>8, <1>9, <1>10, <1>11

\* The greatest of some places.
LEMMA LastPlace ==
    ASSUME NEW m \in Nat, NEW s \in SUBSET (1..m), s # {}
    PROVE  /\ Max(s) \in s /\ \A x \in s : x <= Max(s)
           /\ m \in s => Max(s) = m
<1>1. IsFiniteSet(s)
  BY CountFinite, FS_Subset
<1>2. s \in SUBSET Int
  OBVIOUS
<1>3. Max(s) \in s /\ \A x \in s : x <= Max(s)
  BY <1>1, <1>2, Extremes
<1>4. Max(s) \in 1..m
  BY <1>3
<1>5. m \in s => m <= Max(s)
  BY <1>3
<1>6. QED
  BY <1>3, <1>4, <1>5

\* The first numbers end in the last of them.
LEMMA LastOfPrefix ==
    ASSUME NEW k \in Nat, k # 0
    PROVE  Max(1..k) = k /\ 1..k # {} /\ (1..k) \ {k} = 1..k - 1
<1>1. 1..k \in SUBSET (1..k) /\ k \in 1..k /\ 1..k # {}
  OBVIOUS
<1>2. Max(1..k) = k
  BY <1>1, LastPlace
<1>3. (1..k) \ {k} = 1..k - 1
  OBVIOUS
<1>4. QED
  BY <1>1, <1>2, <1>3

\* A fold from the left, for every set of places of the sequence e.
FoldsTo(iter, m, base, op, e) ==
    iter = [s \in SUBSET (1..m) |->
              IF s = {} THEN base ELSE op[<<iter[s \ {Max(s)}], e[Max(s)]>>]]

\* There is such a fold for every sequence.
LEMMA FoldExists ==
    ASSUME NEW B, NEW E, NEW base \in B, NEW op \in [B \X E -> B], NEW n \in Nat, NEW e \in [1..n -> E]
    PROVE  \E iter \in [SUBSET (1..n) -> B] : FoldsTo(iter, n, base, op, e)
<1> DEFINE Folds(m) == \E iter \in [SUBSET (1..m) -> B] : FoldsTo(iter, m, base, op, e)
           S == {m \in Nat : Folds(m)}
<1>1. 0 \in S
  <2> DEFINE iter == [s \in SUBSET (1..0) |-> base]
  <2>1. \A s \in SUBSET (1..0) : s = {}
    OBVIOUS
  <2>2. iter = [s \in SUBSET (1..0) |->
                  IF s = {} THEN base ELSE op[<<iter[s \ {Max(s)}], e[Max(s)]>>]]
    BY <2>1
  <2>3. FoldsTo(iter, 0, base, op, e) /\ iter \in [SUBSET (1..0) -> B]
    BY <2>2 DEF FoldsTo
  <2>4. QED
    BY <2>3
<1>2. ASSUME NEW m \in 0..n - 1, m \in S PROVE m + 1 \in S
  <2>1. PICK f \in [SUBSET (1..m) -> B] : FoldsTo(f, m, base, op, e)
    BY <1>2
  <2> DEFINE step(s) == op[<<f[s \ {m + 1}], e[m + 1]>>]
             g == [s \in SUBSET (1..m + 1) |-> IF m + 1 \in s THEN step(s) ELSE f[s]]
  <2>2. m \in Nat /\ m + 1 \in Nat /\ m + 1 \in 1..n
    OBVIOUS
  <2>3. \A s \in SUBSET (1..m + 1) : s \ {m + 1} \in SUBSET (1..m)
    BY <2>2
  <2>4. \A s \in SUBSET (1..m + 1) : m + 1 \notin s => s \in SUBSET (1..m)
    BY <2>3
  <2>5. \A s \in SUBSET (1..m + 1) : step(s) \in B
    <3> SUFFICES ASSUME NEW s \in SUBSET (1..m + 1) PROVE step(s) \in B
      OBVIOUS
    <3>1. f[s \ {m + 1}] \in B
      BY <2>3
    <3>2. e[m + 1] \in E
      BY <2>2
    <3>3. QED
      BY <3>1, <3>2
  <2>6. g \in [SUBSET (1..m + 1) -> B]
    BY <2>4, <2>5
  <2>7. ASSUME NEW s \in SUBSET (1..m + 1)
        PROVE  g[s] = IF s = {} THEN base ELSE op[<<g[s \ {Max(s)}], e[Max(s)]>>]
    <3>1. CASE m + 1 \in s
      <4>1. Max(s) = m + 1 /\ s # {}
        BY <2>2, <3>1, LastPlace
      <4>2. s \ {m + 1} \in SUBSET (1..m + 1) /\ m + 1 \notin s \ {m + 1}
        OBVIOUS
      <4>3. g[s \ {m + 1}] = f[s \ {m + 1}]
        BY <4>2
      <4>4. QED
        BY <3>1, <4>1, <4>3
    <3>2. CASE m + 1 \notin s
      <4>1. s \in SUBSET (1..m) /\ g[s] = f[s]
        BY <2>4, <3>2
      <4>2. f[s] = IF s = {} THEN base ELSE op[<<f[s \ {Max(s)}], e[Max(s)]>>]
        BY <2>1, <4>1 DEF FoldsTo
      <4>3. s \ {Max(s)} \in SUBSET (1..m + 1) /\ m + 1 \notin s \ {Max(s)}
        BY <3>2
      <4>4. g[s \ {Max(s)}] = f[s \ {Max(s)}]
        BY <4>3
      <4>5. QED
        BY <4>1, <4>2, <4>4
    <3>3. QED
      BY <3>1, <3>2
  <2>8. g = [s \in SUBSET (1..m + 1) |-> g[s]]
    OBVIOUS
  <2> HIDE DEF g
  <2>9. FoldsTo(g, m + 1, base, op, e)
    BY <2>7, <2>8 DEF FoldsTo
  <2>10. QED
    BY <2>2, <2>6, <2>9
<1>3. n \in 0..n
  OBVIOUS
<1> HIDE DEF S
<1>4. n \in S
  BY <1>1, <1>2, <1>3, CountingUp
<1>5. QED
  BY <1>4 DEF S

\* It takes one member after the other.
LEMMA FoldSteps ==
    ASSUME NEW base, NEW op, NEW n \in Nat, NEW e, NEW iter, FoldsTo(iter, n, base, op, e)
    PROVE  /\ iter[1..0] = base
           /\ \A k \in 1..n : iter[1..k] = op[<<iter[1..k - 1], e[k]>>]
<1>1. \A s \in SUBSET (1..n) : iter[s] = IF s = {} THEN base ELSE op[<<iter[s \ {Max(s)}], e[Max(s)]>>]
  BY DEF FoldsTo
<1>2. 1..0 \in SUBSET (1..n) /\ 1..0 = {}
  OBVIOUS
<1>3. ASSUME NEW k \in 1..n PROVE iter[1..k] = op[<<iter[1..k - 1], e[k]>>]
  <2>1. k \in Nat /\ k # 0 /\ 1..k \in SUBSET (1..n)
    OBVIOUS
  <2>2. Max(1..k) = k /\ 1..k # {}
    BY <2>1, LastOfPrefix
  <2>3. (1..k) \ {k} = 1..k - 1
    BY <2>1, LastOfPrefix
  <2>4. QED
    BY <1>1, <2>1, <2>2, <2>3
<1>4. QED
  BY <1>1, <1>2, <1>3

\* What a sequence holds lies at its places.
LEMMA PlacesOf ==
    ASSUME NEW T, NEW s \in Seq(T)
    PROVE  /\ Len(s) \in Nat /\ DOMAIN s = 1..Len(s) /\ s \in [1..Len(s) -> T]
           /\ \A P \in SUBSET (DOMAIN s) : P \in SUBSET (1..Len(s)) /\ P \in SUBSET Int /\ IsFiniteSet(P)
           /\ \A P \in SUBSET (DOMAIN s) : P # {} => /\ Min(P) \in P /\ Max(P) \in P
                                                    /\ s[Min(P)] \in T /\ s[Max(P)] \in T
<1>1. Len(s) \in Nat /\ DOMAIN s = 1..Len(s) /\ s \in [1..Len(s) -> T]
  BY LenProperties
<1>2. IsFiniteSet(1..Len(s))
  BY <1>1, CountFinite
<1>3. \A P \in SUBSET (DOMAIN s) : P \in SUBSET (1..Len(s)) /\ P \in SUBSET Int
  BY <1>1
<1>4. \A P \in SUBSET (DOMAIN s) : IsFiniteSet(P)
  BY <1>2, <1>3, FS_Subset
<1>5. \A P \in SUBSET (DOMAIN s) : P # {} => Min(P) \in P /\ Max(P) \in P
  BY <1>3, <1>4, Extremes
<1>6. QED
  BY <1>1, <1>3, <1>4, <1>5

\* The elements at some places are a sequence of them.
LEMMA TakenIs ==
    ASSUME NEW n \in Nat, NEW T, NEW s, NEW places \in SUBSET (1..n), \A i \in places : s[i] \in T
    PROVE  Taken(s, places) \in Seq(T)
<1> DEFINE R == {p \in places \X places : p[1] < p[2]}
           at == SortedBy(places, LAMBDA i, j : i < j)
<1>1. \A x, y \in places : <<x, y>> \in R <=> x < y
  OBVIOUS
<1>2. at = Enumeration(places, R)
  BY DEF SortedBy
<1> HIDE DEF R
<1>3. StrictOrderOn(places, R)
  BY <1>1 DEF StrictOrderOn
<1>4. IsFiniteSet(places)
  BY CountFinite, FS_Subset
<1>5. Cardinality(places) \in Nat /\ at \in [1..Cardinality(places) -> places]
  <2>1. /\ Cardinality(places) \in Nat
        /\ Enumeration(places, R) \in [1..Cardinality(places) -> places]
    BY <1>3, <1>4, Enumerates
  <2>2. QED
    BY <1>2, <2>1
<1>6. Taken(s, places) = [k \in DOMAIN at |-> s[at[k]]]
  BY DEF Taken
<1> HIDE DEF at
<1>7. DOMAIN at = 1..Cardinality(places) /\ \A k \in 1..Cardinality(places) : s[at[k]] \in T
  BY <1>5
<1>8. Taken(s, places) \in [1..Cardinality(places) -> T]
  BY <1>6, <1>7
<1>9. QED
  BY <1>5, <1>8

\* Some place is the nearest, and there is a first one of those.
LEMMA NearestPlace ==
    ASSUME NEW n \in Nat, NEW P \in SUBSET (1..n), P # {}, NEW away \in [P -> Int]
    PROVE  Min({i \in P : \A j \in P : away[i] <= away[j]}) \in P
<1> DEFINE V == {away[i] : i \in P}
           C == {i \in P : \A j \in P : away[i] <= away[j]}
<1>1. IsFiniteSet(P)
  BY CountFinite, FS_Subset
<1>2. IsFiniteSet(V)
  <2>1. away \in [P -> V] /\ \A x \in V : \E i \in P : away[i] = x
    OBVIOUS
  <2> HIDE DEF V
  <2>2. away \in Surjection(P, V)
    BY <2>1 DEF Surjection
  <2>3. QED
    BY <1>1, <2>2, FS_Surjection
<1>3. V \in SUBSET Int /\ V # {}
  OBVIOUS
<1>4. \A i \in P : away[i] \in V
  OBVIOUS
<1>5. \A x \in V : \E i \in P : x = away[i]
  OBVIOUS
<1> HIDE DEF V
<1>6. Min(V) \in V /\ \A x \in V : Min(V) <= x
  BY <1>2, <1>3, Extremes
<1>7. PICK i \in P : Min(V) = away[i]
  BY <1>5, <1>6
<1>8. i \in C
  BY <1>4, <1>6, <1>7
<1>9. C \in SUBSET P /\ C \in SUBSET Int
  <2>1. P \in SUBSET Int
    OBVIOUS
  <2>2. C \in SUBSET P
    OBVIOUS
  <2> HIDE DEF C
  <2>3. QED
    BY <2>1, <2>2
<1> HIDE DEF C
<1>10. IsFiniteSet(C)
  BY <1>1, <1>9, FS_Subset
<1>11. Min(C) \in C
  BY <1>8, <1>9, <1>10, Extremes
<1>12. Min(C) \in P
  BY <1>9, <1>11
<1>13. QED
  BY <1>12 DEF C

\* The lesser of two numbers is a number.
LEMMA LesserIs == \A a, b \in Int : Min({a, b}) \in Int /\ Min({a, b}) <= a /\ Min({a, b}) <= b
<1> SUFFICES ASSUME NEW a \in Int, NEW b \in Int
             PROVE  Min({a, b}) \in Int /\ Min({a, b}) <= a /\ Min({a, b}) <= b
  OBVIOUS
<1> DEFINE both == {a, b}
<1>1. IsFiniteSet(both)
  <2>1. IsFiniteSet({a}) /\ {a} \cup {b} = both
    BY FS_Singleton
  <2>2. QED
    BY <2>1, FS_AddElement
<1>2. both \in SUBSET Int /\ both # {} /\ a \in both /\ b \in both
  OBVIOUS
<1> HIDE DEF both
<1>3. Min(both) \in Int /\ Min(both) <= a /\ Min(both) <= b
  BY <1>1, <1>2, Extremes
<1>4. QED
  BY <1>3 DEF both

-----------------------------------------------------------------------------
(* The shift of a block. *)

\* A shift is a part of the trips it is cut from.
LEMMA ShiftWithin ==
    ASSUME NEW n \in Nat, NEW T, NEW s \in [1..n -> T], NEW target
    PROVE  KeepShiftContainingTrip(s, target) \in Seq(T)
<1> DEFINE at == OneRow({i \in DOMAIN s : s[i].id = target})
           opens == {i \in 2..at : s[i].first < s[i - 1].last}
           closes == {i \in at..Len(s) - 1 : s[i + 1].first < s[i].last}
           from == IF opens = {} THEN 1 ELSE Max(opens)
           to == IF closes = {} THEN Len(s) ELSE Min(closes)
<1>1. DOMAIN s = 1..n /\ Len(s) = n /\ s \in Seq(T)
  BY LenProperties
<1>2. KeepShiftContainingTrip(s, target) = IF at = Null THEN <<>> ELSE SubSeq(s, from, to)
  BY DEF KeepShiftContainingTrip
<1>3. CASE at = Null
  BY <1>2, <1>3
<1>4. CASE at # Null
  <2>1. at \in 1..n
    BY <1>1, <1>4 DEF OneRow
  <2> HIDE DEF at
  <2>2. opens \in SUBSET (2..at) /\ closes \in SUBSET (at..n - 1)
    BY <1>1
  <2> HIDE DEF opens, closes
  <2>3. IsFiniteSet(2..at) /\ IsFiniteSet(at..n - 1)
    BY <2>1, FS_Interval
  <2>4. IsFiniteSet(opens) /\ IsFiniteSet(closes)
    BY <2>2, <2>3, FS_Subset
  <2>5. opens \in SUBSET Int /\ closes \in SUBSET Int
    BY <2>2
  <2>6. opens # {} => Max(opens) \in opens
    BY <2>4, <2>5, Extremes
  <2>7. closes # {} => Min(closes) \in closes
    BY <2>4, <2>5, Extremes
  <2>8. opens # {} => Max(opens) \in 2..at
    BY <2>2, <2>6
  <2>9. closes # {} => Min(closes) \in at..n - 1
    BY <2>2, <2>7
  <2>10. from \in 1..at /\ to \in at..n
    <3>1. CASE opens = {} /\ closes = {}
      BY <1>1, <2>1, <3>1
    <3>2. CASE opens # {} /\ closes = {}
      BY <1>1, <2>1, <2>8, <3>2
    <3>3. CASE opens = {} /\ closes # {}
      BY <1>1, <2>1, <2>9, <3>3
    <3>4. CASE opens # {} /\ closes # {}
      BY <1>1, <2>1, <2>8, <2>9, <3>4
    <3>5. QED
      BY <3>1, <3>2, <3>3, <3>4
  <2> HIDE DEF from, to
  <2>11. SubSeq(s, from, to) \in Seq(T)
    <3>1. from \in Int /\ to \in Int /\ \A i \in from..to : s[i] \in T
      BY <2>1, <2>10
    <3>2. QED
      BY <3>1, SubSeqProperties
  <2>12. QED
    BY <1>2, <1>4, <2>11
<1>5. QED
  BY <1>3, <1>4

\* The first time of a trip is a number.
LEMMA FirstTimeIsNumber ==
    ASSUME feed \in DOMAIN Feeds, NEW trip, GetStopTimesForTrip(db, trip) # <<>>
    PROVE  EffectiveStopTime(GetStopTimesForTrip(db, trip)[1]) \in Int
<1> DEFINE visits == StopTimesOf(db, {trip})
           times == GetStopTimesForTrip(db, trip)
<1>1. visits \subseteq db.stopTimes /\ \A st \in visits : st.trip = trip
  BY DEF StopTimesOf
<1>2. /\ IsFiniteSet(db.stopTimes)
      /\ \A st \in db.stopTimes : st.seq \in Int /\ st.arrival \in Int /\ st.departure \in Int
      /\ \A a, b \in db.stopTimes : a.trip = b.trip /\ a.seq = b.seq => a = b
  BY TablesImported DEF ColumnsTyped
<1>3. IsFiniteSet(visits)
  BY <1>1, <1>2, FS_Subset
<1>4. (\A st \in visits : st.seq \in Int) /\ \A a, b \in visits : a.seq = b.seq => a = b
  BY <1>1, <1>2
<1>5. times = BySequence(visits)
  BY DEF GetStopTimesForTrip
<1> HIDE DEF visits, times
<1>6. Cardinality(visits) \in Nat /\ times \in [1..Cardinality(visits) -> visits]
  BY <1>3, <1>4, <1>5, SequenceOrders
<1>7. times \in Seq(visits) /\ times # <<>>
  BY <1>6 DEF times
<1>8. 1 \in 1..Len(times) /\ times \in [1..Len(times) -> visits]
  BY <1>7, EmptySeq, LenProperties
<1>9. times[1] \in db.stopTimes
  BY <1>1, <1>8
<1>10. QED
  BY <1>2, <1>9 DEF EffectiveStopTime, times

\* The trips of a block on a day are the trip itself or trips of the tables.
LEMMA BlockTripsAre ==
    ASSUME NEW ctx, ctx.db = db, NEW target, NEW d
    PROVE  \/ BlockTripIDsForServiceDate(ctx, target, d) = {target}
           \/ BlockTripIDsForServiceDate(ctx, target, d) \subseteq {t.id : t \in db.trips}
BY DEF BlockTripIDsForServiceDate, GetTripsByBlockID

\* The bounds of some trips of the tables.
LEMMA BoundsAre ==
    ASSUME feed \in DOMAIN Feeds, NEW ids \in SUBSET {t.id : t \in db.trips}
    PROVE  LET bounds == {[id |-> r.id, first |-> r.minArrival, last |-> r.maxDeparture] :
                            r \in GetTripTimeBoundsByIDs(db, ids)}
           IN  /\ IsFiniteSet(bounds)
               /\ \A b \in bounds : b.first \in Int /\ b.id \in Int
               /\ \A a, b \in bounds : a.id = b.id => a = b
<1> DEFINE rows == GetTripTimeBoundsByIDs(db, ids)
           bound(r) == [id |-> r.id, first |-> r.minArrival, last |-> r.maxDeparture]
           bounds == {bound(r) : r \in rows}
           map == [r \in rows |-> bound(r)]
<1>1. rows \subseteq db.trips
  BY DEF GetTripTimeBoundsByIDs
<1>2. IsFiniteSet(rows)
  BY <1>1, FS_Subset, TablesImported DEF ColumnsTyped
<1> HIDE DEF rows
<1>3. map \in Surjection(rows, bounds)
  <2>1. map \in [rows -> bounds] /\ \A b \in bounds : \E r \in rows : map[r] = b
    OBVIOUS
  <2> HIDE DEF map, bounds
  <2>2. QED
    BY <2>1 DEF Surjection
<1>4. IsFiniteSet(bounds)
  <2> HIDE DEF map, bounds
  <2>1. QED
    BY <1>2, <1>3, FS_Surjection
<1>5. \A r \in rows : r.id \in Int /\ r.minArrival \in Int
  BY <1>1, TablesImported DEF ColumnsTyped
<1>6. \A b \in bounds : b.first \in Int /\ b.id \in Int
  BY <1>5
<1>7. \A p, q \in rows : p.id = q.id => p = q
  BY <1>1, TablesImported
<1>8. \A a, b \in bounds : a.id = b.id => a = b
  BY <1>7
<1> HIDE DEF bounds
<1>9. QED
  BY <1>4, <1>6, <1>8 DEF bounds, rows

\* The trips of a shift are a sequence.
LEMMA ShiftIDsAre ==
    ASSUME feed \in DOMAIN Feeds, NEW ctx, ctx.db = db, NEW target, NEW d
    PROVE  \E n \in Nat : DOMAIN BlockShiftTripIDsSortedByStartTime(ctx, target, d) = 1..n
<1> DEFINE ids == BlockTripIDsForServiceDate(ctx, target, d)
           bounds == {[id |-> r.id, first |-> r.minArrival, last |-> r.maxDeparture] :
                        r \in GetTripTimeBoundsByIDs(ctx.db, ids)}
           block == ByFirst(bounds)
           shift == KeepShiftContainingTrip(block, target)
           around == IF shift = <<>> THEN block ELSE shift
           trips == BlockShiftTripIDsSortedByStartTime(ctx, target, d)
           byID == Enumeration(ids, {p \in ids \X ids : p[1] < p[2]})
           unsorted == Cardinality(ids) <= 1 \/ Fails(ctx, "GetTripTimeBoundsByIDs")
<1>1. trips = IF unsorted THEN byID ELSE [i \in DOMAIN around |-> around[i].id]
  BY DEF BlockShiftTripIDsSortedByStartTime, SortedBy
<1> HIDE DEF byID, around
<1>2. IsFiniteSet(ids) /\ Cardinality(ids) \in Nat
  <2>1. CASE ids = {target}
    BY <2>1, FS_Singleton, FS_CardinalityType
  <2>2. CASE ids \in SUBSET {t.id : t \in db.trips}
    <3> DEFINE all == {t.id : t \in db.trips}
               named == [t \in db.trips |-> t.id]
    <3>1. named \in [db.trips -> all] /\ \A x \in all : \E t \in db.trips : named[t] = x
      OBVIOUS
    <3>2. ids \in SUBSET all
      BY <2>2
    <3> HIDE DEF named, all, ids
    <3>3. named \in Surjection(db.trips, all)
      BY <3>1 DEF Surjection
    <3>4. IsFiniteSet(db.trips)
      BY TablesImported DEF ColumnsTyped
    <3>5. IsFiniteSet(all)
      BY <3>3, <3>4, FS_Surjection
    <3>6. IsFiniteSet(ids)
      BY <3>2, <3>5, FS_Subset
    <3>7. QED
      BY <3>6, FS_CardinalityType
  <2>3. QED
    BY <2>1, <2>2, BlockTripsAre
<1>3. CASE unsorted
  <2>1. trips = byID
    BY <1>1, <1>3
  <2>2. DOMAIN trips = 1..Cardinality(ids)
    BY <2>1 DEF byID, Enumeration
  <2>3. QED
    BY <1>2, <2>2
<1>4. CASE ~unsorted
  <2>1. ids # {target}
    <3>1. Cardinality({target}) = 1
      BY FS_Singleton
    <3>2. QED
      BY <1>4, <3>1
  <2>2. ids \in SUBSET {t.id : t \in db.trips}
    BY <2>1, BlockTripsAre
  <2>3. trips = [i \in DOMAIN around |-> around[i].id]
    BY <1>1, <1>4
  <2>4. /\ IsFiniteSet(bounds)
        /\ \A b \in bounds : b.first \in Int /\ b.id \in Int
        /\ \A a, b \in bounds : a.id = b.id => a = b
    <3> HIDE DEF ids
    <3>1. QED
      BY <2>2, BoundsAre
  <2> HIDE DEF bounds, ids
  <2>5. Cardinality(bounds) \in Nat /\ block \in [1..Cardinality(bounds) -> bounds]
    BY <2>4, FirstOrders
  <2> HIDE DEF block
  <2>6. shift \in Seq(bounds)
    BY <2>5, ShiftWithin DEF shift
  <2>7. DOMAIN shift = 1..Len(shift) /\ Len(shift) \in Nat
    BY <2>6, LenProperties
  <2>8. DOMAIN trips = DOMAIN around
    BY <2>3
  <2>9. DOMAIN around = 1..Len(shift) \/ DOMAIN around = 1..Cardinality(bounds)
    BY <2>5, <2>7 DEF around
  <2>10. QED
    BY <2>5, <2>7, <2>8, <2>9
<1>5. QED
  BY <1>3, <1>4

-----------------------------------------------------------------------------
(* The prediction that is picked. *)

Pairs == [scheduled : Int, predicted : Int]

Picks == [delta : Int \cup {Null}, past : BOOLEAN, deviation : Int]

\* Considering a pair leaves a pick.
LEMMA ConsiderPicks ==
    ASSUME NEW best \in Picks, NEW p \in Pairs, NEW seconds \in Int
    PROVE  Consider(best, p, seconds) \in Picks
<1>1. p.predicted \in Int /\ p.scheduled \in Int
  BY DEF Pairs
<1>2. Distance(p.predicted, seconds) \in Int /\ p.predicted - p.scheduled \in Int
  BY <1>1 DEF Distance
<1>3. (p.predicted < seconds) \in BOOLEAN
  OBVIOUS
<1>4. [delta |-> Distance(p.predicted, seconds), past |-> p.predicted < seconds,
       deviation |-> p.predicted - p.scheduled] \in Picks
  BY <1>2, <1>3 DEF Picks
<1>5. QED
  BY <1>4 DEF Consider

PickOf(p, seconds) ==
    [delta |-> Distance(p.predicted, seconds), past |-> p.predicted < seconds,
     deviation |-> p.predicted - p.scheduled]

\* A pair offers a prediction, and the pick it is when it is chosen.
Offers(p) == p.scheduled > 0 /\ p.predicted > 0

\* The pick out of a set of pairs is a nearest one, and one still to come where
\* there is such a nearest one.
PickedFrom(best, S, seconds) ==
    IF S = {} THEN best = NoPick
    ELSE \E p \in S :
            /\ best = PickOf(p, seconds)
            /\ \A q \in S : Distance(p.predicted, seconds) <= Distance(q.predicted, seconds)
            /\ p.predicted < seconds =>
                  \A q \in S : Distance(p.predicted, seconds) = Distance(q.predicted, seconds)
                                 => q.predicted < seconds

\* A pair that is considered with those before it leaves the pick of them all.
LEMMA ConsiderNearest ==
    ASSUME NEW S \in SUBSET Pairs, NEW best, NEW seconds \in Int, PickedFrom(best, S, seconds),
           NEW p \in Pairs
    PROVE  PickedFrom(Consider(best, p, seconds), IF Offers(p) THEN S \cup {p} ELSE S, seconds)
<1> DEFINE away(q) == Distance(q.predicted, seconds)
           next == Consider(best, p, seconds)
<1>1. \A q \in Pairs : q.predicted \in Int /\ away(q) \in Int
  BY DEF Pairs, Distance
<1>2. CASE ~Offers(p)
  <2>1. next = best
    BY <1>2 DEF Consider, Offers
  <2>2. QED
    BY <1>2, <2>1
<1>3. CASE Offers(p) /\ S = {}
  <2>1. best = NoPick
    BY <1>3 DEF PickedFrom
  <2>2. next = PickOf(p, seconds)
    BY <1>3, <2>1 DEF Consider, Offers, PickOf, ShouldReplace, NoPick
  <2>3. S \cup {p} = {p}
    BY <1>3
  <2>4. PickedFrom(next, {p}, seconds)
    <3> HIDE DEF next
    <3>1. \A q \in {p} : away(p) <= away(q)
      BY <1>1
    <3>2. QED
      BY <2>2, <3>1 DEF PickedFrom
  <2>5. QED
    BY <1>3, <2>3, <2>4
<1>4. CASE Offers(p) /\ S # {}
  <2>1. PICK b \in S : /\ best = PickOf(b, seconds)
                       /\ \A q \in S : away(b) <= away(q)
                       /\ b.predicted < seconds =>
                             \A q \in S : away(b) = away(q) => q.predicted < seconds
    BY <1>4 DEF PickedFrom
  <2>2. /\ best.delta = away(b) /\ best.past = (b.predicted < seconds)
        /\ best.delta # Null
    BY <1>1, <2>1, NullAssumption DEF PickOf
  <2>3. next = IF \/ away(p) < away(b)
                  \/ ~(p.predicted < seconds) /\ b.predicted < seconds /\ away(p) <= away(b)
               THEN PickOf(p, seconds) ELSE best
    BY <1>4, <2>2 DEF Consider, Offers, PickOf, ShouldReplace
  <2> HIDE DEF next, away
  <2>4. b \in Pairs /\ b.predicted \in Int /\ away(b) \in Int /\ p.predicted \in Int /\ away(p) \in Int
    BY <1>1
  <2>5. CASE \/ away(p) < away(b)
             \/ ~(p.predicted < seconds) /\ b.predicted < seconds /\ away(p) <= away(b)
    <3>1. next = PickOf(p, seconds)
      BY <2>3, <2>5
    <3>2. \A q \in S : away(q) \in Int /\ away(p) <= away(q)
      BY <1>1, <2>1, <2>4, <2>5
    <3>3. \A q \in S \cup {p} : away(p) <= away(q)
      BY <2>4, <3>2
    <3>4. ASSUME p.predicted < seconds, NEW q \in S \cup {p}, away(p) = away(q)
          PROVE  q.predicted < seconds
      <4>1. CASE q = p
        BY <3>4, <4>1
      <4>2. CASE q \in S
        <5>1. away(p) < away(b) /\ away(b) <= away(q)
          BY <2>1, <2>5, <3>4, <4>2
        <5>2. QED
          BY <2>4, <3>4, <5>1
      <4>3. QED
        BY <4>1, <4>2
    <3>5. PickedFrom(next, S \cup {p}, seconds)
      BY <3>1, <3>3, <3>4 DEF PickedFrom, away
    <3>6. QED
      BY <1>4, <3>5 DEF next
  <2>6. CASE ~\/ away(p) < away(b)
              \/ ~(p.predicted < seconds) /\ b.predicted < seconds /\ away(p) <= away(b)
    <3>1. next = PickOf(b, seconds)
      BY <2>1, <2>3, <2>6
    <3>2. away(b) <= away(p)
      BY <2>4, <2>6
    <3>3. away(b) = away(p) /\ b.predicted < seconds => p.predicted < seconds
      BY <2>4, <2>6
    <3>4. /\ \A q \in S \cup {p} : away(b) <= away(q)
          /\ b.predicted < seconds =>
                \A q \in S \cup {p} : away(b) = away(q) => q.predicted < seconds
      BY <2>1, <3>2, <3>3
    <3>5. PickedFrom(next, S \cup {p}, seconds)
      BY <3>1, <3>4 DEF PickedFrom, away
    <3>6. QED
      BY <1>4, <3>5 DEF next
  <2>7. QED
    BY <2>5, <2>6
<1>5. QED
  BY <1>2, <1>3, <1>4

\* The pairs are considered one after the other, and the pick of all is left.
LEMMA PicksFold ==
    ASSUME NEW n \in Nat, NEW pairs \in [1..n -> Pairs], NEW seconds \in Int
    PROVE  PickedFrom(FoldLeft(LAMBDA b, p : Consider(b, p, seconds), NoPick, pairs),
                      {p \in Range(pairs) : Offers(p)}, seconds)
<1> DEFINE op == [x \in Picks \X Pairs |-> Consider(x[1], x[2], seconds)]
           Unfolded(iter) == iter = [s \in SUBSET (1..n) |->
               IF s = {} THEN NoPick ELSE Consider(iter[s \ {Max(s)}], pairs[Max(s)], seconds)]
           it == CHOOSE iter : Unfolded(iter)
<1>1. NoPick \in Picks
  BY DEF NoPick, Picks
<1>2. op \in [Picks \X Pairs -> Picks]
  BY ConsiderPicks
<1>3. ASSUME NEW iter \in [SUBSET (1..n) -> Picks], FoldsTo(iter, n, NoPick, op, pairs)
      PROVE  Unfolded(iter)
  <2>1. ASSUME NEW s \in SUBSET (1..n)
        PROVE  iter[s] = IF s = {} THEN NoPick ELSE Consider(iter[s \ {Max(s)}], pairs[Max(s)], seconds)
    <3>1. iter[s] = IF s = {} THEN NoPick ELSE op[<<iter[s \ {Max(s)}], pairs[Max(s)]>>]
      BY <1>3 DEF FoldsTo
    <3>2. s # {} => Max(s) \in 1..n
      BY LastPlace
    <3>3. s # {} => <<iter[s \ {Max(s)}], pairs[Max(s)]>> \in Picks \X Pairs
      BY <3>2
    <3>4. QED
      BY <3>1, <3>3
  <2>2. iter = [s \in SUBSET (1..n) |-> iter[s]]
    OBVIOUS
  <2>3. QED
    BY <2>1, <2>2
<1>4. PICK iter \in [SUBSET (1..n) -> Picks] : FoldsTo(iter, n, NoPick, op, pairs)
  <2> HIDE DEF op
  <2>1. QED
    BY <1>1, <1>2, FoldExists
<1>5. Unfolded(it)
  BY <1>3, <1>4
<1>6. FoldLeft(LAMBDA b, p : Consider(b, p, seconds), NoPick, pairs) = it[1..n]
  <2>1. DOMAIN pairs = 1..n
    OBVIOUS
  <2>2. FoldLeft(LAMBDA b, p : Consider(b, p, seconds), NoPick, pairs)
        = (CHOOSE f : f = [s \in SUBSET DOMAIN pairs |->
              IF s = {} THEN NoPick ELSE Consider(f[s \ {Max(s)}], pairs[Max(s)], seconds)])[DOMAIN pairs]
    BY DEF FoldLeft, MapThenFoldSet
  <2>3. QED
    BY <2>1, <2>2
<1> HIDE DEF it
<1> DEFINE offered(k) == {p \in {pairs[i] : i \in 1..k} : Offers(p)}
           S == {k \in Nat : PickedFrom(it[1..k], offered(k), seconds)}
<1>7. \A s \in SUBSET (1..n) : it[s] = IF s = {} THEN NoPick ELSE Consider(it[s \ {Max(s)}], pairs[Max(s)], seconds)
  BY <1>5
<1>8. 0 \in S
  <2>1. 1..0 \in SUBSET (1..n) /\ 1..0 = {}
    OBVIOUS
  <2>2. it[1..0] = NoPick
    BY <1>7, <2>1
  <2>3. offered(0) = {}
    BY <2>1
  <2> HIDE DEF offered
  <2>4. QED
    BY <2>2, <2>3 DEF PickedFrom
<1>9. ASSUME NEW k \in 0..n - 1, k \in S PROVE k + 1 \in S
  <2>1. k + 1 \in Nat /\ k + 1 # 0 /\ 1..k + 1 \in SUBSET (1..n) /\ k + 1 \in 1..n
    OBVIOUS
  <2>2. Max(1..k + 1) = k + 1 /\ 1..k + 1 # {}
    BY <2>1, LastOfPrefix
  <2>3. (1..k + 1) \ {k + 1} = 1..k /\ 1..k + 1 = 1..k \cup {k + 1}
    OBVIOUS
  <2>4. it[1..k + 1] = Consider(it[1..k], pairs[k + 1], seconds)
    BY <1>7, <2>1, <2>2, <2>3
  <2>5. offered(k + 1) = IF Offers(pairs[k + 1]) THEN offered(k) \cup {pairs[k + 1]} ELSE offered(k)
    BY <2>3
  <2>6. offered(k) \in SUBSET Pairs /\ pairs[k + 1] \in Pairs
    BY <2>1
  <2>7. PickedFrom(it[1..k], offered(k), seconds)
    BY <1>9
  <2> HIDE DEF offered
  <2>8. PickedFrom(it[1..k + 1], offered(k + 1), seconds)
    <3>1. PickedFrom(Consider(it[1..k], pairs[k + 1], seconds),
                     IF Offers(pairs[k + 1]) THEN offered(k) \cup {pairs[k + 1]} ELSE offered(k), seconds)
      BY <2>6, <2>7, ConsiderNearest
    <3>2. QED
      BY <2>4, <2>5, <3>1
  <2>9. QED
    BY <2>1, <2>8
<1>10. n \in 0..n
  OBVIOUS
<1> HIDE DEF S
<1>11. n \in S
  BY <1>8, <1>9, <1>10, CountingUp
<1>12. offered(n) = {p \in Range(pairs) : Offers(p)}
  BY DEF Range
<1> HIDE DEF offered
<1>13. QED
  BY <1>6, <1>11, <1>12 DEF S

\* The reference time of an update is a number.
LEMMA ReferenceIs ==
    ASSUME NEW su, EventTyped(su.arr), EventTyped(su.dep),
           NEW zone \in Clocks, NEW d \in Int, NEW now \in Int
    PROVE  ReferenceTime(su, zone, d, now) \in Int
<1> DEFINE of(e) == CASE e = Null -> Null
                      [] e # Null /\ e.time # Null -> SecondsSince(zone, e.time, d)
                      [] e # Null /\ e.time = Null /\ e.delay # Null -> SecondsSince(zone, now, d) - e.delay
                      [] OTHER -> Null
<1>1. ASSUME NEW e, EventTyped(e) PROVE of(e) \in Int \cup {Null}
  <2>1. e # Null => e.time \in Int \cup {Null} /\ e.delay \in Int \cup {Null}
    BY <1>1 DEF EventTyped
  <2>2. SecondsSince(zone, now, d) \in Int
    BY SecondsAre
  <2>3. e # Null /\ e.time # Null => SecondsSince(zone, e.time, d) \in Int
    BY <2>1, SecondsAre
  <2>4. CASE e = Null
    BY <2>4
  <2>5. CASE e # Null /\ e.time # Null
    BY <2>3, <2>5
  <2>6. CASE e # Null /\ e.time = Null /\ e.delay # Null
    <3>1. e.delay \in Int
      BY <2>1, <2>6
    <3>2. SecondsSince(zone, now, d) - e.delay \in Int
      BY <2>2, <3>1
    <3>3. QED
      BY <2>6, <3>2
  <2>7. CASE e # Null /\ e.time = Null /\ e.delay = Null
    BY <2>7
  <2>8. QED
    BY <2>4, <2>5, <2>6, <2>7
<1>2. of(su.arr) \in Int \cup {Null} /\ of(su.dep) \in Int \cup {Null}
  BY <1>1
<1>3. ReferenceTime(su, zone, d, now)
      = CASE of(su.arr) # Null -> of(su.arr)
          [] of(su.arr) = Null /\ of(su.dep) # Null -> of(su.dep)
          [] OTHER -> -1
  BY DEF ReferenceTime
<1> HIDE DEF of
<1>4. CASE of(su.arr) # Null
  BY <1>2, <1>3, <1>4
<1>5. CASE of(su.arr) = Null /\ of(su.dep) # Null
  BY <1>2, <1>3, <1>5
<1>6. CASE of(su.arr) = Null /\ of(su.dep) = Null
  BY <1>3, <1>6
<1>7. QED
  BY <1>4, <1>5, <1>6

\* The visit an update is matched with is one of the entries.
LEMMA MatchIs ==
    ASSUME feed \in DOMAIN Feeds, NEW entries \in Seq(db.stopTimes), NEW su, NEW ref \in Int
    PROVE  MatchScheduleEntry(entries, su, ref) \in db.stopTimes \cup {Null}
<1> DEFINE named == {i \in DOMAIN entries : entries[i].seq = su.seq}
           away == [i \in DOMAIN entries |-> Min({Distance(entries[i].arrival, ref),
                                                  Distance(entries[i].departure, ref)})]
           closest == {i \in DOMAIN entries : \A j \in DOMAIN entries : away[i] <= away[j]}
           k == IF ref <= 0 THEN 1 ELSE Min(closest)
<1>1. CASE entries = <<>>
  BY <1>1 DEF MatchScheduleEntry
<1>2. CASE entries # <<>> /\ named # {}
  <2>1. MatchScheduleEntry(entries, su, ref) = entries[Min(named)]
    BY <1>2 DEF MatchScheduleEntry
  <2>2. named \in SUBSET (DOMAIN entries)
    OBVIOUS
  <2> HIDE DEF named
  <2>3. QED
    BY <1>2, <2>1, <2>2, PlacesOf
<1>3. CASE entries # <<>> /\ named = {}
  <2>1. MatchScheduleEntry(entries, su, ref) = entries[k]
    <3>1. closest = {i \in DOMAIN entries : \A j \in DOMAIN entries :
                       Min({Distance(entries[i].arrival, ref), Distance(entries[i].departure, ref)})
                         <= Min({Distance(entries[j].arrival, ref), Distance(entries[j].departure, ref)})}
      OBVIOUS
    <3> HIDE DEF closest
    <3>2. QED
      BY <1>3, <3>1 DEF MatchScheduleEntry
  <2>2. Len(entries) \in Nat \ {0} /\ DOMAIN entries = 1..Len(entries)
    BY <1>3, EmptySeq, LenProperties
  <2>3. \A i \in DOMAIN entries : entries[i] \in db.stopTimes
    BY PlacesOf
  <2>4. \A st \in db.stopTimes : st.arrival \in Int /\ st.departure \in Int
    BY TablesImported DEF ColumnsTyped
  <2>5. \A i \in DOMAIN entries : /\ Distance(entries[i].arrival, ref) \in Int
                                  /\ Distance(entries[i].departure, ref) \in Int
    BY <2>3, <2>4 DEF Distance
  <2>6. away \in [DOMAIN entries -> Int]
    BY <2>5, LesserIs
  <2>7. DOMAIN entries \in SUBSET (1..Len(entries)) /\ DOMAIN entries # {} /\ 1 \in DOMAIN entries
    <3>1. 1 \in 1..Len(entries)
      BY <2>2
    <3>2. 1 \in DOMAIN entries
      BY <2>2, <3>1
    <3>3. DOMAIN entries \in SUBSET (1..Len(entries))
      BY <2>2
    <3>4. QED
      BY <3>2, <3>3
  <2> HIDE DEF away
  <2>8. Min(closest) \in DOMAIN entries
    BY <2>2, <2>6, <2>7, NearestPlace
  <2>9. k \in DOMAIN entries
    BY <2>7, <2>8
  <2>10. QED
    BY <2>1, <2>3, <2>9
<1>4. QED
  BY <1>1, <1>2, <1>3

\* The scheduled visit an update is about is a row of the stop times.
LEMMA VisitOfUpdate ==
    ASSUME feed \in DOMAIN Feeds, NEW ctx, ctx.db = db, NEW trip, NEW su,
           EventTyped(su.arr), EventTyped(su.dep),
           NEW zone \in Clocks, NEW d \in Int, NEW now \in Int
    PROVE  ScheduledVisit(ctx, trip, su, zone, d, now) \in db.stopTimes \cup {Null}
<1> DEFINE times == IF Fails(ctx, "GetStopTimesForTripIDs") THEN <<>>
                    ELSE GetStopTimesForTrip(ctx.db, trip)
           same == {i \in DOMAIN times : times[i].stop = su.stop}
           rows == {st \in Range(times) : st.seq = su.seq}
<1>1. times \in Seq(db.stopTimes)
  BY VisitsAre, EmptySeq
<1>2. ScheduledVisit(ctx, trip, su, zone, d, now)
      = IF su.stop = Null THEN OneRow(rows)
        ELSE MatchScheduleEntry(Taken(times, same), su, ReferenceTime(su, zone, d, now))
  BY DEF ScheduledVisit
<1> HIDE DEF times
<1>3. Len(times) \in Nat /\ DOMAIN times = 1..Len(times) /\ \A i \in DOMAIN times : times[i] \in db.stopTimes
  BY <1>1, PlacesOf
<1>4. rows \subseteq db.stopTimes
  BY <1>3 DEF Range
<1>5. same \in SUBSET (1..Len(times)) /\ \A i \in same : times[i] \in db.stopTimes
  BY <1>3
<1> HIDE DEF same, rows
<1>6. Taken(times, same) \in Seq(db.stopTimes)
  BY <1>3, <1>5, TakenIs
<1>7. OneRow(rows) \in db.stopTimes \cup {Null}
  BY <1>4, OneOf
<1>8. MatchScheduleEntry(Taken(times, same), su, ReferenceTime(su, zone, d, now))
      \in db.stopTimes \cup {Null}
  BY <1>6, ReferenceIs, MatchIs
<1>9. QED
  BY <1>2, <1>7, <1>8

\* The pairs of an update are pairs of numbers.
LEMMA PairsAre ==
    ASSUME feed \in DOMAIN Feeds, NEW ctx, ctx.db = db, NEW u, UpdateTyped(u),
           NEW zone \in Clocks, NEW d \in Int, NEW now \in Int
    PROVE  Predictions(ctx, u, zone, d, now) \in Seq(Pairs)
<1> DEFINE visit(i) == ScheduledVisit(ctx, u.trip, u.stops[i], zone, d, now)
           pair(scheduled, event) ==
             [scheduled |-> scheduled,
              predicted |-> PredictedFromEvent(event, scheduled, zone, d)]
           of(su, v) == IF v = Null THEN <<>> ELSE <<pair(v.arrival, su.arr), pair(v.departure, su.dep)>>
           all == [i \in DOMAIN u.stops |-> of(u.stops[i], visit(i))]
<1>1. u.stops \in Seq(Range(u.stops))
      /\ \A i \in DOMAIN u.stops : EventTyped(u.stops[i].arr) /\ EventTyped(u.stops[i].dep)
  BY DEF UpdateTyped
<1>2. Len(u.stops) \in Nat /\ DOMAIN u.stops = 1..Len(u.stops)
  BY <1>1, PlacesOf
<1>3. \A i \in DOMAIN u.stops : visit(i) \in db.stopTimes \cup {Null}
  BY <1>1, VisitOfUpdate
<1>4. ASSUME NEW scheduled \in Int, NEW event, EventTyped(event)
      PROVE  pair(scheduled, event) \in Pairs
  <2>1. event # Null => event.time \in Int \cup {Null} /\ event.delay \in Int \cup {Null}
    BY <1>4 DEF EventTyped
  <2>2. event # Null /\ event.time # Null => SecondsSince(zone, event.time, d) \in Int
    BY <2>1, SecondsAre
  <2>3. event # Null /\ event.time = Null /\ event.delay # Null => scheduled + event.delay \in Int
    BY <2>1
  <2>4. CASE event = Null \/ scheduled <= 0
    <3>1. PredictedFromEvent(event, scheduled, zone, d) = 0
      BY <2>4 DEF PredictedFromEvent
    <3>2. QED
      BY <3>1 DEF Pairs
  <2>5. CASE event # Null /\ scheduled > 0 /\ event.time # Null
    <3>1. PredictedFromEvent(event, scheduled, zone, d) = SecondsSince(zone, event.time, d)
      BY <2>5 DEF PredictedFromEvent
    <3>2. QED
      BY <2>2, <2>5, <3>1 DEF Pairs
  <2>6. CASE event # Null /\ scheduled > 0 /\ event.time = Null /\ event.delay # Null
    <3>1. PredictedFromEvent(event, scheduled, zone, d) = scheduled + event.delay
      BY <2>6 DEF PredictedFromEvent
    <3>2. QED
      BY <2>3, <2>6, <3>1 DEF Pairs
  <2>7. CASE event # Null /\ scheduled > 0 /\ event.time = Null /\ event.delay = Null
    <3>1. PredictedFromEvent(event, scheduled, zone, d) = 0
      BY <2>7 DEF PredictedFromEvent
    <3>2. QED
      BY <3>1 DEF Pairs
  <2>8. QED
    BY <2>4, <2>5, <2>6, <2>7
<1> HIDE DEF pair
<1>5. ASSUME NEW i \in DOMAIN u.stops PROVE of(u.stops[i], visit(i)) \in Seq(Pairs)
  <2>1. CASE visit(i) = Null
    BY <2>1
  <2>2. CASE visit(i) # Null
    <3>1. visit(i).arrival \in Int /\ visit(i).departure \in Int
      BY <1>3, <1>5, <2>2, TablesImported DEF ColumnsTyped
    <3>2. /\ pair(visit(i).arrival, u.stops[i].arr) \in Pairs
          /\ pair(visit(i).departure, u.stops[i].dep) \in Pairs
      BY <1>1, <1>4, <1>5, <3>1
    <3>3. QED
      BY <2>2, <3>2
  <2>3. QED
    BY <2>1, <2>2
<1>6. Predictions(ctx, u, zone, d, now) = FlattenSeq(all)
  BY DEF Predictions, pair
<1>7. all \in [1..Len(u.stops) -> Seq(Pairs)]
  BY <1>2, <1>5
<1> HIDE DEF all
<1>8. QED
  BY <1>2, <1>6, <1>7, Flattened

\* The updates of a shift's trips are updates of the snapshot.
LEMMA UpdatesAre ==
    ASSUME NEW ctx, NEW n \in Nat, NEW trips, DOMAIN trips = 1..n
    PROVE  UpdatesOf(ctx, trips) \in Seq(ctx.rt.updates)
<1> DEFINE s == [i \in DOMAIN trips |-> GetTripUpdate(ctx, trips[i])]
           given == {i \in DOMAIN trips : GetTripUpdate(ctx, trips[i]) # Null}
<1>1. UpdatesOf(ctx, trips) = Taken(s, given)
  BY DEF UpdatesOf
<1>2. given \in SUBSET (1..n)
  OBVIOUS
<1>3. \A i \in given : s[i] \in {u \in ctx.rt.updates : u.trip = trips[i]}
  BY OneOf DEF GetTripUpdate
<1>4. \A i \in given : s[i] \in ctx.rt.updates
  BY <1>3
<1> HIDE DEF s, given
<1>5. QED
  BY <1>1, <1>2, <1>4, TakenIs

\* The delay an update gives as a whole is a number.
LEMMA TripDelayIs ==
    ASSUME NEW S, \A u \in S : UpdateTyped(u), NEW updates \in Seq(S)
    PROVE  TripLevelDelay(updates) \in Int \cup {Null}
<1> DEFINE given == {i \in DOMAIN updates : updates[i].delay # Null}
<1>1. TripLevelDelay(updates) = IF given = {} THEN Null ELSE updates[Max(given)].delay
  BY DEF TripLevelDelay
<1>2. given \in SUBSET (DOMAIN updates)
  OBVIOUS
<1> HIDE DEF given
<1>3. given # {} => updates[Max(given)] \in S
  BY <1>2, PlacesOf
<1>4. QED
  BY <1>1, <1>3 DEF UpdateTyped

\* So is the one it gives first for a stop.
LEMMA FirstDelayIs ==
    ASSUME NEW S, \A u \in S : UpdateTyped(u), NEW updates \in Seq(S)
    PROVE  FirstAvailableDelay(updates) \in Int \cup {Null}
<1> DEFINE T == {su \in UNION {Range(u.stops) : u \in S} : EventTyped(su.arr) /\ EventTyped(su.dep)}
           all == [i \in DOMAIN updates |-> updates[i].stops]
           stops == FlattenSeq(all)
           delay(e) == IF e = Null THEN Null ELSE e.delay
           of(su) == IF delay(su.arr) # Null THEN delay(su.arr) ELSE delay(su.dep)
           given == {i \in DOMAIN stops : of(stops[i]) # Null}
<1>1. FirstAvailableDelay(updates) = IF given = {} THEN Null ELSE of(stops[Min(given)])
  BY DEF FirstAvailableDelay
<1>2. ASSUME NEW u \in S PROVE u.stops \in Seq(T)
  <2>1. /\ u.stops \in Seq(Range(u.stops))
        /\ \A i \in DOMAIN u.stops : EventTyped(u.stops[i].arr) /\ EventTyped(u.stops[i].dep)
    BY <1>2 DEF UpdateTyped
  <2>2. Len(u.stops) \in Nat /\ DOMAIN u.stops = 1..Len(u.stops) /\ u.stops \in [1..Len(u.stops) -> Range(u.stops)]
    BY <2>1, PlacesOf
  <2>3. \A i \in DOMAIN u.stops : u.stops[i] \in T
    BY <1>2, <2>1, <2>2
  <2> HIDE DEF T
  <2>4. u.stops \in [1..Len(u.stops) -> T]
    BY <2>2, <2>3
  <2>5. QED
    BY <2>2, <2>4
<1>3. \A su \in T : of(su) \in Int \cup {Null}
  BY DEF EventTyped
<1> HIDE DEF T
<1>4. /\ Len(updates) \in Nat /\ DOMAIN updates = 1..Len(updates)
      /\ \A i \in DOMAIN updates : updates[i] \in S
  BY PlacesOf
<1>5. all \in [1..Len(updates) -> Seq(T)]
  BY <1>2, <1>4
<1> HIDE DEF all
<1>6. stops \in Seq(T)
  BY <1>4, <1>5, Flattened
<1>7. given \in SUBSET (DOMAIN stops)
  OBVIOUS
<1> HIDE DEF given, stops, of
<1>8. given # {} => stops[Min(given)] \in T
  BY <1>6, <1>7, PlacesOf
<1>9. QED
  BY <1>1, <1>3, <1>8

\* The deviation that the stops of the updates give is a number.
LEMMA ClosestIs ==
    ASSUME feed \in DOMAIN Feeds, NEW ctx, ctx.db = db, NEW S, \A u \in S : UpdateTyped(u),
           NEW updates \in Seq(S), NEW zone \in Clocks, NEW d \in Int, NEW now \in Int
    PROVE  ClosestDeviation(ctx, updates, zone, d, now) \in Int \cup {Null}
<1> DEFINE all == [i \in DOMAIN updates |-> Predictions(ctx, updates[i], zone, d, now)]
           seconds == SecondsSince(zone, now, d)
           best == FoldLeft(LAMBDA b, p : Consider(b, p, seconds), NoPick, FlattenSeq(all))
<1>1. ClosestDeviation(ctx, updates, zone, d, now)
      = IF best.delta = Null THEN Null ELSE best.deviation
  BY DEF ClosestDeviation
<1>2. /\ Len(updates) \in Nat /\ DOMAIN updates = 1..Len(updates)
      /\ \A i \in DOMAIN updates : updates[i] \in S
  BY PlacesOf
<1>3. \A i \in DOMAIN updates : Predictions(ctx, updates[i], zone, d, now) \in Seq(Pairs)
  BY <1>2, PairsAre
<1>4. all \in [1..Len(updates) -> Seq(Pairs)]
  BY <1>2, <1>3
<1>5. seconds \in Int
  BY SecondsAre
<1> HIDE DEF all, seconds
<1>6. FlattenSeq(all) \in Seq(Pairs)
  BY <1>2, <1>4, Flattened
<1>7. Len(FlattenSeq(all)) \in Nat /\ FlattenSeq(all) \in [1..Len(FlattenSeq(all)) -> Pairs]
  BY <1>6, LenProperties
<1>8. best \in Picks
  <2> DEFINE offered == {p \in Range(FlattenSeq(all)) : Offers(p)}
  <2>1. PickedFrom(best, offered, seconds)
    BY <1>5, <1>7, PicksFold
  <2>2. \A p \in offered : p \in Pairs
    BY <1>7 DEF Range
  <2> HIDE DEF best, offered
  <2>3. \A p \in offered : PickOf(p, seconds) \in Picks
    BY <1>5, <2>2 DEF PickOf, Picks, Pairs, Distance
  <2>4. NoPick \in Picks
    BY DEF NoPick, Picks
  <2>5. QED
    BY <2>1, <2>3, <2>4 DEF PickedFrom
<1> HIDE DEF best
<1>9. QED
  BY <1>1, <1>8 DEF Picks

\* The deviation of a block is a number, if it has one.
LEMMA DeviationIs ==
    ASSUME feed \in DOMAIN Feeds, NEW ctx, ctx.db = db, SnapshotTyped(ctx.rt),
           NEW n \in Nat, NEW trips, DOMAIN trips = 1..n,
           NEW zone \in Clocks, NEW d \in Int, NEW now \in Int
    PROVE  GetScheduleDeviationForBlock(ctx, trips, zone, d, now) \in Int \cup {Null}
<1> DEFINE updates == UpdatesOf(ctx, trips)
           of == OrElse(OrElse(TripLevelDelay(updates), ClosestDeviation(ctx, updates, zone, d, now)),
                        FirstAvailableDelay(updates))
<1>1. \A u \in ctx.rt.updates : UpdateTyped(u)
  BY DEF SnapshotTyped
<1>2. updates \in Seq(ctx.rt.updates)
  BY UpdatesAre
<1>3. GetScheduleDeviationForBlock(ctx, trips, zone, d, now)
      = IF of = Null \/ Exceeds(of) THEN Null ELSE of
  BY DEF GetScheduleDeviationForBlock
<1> HIDE DEF updates
<1>4. TripLevelDelay(updates) \in Int \cup {Null}
  BY <1>1, <1>2, TripDelayIs
<1>5. FirstAvailableDelay(updates) \in Int \cup {Null}
  BY <1>1, <1>2, FirstDelayIs
<1>6. ClosestDeviation(ctx, updates, zone, d, now) \in Int \cup {Null}
  BY <1>1, <1>2, ClosestIs
<1>7. of \in Int \cup {Null}
  BY <1>4, <1>5, <1>6 DEF OrElse
<1> HIDE DEF of
<1>8. QED
  BY <1>3, <1>7

-----------------------------------------------------------------------------
(* The stops that a status names. *)

\* The stops that visits name, and those that a vehicle does.
KnownStops(named) == {st.stop : st \in db.stopTimes} \cup named \cup {NoText}

\* A stop that is found nearest in time is one of a visit.
LEMMA NearestIs ==
    ASSUME NEW K, NoText \in K, NEW n \in Nat, NEW times, \A i \in 1..n : times[i].stop \in K,
           NEW S \in SUBSET (1..n), NEW at, \A i \in S : at[i] \in Int, NEW seconds \in Int
    PROVE  NearestInTime(times, at, seconds, S).stop \in K
<1> DEFINE away == [i \in S |-> Distance(at[i], seconds)]
           nearest == {i \in S : \A j \in S : away[i] <= away[j]}
<1>1. CASE S = {}
  BY <1>1 DEF NearestInTime, NoStop
<1>2. CASE S # {}
  <2>1. nearest = {i \in S : \A j \in S : Distance(at[i], seconds) <= Distance(at[j], seconds)}
    OBVIOUS
  <2>2. away \in [S -> Int]
    BY DEF Distance
  <2> HIDE DEF away
  <2>3. Min(nearest) \in S
    BY <1>2, <2>2, NearestPlace
  <2> HIDE DEF nearest
  <2>4. NearestInTime(times, at, seconds, S).stop = times[Min(nearest)].stop
    BY <1>2, <2>1 DEF NearestInTime
  <2>5. Min(nearest) \in 1..n
    BY <2>3
  <2>6. QED
    BY <2>4, <2>5
<1>3. QED
  BY <1>1, <1>2

\* The delays of a visit are numbers.
LEMMA StopDelayIs ==
    ASSUME NEW ctx, SnapshotTyped(ctx.rt), NEW trip, NEW times, NEW st,
           StopDelayFor(ctx, trip, times, st) # Null
    PROVE  /\ StopDelayFor(ctx, trip, times, st).arrival \in Int
           /\ StopDelayFor(ctx, trip, times, st).departure \in Int
<1> DEFINE u == GetTripUpdate(ctx, trip)
           stops == IF u = Null THEN <<>> ELSE u.stops
           bySequence == {i \in DOMAIN stops : /\ SequenceIdentifiesVisit(stops[i], times)
                                               /\ stops[i].seq = st.seq}
           byStop == {i \in DOMAIN stops : /\ ~SequenceIdentifiesVisit(stops[i], times)
                                           /\ stops[i].stop # Null /\ stops[i].stop = st.stop}
           delay(e) == IF e = Null \/ e.delay = Null THEN 0 ELSE e.delay
           of(i) == [arrival |-> delay(stops[i].arr), departure |-> delay(stops[i].dep)]
<1>1. StopDelayFor(ctx, trip, times, st)
      = CASE bySequence # {} -> of(Max(bySequence))
          [] bySequence = {} /\ byStop # {} -> of(Max(byStop))
          [] OTHER -> Null
  BY DEF StopDelayFor
<1>2. u # Null => UpdateTyped(u)
  BY OneOf DEF GetTripUpdate, SnapshotTyped
<1>3. \E T : stops \in Seq(T)
  BY <1>2, EmptySeq DEF UpdateTyped
<1>4. \A i \in DOMAIN stops : EventTyped(stops[i].arr) /\ EventTyped(stops[i].dep)
  BY <1>2 DEF UpdateTyped
<1>5. \A i \in DOMAIN stops : of(i).arrival \in Int /\ of(i).departure \in Int
  BY <1>4 DEF EventTyped
<1>6. bySequence \in SUBSET (DOMAIN stops) /\ byStop \in SUBSET (DOMAIN stops)
  OBVIOUS
<1> HIDE DEF bySequence, byStop, stops, of
<1>7. /\ bySequence # {} => Max(bySequence) \in DOMAIN stops
      /\ byStop # {} => Max(byStop) \in DOMAIN stops
  BY <1>3, <1>6, PlacesOf
<1>8. CASE bySequence # {}
  BY <1>1, <1>5, <1>7, <1>8
<1>9. CASE bySequence = {} /\ byStop # {}
  BY <1>1, <1>5, <1>7, <1>9
<1>10. CASE bySequence = {} /\ byStop = {}
  BY <1>1, <1>10
<1>11. QED
  BY <1>8, <1>9, <1>10

\* By the delays of the single stops.
LEMMA StopsWithDelays ==
    ASSUME feed \in DOMAIN Feeds, NEW named, NEW ctx, SnapshotTyped(ctx.rt), NEW trip,
           NEW times \in Seq(db.stopTimes), NEW seconds \in Int
    PROVE  /\ FindStopsWithDelays(ctx, trip, times, seconds).closest.stop \in KnownStops(named)
           /\ FindStopsWithDelays(ctx, trip, times, seconds).next.stop \in KnownStops(named)
<1> DEFINE usable == {i \in DOMAIN times : times[i].departure > 0}
           at == [i \in usable |-> DelayedStopTime(StopDelayFor(ctx, trip, times, times[i]), times[i])]
           later == {i \in usable : at[i] > seconds}
<1>1. FindStopsWithDelays(ctx, trip, times, seconds)
      = [closest |-> NearestInTime(times, at, seconds, usable),
         next |-> NearestInTime(times, at, seconds, later)]
  BY DEF FindStopsWithDelays
<1>2. Len(times) \in Nat /\ DOMAIN times = 1..Len(times) /\ \A i \in DOMAIN times : times[i] \in db.stopTimes
  BY PlacesOf
<1>3. usable \in SUBSET (1..Len(times))
  BY <1>2
<1>4. later \in SUBSET (1..Len(times)) /\ later \in SUBSET usable
  BY <1>2
<1>5. \A i \in usable : at[i] \in Int
  <2> SUFFICES ASSUME NEW i \in usable PROVE at[i] \in Int
    OBVIOUS
  <2>1. times[i].arrival \in Int /\ times[i].departure \in Int
    BY <1>2, TablesImported DEF ColumnsTyped
  <2> DEFINE delay == StopDelayFor(ctx, trip, times, times[i])
  <2>2. delay # Null => delay.arrival \in Int /\ delay.departure \in Int
    BY StopDelayIs
  <2> HIDE DEF delay
  <2>3. DelayedStopTime(delay, times[i]) \in Int
    BY <2>1, <2>2 DEF DelayedStopTime
  <2>4. QED
    BY <2>3 DEF delay
<1>6. \A i \in 1..Len(times) : times[i].stop \in KnownStops(named)
  BY <1>2 DEF KnownStops
<1>7. NoText \in KnownStops(named)
  BY DEF KnownStops
<1> HIDE DEF usable, at, later
<1>8. NearestInTime(times, at, seconds, usable).stop \in KnownStops(named)
  BY <1>2, <1>3, <1>5, <1>6, <1>7, NearestIs
<1>9. \A i \in later : at[i] \in Int
  BY <1>4, <1>5
<1>10. NearestInTime(times, at, seconds, later).stop \in KnownStops(named)
  BY <1>2, <1>4, <1>6, <1>7, <1>9, NearestIs
<1>11. QED
  BY <1>1, <1>8, <1>10

\* By the deviation of the block alone.
LEMMA StopsByDeviation ==
    ASSUME feed \in DOMAIN Feeds, NEW named, NEW times \in Seq(db.stopTimes), times # <<>>,
           NEW dev \in Int, NEW seconds \in Int
    PROVE  /\ FindStopsByScheduleDeviation(times, dev, seconds).closest.stop \in KnownStops(named)
           /\ FindStopsByScheduleDeviation(times, dev, seconds).next.stop \in KnownStops(named)
<1> DEFINE P == DOMAIN times
           away == [i \in P |-> Distance(EffectiveStopTime(times[i]), seconds - dev)]
           i == Min({j \in P : \A k \in P : away[j] <= away[k]})
<1>1. /\ Len(times) \in Nat \ {0} /\ P = 1..Len(times)
      /\ \A k \in P : times[k] \in db.stopTimes
  BY PlacesOf, EmptySeq
<1>2. i = Min({j \in DOMAIN times : \A k \in DOMAIN times :
              Distance(EffectiveStopTime(times[j]), seconds - dev)
                <= Distance(EffectiveStopTime(times[k]), seconds - dev)})
  <2>1. {j \in P : \A k \in P : away[j] <= away[k]}
        = {j \in DOMAIN times : \A k \in DOMAIN times :
              Distance(EffectiveStopTime(times[j]), seconds - dev)
                <= Distance(EffectiveStopTime(times[k]), seconds - dev)}
    OBVIOUS
  <2>2. QED
    BY <2>1
<1>3. FindStopsByScheduleDeviation(times, dev, seconds)
      = [closest |-> StopAt(times[i], dev, seconds),
         next |-> IF i = Len(times) THEN NoStop ELSE StopAt(times[i + 1], dev, seconds)]
  <2> HIDE DEF i
  <2>1. QED
    BY <1>2 DEF FindStopsByScheduleDeviation
<1>4. \A k \in P : EffectiveStopTime(times[k]) \in Int
  <2>1. \A st \in db.stopTimes : st.arrival \in Int /\ st.departure \in Int
    BY TablesImported DEF ColumnsTyped
  <2>2. QED
    BY <1>1, <2>1 DEF EffectiveStopTime
<1>5. away \in [P -> Int]
  BY <1>4 DEF Distance
<1>6. P \in SUBSET (1..Len(times)) /\ P # {}
  <2>1. 1 \in 1..Len(times)
    BY <1>1
  <2>2. QED
    BY <1>1, <2>1
<1> HIDE DEF away
<1>7. i \in P
  <2> HIDE DEF P
  <2>1. QED
    BY <1>1, <1>5, <1>6, NearestPlace
<1> HIDE DEF i
<1>8. i # Len(times) => i + 1 \in P
  BY <1>1, <1>7
<1>9. times[i].stop \in KnownStops(named) /\ (i # Len(times) => times[i + 1].stop \in KnownStops(named))
  BY <1>1, <1>7, <1>8 DEF KnownStops
<1>10. NoText \in KnownStops(named)
  BY DEF KnownStops
<1>11. QED
  BY <1>3, <1>9, <1>10 DEF StopAt, NoStop

\* The first stop of a next trip is one of a visit.
LEMMA FirstStopOfNext ==
    ASSUME feed \in DOMAIN Feeds, NEW ctx, ctx.db = db, NEW trip
    PROVE  FirstStopOfNextTrip(ctx, trip) \in db.stopTimes \cup {Null}
<1> DEFINE row == GetTrip(db, trip)
           around == GetNextAndPreviousTripsInBlock(db, trip, row.block, {row.service})
           rows == IF around = Null THEN {} ELSE StopTimesOf(db, {around.next})
           stop == GetFirstStopOfNextTripInBlock(db, trip, row.block, {row.service})
<1>1. FirstStopOfNextTrip(ctx, trip) \in {Null, stop}
  BY DEF FirstStopOfNextTrip
<1>2. stop = IF rows = {} THEN Null ELSE BySequence(rows)[1]
  BY DEF GetFirstStopOfNextTripInBlock
<1>3. rows # {} => BySequence(rows)[1] \in db.stopTimes
  <2> SUFFICES ASSUME rows # {} PROVE BySequence(rows)[1] \in db.stopTimes
    OBVIOUS
  <2>1. rows \in SUBSET db.stopTimes /\ \A a, b \in rows : a.trip = b.trip
    BY DEF StopTimesOf
  <2>2. /\ IsFiniteSet(db.stopTimes)
        /\ \A st \in db.stopTimes : st.seq \in Int
        /\ \A a, b \in db.stopTimes : a.trip = b.trip /\ a.seq = b.seq => a = b
    BY TablesImported DEF ColumnsTyped
  <2> HIDE DEF rows
  <2>3. IsFiniteSet(rows) /\ (\A st \in rows : st.seq \in Int) /\ \A a, b \in rows : a.seq = b.seq => a = b
    BY <2>1, <2>2, FS_Subset
  <2>4. /\ Cardinality(rows) \in Nat
        /\ BySequence(rows) \in [1..Cardinality(rows) -> rows]
        /\ \A x \in rows : \E i \in 1..Cardinality(rows) : BySequence(rows)[i] = x
    BY <2>3, SequenceOrders
  <2>5. 1 \in 1..Cardinality(rows)
    BY <2>4
  <2>6. QED
    BY <2>1, <2>4, <2>5
<1> HIDE DEF rows, stop
<1>4. QED
  BY <1>1, <1>2, <1>3

\* By what the vehicle names.
LEMMA StopsOfVehicle ==
    ASSUME feed \in DOMAIN Feeds, NEW named, NEW ctx, ctx.db = db, NEW trip, NEW times \in Seq(db.stopTimes),
           NEW v, NEW dev, NEW seconds
    PROVE  /\ \A stop : FindNextStopAfter(times, stop, dev, seconds).stop \in KnownStops(named)
           /\ FindClosestStopBySequence(times, v.seq, dev, seconds).stop \in KnownStops(named)
           /\ FindNextStopBySequence(ctx, trip, times, v, dev, seconds).stop \in KnownStops(named)
<1>1. /\ Len(times) \in Nat /\ DOMAIN times = 1..Len(times)
      /\ \A k \in DOMAIN times : times[k] \in db.stopTimes
  BY PlacesOf
<1>2. \A st \in db.stopTimes : StopAt(st, dev, seconds).stop \in KnownStops(named)
  BY DEF StopAt, KnownStops
<1>3. NoStop.stop \in KnownStops(named)
  BY DEF NoStop, KnownStops
<1>4. \A i \in DOMAIN times : i # Len(times) => i + 1 \in DOMAIN times
  BY <1>1
<1>5. ASSUME NEW stop PROVE FindNextStopAfter(times, stop, dev, seconds).stop \in KnownStops(named)
  <2> DEFINE visits == {i \in DOMAIN times : times[i].stop = stop}
             i == VisitOf(times, stop)
  <2>1. i = OneRow({Min(x) : x \in {visits} \ {{}}})
    BY DEF VisitOf
  <2>2. i # Null => visits # {} /\ i = Min(visits)
    BY <2>1, OneOf
  <2>3. visits \in SUBSET (DOMAIN times)
    OBVIOUS
  <2> HIDE DEF visits
  <2>4. i # Null => i \in DOMAIN times
    BY <2>2, <2>3, PlacesOf
  <2> HIDE DEF i
  <2>5. i # Null /\ i # Len(times) => times[i + 1] \in db.stopTimes
    BY <1>1, <1>4, <2>4
  <2>6. FindNextStopAfter(times, stop, dev, seconds)
        = IF i = Null \/ i = Len(times) THEN NoStop ELSE StopAt(times[i + 1], dev, seconds)
    BY DEF FindNextStopAfter, i
  <2>7. QED
    BY <1>2, <1>3, <2>5, <2>6
<1>6. FindClosestStopBySequence(times, v.seq, dev, seconds).stop \in KnownStops(named)
  <2> DEFINE rows == {x \in Range(times) : x.seq = v.seq}
  <2>1. rows \subseteq db.stopTimes
    BY <1>1 DEF Range
  <2>2. FindClosestStopBySequence(times, v.seq, dev, seconds)
        = IF OneRow(rows) = Null THEN NoStop ELSE StopAt(OneRow(rows), dev, seconds)
    BY DEF FindClosestStopBySequence
  <2> HIDE DEF rows
  <2>3. OneRow(rows) # Null => OneRow(rows) \in db.stopTimes
    BY <2>1, OneOf
  <2>4. QED
    BY <1>2, <1>3, <2>2, <2>3
<1>7. FindNextStopBySequence(ctx, trip, times, v, dev, seconds).stop \in KnownStops(named)
  <2> DEFINE i == OneRow({j \in DOMAIN times : times[j].seq = v.seq})
             first == FirstStopOfNextTrip(ctx, trip)
             at(st) == IF st = Null THEN NoStop ELSE StopAt(st, dev, seconds)
  <2>1. FindNextStopBySequence(ctx, trip, times, v, dev, seconds)
        = CASE i = Null -> NoStop
            [] i # Null /\ ~v.stopped -> at(times[i])
            [] i # Null /\ v.stopped /\ i < Len(times) -> at(times[i + 1])
            [] OTHER -> at(first)
    BY DEF FindNextStopBySequence
  <2>2. i # Null => i \in DOMAIN times
    BY OneOf
  <2>3. \A st \in db.stopTimes \cup {Null} : at(st).stop \in KnownStops(named)
    BY <1>2, <1>3
  <2>4. first \in db.stopTimes \cup {Null}
    BY FirstStopOfNext
  <2> HIDE DEF i, first, at
  <2>5. at(first).stop \in KnownStops(named)
    BY <2>3, <2>4
  <2>6. i # Null => times[i] \in db.stopTimes
    BY <1>1, <2>2
  <2>7. i # Null /\ i < Len(times) => times[i + 1] \in db.stopTimes
    BY <1>1, <2>2
  <2>8. CASE i = Null
    BY <1>3, <2>1, <2>8
  <2>9. CASE i # Null /\ ~v.stopped
    BY <2>1, <2>3, <2>6, <2>9
  <2>10. CASE i # Null /\ v.stopped /\ i < Len(times)
    BY <2>1, <2>3, <2>7, <2>10
  <2>11. CASE i # Null /\ v.stopped /\ ~(i < Len(times))
    BY <2>1, <2>5, <2>11
  <2>12. QED
    BY <2>8, <2>9, <2>10, <2>11
<1>8. QED
  BY <1>5, <1>6, <1>7

\* Whichever way they are found, the two stops are stops that visits and
\* vehicles name.
LEMMA StopsFound ==
    ASSUME feed \in DOMAIN Feeds, NEW named, NEW ctx, ctx.db = db, SnapshotTyped(ctx.rt),
           NEW times \in Seq(db.stopTimes), NEW v, v = Null \/ v.stop \in named,
           NEW trip, NEW dbTrip, NEW dev \in Int, NEW seconds \in Int
    PROVE  /\ FindStops(ctx, trip, dbTrip, times, v, dev, seconds).closest.stop \in KnownStops(named)
           /\ FindStops(ctx, trip, dbTrip, times, v, dev, seconds).next.stop \in KnownStops(named)
<1>1. CASE times = <<>>
  <2>1. FindStops(ctx, trip, dbTrip, times, v, dev, seconds) = [closest |-> NoStop, next |-> NoStop]
    BY <1>1 DEF FindStops
  <2>2. QED
    BY <2>1 DEF NoStop, KnownStops
<1>2. CASE times # <<>> /\ (v = Null \/ v.at = Null)
  <2>1. FindStops(ctx, trip, dbTrip, times, v, dev, seconds) = FindStopsWithDelays(ctx, dbTrip, times, seconds)
    BY <1>2 DEF FindStops
  <2>2. QED
    BY <2>1, StopsWithDelays
<1>3. CASE times # <<>> /\ ~(v = Null \/ v.at = Null)
  <2> DEFINE closest == CalculateOffsetForStop(times, v.stop, dev, seconds)
  <2>1. CASE v.stop # NoText
    <3>1. FindStops(ctx, trip, dbTrip, times, v, dev, seconds)
          = [closest |-> closest,
             next |-> IF v.stopped THEN FindNextStopAfter(times, v.stop, dev, seconds) ELSE closest]
      BY <1>3, <2>1 DEF FindStops
    <3>2. closest.stop = v.stop
      BY DEF CalculateOffsetForStop
    <3> HIDE DEF closest
    <3>3. closest.stop \in KnownStops(named)
      BY <1>3, <3>2 DEF KnownStops
    <3>4. FindNextStopAfter(times, v.stop, dev, seconds).stop \in KnownStops(named)
      BY StopsOfVehicle
    <3>5. QED
      BY <3>1, <3>3, <3>4
  <2>2. CASE v.stop = NoText /\ v.seq # Null
    <3>1. FindStops(ctx, trip, dbTrip, times, v, dev, seconds)
          = [closest |-> FindClosestStopBySequence(times, v.seq, dev, seconds),
             next |-> FindNextStopBySequence(ctx, trip, times, v, dev, seconds)]
      BY <1>3, <2>2 DEF FindStops
    <3>2. /\ FindClosestStopBySequence(times, v.seq, dev, seconds).stop \in KnownStops(named)
          /\ FindNextStopBySequence(ctx, trip, times, v, dev, seconds).stop \in KnownStops(named)
      BY StopsOfVehicle
    <3>3. QED
      BY <3>1, <3>2
  <2>3. CASE v.stop = NoText /\ v.seq = Null
    <3>1. FindStops(ctx, trip, dbTrip, times, v, dev, seconds) = FindStopsByScheduleDeviation(times, dev, seconds)
      BY <1>3, <2>3 DEF FindStops
    <3>2. QED
      BY <1>3, <3>1, StopsByDeviation
  <2>4. QED
    BY <2>1, <2>2, <2>3
<1>4. QED
  BY <1>1, <1>2, <1>3

\* So are those that the schedule fills in.
LEMMA StopsFilled ==
    ASSUME NEW named, NEW times \in Seq(db.stopTimes), NEW dev, NEW seconds, NEW found,
           found.closest.stop \in KnownStops(named), found.next.stop \in KnownStops(named)
    PROVE  /\ FillStopsFromSchedule(found, times, dev, seconds).closest.stop \in KnownStops(named)
           /\ FillStopsFromSchedule(found, times, dev, seconds).next.stop \in KnownStops(named)
<1> DEFINE due == {i \in DOMAIN times : EffectiveStopTime(times[i]) + dev > seconds}
           i == Min(due)
           last == IF due = {} THEN Len(times) ELSE i - 1
<1>1. FillStopsFromSchedule(found, times, dev, seconds)
      = IF times = <<>> THEN found
        ELSE [closest |-> IF found.closest.stop = NoText /\ last > 0
                          THEN StopAt(times[last], dev, seconds) ELSE found.closest,
              next |-> IF found.next.stop = NoText /\ due # {}
                       THEN StopAt(times[i], dev, seconds) ELSE found.next]
  BY DEF FillStopsFromSchedule
<1>2. /\ Len(times) \in Nat /\ DOMAIN times = 1..Len(times)
      /\ \A k \in DOMAIN times : times[k] \in db.stopTimes
  BY PlacesOf
<1>3. due \in SUBSET (DOMAIN times)
  OBVIOUS
<1> HIDE DEF due
<1>4. due # {} => i \in DOMAIN times
  BY <1>3, PlacesOf
<1> HIDE DEF i
<1>5. last > 0 => last \in DOMAIN times
  BY <1>2, <1>4
<1> HIDE DEF last
<1>6. \A k \in DOMAIN times : StopAt(times[k], dev, seconds).stop \in KnownStops(named)
  BY <1>2 DEF StopAt, KnownStops
<1>7. QED
  BY <1>1, <1>4, <1>5, <1>6

\* What a status names: two such stops, and its active trip under its agency.
StatusNames(named, status) ==
    /\ status.closest.stop \in KnownStops(named)
    /\ status.next.stop \in KnownStops(named)
    /\ \E trip : status.active = <<status.agency, trip>>

\* A context with the queries that fail left open.
Reading(ctx, snapshot) == \E fails : ctx = [db |-> db, rt |-> snapshot, fails |-> fails]

\* It stays one where the frequencies of a trip are known.
LEMMA PreloadedReads ==
    ASSUME NEW ctx, NEW snapshot, Reading(ctx, snapshot), NEW trip, NEW known
    PROVE  Reading(Preloaded(ctx, trip, known), snapshot)
<1>1. PICK fails : ctx = [db |-> db, rt |-> snapshot, fails |-> fails]
  BY DEF Reading
<1> DEFINE left == IF trip \in known THEN fails \ {"GetFrequenciesForTrip"} ELSE fails
<1>2. Preloaded(ctx, trip, known) = [db |-> db, rt |-> snapshot, fails |-> left]
  BY <1>1 DEF Preloaded
<1>3. QED
  BY <1>2 DEF Reading

\* The parts of a heading that later parts of a status change.
LEMMA HeadingIs ==
    ASSUME NEW ctx, NEW agency, NEW trip, NEW dbTrip, NEW v, NEW zone, NEW d, NEW now
    PROVE  LET heading == Heading(ctx, agency, trip, dbTrip, v, zone, d, now)
           IN  /\ {"active", "agency", "closest", "next", "predicted", "deviation", "effective",
                   "frequency", "scheduledAlong", "along", "position", "snapshot", "status"}
                    \subseteq DOMAIN heading
               /\ heading = [f \in DOMAIN heading |-> heading[f]]
               /\ heading.closest = NoStop /\ heading.next = NoStop
               /\ heading.agency = agency
               /\ \E t : heading.active = <<agency, t>>
BY DEF Heading, CombinedID

\* What is located on its block still names such stops.
LEMMA LocatedNames ==
    ASSUME NEW named, NEW status, NEW stops, NEW snapshot, NEW position, NEW trip, NEW v, NEW now,
           {"active", "agency", "closest", "next", "scheduledAlong", "along", "position", "snapshot"}
              \subseteq DOMAIN status,
           status = [f \in DOMAIN status |-> status[f]],
           stops.closest.stop \in KnownStops(named), stops.next.stop \in KnownStops(named),
           \E t : status.active = <<status.agency, t>>
    PROVE  StatusNames(named, Located(status, stops, snapshot, position, trip, v, now))
<1> DEFINE located == Located(status, stops, snapshot, position, trip, v, now)
           onBlock == snapshot # Null /\ snapshot.inRange /\ snapshot.active # Null
<1>1. /\ located.closest = stops.closest /\ located.next = stops.next
      /\ located.agency = status.agency
      /\ located.active = IF onBlock THEN CombinedID(status.agency, snapshot.active) ELSE status.active
  BY DEF Located
<1>2. \E t : located.active = <<located.agency, t>>
  BY <1>1 DEF CombinedID
<1> HIDE DEF located
<1>3. QED
  BY <1>1, <1>2 DEF StatusNames, located

\* A status of an agency that names such stops.
StatusNamesFor(named, agency, status) ==
    /\ StatusNames(named, status)
    /\ status = [f \in DOMAIN status |-> status[f]]
    /\ status.agency = agency

\* What BuildTripStatus comes to is one, from a heading of any context.
LEMMA ReachedNames ==
    ASSUME feed \in DOMAIN Feeds, NEW named, NEW snapshot, SnapshotTyped(snapshot),
           NEW ctx, Reading(ctx, snapshot), NEW other,
           NEW memo, NEW agency, NEW trip, NEW dbTrip, NEW v, v = Null \/ v.stop \in named,
           NEW zone \in Clocks, NEW d \in Int, NEW now \in Int, NEW heading, NEW status,
           heading = Heading(other, agency, trip, dbTrip, v, zone, d, now),
           status = StatusReached(ctx, memo, heading, trip, dbTrip, v, zone, d, now)
    PROVE  StatusNamesFor(named, agency, status)
<1> DEFINE trips == BlockShiftTripIDsSortedByStartTime(ctx, dbTrip, d)
           deviation == GetScheduleDeviationForBlock(ctx, trips, zone, d, now)
           dev == OrElse(deviation, 0)
           seconds == SecondsSince(zone, now, d)
           times == IF Fails(ctx, "GetStopTimesForTrip") THEN <<>> ELSE GetStopTimesForTrip(ctx.db, dbTrip)
           late == [heading EXCEPT !.predicted = @ \/ deviation # Null,
                                   !.deviation = dev, !.effective = now - dev]
           stops == FillStopsFromSchedule(FindStops(ctx, trip, dbTrip, times, v, dev, seconds),
                                          times, dev, seconds)
           place == IF times = <<>> THEN Null ELSE SnapshotOf(ctx, memo, dbTrip, zone, now - dev, d)
           position == StatusPosition(ctx, dbTrip, place, v, zone, d, now)
           ended == [heading EXCEPT !.frequency = Null, !.predicted = FALSE]
           located == Located(late, stops, place, position, trip, v, now)
<1>1. ctx.db = db /\ ctx.rt = snapshot
  BY DEF Reading
<1>2. deviation \in Int \cup {Null}
  <2>1. \E n \in Nat : DOMAIN trips = 1..n
    BY <1>1, ShiftIDsAre
  <2> HIDE DEF trips
  <2>2. QED
    BY <1>1, <2>1, DeviationIs
<1>3. times \in Seq(db.stopTimes)
  BY <1>1, VisitsAre, EmptySeq
<1>4. seconds \in Int
  BY SecondsAre
<1>5. dev \in Int
  <2> HIDE DEF deviation
  <2>1. QED
    BY <1>2 DEF OrElse
<1>6. stops.closest.stop \in KnownStops(named) /\ stops.next.stop \in KnownStops(named)
  <2> HIDE DEF times, dev, seconds
  <2> DEFINE found == FindStops(ctx, trip, dbTrip, times, v, dev, seconds)
  <2>1. found.closest.stop \in KnownStops(named) /\ found.next.stop \in KnownStops(named)
    BY <1>1, <1>3, <1>4, <1>5, StopsFound
  <2> HIDE DEF found
  <2>2. /\ FillStopsFromSchedule(found, times, dev, seconds).closest.stop \in KnownStops(named)
        /\ FillStopsFromSchedule(found, times, dev, seconds).next.stop \in KnownStops(named)
    BY <1>3, <2>1, StopsFilled
  <2>3. QED
    BY <2>2 DEF found
<1>7. status = IF Fails(ctx, "GetFrequenciesForTrip") THEN ended
               ELSE IF heading.status = "CANCELED" THEN heading ELSE located
  BY DEF StatusReached, StatusWith
<1>8. /\ {"active", "agency", "closest", "next", "predicted", "deviation", "effective",
          "frequency", "scheduledAlong", "along", "position", "snapshot", "status"}
           \subseteq DOMAIN heading
      /\ heading = [f \in DOMAIN heading |-> heading[f]]
      /\ heading.closest = NoStop /\ heading.next = NoStop
      /\ heading.agency = agency
      /\ \E t : heading.active = <<agency, t>>
  BY HeadingIs
<1>9. NoStop.stop \in KnownStops(named)
  BY DEF NoStop, KnownStops
<1> HIDE DEF deviation, dev, stops, place, position
<1>10. StatusNames(named, heading)
  BY <1>8, <1>9 DEF StatusNames
<1>11. /\ ended.closest = heading.closest /\ ended.next = heading.next /\ ended.agency = heading.agency
       /\ ended.active = heading.active
       /\ ended = [f \in DOMAIN ended |-> ended[f]]
  BY <1>8
<1>12. StatusNames(named, ended)
  <2> HIDE DEF ended
  <2>1. QED
    BY <1>10, <1>11 DEF StatusNames
<1>13. /\ DOMAIN late = DOMAIN heading
       /\ late = [f \in DOMAIN late |-> late[f]]
       /\ late.active = heading.active /\ late.agency = heading.agency
  BY <1>8
<1> HIDE DEF late
<1>14. StatusNames(named, located)
  <2>1. {"active", "agency", "closest", "next", "scheduledAlong", "along", "position", "snapshot"}
          \subseteq DOMAIN late
    BY <1>8, <1>13
  <2>2. \E t : late.active = <<late.agency, t>>
    BY <1>8, <1>13
  <2>3. QED
    BY <1>6, <1>13, <2>1, <2>2, LocatedNames
<1>15. located = [f \in DOMAIN located |-> located[f]] /\ located.agency = agency
  BY <1>8, <1>13 DEF Located
<1> HIDE DEF ended, located
<1>16. StatusNames(named, status)
  BY <1>7, <1>10, <1>12, <1>14
<1>17. status = [f \in DOMAIN status |-> status[f]]
  BY <1>7, <1>8, <1>11, <1>15
<1>18. status.agency = agency
  BY <1>7, <1>8, <1>11, <1>15
<1>19. QED
  BY <1>16, <1>17, <1>18 DEF StatusNamesFor

\* So does the status of an entry, wherever its frequency comes from.
LEMMA StatusOfEntry ==
    ASSUME feed \in DOMAIN Feeds, NEW named, NEW snapshot, SnapshotTyped(snapshot),
           NEW ctx, Reading(ctx, snapshot), NEW known, NEW agency, NEW trip,
           NEW v, v = Null \/ v.stop \in named,
           NEW zone \in Clocks, NEW d \in Int, NEW now \in Int
    PROVE  /\ StatusNames(named, EntryStatus(ctx, known, agency, trip, v, zone, d, now))
           /\ EntryStatus(ctx, known, agency, trip, v, zone, d, now).agency = agency
<1> DEFINE dbTrip == DBTrip(ctx, trip, v, now)
           left == Preloaded(ctx, dbTrip, known)
           heading == Heading(ctx, agency, trip, dbTrip, v, zone, d, now)
           reached == StatusReached(left, <<>>, heading, trip, dbTrip, v, zone, d, now)
           status == EntryStatus(ctx, known, agency, trip, v, zone, d, now)
<1>1. status = AtServiceStart(ctx, reached, known \cup {dbTrip}, trip, zone, d, now)
  BY DEF EntryStatus
<1>2. Reading(left, snapshot)
  BY PreloadedReads
<1>3. StatusNamesFor(named, agency, reached)
  <2>1. /\ heading = Heading(ctx, agency, trip, dbTrip, v, zone, d, now)
        /\ reached = StatusReached(left, <<>>, heading, trip, dbTrip, v, zone, d, now)
    OBVIOUS
  <2> HIDE DEF left, dbTrip, heading, reached
  <2>2. QED
    BY <1>2, <2>1, ReachedNames
<1> HIDE DEF left, dbTrip, status, reached
<1>4. status = reached \/ \E frequency : status = [reached EXCEPT !.frequency = frequency]
  BY <1>1 DEF AtServiceStart
<1>5. /\ status.closest = reached.closest /\ status.next = reached.next
      /\ status.agency = reached.agency /\ status.active = reached.active
  <2>1. CASE status = reached
    BY <2>1
  <2>2. CASE \E frequency : status = [reached EXCEPT !.frequency = frequency]
    <3>1. PICK frequency : status = [reached EXCEPT !.frequency = frequency]
      BY <2>2
    <3>2. DOMAIN reached = DOMAIN status
      BY <3>1
    <3>3. \A f \in DOMAIN reached : f # "frequency" => status[f] = reached[f]
      BY <3>1
    <3>4. QED
      BY <3>1, <3>3
  <2>3. QED
    BY <1>4, <2>1, <2>2
<1>6. StatusNames(named, status)
  BY <1>3, <1>5 DEF StatusNames, StatusNamesFor
<1>7. QED
  BY <1>3, <1>5, <1>6 DEF status, StatusNamesFor

\* The vehicle of a trip is one of the snapshot.
LEMMA VehicleIs ==
    ASSUME NEW ctx, SnapshotTyped(ctx.rt), NEW trip
    PROVE  GetVehicleForTrip(ctx, trip) = Null \/ GetVehicleForTrip(ctx, trip) \in Range(ctx.rt.vehicles)
<1> DEFINE vehicles == ctx.rt.vehicles
           own == {i \in DOMAIN vehicles : vehicles[i].trip = trip}
           row == GetTrip(ctx.db, trip)
           mates == {t.id : t \in GetTripsByBlockID(ctx.db, row.block)}
           near == {i \in DOMAIN vehicles : vehicles[i].trip # NoText /\ vehicles[i].trip \in mates}
           v == GetVehicleForTrip(ctx, trip)
<1>1. \/ v = vehicles[Max(own)] /\ own # {}
      \/ v = Null
      \/ v = vehicles[Min(near)] /\ near # {}
  BY DEF GetVehicleForTrip
<1>2. vehicles \in Seq(Range(vehicles))
  BY DEF SnapshotTyped
<1>3. own \in SUBSET (DOMAIN vehicles) /\ near \in SUBSET (DOMAIN vehicles)
  OBVIOUS
<1> HIDE DEF own, near, v
<1>4. (own # {} => vehicles[Max(own)] \in Range(vehicles)) /\ (near # {} => vehicles[Min(near)] \in Range(vehicles))
  BY <1>2, <1>3, PlacesOf
<1>5. QED
  BY <1>1, <1>4 DEF v

-----------------------------------------------------------------------------
(* Stops and the stations they lie in. *)

\* A stop as a response describes it: one of the tables, under an agency.
StopModel(s) ==
    \E row \in db.stops : s.id = <<s.id[1], row.id>> /\ s.parent = ParentStationID(s.id[1], row)

\* What a response says of a stop of the tables.
LEMMA BuiltIsModel ==
    ASSUME NEW agency, NEW row \in db.stops, NEW routes
    PROVE  /\ StopModel(BuildStopModel(agency, row, routes))
           /\ BuildStopModel(agency, row, routes).id = <<agency, row.id>>
<1>1. BuildStopModel(agency, row, routes).id = <<agency, row.id>>
  BY DEF BuildStopModel, CombinedID
<1>2. BuildStopModel(agency, row, routes).parent = ParentStationID(agency, row)
  BY DEF BuildStopModel
<1>3. QED
  BY <1>1, <1>2 DEF StopModel

\* A parent that is named is a row of the tables.
LEMMA ParentNamed ==
    ASSUME feed \in DOMAIN Feeds, NEW s, StopModel(s), s.parent # Null
    PROVE  /\ s.parent = <<s.id[1], s.parent[2]>>
           /\ GetStop(db, s.parent[2]) # Null
<1>1. PICK row \in db.stops : s.id = <<s.id[1], row.id>> /\ s.parent = ParentStationID(s.id[1], row)
  BY DEF StopModel
<1>2. row.parent # NoText /\ s.parent = <<s.id[1], row.parent>>
  BY <1>1 DEF ParentStationID, CombinedID
<1>3. \E p \in db.stops : p.id = row.parent
  BY <1>2, TablesImported DEF ConstraintsHold
<1>4. QED
  BY <1>2, <1>3, StopFound

\* One level of parents.
LEMMA OneLevel ==
    ASSUME feed \in DOMAIN Feeds, NEW stops, \A s \in stops : StopModel(s)
    PROVE  /\ stops \subseteq WithParents(db, stops)
           /\ \A s \in WithParents(db, stops) : StopModel(s)
           /\ \A s \in WithParents(db, stops) : s \in stops \/ s.id \in ParentIDs(stops)
           /\ \A p \in ParentIDs(stops) : p \in {s.id : s \in WithParents(db, stops)}
<1> DEFINE parents == {p \in ParentIDs(stops) : GetStop(db, p[2]) # Null}
           built(p) == BuildStopModel(p[1], GetStop(db, p[2]), RouteIDsOfStop(db, p[2]))
<1>1. WithParents(db, stops) = stops \cup {built(p) : p \in parents}
  BY DEF WithParents
<1>2. \A p \in ParentIDs(stops) : \E s \in stops : p = s.parent /\ s.parent # Null
  BY DEF ParentIDs
<1>3. \A p \in ParentIDs(stops) : p = <<p[1], p[2]>> /\ p \in parents
  <2> SUFFICES ASSUME NEW p \in ParentIDs(stops) PROVE p = <<p[1], p[2]>> /\ p \in parents
    OBVIOUS
  <2>1. PICK s \in stops : p = s.parent /\ s.parent # Null
    BY <1>2
  <2>2. p = <<s.id[1], p[2]>> /\ GetStop(db, p[2]) # Null
    BY <2>1, ParentNamed
  <2>3. QED
    BY <2>2
<1>4. \A p \in parents : p \in ParentIDs(stops) /\ GetStop(db, p[2]) # Null
  OBVIOUS
<1> HIDE DEF parents
<1>5. \A p \in parents : StopModel(built(p)) /\ built(p).id = p
  <2> SUFFICES ASSUME NEW p \in parents PROVE StopModel(built(p)) /\ built(p).id = p
    OBVIOUS
  <2>1. GetStop(db, p[2]) \in db.stops /\ GetStop(db, p[2]).id = p[2]
    BY <1>4, StopFound
  <2>2. StopModel(built(p)) /\ built(p).id = <<p[1], GetStop(db, p[2]).id>>
    BY <2>1, BuiltIsModel
  <2>3. QED
    BY <1>3, <1>4, <2>1, <2>2
<1> HIDE DEF built
<1>6. \A s \in WithParents(db, stops) : s \in stops \/ \E p \in parents : s = built(p)
  BY <1>1
<1>7. QED
  BY <1>1, <1>3, <1>4, <1>5, <1>6

\* The levels as far as m.
LevelsTo(f, m, stops) ==
    f = [n \in 0..m |-> IF n = 0 THEN stops ELSE WithParents(db, f[n - 1])]

\* There are levels up to every number.
LEMMA LevelsExist ==
    ASSUME NEW n \in Nat, NEW stops
    PROVE  \E f : LevelsTo(f, n, stops)
<1> DEFINE S == {m \in Nat : \E f : LevelsTo(f, m, stops)}
<1>1. 0 \in S
  <2>1. LevelsTo([i \in 0..0 |-> stops], 0, stops)
    BY DEF LevelsTo
  <2>2. QED
    BY <2>1
<1>2. ASSUME NEW m \in 0..n - 1, m \in S PROVE m + 1 \in S
  <2>1. PICK f : LevelsTo(f, m, stops)
    BY <1>2
  <2> DEFINE g == [i \in 0..m + 1 |-> IF i = m + 1 THEN WithParents(db, f[m]) ELSE f[i]]
  <2>2. \A i \in 0..m + 1 : g[i] = IF i = 0 THEN stops ELSE WithParents(db, g[i - 1])
    <3> SUFFICES ASSUME NEW i \in 0..m + 1 PROVE g[i] = IF i = 0 THEN stops ELSE WithParents(db, g[i - 1])
      OBVIOUS
    <3>1. i # 0 => i - 1 \in 0..m /\ i - 1 \in 0..m + 1 /\ i - 1 # m + 1 /\ g[i - 1] = f[i - 1]
      OBVIOUS
    <3>2. CASE i = m + 1
      BY <3>1, <3>2
    <3>3. CASE i # m + 1
      <4>1. i \in 0..m /\ g[i] = f[i]
        BY <3>3
      <4>2. f[i] = IF i = 0 THEN stops ELSE WithParents(db, f[i - 1])
        BY <2>1, <4>1 DEF LevelsTo
      <4>3. QED
        BY <3>1, <4>1, <4>2
    <3>4. QED
      BY <3>2, <3>3
  <2>3. g = [i \in 0..m + 1 |-> g[i]]
    OBVIOUS
  <2> HIDE DEF g
  <2>4. LevelsTo(g, m + 1, stops)
    BY <2>2, <2>3 DEF LevelsTo
  <2>5. QED
    BY <2>4
<1>3. n \in 0..n
  OBVIOUS
<1> HIDE DEF S
<1>4. n \in S
  BY <1>1, <1>2, <1>3, CountingUp
<1>5. QED
  BY <1>4 DEF S

\* The stops of the tables that are described under an agency.
Under(stops, agency) == {row \in db.stops : <<agency, row.id>> \in {s.id : s \in stops}}

\* They are no more than the stops there are.
LEMMA UnderFinite ==
    ASSUME feed \in DOMAIN Feeds, NEW stops, NEW agency
    PROVE  /\ IsFiniteSet(Under(stops, agency)) /\ Cardinality(Under(stops, agency)) \in Nat
           /\ Cardinality(db.stops) \in Nat
           /\ Cardinality(Under(stops, agency)) <= Cardinality(db.stops)
<1>1. Under(stops, agency) \in SUBSET db.stops
  BY DEF Under
<1>2. IsFiniteSet(db.stops)
  BY TablesImported DEF ColumnsTyped
<1>3. QED
  BY <1>1, <1>2, FS_Subset, FS_CardinalityType

\* A parent is missing under the agency.
Lacks(stops, agency) == \E p \in ParentIDs(stops) : p[1] = agency

\* While a parent is missing under an agency each level adds one under it,
\* and one was missing before.
LEMMA LevelAdds ==
    ASSUME feed \in DOMAIN Feeds, NEW stops, \A s \in stops : StopModel(s), NEW agency,
           Lacks(WithParents(db, stops), agency)
    PROVE  /\ Lacks(stops, agency)
           /\ Cardinality(Under(stops, agency)) < Cardinality(Under(WithParents(db, stops), agency))
<1> DEFINE next == WithParents(db, stops)
<1>1. /\ stops \subseteq next
      /\ \A s \in next : StopModel(s)
      /\ \A s \in next : s \in stops \/ s.id \in ParentIDs(stops)
      /\ \A p \in ParentIDs(stops) : p \in {s.id : s \in next}
  BY OneLevel
<1> HIDE DEF next
<1>2. PICK p \in ParentIDs(next) : p[1] = agency
  BY DEF Lacks, next
<1>3. PICK s \in next : p = s.parent /\ s.parent # Null
  BY <1>2 DEF ParentIDs
<1>4. s.id[1] = agency
  <2>1. p = <<s.id[1], p[2]>>
    BY <1>1, <1>3, ParentNamed
  <2>2. QED
    BY <1>2, <2>1
<1>5. Lacks(stops, agency)
  <2>1. CASE s \in stops
    <3>1. p \in ParentIDs(stops)
      BY <1>1, <1>2, <1>3, <2>1 DEF ParentIDs
    <3>2. QED
      BY <1>2, <3>1 DEF Lacks
  <2>2. CASE s.id \in ParentIDs(stops)
    BY <1>4, <2>2 DEF Lacks
  <2>3. QED
    BY <1>1, <2>1, <2>2
<1>6. PICK q \in ParentIDs(stops) : q[1] = agency
  BY <1>5 DEF Lacks
<1>7. PICK t \in stops : q = t.parent /\ t.parent # Null
  BY <1>6 DEF ParentIDs
<1>8. q = <<agency, q[2]>> /\ GetStop(db, q[2]) # Null
  <2>1. q = <<t.id[1], q[2]>> /\ GetStop(db, q[2]) # Null
    BY <1>7, ParentNamed
  <2>2. QED
    BY <1>6, <2>1
<1>9. PICK row \in db.stops : row.id = q[2]
  BY <1>8, StopFound
<1>10. row \in Under(next, agency) /\ row \notin Under(stops, agency)
  <2>1. q \in {x.id : x \in next} /\ q \notin {x.id : x \in stops}
    BY <1>1, <1>6 DEF ParentIDs
  <2>2. QED
    BY <1>8, <1>9, <2>1 DEF Under
<1>11. Under(stops, agency) \in SUBSET Under(next, agency)
  BY <1>1 DEF Under
<1>12. /\ IsFiniteSet(Under(next, agency))
       /\ Cardinality(Under(stops, agency)) \in Nat /\ Cardinality(Under(next, agency)) \in Nat
  BY UnderFinite
<1>13. /\ Cardinality(Under(stops, agency)) <= Cardinality(Under(next, agency))
       /\ Cardinality(Under(stops, agency)) # Cardinality(Under(next, agency))
  BY <1>10, <1>11, <1>12, FS_Subset
<1>14. QED
  BY <1>5, <1>12, <1>13 DEF next

\* Up to the stations without a parent there are no more levels than stops.
LEMMA ParentsClosed ==
    ASSUME feed \in DOMAIN Feeds, NEW ctx, ctx.db = db, NEW stops, \A s \in stops : StopModel(s)
    PROVE  ParentIDs(stops \cup MissingParentStops(ctx, stops)) = {}
<1> DEFINE N == Cardinality(db.stops)
           level == CHOOSE f : LevelsTo(f, N, stops)
<1>1. N \in Nat
  BY UnderFinite
<1>2. LevelsTo(level, N, stops)
  BY <1>1, LevelsExist
<1>3. MissingParentStops(ctx, stops) = level[N] \ stops
  BY DEF MissingParentStops, LevelsTo
<1> HIDE DEF N, level
<1>4. level[0] = stops /\ \A n \in 0..N - 1 : level[n + 1] = WithParents(db, level[n])
  <2>1. \A n \in 0..N : level[n] = IF n = 0 THEN stops ELSE WithParents(db, level[n - 1])
    BY <1>2 DEF LevelsTo
  <2>2. \A n \in 0..N - 1 : n + 1 \in 0..N /\ n + 1 # 0 /\ (n + 1) - 1 = n
    BY <1>1
  <2>3. 0 \in 0..N
    BY <1>1
  <2>4. QED
    BY <2>1, <2>2, <2>3
<1> DEFINE Fills(S, n) == \A agency : Lacks(S, agency) => n + 1 <= Cardinality(Under(S, agency))
           Good(S, n) == /\ stops \subseteq S
                         /\ \A s \in S : StopModel(s)
                         /\ Fills(S, n)
           good == {n \in Nat : Good(level[n], n)}
<1>5. 0 \in good
  <2> SUFFICES ASSUME NEW agency, Lacks(stops, agency) PROVE 0 + 1 <= Cardinality(Under(stops, agency))
    BY <1>4
  <2>1. PICK p \in ParentIDs(stops) : p[1] = agency
    BY DEF Lacks
  <2>2. PICK s \in stops : p = s.parent /\ s.parent # Null
    BY <2>1 DEF ParentIDs
  <2>3. p = <<s.id[1], p[2]>>
    BY <2>2, ParentNamed
  <2>4. PICK row \in db.stops : s.id = <<s.id[1], row.id>>
    BY <2>2 DEF StopModel
  <2>5. s.id = <<agency, row.id>>
    BY <2>1, <2>3, <2>4
  <2>6. row \in Under(stops, agency)
    BY <2>2, <2>5 DEF Under
  <2>7. IsFiniteSet(Under(stops, agency)) /\ Cardinality(Under(stops, agency)) \in Nat
    BY UnderFinite
  <2>8. Cardinality(Under(stops, agency)) # 0
    BY <2>6, <2>7, FS_EmptySet
  <2>9. QED
    BY <2>7, <2>8
<1>6. ASSUME NEW n \in 0..N - 1, n \in good PROVE n + 1 \in good
  <2>1. n \in Nat /\ n + 1 \in Nat
    BY <1>1
  <2>2. Good(level[n], n)
    BY <1>6
  <2>3. /\ level[n] \subseteq WithParents(db, level[n])
        /\ \A s \in WithParents(db, level[n]) : StopModel(s)
    BY <2>2, OneLevel
  <2>4. ASSUME NEW agency, Lacks(WithParents(db, level[n]), agency)
        PROVE  (n + 1) + 1 <= Cardinality(Under(WithParents(db, level[n]), agency))
    <3>1. /\ Lacks(level[n], agency)
          /\ Cardinality(Under(level[n], agency)) < Cardinality(Under(WithParents(db, level[n]), agency))
      BY <2>2, <2>4, LevelAdds
    <3>2. n + 1 <= Cardinality(Under(level[n], agency))
      BY <2>2, <3>1
    <3>3. /\ Cardinality(Under(level[n], agency)) \in Nat
          /\ Cardinality(Under(WithParents(db, level[n]), agency)) \in Nat
      BY UnderFinite
    <3>4. QED
      BY <2>1, <3>1, <3>2, <3>3
  <2>5. Good(WithParents(db, level[n]), n + 1)
    BY <2>2, <2>3, <2>4
  <2>6. QED
    BY <1>4, <2>1, <2>5
<1>7. N \in 0..N
  BY <1>1
<1>8. N \in good
  <2> HIDE DEF good
  <2>1. \A m \in 0..N : m \in good
    BY <1>1, <1>5, <1>6, CountingUp
  <2>2. QED
    BY <1>7, <2>1
<1>9. Good(level[N], N)
  BY <1>8
<1>10. ASSUME NEW p \in ParentIDs(level[N]) PROVE FALSE
  <2>1. Lacks(level[N], p[1])
    BY DEF Lacks
  <2>2. N + 1 <= Cardinality(Under(level[N], p[1]))
    BY <1>9, <2>1
  <2>3. Cardinality(Under(level[N], p[1])) \in Nat /\ Cardinality(Under(level[N], p[1])) <= N
    BY UnderFinite DEF N
  <2>4. QED
    BY <1>1, <2>2, <2>3
<1>11. stops \cup (level[N] \ stops) = level[N]
  BY <1>9
<1>12. QED
  BY <1>3, <1>10, <1>11

=============================================================================
