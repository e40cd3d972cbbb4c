--------------------------- MODULE ArrivalRequests ---------------------------
(***************************************************************************)
(* Requests for the arrivals at a stop, for those in an area and for a     *)
(* single arrival. A request reads the published realtime snapshot anew    *)
(* for every arrival: its predictions may come from an older one than its  *)
(* statuses. The state keeps what a request has read, its answer follows   *)
(* from that.                                                              *)
(***************************************************************************)
EXTENDS ArrivalHandlers, RequestData

CONSTANTS StopsAsked, \* the stops asked for, [stop, agency]
          AreasAsked, \* the areas, [from, to] with a number of results and types of routes
          Singles,    \* the single arrivals, [stop, agency, trip, day, index, vehicle]
          Failures,   \* the sets of queries that may fail together
          Times,      \* the times of the requests
          Before,     \* how far a window reaches back
          After       \* and ahead

ASSUME RequestAssumption ==
    /\ Times \subseteq Int /\ Before \in Int /\ After \in Int
    /\ \A a \in AreasAsked : {a.from, a.to} \subseteq Int /\ a.max \in Nat

VARIABLES request,    \* [kind, of, at, fails]: what is asked for and when, or Null
          predicted,  \* the realtime snapshot its predictions were made from
          described   \* the one its statuses were built from, Null before that

vars == <<feed, rt, request, predicted, described>>

Queries ==
    {[kind |-> "stop", of |-> s] : s \in StopsAsked}
    \cup {[kind |-> "area", of |-> a] : a \in AreasAsked}
    \cup {[kind |-> "single", of |-> s] : s \in Singles}

Predict(query, at, fails) ==
    /\ request = Null
    /\ request' = [kind |-> query.kind, of |-> query.of, at |-> at, fails |-> fails]
    /\ predicted' = rt
    /\ UNCHANGED <<feed, rt, described>>

Describe ==
    /\ request # Null
    /\ described = Null
    /\ described' = rt
    /\ UNCHANGED <<feed, rt, request, predicted>>

Answer ==
    /\ described # Null
    /\ request' = Null
    /\ predicted' = Null
    /\ described' = Null
    /\ UNCHANGED <<feed, rt>>

PublishRealtime ==
    /\ described = Null
    /\ \E snapshot \in Realtimes \ {rt} : rt' = snapshot
    /\ UNCHANGED <<feed, request, predicted, described>>

Init ==
    /\ feed \in DOMAIN Feeds
    /\ rt = NoRealtime
    /\ request = Null
    /\ predicted = Null
    /\ described = Null

Next ==
    \/ \E query \in Queries, at \in Times, fails \in Failures : Predict(query, at, fails)
    \/ Describe
    \/ Answer
    \/ PublishRealtime

Spec == Init /\ [][Next]_vars

-----------------------------------------------------------------------------
(* The answers; Null is an error response. *)

Answering(kind) == IF request = Null \/ described = Null THEN FALSE ELSE request.kind = kind

Context(snapshot) == [db |-> db, rt |-> snapshot, fails |-> request.fails]
Window == [at |-> request.at, before |-> Before, after |-> After]

StopAnswer ==
    ArrivalsAndDeparturesForStop(Context(predicted), Context(described), request.of.stop,
                                 request.of.agency, Window)

AreaQuery ==
    [area |-> request.of, types |-> request.of.types, max |-> request.of.max, window |-> Window]

AreaAnswer ==
    ArrivalsAndDeparturesForLocation(Context(predicted), Context(described), AreaQuery)

SingleQuery(s) ==
    [stop |-> s.stop, agency |-> s.agency, trip |-> s.trip, day |-> s.day, index |-> s.index,
     vehicle |-> s.vehicle, at |-> request.at]

SingleAnswer(s) == ArrivalAndDepartureForStop(Context(described), SingleQuery(s))

-----------------------------------------------------------------------------
(* Correctness. *)

Degraded == request.fails # {}
Undisturbed == ~Degraded /\ predicted = described

ZoneOfAgency(agency) == Zones[GetAgency(db, agency).zone]
OwnZone(trip) == ZoneOfAgency(GetRoute(db, GetTrip(db, trip).route).agency)
OneClock == Cardinality({a.zone : a \in db.agencies}) = 1

\* The visits of a stop that its own agency's clock puts into the window, on
\* the day it shows and the days beside it.
InWindow(t) == InRange(t, request.at - Before, request.at + After)

DueVisits(stop) ==
    UNION {LET zone == OwnZone(st.trip)
               days == DateOf(zone, request.at) - 1..DateOf(zone, request.at) + 1
           IN  {<<st, d>> : d \in {x \in days :
                   /\ IsServiceActiveOnDate(db, GetTrip(db, st.trip).service, x)
                   /\ InWindow(Start(zone, x) + st.arrival)
                        \/ InWindow(Start(zone, x) + st.departure)}} :
             st \in {x \in db.stopTimes : x.stop = stop}}

\* Of the visits due at a stop every one is listed, and once: none is lost
\* over midnight, between agencies that keep different clocks or among the
\* visits that one trip makes to the stop, and none is listed on a day on
\* which its service does not run.
ListedAre(listed, due) ==
    LET of(a) == <<a.trip[2], a.stopSequence + 1, a.date>>
    IN  /\ {of(a) : a \in Range(listed)} = {<<v[1].trip, v[1].seq, v[2]>> : v \in due}
        /\ Len(listed) = Cardinality(due)

AnsweredAre(answer, due) == answer # Null => ListedAre(answer.arrivals, due)

DueVisitsListed ==
    Answering("stop") /\ Undisturbed => AnsweredAre(StopAnswer, DueVisits(request.of.stop))

\* A query that fails takes no visit of the query day from the answer, unless
\* it is the one for the visits: where the services of the days beside it, the
\* trips' visits or the references cannot be read, the answer either is an
\* error or still lists all of the day's visits. What it lists is due, and
\* listed once, whatever has failed.
OfQueryDay(due) == {v \in due : v[2] = DateOf(OwnZone(v[1].trip), request.at)}

ListedAmong(listed, must, may) ==
    LET of(a) == <<a.trip[2], a.stopSequence + 1, a.date>>
        rows(due) == {<<v[1].trip, v[1].seq, v[2]>> : v \in due}
        visits == {of(a) : a \in Range(listed)}
    IN  rows(must) \subseteq visits /\ visits \subseteq rows(may) /\ Len(listed) = Cardinality(visits)

DegradedListsQueryDay ==
    Answering("stop") /\ Degraded =>
        LET due == DueVisits(request.of.stop)
            must == IF "GetStopTimesForStopsInWindow" \in request.fails THEN {} ELSE OfQueryDay(due)
        IN  StopAnswer # Null => ListedAmong(StopAnswer.arrivals, must, due)

\* The endpoint for one arrival says the same of it as the list it was taken
\* from: its day and times by the clock of the trip's agency, its prediction,
\* its distance and its frequency. Only the frequency inside the status may
\* differ: the list has the rows of the other trips it lists as well.
Position(a) == OneRow({i \in 1..a.totalStops :
                         GetStopTimesForTrip(db, a.trip[2])[i].seq = a.stopSequence + 1}) - 1

AsSingle(a, index) ==
    SingleAnswer([stop |-> a.stop[2], agency |-> a.stop[1], trip |-> a.trip[2],
                  day |-> Start(OwnZone(a.trip[2]), a.date), index |-> index, vehicle |-> Null])

WithoutStatusFrequency(a) == [a EXCEPT !.status.frequency = Null]

AgreesWithSingle(answer) ==
    answer # Null => \A a \in Range(answer.arrivals) :
        WithoutStatusFrequency([AsSingle(a, Position(a)) EXCEPT !.stopSequence = a.stopSequence])
        = WithoutStatusFrequency(a)

EndpointsAgree == Answering("stop") /\ Undisturbed => AgreesWithSingle(StopAnswer)

\* Where all agencies keep one clock, a stop in an area has the arrivals it
\* has by itself, unless that is an error. The frequencies inside the statuses
\* may differ here as well.
WithoutStatusFrequencies(arrivals) == {WithoutStatusFrequency(a) : a \in arrivals}

SameOneByOne(ctx, stops, index) ==
    LET alone(s) == ArrivalsForStop(ctx, ctx, s, AgencyIDFor(index, s), Window)
    IN  (\A s \in stops : alone(s) # Null) =>
            WithoutStatusFrequencies(ArrivalsForStops(ctx, ctx, stops, index, {}, Window))
            = WithoutStatusFrequencies(UNION {Range(alone(s)) : s \in stops})

PipelinesAgree ==
    Answering("area") /\ Undisturbed /\ OneClock /\ request.of.types = {} =>
        LET stops == {s.id : s \in GetActiveStopsWithinBounds(db, request.of)}
        IN  SameOneByOne(Context(described), stops, AgenciesForStops(db, stops))

\* What is known of a trip only from a later visit on is not predicted for
\* the visits before, those of the same stop included.
NotFromAhead(a, u, times) ==
    LET ahead(su) == SequenceIdentifiesVisit(su, times) /\ su.seq > a.stopSequence + 1
    IN  u # Null => (\/ u.delay # Null
                     \/ \E i \in DOMAIN u.stops : ~ahead(u.stops[i])
                     \/ a.predicted = Null)

AnsweredNotFromAhead(answer) ==
    answer # Null => \A a \in Range(answer.arrivals) :
        NotFromAhead(a, GetTripUpdate(Context(predicted), a.trip[2]), GetStopTimesForTrip(db, a.trip[2]))

NoPredictionFromAhead ==
    Answering("stop") /\ ~Degraded => AnsweredNotFromAhead(StopAnswer)

\* Whatever the limit cuts off, the stops, trips and routes that an answer
\* names are among its references; those that statuses name are where there
\* is one agency to name them under. A stop that is not in the feed and that
\* a vehicle names has none.
Unknown(stop) ==
    /\ GetStop(db, stop) = Null
    /\ \E v \in Range(predicted.vehicles) \cup Range(described.vehicles) : v.stop = stop

Named(a) == {<<a.status.agency, s>> : s \in {x \in StatusStops(a.status) : ~Unknown(x)}}
NamedTrip(a) == {a.status.active} \cap {<<a.status.agency, t.id>> : t \in db.trips}

ArrivalsResolve(arrivals, refs) ==
    LET trips == {t.id : t \in refs.trips}
        stops == {s.id : s \in refs.stops}
    IN  /\ {a.stop : a \in arrivals} \subseteq stops
        /\ {a.trip : a \in arrivals} \subseteq trips
        /\ {a.route : a \in arrivals} \cup {t.route : t \in refs.trips}
           \cup RoutesOfStops(refs.stops) \subseteq refs.routes
        /\ ParentIDs(refs.stops) = {}
        /\ Cardinality(db.agencies) = 1 =>
             UNION {Named(a) : a \in arrivals} \subseteq stops
             /\ UNION {NamedTrip(a) : a \in arrivals} \subseteq trips

ListsResolve(answer) ==
    Range(answer.stops) \cup {n.id : n \in Range(answer.nearby)} \subseteq {s.id : s \in answer.refs.stops}

StopAnswerResolves(answer) ==
    answer # Null => ArrivalsResolve(Range(answer.arrivals), answer.refs)

AreaAnswerResolves(answer) ==
    /\ StopAnswerResolves(answer)
    /\ answer # Null => ListsResolve(answer) \/ answer.refs = NoReferences

EmittedIDsResolve ==
    /\ Answering("stop") /\ ~Degraded => StopAnswerResolves(StopAnswer)
    /\ Answering("area") /\ ~Degraded => AreaAnswerResolves(AreaAnswer)

\* arrivals_core.go: the stopSequence of an arrival is an index counted from
\* 0, with which the endpoint for one arrival finds it again.
ArrivalFoundAgain ==
    Answering("stop") /\ Undisturbed =>
        \A a \in Range(StopAnswer.arrivals) : AsSingle(a, a.stopSequence).arrival = a.arrival

=============================================================================
