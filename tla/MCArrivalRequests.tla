-------------------------- MODULE MCArrivalRequests --------------------------
(***************************************************************************)
(* Three feeds of one network around midnight: two agencies an hour apart, *)
(* the two on one clock, and all of it one agency's. Trip 1 passes stop 1  *)
(* twice, trip 2 is the other agency's, trip 3 runs the next morning, trip *)
(* 4 follows trip 1 on its block. Stop 1 lies in station 4. The feed       *)
(* numbers visits by tens. The unit is ten minutes.                        *)
(***************************************************************************)
EXTENDS ArrivalRequests

Visit(stop, arrival, departure) == [stop |-> stop, arrival |-> arrival, departure |-> departure]

TripOf(id, route, service, block, times) ==
    [id |-> id, route |-> route, service |-> service, block |-> block, dir |-> 0,
     headsign |-> NoText, shape |-> 1, times |-> [i \in DOMAIN times |-> times[i] @@ [seq |-> 10 * i]]]

On(id, weekday) ==
    [id |-> id, weekdays |-> {weekday}, start |-> 0, end |-> 9, added |-> {}, removed |-> {}]

StopOf(id, at, parent) == [id |-> id, at |-> at, parent |-> parent]

MCFeed ==
    [agencies |-> {[id |-> 1, zone |-> 1], [id |-> 2, zone |-> 2]},
     routes |-> {[id |-> 1, agency |-> 1, type |-> 3], [id |-> 2, agency |-> 2, type |-> 3]},
     stops |-> {StopOf(1, 0, 4), StopOf(2, 4, NoText), StopOf(3, 5, NoText), StopOf(4, 0, NoText)},
     services |-> {On(1, 1), On(2, 2)},
     trips |-> {TripOf(1, 1, 1, 7, <<Visit(1, 136, 136), Visit(2, 138, 138), Visit(1, 141, 142)>>),
                TripOf(2, 2, 1, NoText, <<Visit(1, 140, 140), Visit(3, 146, 146)>>),
                TripOf(3, 1, 2, NoText, <<Visit(1, 2, 2), Visit(2, 5, 5)>>),
                TripOf(4, 1, 1, 7, <<Visit(1, 145, 146), Visit(3, 150, 150)>>)},
     frequencies |-> {[trip |-> 3, start |-> 0, end |-> 9, headway |-> 2],
                      [trip |-> 1, start |-> 130, end |-> 150, headway |-> 3],
                      [trip |-> 4, start |-> 140, end |-> 155, headway |-> 4]},
     shapes |-> {[shape |-> 1, seq |-> 1, at |-> 0], [shape |-> 1, seq |-> 2, at |-> 5]}]

OneZone == [MCFeed EXCEPT !.agencies = {[id |-> 1, zone |-> 1], [id |-> 2, zone |-> 1]}]
OneAgency == [MCFeed EXCEPT !.agencies = {[id |-> 1, zone |-> 1]},
                            !.routes = {[r EXCEPT !.agency = 1] : r \in MCFeed.routes}]

MCFeeds == <<MCFeed, OneZone, OneAgency>>

\* The second agency's clocks show an hour less.
MCZones == [z \in {1, 2} |-> [change |-> 1000, before |-> -6 * (z - 1), after |-> -6 * (z - 1)]]
MCSuffixed == 101 :> 1

MCStopsAsked == {[stop |-> 1, agency |-> 1], [stop |-> 3, agency |-> 1]}
MCAreasAsked == {[from |-> 0, to |-> 4, max |-> 1, types |-> {}],
                 [from |-> 0, to |-> 6, max |-> 5, types |-> {3}]}
MCSingles == {[stop |-> 1, agency |-> 1, trip |-> 1, day |-> 150, index |-> Null, vehicle |-> 1]}
MCTimes == {276, 282, 287, 289, 293}

Published(updates, vehicles) ==
    [updates |-> updates, vehicles |-> vehicles,
     alerts |-> {[id |-> 1, agency |-> NoText, informed |-> {<<"stop", 1>>}]}]

Event(time, delay) == [time |-> time, delay |-> delay]
StopUpdate(stop, seq, arr, dep) == [stop |-> stop, seq |-> seq, arr |-> arr, dep |-> dep]

Vehicle(id, trip, at, time) ==
    [id |-> id, trip |-> trip, relation |-> "SCHEDULED", route |-> 1, at |-> at, stop |-> NoText,
     seq |-> Null, stopped |-> FALSE, time |-> time]

\* Known of the second visit of stop 1 only; of the visit to stop 2 by time
\* and of trip 4 as a whole, with a bus that is already on trip 4.
MCRealtimes ==
    {Published({[trip |-> 1, delay |-> Null, stops |-> <<StopUpdate(1, 30, Event(Null, 3), Null)>>]}, <<>>),
     Published({[trip |-> 1, delay |-> Null, stops |-> <<StopUpdate(2, Null, Event(283, Null), Null)>>],
                [trip |-> 4, delay |-> 2, stops |-> <<>>]}, <<Vehicle(1, 4, 0, 288)>>)}

MCFailures == {{}, {"SpilloverServiceIDs", "GetStopTimesForTrip", "GetRoutesForStops"},
               {"GetStopsByIDs", "GetAgency"}, {"GetAgenciesForStops"}, {"GetTripsByIDs"},
               {"GetStopTimesForStopsInWindow", "GetStopsByIDs"}}

=============================================================================
