---------------------------- MODULE MCTripRequests --------------------------
(***************************************************************************)
(* Two agencies an hour apart. Block 7 runs over midnight: trip 1, a       *)
(* layover, trip 2 of another route, and trip 3 of the other agency; block *)
(* 8 begins with the other agency's trip 6 and ends with trip 7. Trips 4   *)
(* and 5 have no block. Stop 1 lies in platform 4 of station 5. The unit   *)
(* is ten minutes.                                                         *)
(***************************************************************************)
EXTENDS TripRequests

Visit(stop, arrival, departure) == [stop |-> stop, arrival |-> arrival, departure |-> departure]

TripOf(id, route, service, block, shape, times) ==
    [id |-> id, route |-> route, service |-> service, block |-> block, dir |-> 0,
     headsign |-> NoText, shape |-> shape, times |-> [i \in DOMAIN times |-> times[i] @@ [seq |-> i]]]

Shape(id, points) == {[shape |-> id, seq |-> i, at |-> points[i]] : i \in DOMAIN points}

StopOf(id, at, parent) == [id |-> id, at |-> at, parent |-> parent]

On(id, weekday) ==
    [id |-> id, weekdays |-> {weekday}, start |-> 0, end |-> 9, added |-> {}, removed |-> {}]

MCFeed ==
    [agencies |-> {[id |-> 1, zone |-> 1], [id |-> 2, zone |-> 2]},
     routes |-> {[id |-> 1, agency |-> 1, type |-> 3], [id |-> 2, agency |-> 2, type |-> 3],
                 [id |-> 3, agency |-> 1, type |-> 3]},
     stops |-> {StopOf(1, 0, 4), StopOf(2, 4, NoText), StopOf(3, 8, NoText), StopOf(4, 0, 5),
                StopOf(5, 0, NoText)},
     services |-> {On(1, 1), On(2, 2)},
     trips |-> {TripOf(1, 1, 1, 7, 1, <<Visit(1, 130, 130), Visit(2, 134, 134), Visit(3, 138, 138)>>),
                TripOf(2, 3, 1, 7, 2, <<Visit(3, 146, 147), Visit(2, 150, 150), Visit(1, 154, 154)>>),
                TripOf(3, 2, 1, 7, 1, <<Visit(1, 160, 160), Visit(3, 166, 166)>>),
                TripOf(4, 1, 2, NoText, 1, <<Visit(1, 1, 1), Visit(3, 6, 6)>>),
                TripOf(5, 1, 2, NoText, 2, <<Visit(3, 2, 2), Visit(1, 8, 8)>>),
                TripOf(6, 2, 2, 8, 1, <<Visit(1, 4, 4), Visit(3, 10, 10)>>),
                TripOf(7, 1, 2, 8, 2, <<Visit(3, 18, 18), Visit(1, 24, 24)>>)},
     frequencies |-> {[trip |-> 5, start |-> 0, end |-> 5, headway |-> 1],
                      [trip |-> 5, start |-> 5, end |-> 9, headway |-> 2]},
     shapes |-> Shape(1, <<0, 4, 8>>) \cup Shape(2, <<8, 0>>)]

OneClock == [MCFeed EXCEPT !.agencies = {[id |-> 1, zone |-> 1], [id |-> 2, zone |-> 1]}]

MCFeeds == <<MCFeed, OneClock>>

\* The second agency's clocks show an hour less.
MCZones == [z \in {1, 2} |-> [change |-> 1000, before |-> -6 * (z - 1), after |-> -6 * (z - 1)]]
MCSuffixed == 101 :> 1

MCRoutes == {1, 2, 3}
MCAreas == {[from |-> 0, to |-> 3, schedule |-> TRUE], [from |-> 4, to |-> 8, schedule |-> FALSE]}
MCTimes == {276, 280, 284, 287, 288, 291, 294, 297, 300, 303, 306, 310, 315}

Published(updates, vehicles, informed) ==
    [updates |-> updates, vehicles |-> vehicles,
     alerts |-> {[id |-> 1, agency |-> NoText, informed |-> informed]}]

Delay(trip, delay) == [trip |-> trip, delay |-> delay, stops |-> <<>>]

Vehicle(id, trip, relation, at, stop, time) ==
    [id |-> id, trip |-> trip, relation |-> relation, route |-> 1, at |-> at, stop |-> stop,
     seq |-> Null, stopped |-> FALSE, time |-> time]

MCRealtimes ==
    {Published({Delay(1, 6)}, <<Vehicle(1, 1, "SCHEDULED", 2, NoText, 280),
                                Vehicle(4, 2, "SCHEDULED", Null, NoText, 280)>>, {<<"route", 1>>}),
     Published({Delay(7, 3)}, <<Vehicle(2, 7, "SCHEDULED", 8, 9, 303),
                                Vehicle(3, 101, "DUPLICATED", 6, NoText, 303)>>, {<<"agency", 1>>})}

MCFailures == {{}, {"MissingTrips", "OtherZoneServiceIDs"},
               {"PreviousServiceIDs", "GetActiveLayoverBlockIDsForRoute",
                "GetFrequenciesForTrip"}, {"GetTripSpansForBlocks", "GetStopsByIDs"},
               {"GetRouteIDsForStops", "GetRoutesForStops"}}

=============================================================================
