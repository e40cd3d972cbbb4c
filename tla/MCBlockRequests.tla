--------------------------- MODULE MCBlockRequests --------------------------
(***************************************************************************)
(* A feed whose block 7 is run by two buses over midnight: trips 1 and 2   *)
(* by one, trip 3 by another that starts before trip 2 ends; trip 4 has no *)
(* block and runs by frequency on a loop. The unit is ten minutes.         *)
(***************************************************************************)
EXTENDS BlockRequests

Visit(stop, arrival, departure) == [stop |-> stop, arrival |-> arrival, departure |-> departure]

TripOf(id, service, block, shape, times) ==
    [id |-> id, route |-> 1, service |-> service, block |-> block, dir |-> 0, headsign |-> NoText,
     shape |-> shape, times |-> [i \in DOMAIN times |-> times[i] @@ [seq |-> i]]]

Shape(id, points) == {[shape |-> id, seq |-> i, at |-> points[i]] : i \in DOMAIN points}

MCFeed ==
    [agencies |-> {[id |-> 1, zone |-> 1]},
     routes |-> {[id |-> 1, agency |-> 1, type |-> 3]},
     stops |-> {[id |-> 1, at |-> 0, parent |-> NoText], [id |-> 2, at |-> 3, parent |-> NoText],
                [id |-> 3, at |-> 6, parent |-> NoText]},
     services |-> {[id |-> 1, weekdays |-> 0..6, start |-> 0, end |-> 9, added |-> {}, removed |-> {}],
                   [id |-> 2, weekdays |-> {1}, start |-> 0, end |-> 9, added |-> {}, removed |-> {}]},
     trips |-> {TripOf(1, 1, 7, 1, <<Visit(1, 139, 139), Visit(2, 141, 141), Visit(3, 143, 143)>>),
                TripOf(2, 1, 7, 2, <<Visit(3, 143, 144), Visit(2, 146, 146), Visit(1, 148, 148)>>),
                TripOf(3, 1, 7, 1, <<Visit(1, 147, 147), Visit(3, 149, 149)>>),
                TripOf(4, 2, NoText, 3, <<Visit(2, 140, 140), Visit(3, 141, 141), Visit(2, 142, 143),
                                          Visit(1, 144, 144)>>)},
     frequencies |-> {[trip |-> 4, start |-> 138, end |-> 142, headway |-> 1],
                      [trip |-> 4, start |-> 142, end |-> 146, headway |-> 2]},
     shapes |-> Shape(1, <<0, 3, 6>>) \cup Shape(2, <<6, 0>>) \cup Shape(3, <<3, 6, 0>>)]

MCFeeds == <<MCFeed>>
MCZone == [change |-> 1000, before |-> 0, after |-> 0]

Event(time, delay) == [time |-> time, delay |-> delay]
StopUpdate(stop, seq, arr, dep) == [stop |-> stop, seq |-> seq, arr |-> arr, dep |-> dep]

Published(updates, vehicles) ==
    [updates |-> updates, vehicles |-> vehicles,
     alerts |-> {[id |-> 1, agency |-> NoText, informed |-> {<<"route", 1>>}]}]

Delay(trip, delay) == [trip |-> trip, delay |-> delay, stops |-> <<>>]

\* Predictions for trip 2 by sequence and by stop, and for the loop of trip 4.
StopUpdates ==
    {[trip |-> 2, delay |-> Null,
      stops |-> <<StopUpdate(2, 2, Event(Null, 1), Null), StopUpdate(1, Null, Null, Event(Null, 4))>>],
     [trip |-> 4, delay |-> Null,
      stops |-> <<StopUpdate(2, Null, Event(Null, 1), Null), StopUpdate(2, Null, Event(Null, 0), Null)>>]}

\* At the last stop of trip 1, its report out of date from 143 on.
AtTerminal == [id |-> 1, trip |-> 1, relation |-> "SCHEDULED", at |-> 4, stop |-> NoText,
               seq |-> 3, stopped |-> TRUE, time |-> Day + 141]
Canceled == [id |-> 1, trip |-> 2, relation |-> "CANCELED", at |-> Null, stop |-> NoText,
             seq |-> Null, stopped |-> FALSE, time |-> Day + 145]
OnTheWay == [id |-> 2, trip |-> 2, relation |-> "SCHEDULED", at |-> 1, stop |-> 2,
             seq |-> Null, stopped |-> FALSE, time |-> Day + 147]

MCRealtimes ==
    {Published({Delay(1, 2), Delay(3, 7)}, <<AtTerminal>>),
     Published({Delay(2, 7), Delay(1, 1)}, <<OnTheWay>>),
     Published(StopUpdates, <<>>),
     Published(StopUpdates \cup {Delay(3, 3)}, <<Canceled>>)}

MCFailures == {{}, {"GetTripsByBlockID"}, {"GetStopsByIDs", "GetStopTimesForTripIDs"}}

=============================================================================
