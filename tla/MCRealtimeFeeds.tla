-------------------------- MODULE MCRealtimeFeeds --------------------------
(***************************************************************************)
(* Instances of RealtimeFeeds for TLC.                                     *)
(***************************************************************************)
EXTENDS RealtimeFeeds

CONSTANT Times  \* position times the producer stamps

\* Every message about the known vehicles, with and without an entity that
\* carries no descriptor.
AllReports ==
    LET position == [trip : TripIds \cup {NoTrip}, time : Times]
        anonymous == CHOOSE p \in position : TRUE
        named == UNION {[keys -> position] : keys \in SUBSET VehicleKeys}
    IN  named \cup
        {[k \in DOMAIN r \cup {NoKey} |-> IF k = NoKey THEN anonymous ELSE r[k]] :
            r \in named}

\* Messages about one vehicle on one trip, or about none.
SomeReports ==
    {NoVehicles} \cup
    [VehicleKeys -> [trip : TripIds, time : Times]]

VehiclesOnly == <<{"vehicles"}>>
VehiclesThenAll == <<{"vehicles"}, {"trips", "vehicles", "alerts"}>>

OneSecond == <<1>>
TwoAndThreeSeconds == <<2, 3>>
=============================================================================
