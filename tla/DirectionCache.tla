--------------------------- MODULE DirectionCache ---------------------------
(***************************************************************************)
(* Stop directions computed on demand: AdvancedDirectionCalculator, used   *)
(* by concurrent requests while StaticReload replaces the database under   *)
(* it and the cache behind it                                              *)
(* (internal/gtfs/advanced_direction_calculator.go).                       *)
(*                                                                         *)
(* A direction is named by what it was computed from: the imports its      *)
(* readings came from, and whether a reading failed on the way. Only the   *)
(* stops without a precomputed direction matter here, and those only while *)
(* they have none.                                                         *)
(***************************************************************************)
EXTENDS StaticReload

CONSTANTS Calls,     \* concurrent calls of CalculateStopDirection
          NumShapes  \* shapes the trips of a stop follow

ASSUME ShapeAssumption == NumShapes \in Nat \ {0}

VARIABLES
    results,    \* directionCache.directionResults: (generation, stop) -> direction
    distances,  \* directionCache.tripDistances: (generation, stop, shape) -> import
    flights,    \* directionCache.requestGroup: (generation, stop) -> computation
    calls       \* each call's local variables

cacheVars == <<results, distances, flights, calls>>
vars == <<reloadVars, cacheVars>>

NoCall == [at |-> "idle", stop |-> Nothing, generation |-> 0, direction |-> Nothing]

\* The pairs, triples and computations of an empty process.
Empty == [k \in {} |-> Nothing]

Update(map, key, value) ==
    [k \in DOMAIN map \cup {key} |-> IF k = key THEN value ELSE map[k]]

Forget(map, key) == [k \in DOMAIN map \ {key} |-> map[k]]

Key(c) == <<calls[c].generation, calls[c].stop>>

-----------------------------------------------------------------------------
(* CalculateStopDirection. *)

\* A request comes to a stop whose row carries no direction.
Call(c) ==
    /\ serving
    /\ calls[c].at \in {"idle", "done"}
    /\ \E s \in Stops :
          /\ directions[s] = Nothing
          /\ calls' = [calls EXCEPT ![c] = [NoCall EXCEPT !.at = "load", !.stop = s]]
    /\ UNCHANGED <<results, distances, flights>>

\* The call keeps the generation it finds here to its end.
LoadGeneration(c) ==
    /\ calls[c].at = "load"
    /\ calls' = [calls EXCEPT ![c].at = "lookup", ![c].generation = Len(born)]
    /\ UNCHANGED <<results, distances, flights>>

Lookup(c) ==
    /\ calls[c].at = "lookup"
    /\ calls' = IF Key(c) \in DOMAIN results
                THEN [calls EXCEPT ![c].at = "done", ![c].direction = results[Key(c)]]
                ELSE [calls EXCEPT ![c].at = "join"]
    /\ UNCHANGED <<results, distances, flights>>

\* Somebody computes this direction already: wait for the result.
Join(c) ==
    /\ calls[c].at = "join"
    /\ Key(c) \in DOMAIN flights
    /\ calls' = [calls EXCEPT ![c].at = "wait"]
    /\ UNCHANGED <<results, distances, flights>>

\* Nobody does: look again, for the result may have come in between.
FoundAfterAll(c) ==
    /\ calls[c].at = "join"
    /\ Key(c) \notin DOMAIN flights
    /\ Key(c) \in DOMAIN results
    /\ calls' = [calls EXCEPT ![c].at = "done", ![c].direction = results[Key(c)]]
    /\ UNCHANGED <<results, distances, flights>>

\* Fault: the cache is not looked at again.
LeadUnchecked(c) ==
    /\ calls[c].at = "join"
    /\ Key(c) \notin DOMAIN flights
    /\ flights' = Update(flights, Key(c),
                         [next |-> 0, from |-> {}, found |-> FALSE, failed |-> FALSE])
    /\ calls' = [calls EXCEPT ![c].at = "compute"]
    /\ UNCHANGED <<results, distances>>

Lead(c) ==
    /\ calls[c].at = "join"
    /\ Key(c) \notin DOMAIN flights
    /\ Key(c) \notin DOMAIN results
    /\ flights' = Update(flights, Key(c),
                         [next |-> 0, from |-> {}, found |-> FALSE, failed |-> FALSE])
    /\ calls' = [calls EXCEPT ![c].at = "compute"]
    /\ UNCHANGED <<results, distances>>

-----------------------------------------------------------------------------
(* computeFromShapesWithCache. Its readings are numbered: 0 is the list of  *)
(* trips, then come for shape n the trip distances (2n - 1) and the shape's *)
(* points (2n).                                                             *)

LastReading == 2 * NumShapes

Reading(c) ==
    /\ calls[c].at = "compute"
    /\ flights[Key(c)].next <= LastReading

IsDistances(reading) == reading % 2 = 1

DistancesKey(c) == <<calls[c].generation, calls[c].stop, flights[Key(c)].next>>

ReadTrips(c) ==
    /\ Reading(c)
    /\ flights[Key(c)].next = 0
    /\ flights' = [flights EXCEPT ![Key(c)].next = 1, ![Key(c)].from = {imports}]
    /\ UNCHANGED <<results, distances, calls>>

\* tripStopDistancesUsable has a cache and a singleflight group of its own.
ReadDistances(c) ==
    /\ Reading(c)
    /\ IsDistances(flights[Key(c)].next)
    /\ LET import == IF DistancesKey(c) \in DOMAIN distances
                     THEN distances[DistancesKey(c)]
                     ELSE imports
       IN  /\ flights' = [flights EXCEPT ![Key(c)].next = @ + 1,
                                         ![Key(c)].from = @ \cup {import}]
           /\ distances' = Update(distances, DistancesKey(c), import)
    /\ UNCHANGED <<results, calls>>

\* A trip whose stop times carry no distances is not asked for them.
SkipDistances(c) ==
    /\ Reading(c)
    /\ IsDistances(flights[Key(c)].next)
    /\ flights' = [flights EXCEPT ![Key(c)].next = @ + 1]
    /\ UNCHANGED <<results, distances, calls>>

\* The points are found, are not there, or cannot be read. Neither stops the
\* computation.
ReadPoints(c) ==
    /\ Reading(c)
    /\ flights[Key(c)].next > 0
    /\ ~IsDistances(flights[Key(c)].next)
    /\ \E outcome \in {"found", "none", "error"} :
          flights' = [flights EXCEPT ![Key(c)] =
              [next |-> @.next + 1,
               from |-> IF outcome = "error" THEN @.from ELSE @.from \cup {imports},
               found |-> @.found \/ outcome = "found",
               failed |-> @.failed \/ outcome = "error"]]
    /\ UNCHANGED <<results, distances, calls>>

\* Fault: the computation of another generation answers too.
AnsweredAnyGeneration(key, direction) ==
    [c \in Calls |->
        IF calls[c].at \in {"wait", "compute"} /\ calls[c].stop = key[2]
        THEN [calls[c] EXCEPT !.at = "done", !.direction = direction]
        ELSE calls[c]]

\* What those who wait on a computation get, the leader included.
Answered(key, direction) ==
    [c \in Calls |->
        IF calls[c].at \in {"wait", "compute"} /\ Key(c) = key
        THEN [calls[c] EXCEPT !.at = "done", !.direction = direction]
        ELSE calls[c]]

\* No direction, because of an error. It is shared but not remembered.
Unknown == [from |-> {}, found |-> FALSE, failed |-> TRUE]

\* The trips or their distances cannot be read.
ComputeFails(c) ==
    /\ Reading(c)
    /\ flights[Key(c)].next = 0 \/ IsDistances(flights[Key(c)].next)
    /\ flights' = Forget(flights, Key(c))
    /\ calls' = Answered(Key(c), Unknown)
    /\ UNCHANGED <<results, distances>>

Computed(c) ==
    LET flight == flights[Key(c)]
    IN  [from |-> flight.from, found |-> flight.found, failed |-> flight.failed]

\* Fault: the result goes to the generation that is current by now.
FinishInCurrentGeneration(c) ==
    /\ calls[c].at = "compute"
    /\ flights[Key(c)].next > LastReading
    /\ LET direction == Computed(c)
       IN  /\ results' = IF direction.failed /\ ~direction.found
                         THEN results
                         ELSE Update(results, <<Len(born), calls[c].stop>>, direction)
           /\ calls' = Answered(Key(c), direction)
    /\ flights' = Forget(flights, Key(c))
    /\ UNCHANGED distances

\* Fault: those who wait are left waiting.
FinishAlone(c) ==
    /\ calls[c].at = "compute"
    /\ flights[Key(c)].next > LastReading
    /\ LET direction == Computed(c)
       IN  /\ results' = IF direction.failed /\ ~direction.found
                         THEN results
                         ELSE Update(results, Key(c), direction)
           /\ calls' = [calls EXCEPT ![c].at = "done", ![c].direction = direction]
    /\ flights' = Forget(flights, Key(c))
    /\ UNCHANGED distances

\* The readings are done. Without an orientation, a reading that failed makes
\* the result an error; with one, it goes unnoticed.
Finish(c) ==
    /\ calls[c].at = "compute"
    /\ flights[Key(c)].next > LastReading
    /\ LET direction == Computed(c)
       IN  /\ results' = IF direction.failed /\ ~direction.found
                         THEN results
                         ELSE Update(results, Key(c), direction)
           /\ calls' = Answered(Key(c), direction)
    /\ flights' = Forget(flights, Key(c))
    /\ UNCHANGED distances

-----------------------------------------------------------------------------

CallStep(c) ==
    \/ LoadGeneration(c)
    \/ Lookup(c)
    \/ Join(c)
    \/ FoundAfterAll(c)
    \/ Lead(c)
    \/ ReadTrips(c)
    \/ ReadDistances(c)
    \/ SkipDistances(c)
    \/ ReadPoints(c)
    \/ ComputeFails(c)
    \/ Finish(c)

Init ==
    /\ ReloadInit
    /\ results = Empty
    /\ distances = Empty
    /\ flights = Empty
    /\ calls = [c \in Calls |-> NoCall]

\* A crash takes the caches and the requests with it.
Crash ==
    /\ CrashAndRestart
    /\ results' = Empty
    /\ distances' = Empty
    /\ flights' = Empty
    /\ calls' = [c \in Calls |-> NoCall]

Next ==
    \/ ReloadStep /\ UNCHANGED cacheVars
    \/ Crash
    \/ \E c \in Calls : (Call(c) \/ CallStep(c)) /\ UNCHANGED reloadVars

\* A request that is being handled goes on.
Fairness == \A c \in Calls : WF_vars(CallStep(c) /\ UNCHANGED reloadVars)

Spec == Init /\ [][Next]_vars /\ Fairness

-----------------------------------------------------------------------------
(* Correctness. *)

\* Once the cache was replaced for the feed in the database, all it serves
\* comes from that feed: a computation that began before the reload writes
\* to its own, retired generation however late it ends.
CacheServesCurrentFeed ==
    serving /\ born[Len(born)] = imports =>
        \A s \in Stops : <<Len(born), s>> \in DOMAIN results =>
            results[<<Len(born), s>>].from \subseteq {imports}

\* A call is never answered from a feed older than the generation it found
\* when it began, neither by the cache nor by a computation it waited for.
AnswersNotOlderThanGeneration ==
    \A c \in Calls : calls[c].at = "done" =>
        \A import \in calls[c].direction.from : import >= born[calls[c].generation]

\* What the cache of the generation holds is not computed again: the second
\* look inside the singleflight catches a result stored after the first.
NoRecomputation == \A key \in DOMAIN flights : key \notin DOMAIN results

\* Every call is answered: nobody waits for a computation that ended without
\* him, whatever fails or is reloaded meanwhile.
CallsAnswered ==
    \A c \in Calls :
        calls[c].at = "lookup" ~> calls[c].at = "done" \/ ~serving
=============================================================================
