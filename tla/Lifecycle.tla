------------------------------ MODULE Lifecycle ------------------------------
(***************************************************************************)
(* The life of the server process: InitGTFSManager loads the static feed   *)
(* and starts the background workers, Run serves requests until it is told *)
(* to stop, and Shutdown waits for the workers and closes the database     *)
(* (internal/gtfs/gtfs_manager.go, cmd/api/app.go, cmd/api/main.go,        *)
(* internal/metrics/metrics.go).                                           *)
(*                                                                         *)
(* What a worker or a request does with the database is the subject of     *)
(* RealtimeFeeds and StaticReload; here it is only busy. Every wait with a *)
(* time limit has the timeout as an alternative that is always possible.   *)
(***************************************************************************)
EXTENDS Integers

CONSTANTS Feeds,      \* enabled GTFS-RT feeds, one poller each
          Requests,   \* HTTP requests
          LocalFile,  \* whether the static feed is a local file
          NumRetries  \* number of startup backoffs

ASSUME StartupAssumption ==
    /\ "static updater" \notin Feeds
    /\ Requests \cap (Feeds \cup {"static updater"}) = {}
    /\ LocalFile \in BOOLEAN
    /\ NumRetries \in Nat

Workers == Feeds \cup {"static updater"}

MaxAttempts == IF LocalFile THEN 1 ELSE NumRetries + 1

VARIABLES
    main,          \* where the main goroutine is
    attempt,       \* InitGTFSManager's loop variable
    cancelled,     \* the context of main, cancelled by SIGINT or SIGTERM
    shutdownChan,  \* whether it is closed
    database,      \* the connection pool
    workers,       \* manager.wg counts those that wait or are busy
    closer,        \* the goroutine of Shutdown that closes the database
    collector,     \* the DB stats collector
    requests       \* requests being handled

vars == <<main, attempt, cancelled, shutdownChan, database, workers, closer,
          collector, requests>>

Startup == {"loading", "backoff", "agencies", "warming"}
Gone == {"failed", "exited"}

\* The goroutines run until the process is gone.
Alive == main \notin Gone

Started == {w \in Workers : workers[w] \in {"waiting", "busy"}}

-----------------------------------------------------------------------------
(* InitGTFSManager. *)

LoadSucceeds ==
    /\ main = "loading"
    /\ main' = "agencies"
    /\ UNCHANGED <<attempt, cancelled, shutdownChan, database, workers, closer,
                   collector, requests>>

LoadFails ==
    /\ main = "loading"
    /\ IF attempt < MaxAttempts
       THEN main' = "backoff" /\ UNCHANGED database
       ELSE main' = "failed" /\ database' = "closed"
    /\ UNCHANGED <<attempt, cancelled, shutdownChan, workers, closer, collector,
                   requests>>

RetryLoad ==
    /\ main = "backoff"
    /\ main' = "loading"
    /\ attempt' = attempt + 1
    /\ UNCHANGED <<cancelled, shutdownChan, database, workers, closer, collector,
                   requests>>

CancelBackoff ==
    /\ main = "backoff"
    /\ cancelled
    /\ main' = "failed"
    /\ database' = "closed"
    /\ UNCHANGED <<attempt, cancelled, shutdownChan, workers, closer, collector,
                   requests>>

ListAgencies ==
    /\ main = "agencies"
    /\ main' = "warming"
    /\ UNCHANGED <<attempt, cancelled, shutdownChan, database, workers, closer,
                   collector, requests>>

\* The database is left open on this path.
ListAgenciesFails ==
    /\ main = "agencies"
    /\ main' = "failed"
    /\ UNCHANGED <<attempt, cancelled, shutdownChan, database, workers, closer,
                   collector, requests>>

\* Each feed was fetched once, successfully or not: the workers start, then
\* BuildApplication starts the collector, and Run starts the server.
StartServing ==
    /\ main = "warming"
    /\ main' = "serving"
    /\ workers' = [w \in Workers |->
                      IF w = "static updater" /\ LocalFile THEN "absent" ELSE "waiting"]
    /\ collector' = "running"
    /\ UNCHANGED <<attempt, cancelled, shutdownChan, database, closer, requests>>

-----------------------------------------------------------------------------
(* The workers: updateStaticGTFS and pollFeed. *)

\* The ticker or the timer fires. It may do so even after shutdownChan is
\* closed, for a select with two ready cases takes either.
WorkerBegins(w) ==
    /\ Alive
    /\ workers[w] = "waiting"
    /\ workers' = [workers EXCEPT ![w] = "busy"]
    /\ UNCHANGED <<main, attempt, cancelled, shutdownChan, database, closer,
                   collector, requests>>

WorkerEnds(w) ==
    /\ Alive
    /\ workers[w] = "busy"
    /\ workers' = [workers EXCEPT ![w] = "waiting"]
    /\ UNCHANGED <<main, attempt, cancelled, shutdownChan, database, closer,
                   collector, requests>>

WorkerExits(w) ==
    /\ Alive
    /\ workers[w] = "waiting"
    /\ shutdownChan = "closed"
    /\ workers' = [workers EXCEPT ![w] = "exited"]
    /\ UNCHANGED <<main, attempt, cancelled, shutdownChan, database, closer,
                   collector, requests>>

\* The DB stats collector notices that Metrics.Shutdown cancelled it.
CollectorExits ==
    /\ main = "stopping metrics"
    /\ collector = "running"
    /\ collector' = "exited"
    /\ UNCHANGED <<main, attempt, cancelled, shutdownChan, database, workers,
                   closer, requests>>

-----------------------------------------------------------------------------
(* Run. *)

BeginRequest(r) ==
    /\ main = "serving"
    /\ r \notin requests
    /\ requests' = requests \cup {r}
    /\ UNCHANGED <<main, attempt, cancelled, shutdownChan, database, workers,
                   closer, collector>>

EndRequest(r) ==
    /\ Alive
    /\ r \in requests
    /\ requests' = requests \ {r}
    /\ UNCHANGED <<main, attempt, cancelled, shutdownChan, database, workers,
                   closer, collector>>

Cancel ==
    /\ Alive
    /\ ~cancelled
    /\ cancelled' = TRUE
    /\ UNCHANGED <<main, attempt, shutdownChan, database, workers, closer,
                   collector, requests>>

\* The server cannot listen, or no longer accept. Nothing is shut down on this path.
ServerError ==
    /\ main = "serving"
    /\ main' = "failed"
    /\ UNCHANGED <<attempt, cancelled, shutdownChan, database, workers, closer,
                   collector, requests>>

BeginShutdown ==
    /\ main = "serving"
    /\ cancelled
    /\ main' = "draining"
    /\ UNCHANGED <<attempt, cancelled, shutdownChan, database, workers, closer,
                   collector, requests>>

\* Fault: the requests are not waited for.
DrainedAtOnce ==
    /\ main = "draining"
    /\ main' = "stopping metrics"
    /\ UNCHANGED <<attempt, cancelled, shutdownChan, database, workers, closer,
                   collector, requests>>

\* http.Server.Shutdown returns once no request is active.
Drained ==
    /\ main = "draining"
    /\ requests = {}
    /\ main' = "stopping metrics"
    /\ UNCHANGED <<attempt, cancelled, shutdownChan, database, workers, closer,
                   collector, requests>>

\* Or after thirty seconds, with an error: Run gives up.
DrainTimesOut ==
    /\ main = "draining"
    /\ main' = "failed"
    /\ UNCHANGED <<attempt, cancelled, shutdownChan, database, workers, closer,
                   collector, requests>>

\* Manager.Shutdown, after Metrics.Shutdown has waited for the collector.
CloseShutdownChan ==
    /\ main = "stopping metrics"
    /\ collector # "running"
    /\ main' = "stopping workers"
    /\ shutdownChan' = "closed"
    /\ closer' = "waiting"
    /\ UNCHANGED <<attempt, cancelled, database, workers, collector, requests>>

\* Its goroutine: wg.Wait, then the database is closed.
CloseDatabase ==
    /\ Alive
    /\ closer = "waiting"
    /\ Started = {}
    /\ database' = "closed"
    /\ closer' = "done"
    /\ UNCHANGED <<main, attempt, cancelled, shutdownChan, workers, collector,
                   requests>>

ShutdownCompletes ==
    /\ main = "stopping workers"
    /\ closer = "done"
    /\ main' = "exited"
    /\ UNCHANGED <<attempt, cancelled, shutdownChan, database, workers, closer,
                   collector, requests>>

\* Fault: Shutdown waits as long as it takes.
ShutdownNeverTimesOut ==
    /\ FALSE
    /\ UNCHANGED vars

\* The context of Shutdown expires: the database is left to the closer.
ShutdownTimesOut ==
    /\ main = "stopping workers"
    /\ main' = "exiting"
    /\ UNCHANGED <<attempt, cancelled, shutdownChan, database, workers, closer,
                   collector, requests>>

\* main returns; whatever still runs dies with the process.
Exit ==
    /\ main = "exiting"
    /\ main' = "exited"
    /\ UNCHANGED <<attempt, cancelled, shutdownChan, database, workers, closer,
                   collector, requests>>

-----------------------------------------------------------------------------

\* openGtfsDB succeeded.
Init ==
    /\ main = "loading"
    /\ attempt = 1
    /\ cancelled = FALSE
    /\ shutdownChan = "open"
    /\ database = "open"
    /\ workers = [w \in Workers |-> "absent"]
    /\ closer = "absent"
    /\ collector = "absent"
    /\ requests = {}

MainStep ==
    \/ LoadSucceeds
    \/ LoadFails
    \/ RetryLoad
    \/ CancelBackoff
    \/ ListAgencies
    \/ ListAgenciesFails
    \/ StartServing
    \/ BeginShutdown
    \/ Drained
    \/ DrainTimesOut
    \/ CloseShutdownChan
    \/ ShutdownCompletes
    \/ ShutdownTimesOut
    \/ Exit

\* The process is gone.
Terminated == ~Alive /\ UNCHANGED vars

Next ==
    \/ MainStep
    \/ ServerError
    \/ Cancel
    \/ \E w \in Workers : WorkerBegins(w) \/ WorkerEnds(w) \/ WorkerExits(w)
    \/ CollectorExits
    \/ \E r \in Requests : BeginRequest(r) \/ EndRequest(r)
    \/ CloseDatabase
    \/ Terminated

\* The main goroutine and the collector go on. A worker need not: a fetch may
\* hang, and so may a request.
Fairness ==
    /\ WF_vars(MainStep)
    /\ WF_vars(CollectorExits)

Spec == Init /\ [][Next]_vars /\ Fairness

-----------------------------------------------------------------------------
(* Correctness. *)

\* The values of the variables: the loop of InitGTFSManager stays within the
\* attempts there are backoffs for.
TypeOK ==
    /\ main \in Startup \cup Gone \cup
           {"serving", "draining", "stopping metrics", "stopping workers", "exiting"}
    /\ attempt \in 1..MaxAttempts
    /\ cancelled \in BOOLEAN
    /\ shutdownChan \in {"open", "closed"}
    /\ database \in {"open", "closed"}
    /\ workers \in [Workers -> {"absent", "waiting", "busy", "exited"}]
    /\ closer \in {"absent", "waiting", "done"}
    /\ collector \in {"absent", "running", "exited"}
    /\ requests \subseteq Requests

\* The database is never closed under a worker that uses it, whichever
\* timeout expires and however long a fetch takes, nor under a request: the
\* server is drained before the manager is shut down, and when it cannot be,
\* the manager is not shut down. Nor does anyone begin to use it afterwards.
Lease == INSTANCE DatabaseLease
         WITH Users <- Workers \cup Requests,
              open <- database = "open",
              holders <- {w \in Workers : workers[w] = "busy"} \cup requests

DatabaseLeased == Lease!Spec

\* Once the process is told to stop it ends, even if a worker hangs.
StopsWhenCancelled == cancelled ~> ~Alive

=============================================================================
