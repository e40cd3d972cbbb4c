--------------------------- MODULE Lifecycle_proofs ---------------------------
(***************************************************************************)
(* For every number of feeds, requests and startup attempts: the process   *)
(* implements the lease on its database, and a startup that fails before   *)
(* the feed is loaded leaves no database open.                             *)
(***************************************************************************)
EXTENDS Lifecycle, TLAPS

\* Before it serves, nothing but the main goroutine runs.
NothingStarted ==
    main \in Startup =>
        /\ \A w \in Workers : workers[w] = "absent"
        /\ requests = {}

\* The goroutine that closes the database exists from the moment the
\* manager is shut down, and by then the server is drained.
CloserAfterDrain ==
    /\ closer # "absent" => main \in {"stopping workers", "exiting", "exited"}
    /\ main \in {"stopping metrics", "stopping workers", "exiting", "exited"} => requests = {}

\* As long as the process runs, only that goroutine closes the database.
ClosedByCloser == (Alive /\ closer # "done") => database = "open"

\* It waited for the workers, and none begins anew.
NoneAfterClose == closer = "done" => Started = {}

\* It waits only for an attempt that is left.
AttemptLeft == main = "backoff" => attempt < MaxAttempts

IInv == TypeOK /\ AttemptLeft /\ NothingStarted /\ CloserAfterDrain /\ ClosedByCloser /\ NoneAfterClose

-----------------------------------------------------------------------------

LEMMA AttemptsPositive == MaxAttempts \in Nat /\ 1 <= MaxAttempts
<1>1. NumRetries \in Nat
  BY StartupAssumption DEF StartupAssumption
<1>2. CASE LocalFile
  BY <1>2 DEF MaxAttempts
<1>3. CASE ~LocalFile
  BY <1>1, <1>3 DEF MaxAttempts
<1>4. QED
  BY <1>2, <1>3

LEMMA InitInvariant == Init => IInv
<1> SUFFICES ASSUME Init PROVE IInv
  OBVIOUS
<1>1. attempt \in 1..MaxAttempts
  BY AttemptsPositive DEF Init
<1>2. TypeOK
  BY <1>1 DEF Init, TypeOK, Startup, Gone
<1>3. AttemptLeft /\ NothingStarted /\ CloserAfterDrain /\ ClosedByCloser /\ NoneAfterClose
  BY DEF Init, AttemptLeft, NothingStarted, CloserAfterDrain, ClosedByCloser, NoneAfterClose
<1>4. QED
  BY <1>2, <1>3 DEF IInv

\* The main goroutine loads the feed, or gives up.
LEMMA StartupKeepsInvariant ==
    ASSUME IInv,
           LoadSucceeds \/ LoadFails \/ RetryLoad \/ CancelBackoff \/ ListAgencies
             \/ ListAgenciesFails \/ StartServing
    PROVE  IInv'
<1> USE DEF IInv, TypeOK, AttemptLeft, NothingStarted, CloserAfterDrain, ClosedByCloser, NoneAfterClose,
            Startup, Gone, Alive, Started
<1>1. CASE LoadSucceeds
  BY <1>1 DEF LoadSucceeds
<1>2. CASE LoadFails
  BY <1>2 DEF LoadFails
<1>3. CASE RetryLoad
  <2>1. attempt + 1 \in 1..MaxAttempts
    BY <1>3, AttemptsPositive DEF RetryLoad
  <2>2. QED
    BY <1>3, <2>1 DEF RetryLoad
<1>4. CASE CancelBackoff
  BY <1>4 DEF CancelBackoff
<1>5. CASE ListAgencies
  BY <1>5 DEF ListAgencies
<1>6. CASE ListAgenciesFails
  BY <1>6 DEF ListAgenciesFails
<1>7. CASE StartServing
  BY <1>7 DEF StartServing
<1>8. QED
  BY <1>1, <1>2, <1>3, <1>4, <1>5, <1>6, <1>7

\* The main goroutine stops: what it waited for is gone, or it waited too long.
LEMMA StoppingKeepsInvariant ==
    ASSUME IInv,
           ServerError \/ BeginShutdown \/ Drained \/ DrainTimesOut \/ CollectorExits
             \/ CloseShutdownChan \/ CloseDatabase \/ ShutdownCompletes
             \/ ShutdownTimesOut \/ Exit
    PROVE  IInv'
<1> USE DEF IInv, TypeOK, AttemptLeft, NothingStarted, CloserAfterDrain, ClosedByCloser, NoneAfterClose,
            Startup, Gone, Alive, Started
<1>1. CASE ServerError
  BY <1>1 DEF ServerError
<1>2. CASE BeginShutdown
  BY <1>2 DEF BeginShutdown
<1>3. CASE Drained
  BY <1>3 DEF Drained
<1>4. CASE DrainTimesOut
  BY <1>4 DEF DrainTimesOut
<1>5. CASE CollectorExits
  BY <1>5 DEF CollectorExits
<1>6. CASE CloseShutdownChan
  BY <1>6 DEF CloseShutdownChan
<1>7. CASE CloseDatabase
  BY <1>7 DEF CloseDatabase
<1>8. CASE ShutdownCompletes
  BY <1>8 DEF ShutdownCompletes
<1>9. CASE ShutdownTimesOut
  BY <1>9 DEF ShutdownTimesOut
<1>10. CASE Exit
  BY <1>10 DEF Exit
<1>11. QED
  BY <1>1, <1>2, <1>3, <1>4, <1>5, <1>6, <1>7, <1>8, <1>9, <1>10

\* A worker goes through its loop. None begins once the database is closed,
\* for by then each has left its loop.
LEMMA WorkerKeepsInvariant ==
    ASSUME IInv, NEW w \in Workers, WorkerBegins(w) \/ WorkerEnds(w) \/ WorkerExits(w)
    PROVE  IInv'
<1> USE DEF IInv, TypeOK, AttemptLeft, CloserAfterDrain, ClosedByCloser, Gone, Alive
<1>1. main \notin Startup
  BY DEF WorkerBegins, WorkerEnds, WorkerExits, NothingStarted
<1>2. NothingStarted'
  BY <1>1 DEF WorkerBegins, WorkerEnds, WorkerExits, NothingStarted, Startup
<1>3. closer # "done"
  BY DEF WorkerBegins, WorkerEnds, WorkerExits, NoneAfterClose, Started
<1>4. NoneAfterClose'
  BY <1>3 DEF WorkerBegins, WorkerEnds, WorkerExits, NoneAfterClose
<1>5. TypeOK' /\ AttemptLeft' /\ CloserAfterDrain' /\ ClosedByCloser'
  BY DEF WorkerBegins, WorkerEnds, WorkerExits
<1>6. QED
  BY <1>2, <1>4, <1>5

\* Requests begin while the server listens.
LEMMA RequestKeepsInvariant ==
    ASSUME IInv, NEW r \in Requests, BeginRequest(r) \/ EndRequest(r)
    PROVE  IInv'
BY DEF IInv, TypeOK, AttemptLeft, NothingStarted, CloserAfterDrain, ClosedByCloser, NoneAfterClose,
       Startup, Gone, Alive, Started, BeginRequest, EndRequest

LEMMA StepKeepsInvariant == IInv /\ [Next]_vars => IInv'
<1> SUFFICES ASSUME IInv, [Next]_vars
             PROVE  IInv'
  OBVIOUS
<1>1. CASE MainStep
  BY <1>1, StartupKeepsInvariant, StoppingKeepsInvariant DEF MainStep
<1>2. CASE ServerError \/ CollectorExits \/ CloseDatabase
  BY <1>2, StoppingKeepsInvariant
<1>3. CASE Cancel
  BY <1>3 DEF Cancel, IInv, TypeOK, AttemptLeft, NothingStarted, CloserAfterDrain, ClosedByCloser,
              NoneAfterClose, Alive, Started
<1>4. CASE \E w \in Workers : WorkerBegins(w) \/ WorkerEnds(w) \/ WorkerExits(w)
  BY <1>4, WorkerKeepsInvariant
<1>5. CASE \E r \in Requests : BeginRequest(r) \/ EndRequest(r)
  BY <1>5, RequestKeepsInvariant
<1>6. CASE UNCHANGED vars
  BY <1>6 DEF vars, IInv, TypeOK, AttemptLeft, NothingStarted, CloserAfterDrain, ClosedByCloser,
              NoneAfterClose, Alive, Started
<1>7. QED
  BY <1>1, <1>2, <1>3, <1>4, <1>5, <1>6 DEF Next, Terminated

\* The bookkeeping of startup, workers and shutdown is as stated above.
THEOREM InvariantHolds == Spec => []IInv
BY InitInvariant, StepKeepsInvariant, PTL DEF Spec

-----------------------------------------------------------------------------
(* The lease on the database. *)

LEMMA InitLeases == Init => Lease!Init
BY DEF Init, Lease!Init

\* A worker that begins finds the database open.
LEMMA WorkerLeases ==
    ASSUME IInv, NEW w \in Workers, WorkerBegins(w) \/ WorkerEnds(w) \/ WorkerExits(w)
    PROVE  Lease!Acquire(w) \/ Lease!Release(w) \/ UNCHANGED Lease!vars
<1> USE DEF IInv, TypeOK
<1>1. w \notin Requests
  BY StartupAssumption DEF StartupAssumption, Workers
<1>2. CASE WorkerBegins(w)
  <2>1. closer # "done" /\ database = "open"
    BY <1>2 DEF WorkerBegins, NoneAfterClose, Started, ClosedByCloser
  <2>2. {v \in Workers : workers'[v] = "busy"} = {v \in Workers : workers[v] = "busy"} \cup {w}
    BY <1>2 DEF WorkerBegins
  <2>3. QED
    BY <1>2, <2>1, <2>2 DEF WorkerBegins, Lease!Acquire
<1>3. CASE WorkerEnds(w)
  <2>1. {v \in Workers : workers'[v] = "busy"} = {v \in Workers : workers[v] = "busy"} \ {w}
    BY <1>3 DEF WorkerEnds
  <2>2. QED
    BY <1>1, <1>3, <2>1 DEF WorkerEnds, Lease!Release
<1>4. CASE WorkerExits(w)
  <2>1. {v \in Workers : workers'[v] = "busy"} = {v \in Workers : workers[v] = "busy"}
    BY <1>4 DEF WorkerExits
  <2>2. QED
    BY <1>4, <2>1 DEF WorkerExits, Lease!vars
<1>5. QED
  BY <1>2, <1>3, <1>4

\* A request comes in while the server listens, when nothing has closed the
\* database yet.
LEMMA RequestLeases ==
    ASSUME IInv, NEW r \in Requests, BeginRequest(r) \/ EndRequest(r)
    PROVE  Lease!Acquire(r) \/ Lease!Release(r)
<1>1. r \notin Workers
  BY StartupAssumption DEF StartupAssumption, Workers
<1>2. CASE BeginRequest(r)
  <2>1. database = "open"
    BY <1>2 DEF BeginRequest, IInv, TypeOK, CloserAfterDrain, ClosedByCloser, Alive, Gone
  <2>2. QED
    BY <1>2, <2>1 DEF BeginRequest, Lease!Acquire
<1>3. CASE EndRequest(r)
  BY <1>1, <1>3 DEF EndRequest, Lease!Release
<1>4. QED
  BY <1>2, <1>3

\* The steps that close the database do so when nobody uses it.
LEMMA ClosingLeases ==
    ASSUME IInv, LoadFails \/ CancelBackoff \/ CloseDatabase
    PROVE  Lease!Close \/ UNCHANGED Lease!vars
<1> USE DEF IInv, TypeOK, Lease!Close, Lease!vars
<1>1. CASE LoadFails \/ CancelBackoff
  <2>1. {w \in Workers : workers[w] = "busy"} \cup requests = {}
    BY <1>1 DEF LoadFails, CancelBackoff, NothingStarted, Startup
  <2>2. QED
    BY <1>1, <2>1 DEF LoadFails, CancelBackoff
<1>2. CASE CloseDatabase
  <2>1. {w \in Workers : workers[w] = "busy"} \cup requests = {}
    BY <1>2 DEF CloseDatabase, Started, CloserAfterDrain
  <2>2. QED
    BY <1>2, <2>1 DEF CloseDatabase
<1>3. QED
  BY <1>1, <1>2

LEMMA StepLeases == IInv /\ [Next]_vars => [Lease!Next]_(Lease!vars)
<1> SUFFICES ASSUME IInv, [Next]_vars
             PROVE  [Lease!Next]_(Lease!vars)
  OBVIOUS
<1>1. CASE LoadFails \/ CancelBackoff \/ CloseDatabase
  BY <1>1, ClosingLeases DEF Lease!Next
<1>2. CASE StartServing
  <2>1. {w \in Workers : workers'[w] = "busy"} = {w \in Workers : workers[w] = "busy"}
    BY <1>2 DEF StartServing, IInv, NothingStarted, Startup
  <2>2. QED
    BY <1>2, <2>1 DEF StartServing, Lease!vars
<1>3. CASE \E w \in Workers : WorkerBegins(w) \/ WorkerEnds(w) \/ WorkerExits(w)
  BY <1>3, WorkerLeases DEF Lease!Next
<1>4. CASE \E r \in Requests : BeginRequest(r) \/ EndRequest(r)
  BY <1>4, RequestLeases DEF Lease!Next
<1>5. CASE UNCHANGED <<database, workers, requests>>
  BY <1>5 DEF Lease!vars
<1>6. QED
  BY <1>1, <1>2, <1>3, <1>4, <1>5
     DEF Next, MainStep, Terminated, vars, LoadSucceeds, RetryLoad, ListAgencies,
         ListAgenciesFails, BeginShutdown, Drained, DrainTimesOut, CloseShutdownChan,
         ShutdownCompletes, ShutdownTimesOut, Exit, ServerError, Cancel, CollectorExits

\* Whatever fails or times out, and whenever the process is told to stop:
\* the database is closed when neither a worker nor a request uses it, and
\* none begins to use it afterwards.
THEOREM LifecycleLeasesDatabase == Spec => DatabaseLeased
BY InitLeases, StepLeases, InvariantHolds, InitInvariant, StepKeepsInvariant, PTL
   DEF Spec, DatabaseLeased, Lease!Spec

=============================================================================
