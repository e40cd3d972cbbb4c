------------------------- MODULE DirectionPrecompute -------------------------
(***************************************************************************)
(* PrecomputeAllDirections: a pool of workers computes the direction of    *)
(* every stop, fed through one channel and collected through another, and  *)
(* the results are then written in batches                                 *)
(* (internal/gtfs/direction_precomputer.go).                               *)
(*                                                                         *)
(* A stop's place in ListStops is its number; without stops nothing is     *)
(* done at all. The deadline of the reload may expire at any moment.       *)
(***************************************************************************)
EXTENDS Integers, Sequences, FiniteSets

CONSTANTS NumStops, NumWorkers,
          ResultsCapacity,  \* of resultsChan; ten per worker in the code
          BatchSize         \* results written in one transaction; 500 in the code

ASSUME PoolAssumption ==
    /\ NumStops \in Nat \ {0}
    /\ NumWorkers \in Nat \ {0}
    /\ ResultsCapacity \in Nat \ {0}
    /\ BatchSize \in Nat \ {0}

StopNumbers == 1..NumStops
PoolWorkers == 1..NumWorkers

VARIABLES
    cancelled,       \* the context
    fed,             \* how many stops the feeder has sent
    stopsChan, stopsClosed,
    worker,          \* each worker's place and the stop it holds, 0 for none
    resultsChan, resultsClosed,
    results,         \* collected by the main goroutine, in order of arrival
    discarded,       \* stops drained after the cancellation
    main,            \* where the main goroutine is
    position,        \* how many results the batches so far have covered
    written          \* stops whose direction is in the database

vars == <<cancelled, fed, stopsChan, stopsClosed, worker, resultsChan,
          resultsClosed, results, discarded, main, position, written>>

feeder == <<fed, stopsClosed>>
writer == <<position, written>>

\* A result: the stop, and whether a direction was found for it.
Results == [stop : StopNumbers, known : BOOLEAN]

-----------------------------------------------------------------------------
(* The feeder. *)

FeedStop ==
    /\ fed < NumStops
    /\ Len(stopsChan) < NumWorkers
    /\ stopsChan' = Append(stopsChan, fed + 1)
    /\ fed' = fed + 1
    /\ UNCHANGED <<cancelled, stopsClosed, worker, resultsChan, resultsClosed,
                   results, discarded, main, writer>>

CloseStops ==
    /\ fed = NumStops
    /\ ~stopsClosed
    /\ stopsClosed' = TRUE
    /\ UNCHANGED <<cancelled, fed, stopsChan, worker, resultsChan, resultsClosed,
                   results, discarded, main, writer>>

-----------------------------------------------------------------------------
(* A worker: it takes stops until the channel is closed. *)

TakeStop(w) ==
    /\ worker[w].at = "take"
    /\ stopsChan # <<>>
    /\ worker' = [worker EXCEPT ![w] = [at |-> "compute", stop |-> Head(stopsChan)]]
    /\ stopsChan' = Tail(stopsChan)
    /\ UNCHANGED <<cancelled, feeder, resultsChan, resultsClosed, results, discarded,
                   main, writer>>

\* The result of a computed direction. Once the context is cancelled, a
\* worker sends one empty result instead and computes no more.
SendResult(w) ==
    /\ worker[w].at = "compute"
    /\ ~cancelled
    /\ worker' = [worker EXCEPT ![w].at = "send"]
    /\ UNCHANGED <<cancelled, feeder, stopsChan, resultsChan, resultsClosed, results,
                   discarded, main, writer>>

\* Fault: the stop at hand gets no result.
NoticeCancelSilently(w) ==
    /\ worker[w].at = "compute"
    /\ cancelled
    /\ worker' = [worker EXCEPT ![w] = [at |-> "drain", stop |-> 0]]
    /\ UNCHANGED <<cancelled, feeder, stopsChan, resultsChan, resultsClosed, results,
                   discarded, main, writer>>

NoticeCancel(w) ==
    /\ worker[w].at = "compute"
    /\ cancelled
    /\ worker' = [worker EXCEPT ![w].at = "send empty"]
    /\ UNCHANGED <<cancelled, feeder, stopsChan, resultsChan, resultsClosed, results,
                   discarded, main, writer>>

Deliver(w) ==
    /\ worker[w].at = "send"
    /\ Len(resultsChan) < ResultsCapacity
    /\ \E known \in BOOLEAN :
          resultsChan' = Append(resultsChan, [stop |-> worker[w].stop, known |-> known])
    /\ worker' = [worker EXCEPT ![w] = [at |-> "take", stop |-> 0]]
    /\ UNCHANGED <<cancelled, feeder, stopsChan, resultsClosed, results, discarded,
                   main, writer>>

\* Fault: the worker leaves without draining the channel.
DeliverEmptyAndLeave(w) ==
    /\ worker[w].at = "send empty"
    /\ Len(resultsChan) < ResultsCapacity
    /\ resultsChan' = Append(resultsChan, [stop |-> worker[w].stop, known |-> FALSE])
    /\ worker' = [worker EXCEPT ![w] = [at |-> "end", stop |-> 0]]
    /\ UNCHANGED <<cancelled, feeder, stopsChan, resultsClosed, results, discarded,
                   main, writer>>

DeliverEmpty(w) ==
    /\ worker[w].at = "send empty"
    /\ Len(resultsChan) < ResultsCapacity
    /\ resultsChan' = Append(resultsChan, [stop |-> worker[w].stop, known |-> FALSE])
    /\ worker' = [worker EXCEPT ![w] = [at |-> "drain", stop |-> 0]]
    /\ UNCHANGED <<cancelled, feeder, stopsChan, resultsClosed, results, discarded,
                   main, writer>>

\* The rest is discarded so that the feeder is not blocked.
DrainStop(w) ==
    /\ worker[w].at = "drain"
    /\ stopsChan # <<>>
    /\ discarded' = discarded \cup {Head(stopsChan)}
    /\ stopsChan' = Tail(stopsChan)
    /\ UNCHANGED <<cancelled, feeder, worker, resultsChan, resultsClosed, results,
                   main, writer>>

\* Fault: an empty channel is taken for a closed one.
WorkerEndsWhenEmpty(w) ==
    /\ worker[w].at \in {"take", "drain"}
    /\ stopsChan = <<>>
    /\ worker' = [worker EXCEPT ![w] = [at |-> "end", stop |-> 0]]
    /\ UNCHANGED <<cancelled, feeder, stopsChan, resultsChan, resultsClosed, results,
                   discarded, main, writer>>

WorkerEnds(w) ==
    /\ worker[w].at \in {"take", "drain"}
    /\ stopsChan = <<>>
    /\ stopsClosed
    /\ worker' = [worker EXCEPT ![w] = [at |-> "end", stop |-> 0]]
    /\ UNCHANGED <<cancelled, feeder, stopsChan, resultsChan, resultsClosed, results,
                   discarded, main, writer>>

\* Fault: the first worker to end closes the results.
CloseResultsEarly ==
    /\ \E w \in PoolWorkers : worker[w].at = "end"
    /\ ~resultsClosed
    /\ resultsClosed' = TRUE
    /\ UNCHANGED <<cancelled, feeder, stopsChan, worker, resultsChan, results,
                   discarded, main, writer>>

\* wg.Wait, then close(resultsChan).
CloseResults ==
    /\ \A w \in PoolWorkers : worker[w].at = "end"
    /\ ~resultsClosed
    /\ resultsClosed' = TRUE
    /\ UNCHANGED <<cancelled, feeder, stopsChan, worker, resultsChan, results,
                   discarded, main, writer>>

-----------------------------------------------------------------------------
(* The main goroutine. *)

Collect ==
    /\ main = "collecting"
    /\ resultsChan # <<>>
    /\ results' = Append(results, Head(resultsChan))
    /\ resultsChan' = Tail(resultsChan)
    /\ UNCHANGED <<cancelled, feeder, stopsChan, worker, resultsClosed, discarded,
                   main, writer>>

Collected ==
    /\ main = "collecting"
    /\ resultsChan = <<>>
    /\ resultsClosed
    /\ main' = "writing"
    /\ UNCHANGED <<cancelled, feeder, stopsChan, worker, resultsChan, resultsClosed,
                   results, discarded, writer>>

BatchEnd ==
    IF position + BatchSize > Len(results) THEN Len(results) ELSE position + BatchSize

Batch == {results[i].stop : i \in {j \in position + 1..BatchEnd : results[j].known}}

\* processBatch, in a transaction. Updates that fail are passed over.
WriteBatch ==
    /\ main = "writing"
    /\ ~cancelled
    /\ position < Len(results)
    /\ \E updated \in SUBSET Batch : written' = written \cup updated
    /\ position' = BatchEnd
    /\ UNCHANGED <<cancelled, feeder, stopsChan, worker, resultsChan, resultsClosed,
                   results, discarded, main>>

\* All batches are written, or the context is cancelled, or one failed.
Finish ==
    /\ main = "writing"
    /\ main' = "done"
    /\ UNCHANGED <<cancelled, feeder, stopsChan, worker, resultsChan, resultsClosed,
                   results, discarded, writer>>

Cancel ==
    /\ ~cancelled
    /\ cancelled' = TRUE
    /\ UNCHANGED <<feeder, stopsChan, worker, resultsChan, resultsClosed, results,
                   discarded, main, writer>>

-----------------------------------------------------------------------------

Init ==
    /\ cancelled = FALSE
    /\ fed = 0
    /\ stopsChan = <<>>
    /\ stopsClosed = FALSE
    /\ worker = [w \in PoolWorkers |-> [at |-> "take", stop |-> 0]]
    /\ resultsChan = <<>>
    /\ resultsClosed = FALSE
    /\ results = <<>>
    /\ discarded = {}
    /\ main = "collecting"
    /\ position = 0
    /\ written = {}

WorkerStep(w) ==
    \/ TakeStop(w)
    \/ SendResult(w)
    \/ NoticeCancel(w)
    \/ Deliver(w)
    \/ DeliverEmpty(w)
    \/ DrainStop(w)
    \/ WorkerEnds(w)

FeederStep == FeedStop \/ CloseStops

MainStep == Collect \/ Collected \/ WriteBatch \/ Finish

AllEnded ==
    /\ stopsClosed
    /\ \A w \in PoolWorkers : worker[w].at = "end"
    /\ resultsClosed
    /\ main = "done"

\* Nothing is left to do.
Terminated == AllEnded /\ UNCHANGED vars

Next ==
    \/ FeederStep
    \/ \E w \in PoolWorkers : WorkerStep(w)
    \/ CloseResults
    \/ MainStep
    \/ Cancel
    \/ Terminated

\* Every goroutine runs on as long as it can.
Fairness ==
    /\ WF_vars(FeederStep)
    /\ \A w \in PoolWorkers : WF_vars(WorkerStep(w))
    /\ WF_vars(CloseResults)
    /\ WF_vars(MainStep)

Spec == Init /\ [][Next]_vars /\ Fairness

-----------------------------------------------------------------------------
(* Correctness. *)

Held == {w \in PoolWorkers : worker[w].stop # 0}

\* The values of the variables: both channels stay within their capacity.
TypeOK ==
    /\ cancelled \in BOOLEAN
    /\ fed \in 0..NumStops
    /\ stopsChan \in Seq(StopNumbers) /\ Len(stopsChan) <= NumWorkers
    /\ stopsClosed \in BOOLEAN
    /\ worker \in [PoolWorkers ->
          [at : {"take", "compute", "send", "send empty", "drain", "end"},
           stop : StopNumbers \cup {0}]]
    /\ resultsChan \in Seq(Results) /\ Len(resultsChan) <= ResultsCapacity
    /\ resultsClosed \in BOOLEAN
    /\ results \in Seq(Results)
    /\ discarded \subseteq StopNumbers
    /\ main \in {"collecting", "writing", "done"}
    /\ position \in 0..Len(results)
    /\ written \subseteq StopNumbers

\* Nobody sends on a closed channel, which would bring the process down.
NoSendOnClosedChannel ==
    /\ stopsClosed => fed = NumStops
    /\ resultsClosed => \A w \in PoolWorkers : worker[w].at = "end"

\* No stop is lost or handled twice on its way: what the feeder sent is in
\* one of the channels, with one worker, collected, or discarded.
EveryStopOnce ==
    fed = Len(stopsChan) + Cardinality(Held) + Len(resultsChan) + Len(results)
              + Cardinality(discarded)

\* Without a cancellation the batches cover every stop: the results are not
\* closed before the last worker delivered, nor the stops before the last
\* one was sent.
ResultsComplete ==
    main # "collecting" /\ ~cancelled =>
        {results[i].stop : i \in DOMAIN results} = StopNumbers

\* The pool always winds down: no goroutine is left behind blocked on a
\* channel, whenever the context is cancelled.
AllGoroutinesEnd == <>AllEnded
=============================================================================
