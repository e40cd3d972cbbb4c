----------------------- MODULE DirectionPrecompute_proofs -----------------------
(***************************************************************************)
(* For every number of stops and of workers, and every capacity of the     *)
(* channels: nobody sends on a closed channel, and the batches of a run    *)
(* that is not cancelled cover every stop. No stop is lost or handled      *)
(* twice on the way from the feeder to the batches.                        *)
(***************************************************************************)
EXTENDS DirectionPrecompute, FiniteSetTheorems, TLAPS

Queued(s) == \E i \in 1..Len(stopsChan) : stopsChan[i] = s
HeldByWorker(s) == \E w \in PoolWorkers : worker[w].stop = s
Delivered(s) == \E i \in 1..Len(resultsChan) : resultsChan[i].stop = s
Arrived(s) == \E i \in 1..Len(results) : results[i].stop = s

\* What a worker does, and the stop it holds.
WorkerStates ==
    [at : {"take", "compute", "send", "send empty", "drain", "end"}, stop : StopNumbers \cup {0}]

\* Every stop that was sent is somewhere.
Accounted ==
    \A s \in 1..fed : Queued(s) \/ HeldByWorker(s) \/ Delivered(s) \/ Arrived(s) \/ s \in discarded

\* A worker leaves when there are no stops to come.
EndedWhenEmpty ==
    \A w \in PoolWorkers : worker[w].at = "end" => stopsClosed /\ stopsChan = <<>>

\* It has a stop in hand between taking it and delivering its result.
StopInHand ==
    \A w \in PoolWorkers : worker[w].at \in {"take", "drain", "end"} <=> worker[w].stop = 0

\* The batches begin when the last result was collected.
WrittenWhenEmpty == main # "collecting" => resultsClosed /\ resultsChan = <<>>

\* Stops are discarded after a cancellation only.
NoneDiscarded ==
    ~cancelled =>
        /\ discarded = {}
        /\ \A w \in PoolWorkers : worker[w].at \notin {"send empty", "drain"}

IInv ==
    TypeOK /\ NoSendOnClosedChannel /\ EndedWhenEmpty /\ StopInHand /\ WrittenWhenEmpty
    /\ NoneDiscarded /\ Accounted

-----------------------------------------------------------------------------
(* Channels as sequences. *)

LEMMA SequenceElements ==
    ASSUME NEW S, NEW q \in Seq(S)
    PROVE  Len(q) \in Nat /\ DOMAIN q = 1..Len(q) /\ \A i \in 1..Len(q) : q[i] \in S
OBVIOUS

\* What was in a channel, and what is sent, is in it afterwards.
LEMMA Sent ==
    ASSUME NEW S, NEW q \in Seq(S), NEW e \in S
    PROVE  /\ Append(q, e) \in Seq(S)
           /\ Len(Append(q, e)) = Len(q) + 1
           /\ \A i \in 1..Len(q) : i \in 1..Len(Append(q, e)) /\ Append(q, e)[i] = q[i]
           /\ Len(q) + 1 \in 1..Len(Append(q, e)) /\ Append(q, e)[Len(q) + 1] = e
OBVIOUS

\* What was in a channel is received or still in it.
LEMMA Received ==
    ASSUME NEW S, NEW q \in Seq(S), q # <<>>
    PROVE  /\ Head(q) \in S
           /\ Tail(q) \in Seq(S)
           /\ Len(Tail(q)) = Len(q) - 1
           /\ Len(q) \in Nat \ {0}
           /\ \A i \in 1..Len(q) : q[i] = Head(q) \/ (i - 1 \in 1..Len(Tail(q)) /\ Tail(q)[i - 1] = q[i])
<1>1. Len(q) \in Nat \ {0}
  OBVIOUS
<1>2. Head(q) = q[1] /\ q[1] \in S
  BY <1>1
<1>3. Tail(q) \in Seq(S) /\ Len(Tail(q)) = Len(q) - 1
  BY <1>1
<1>4. ASSUME NEW i \in 1..Len(q), i # 1
      PROVE  i - 1 \in 1..Len(Tail(q)) /\ Tail(q)[i - 1] = q[i]
  BY <1>1, <1>3, <1>4
<1>5. QED
  BY <1>1, <1>2, <1>3, <1>4

-----------------------------------------------------------------------------

LEMMA Sizes == NumStops \in Nat /\ NumWorkers \in Nat /\ 1 <= NumWorkers /\ ResultsCapacity \in Nat
BY PoolAssumption DEF PoolAssumption

LEMMA ChannelTypes ==
    IInv => stopsChan \in Seq(StopNumbers) /\ resultsChan \in Seq(Results) /\ results \in Seq(Results)
BY DEF IInv, TypeOK

LEMMA InitInvariant == Init => IInv
<1> SUFFICES ASSUME Init PROVE IInv
  OBVIOUS
<1>1. TypeOK
  <2>1. worker \in [PoolWorkers -> WorkerStates]
    BY DEF Init, WorkerStates
  <2>2. /\ stopsChan \in Seq(StopNumbers) /\ Len(stopsChan) = 0
        /\ resultsChan \in Seq(Results) /\ Len(resultsChan) = 0
        /\ results \in Seq(Results) /\ Len(results) = 0
    BY DEF Init
  <2>3. fed \in 0..NumStops /\ 0 <= NumWorkers /\ 0 <= ResultsCapacity /\ position \in 0..0
    BY Sizes DEF Init
  <2>4. QED
    BY <2>1, <2>2, <2>3 DEF Init, TypeOK, WorkerStates
<1>2. NoSendOnClosedChannel /\ EndedWhenEmpty /\ StopInHand /\ WrittenWhenEmpty /\ NoneDiscarded
  BY DEF Init, NoSendOnClosedChannel, EndedWhenEmpty, StopInHand, WrittenWhenEmpty, NoneDiscarded
<1>3. Accounted
  BY DEF Init, Accounted
<1>4. QED
  BY <1>1, <1>2, <1>3 DEF IInv

-----------------------------------------------------------------------------
(* The feeder. *)

LEMMA FeedStopKeeps == ASSUME IInv, FeedStop PROVE IInv'
<1> USE DEF feeder, writer
<1>1. /\ fed \in 0..NumStops /\ fed + 1 \in StopNumbers
      /\ stopsChan \in Seq(StopNumbers) /\ Len(stopsChan) < NumWorkers
  <2>1. fed \in 0..NumStops /\ stopsChan \in Seq(StopNumbers)
    BY DEF IInv, TypeOK, WorkerStates
  <2>2. QED
    BY <2>1, Sizes DEF FeedStop, StopNumbers
<1>2. /\ stopsChan' \in Seq(StopNumbers) /\ Len(stopsChan') = Len(stopsChan) + 1
      /\ \A i \in 1..Len(stopsChan) : i \in 1..Len(stopsChan') /\ stopsChan'[i] = stopsChan[i]
      /\ Len(stopsChan) + 1 \in 1..Len(stopsChan') /\ stopsChan'[Len(stopsChan) + 1] = fed + 1
  BY <1>1, Sent DEF FeedStop
<1>3. fed' \in 0..NumStops /\ Len(stopsChan') <= NumWorkers
  BY <1>1, <1>2, Sizes DEF FeedStop, StopNumbers
<1>4. TypeOK'
  BY <1>2, <1>3 DEF IInv, TypeOK, WorkerStates, FeedStop
<1>5. ~stopsClosed
  BY <1>1, Sizes DEF IInv, FeedStop, NoSendOnClosedChannel
<1>6. NoSendOnClosedChannel' /\ StopInHand' /\ WrittenWhenEmpty' /\ NoneDiscarded'
  BY <1>5 DEF IInv, FeedStop, NoSendOnClosedChannel, StopInHand, WrittenWhenEmpty, NoneDiscarded
<1>7. EndedWhenEmpty'
  BY <1>5 DEF IInv, FeedStop, EndedWhenEmpty
<1>8. Accounted'
  <2> SUFFICES ASSUME NEW s \in 1..fed'
               PROVE  Queued(s)' \/ HeldByWorker(s)' \/ Delivered(s)' \/ Arrived(s)' \/ s \in discarded'
    BY DEF Accounted
  <2>1. CASE s = fed + 1
    BY <1>2, <2>1 DEF Queued
  <2>2. CASE s \in 1..fed
    BY <1>2, <2>2 DEF IInv, FeedStop, Accounted, Queued, HeldByWorker, Delivered, Arrived
  <2>3. s = fed + 1 \/ s \in 1..fed
    BY <1>1 DEF FeedStop
  <2>4. QED
    BY <2>1, <2>2, <2>3
<1>9. QED
  BY <1>4, <1>6, <1>7, <1>8 DEF IInv

LEMMA CloseStopsKeeps == ASSUME IInv, CloseStops PROVE IInv'
BY DEF CloseStops, feeder, writer, IInv, TypeOK, WorkerStates, NoSendOnClosedChannel, EndedWhenEmpty,
       StopInHand, WrittenWhenEmpty, NoneDiscarded, Accounted, Queued, HeldByWorker, Delivered, Arrived

-----------------------------------------------------------------------------
(* The workers. *)

\* What a worker's step leaves as it was.
LEMMA WorkerFrame ==
    ASSUME NEW w \in PoolWorkers, WorkerStep(w)
    PROVE  UNCHANGED <<cancelled, fed, stopsClosed, resultsClosed, results, main, position, written>>
BY DEF WorkerStep, TakeStop, SendResult, NoticeCancel, Deliver, DeliverEmpty, DrainStop, WorkerEnds,
       feeder, writer

\* A worker that takes a step has not left, and then the results are open.
LEMMA WorkerThere ==
    ASSUME IInv, NEW w \in PoolWorkers, WorkerStep(w)
    PROVE  worker[w].at # "end" /\ ~resultsClosed /\ main = "collecting"
<1>1. worker[w].at # "end"
  BY DEF WorkerStep, TakeStop, SendResult, NoticeCancel, Deliver, DeliverEmpty, DrainStop, WorkerEnds
<1>2. ~resultsClosed
  BY <1>1 DEF IInv, TypeOK, WorkerStates, NoSendOnClosedChannel
<1>3. QED
  BY <1>1, <1>2 DEF IInv, WrittenWhenEmpty

LEMMA TakeStopKeeps == ASSUME IInv, NEW w \in PoolWorkers, TakeStop(w) PROVE IInv'
<1>1. /\ Head(stopsChan) \in StopNumbers
      /\ stopsChan' \in Seq(StopNumbers)
      /\ Len(stopsChan) \in Nat /\ Len(stopsChan') = Len(stopsChan) - 1
      /\ \A i \in 1..Len(stopsChan) :
            stopsChan[i] = Head(stopsChan) \/ (i - 1 \in 1..Len(stopsChan') /\ stopsChan'[i - 1] = stopsChan[i])
  BY Received DEF TakeStop, IInv, TypeOK, WorkerStates
<1>2. /\ worker' \in [PoolWorkers -> WorkerStates]
      /\ worker'[w].at = "compute" /\ worker'[w].stop = Head(stopsChan)
      /\ \A v \in PoolWorkers \ {w} : worker'[v] = worker[v]
  BY <1>1 DEF TakeStop, IInv, TypeOK, WorkerStates
<1>3. UNCHANGED <<cancelled, fed, stopsClosed, resultsChan, resultsClosed, results, discarded, main, position, written>>
  BY DEF TakeStop, feeder, writer
<1>4. TypeOK'
  <2>1. Len(stopsChan) <= NumWorkers
    BY DEF IInv, TypeOK, WorkerStates
  <2>2. Len(stopsChan') <= NumWorkers
    BY <1>1, <2>1, Sizes
  <2>3. QED
    BY <1>1, <1>2, <1>3, <2>2 DEF IInv, TypeOK, WorkerStates
<1>5. ~resultsClosed /\ main = "collecting"
  BY WorkerThere DEF WorkerStep
<1>6. NoSendOnClosedChannel' /\ WrittenWhenEmpty'
  BY <1>3, <1>5 DEF IInv, NoSendOnClosedChannel, WrittenWhenEmpty
<1>7. EndedWhenEmpty' /\ StopInHand'
  <2>1. Head(stopsChan) # 0
    BY <1>1 DEF StopNumbers
  <2>2. QED
    BY <1>2, <1>3, <2>1 DEF IInv, EndedWhenEmpty, StopInHand, TakeStop
<1>8. NoneDiscarded'
  BY <1>2, <1>3 DEF IInv, NoneDiscarded
<1>9. Accounted'
  <2> SUFFICES ASSUME NEW s \in 1..fed
               PROVE  Queued(s)' \/ HeldByWorker(s)' \/ Delivered(s)' \/ Arrived(s)' \/ s \in discarded'
    BY <1>3 DEF Accounted
  <2>1. CASE Queued(s)
    BY <1>1, <1>2, <2>1 DEF Queued, HeldByWorker
  <2>2. CASE HeldByWorker(s)
    <3>1. PICK v \in PoolWorkers : worker[v].stop = s
      BY <2>2 DEF HeldByWorker
    <3>2. v # w
      BY <3>1 DEF IInv, StopInHand, TakeStop
    <3>3. QED
      BY <1>2, <3>1, <3>2 DEF HeldByWorker
  <2>3. CASE Delivered(s) \/ Arrived(s) \/ s \in discarded
    BY <1>3, <2>3 DEF Delivered, Arrived
  <2>4. QED
    BY <2>1, <2>2, <2>3 DEF IInv, Accounted
<1>10. QED
  BY <1>4, <1>6, <1>7, <1>8, <1>9 DEF IInv

\* A worker decides what it will send: the stop stays in its hand.
LEMMA DecideKeeps ==
    ASSUME IInv, NEW w \in PoolWorkers, SendResult(w) \/ NoticeCancel(w)
    PROVE  IInv'
<1> USE DEF feeder, writer
<1>1. /\ worker' \in [PoolWorkers -> WorkerStates]
      /\ worker[w].at = "compute" /\ worker'[w].at \in {"send", "send empty"}
      /\ worker'[w].at = "send empty" => cancelled
      /\ \A v \in PoolWorkers \ {w} : worker'[v] = worker[v]
      /\ \A v \in PoolWorkers : worker'[v].stop = worker[v].stop
  <2>1. PICK at \in {"send", "send empty"} :
          /\ worker' = [worker EXCEPT ![w] = [worker[w] EXCEPT !.at = at]]
          /\ worker[w].at = "compute" /\ (at = "send empty" => cancelled)
    BY DEF SendResult, NoticeCancel
  <2>2. worker \in [PoolWorkers -> WorkerStates]
    BY DEF IInv, TypeOK, WorkerStates
  <2>3. /\ worker[w] \in WorkerStates
        /\ [worker[w] EXCEPT !.at = at] \in WorkerStates
        /\ [worker[w] EXCEPT !.at = at].at = at
        /\ [worker[w] EXCEPT !.at = at].stop = worker[w].stop
    BY <2>1, <2>2 DEF WorkerStates
  <2>4. QED
    BY <2>1, <2>2, <2>3
<1>2. UNCHANGED <<cancelled, fed, stopsChan, stopsClosed, resultsChan, resultsClosed, results, discarded, main,
                  position, written>>
  BY DEF SendResult, NoticeCancel
<1>3. ~resultsClosed /\ main = "collecting"
  BY WorkerThere DEF WorkerStep
<1>4. TypeOK'
  BY <1>1, <1>2 DEF IInv, TypeOK, WorkerStates
<1>5. NoSendOnClosedChannel' /\ WrittenWhenEmpty'
  BY <1>2, <1>3 DEF IInv, NoSendOnClosedChannel, WrittenWhenEmpty
<1>6. EndedWhenEmpty' /\ StopInHand' /\ NoneDiscarded'
  BY <1>1, <1>2 DEF IInv, EndedWhenEmpty, StopInHand, NoneDiscarded
<1>7. \A v \in PoolWorkers : worker'[v].stop = worker[v].stop
  BY <1>1
<1>8. Accounted'
  BY <1>2, <1>7 DEF IInv, Accounted, Queued, HeldByWorker, Delivered, Arrived
<1>9. QED
  BY <1>4, <1>5, <1>6, <1>8 DEF IInv

\* The stop goes from its hand to the channel of results.
LEMMA DeliverKeeps ==
    ASSUME IInv, NEW w \in PoolWorkers, Deliver(w) \/ DeliverEmpty(w)
    PROVE  IInv'
<1> USE DEF feeder, writer
<1>0. /\ resultsChan \in Seq(Results)
      /\ Len(resultsChan) \in Nat /\ Len(resultsChan) < ResultsCapacity
  BY ChannelTypes, SequenceElements DEF Deliver, DeliverEmpty
<1>1. /\ worker[w].at \in {"send", "send empty"}
      /\ worker[w].at = "send" \/ cancelled
  BY DEF Deliver, DeliverEmpty, IInv, TypeOK, WorkerStates, NoneDiscarded
<1>2. /\ worker' \in [PoolWorkers -> WorkerStates]
      /\ worker'[w].at \in {"take", "drain"}
      /\ worker'[w].at = "drain" => cancelled
      /\ worker'[w].stop = 0
      /\ \A v \in PoolWorkers \ {w} : worker'[v] = worker[v]
  <2>1. PICK at \in {"take", "drain"} :
          /\ worker' = [worker EXCEPT ![w] = [at |-> at, stop |-> 0]]
          /\ at = "drain" => cancelled
    BY <1>1 DEF Deliver, DeliverEmpty, IInv, NoneDiscarded
  <2>2. worker \in [PoolWorkers -> WorkerStates] /\ [at |-> at, stop |-> 0] \in WorkerStates
    BY <2>1 DEF IInv, TypeOK, WorkerStates
  <2>3. QED
    BY <2>1, <2>2
<1>3. UNCHANGED <<cancelled, fed, stopsChan, stopsClosed, resultsClosed, results, discarded, main,
                  position, written>>
  BY DEF Deliver, DeliverEmpty
<1>4. ~resultsClosed /\ main = "collecting"
  BY WorkerThere DEF WorkerStep
<1>5. PICK known \in BOOLEAN : resultsChan' = Append(resultsChan, [stop |-> worker[w].stop, known |-> known])
  BY DEF Deliver, DeliverEmpty
<1>6. worker[w].stop \in StopNumbers
  <2>1. worker[w] \in WorkerStates /\ worker[w].stop # 0
    BY <1>1 DEF IInv, TypeOK, WorkerStates, StopInHand
  <2>2. QED
    BY <2>1 DEF WorkerStates
<1>7. [stop |-> worker[w].stop, known |-> known] \in Results
  BY <1>6 DEF Results
<1>8. /\ resultsChan' \in Seq(Results)
      /\ Len(resultsChan') = Len(resultsChan) + 1
      /\ \A i \in 1..Len(resultsChan) : i \in 1..Len(resultsChan') /\ resultsChan'[i] = resultsChan[i]
      /\ Len(resultsChan) + 1 \in 1..Len(resultsChan')
      /\ resultsChan'[Len(resultsChan) + 1].stop = worker[w].stop
  <2> DEFINE e == [stop |-> worker[w].stop, known |-> known]
  <2>1. e.stop = worker[w].stop
    OBVIOUS
  <2> HIDE DEF e
  <2>2. e \in Results /\ resultsChan' = Append(resultsChan, e)
    BY <1>5, <1>7 DEF e
  <2>3. /\ Append(resultsChan, e) \in Seq(Results)
        /\ Len(Append(resultsChan, e)) = Len(resultsChan) + 1
        /\ \A i \in 1..Len(resultsChan) :
             i \in 1..Len(Append(resultsChan, e)) /\ Append(resultsChan, e)[i] = resultsChan[i]
        /\ Len(resultsChan) + 1 \in 1..Len(Append(resultsChan, e))
        /\ Append(resultsChan, e)[Len(resultsChan) + 1] = e
    BY <1>0, <2>2, Sent
  <2>4. QED
    BY <2>1, <2>2, <2>3
<1>9. Len(resultsChan') <= ResultsCapacity
  BY <1>0, <1>8, Sizes
<1>10. TypeOK'
  BY <1>2, <1>3, <1>8, <1>9 DEF IInv, TypeOK, WorkerStates
<1>11. NoSendOnClosedChannel' /\ WrittenWhenEmpty'
  BY <1>3, <1>4 DEF IInv, NoSendOnClosedChannel, WrittenWhenEmpty
<1>12. EndedWhenEmpty' /\ StopInHand' /\ NoneDiscarded'
  BY <1>2, <1>3 DEF IInv, EndedWhenEmpty, StopInHand, NoneDiscarded
<1>13. Accounted'
  <2> SUFFICES ASSUME NEW s \in 1..fed
               PROVE  Queued(s)' \/ HeldByWorker(s)' \/ Delivered(s)' \/ Arrived(s)' \/ s \in discarded'
    BY <1>3 DEF Accounted
  <2>1. CASE HeldByWorker(s)
    BY <1>2, <1>8, <2>1 DEF HeldByWorker, Delivered
  <2>2. CASE Delivered(s)
    BY <1>8, <2>2 DEF Delivered
  <2>3. CASE Queued(s) \/ Arrived(s) \/ s \in discarded
    BY <1>3, <2>3 DEF Queued, Arrived
  <2>4. QED
    BY <2>1, <2>2, <2>3 DEF IInv, Accounted
<1>14. QED
  BY <1>10, <1>11, <1>12, <1>13 DEF IInv

\* A stop that is discarded after a cancellation.
LEMMA DrainStopKeeps == ASSUME IInv, NEW w \in PoolWorkers, DrainStop(w) PROVE IInv'
<1>1. /\ Head(stopsChan) \in StopNumbers
      /\ stopsChan' \in Seq(StopNumbers)
      /\ Len(stopsChan) \in Nat /\ Len(stopsChan') = Len(stopsChan) - 1
      /\ \A i \in 1..Len(stopsChan) :
            stopsChan[i] = Head(stopsChan) \/ (i - 1 \in 1..Len(stopsChan') /\ stopsChan'[i - 1] = stopsChan[i])
  BY Received DEF DrainStop, IInv, TypeOK, WorkerStates
<1>2. /\ UNCHANGED <<cancelled, fed, stopsClosed, worker, resultsChan, resultsClosed, results, main, position, written>>
      /\ discarded' = discarded \cup {Head(stopsChan)}
      /\ worker[w].at = "drain" /\ stopsChan # <<>>
  BY DEF DrainStop, feeder, writer
<1>3. TypeOK'
  <2>1. Len(stopsChan) <= NumWorkers
    BY DEF IInv, TypeOK, WorkerStates
  <2>2. Len(stopsChan') <= NumWorkers
    BY <1>1, <2>1, Sizes
  <2>3. QED
    BY <1>1, <1>2, <2>2 DEF IInv, TypeOK, WorkerStates
<1>4. NoSendOnClosedChannel' /\ StopInHand' /\ WrittenWhenEmpty' /\ NoneDiscarded'
  BY <1>2 DEF IInv, NoSendOnClosedChannel, StopInHand, WrittenWhenEmpty, NoneDiscarded
<1>5. EndedWhenEmpty'
  BY <1>2 DEF IInv, EndedWhenEmpty
<1>6. Accounted'
  <2> SUFFICES ASSUME NEW s \in 1..fed
               PROVE  Queued(s)' \/ HeldByWorker(s)' \/ Delivered(s)' \/ Arrived(s)' \/ s \in discarded'
    BY <1>2 DEF Accounted
  <2>1. CASE Queued(s)
    BY <1>1, <1>2, <2>1 DEF Queued
  <2>2. CASE HeldByWorker(s) \/ Delivered(s) \/ Arrived(s) \/ s \in discarded
    BY <1>2, <2>2 DEF HeldByWorker, Delivered, Arrived
  <2>3. QED
    BY <2>1, <2>2 DEF IInv, Accounted
<1>7. QED
  BY <1>3, <1>4, <1>5, <1>6 DEF IInv

\* A worker leaves with nothing in hand.
LEMMA WorkerEndsKeeps == ASSUME IInv, NEW w \in PoolWorkers, WorkerEnds(w) PROVE IInv'
<1> USE DEF feeder, writer
<1>1. /\ worker' \in [PoolWorkers -> WorkerStates]
      /\ worker'[w].at = "end" /\ worker[w].stop = 0 /\ worker'[w].stop = 0
      /\ \A v \in PoolWorkers \ {w} : worker'[v] = worker[v]
      /\ stopsClosed /\ stopsChan = <<>>
  BY DEF WorkerEnds, IInv, TypeOK, WorkerStates, StopInHand
<1>2. UNCHANGED <<cancelled, fed, stopsChan, stopsClosed, resultsChan, resultsClosed, results, discarded, main,
                  position, written>>
  BY DEF WorkerEnds
<1>3. ~resultsClosed /\ main = "collecting"
  BY WorkerThere DEF WorkerStep
<1>4. TypeOK'
  BY <1>1, <1>2 DEF IInv, TypeOK, WorkerStates
<1>5. NoSendOnClosedChannel' /\ WrittenWhenEmpty'
  BY <1>2, <1>3 DEF IInv, NoSendOnClosedChannel, WrittenWhenEmpty
<1>6. EndedWhenEmpty' /\ StopInHand' /\ NoneDiscarded'
  BY <1>1, <1>2 DEF IInv, EndedWhenEmpty, StopInHand, NoneDiscarded
<1>7. \A v \in PoolWorkers : worker'[v].stop = worker[v].stop
  BY <1>1
<1>8. Accounted'
  BY <1>2, <1>7 DEF IInv, Accounted, Queued, HeldByWorker, Delivered, Arrived
<1>9. QED
  BY <1>4, <1>5, <1>6, <1>8 DEF IInv

-----------------------------------------------------------------------------
(* The goroutine that closes the results, and the main one. *)

LEMMA CloseResultsKeeps == ASSUME IInv, CloseResults PROVE IInv'
BY DEF CloseResults, feeder, writer, IInv, TypeOK, NoSendOnClosedChannel, EndedWhenEmpty,
       StopInHand, WrittenWhenEmpty, NoneDiscarded, Accounted, Queued, HeldByWorker, Delivered, Arrived

LEMMA CollectKeeps == ASSUME IInv, Collect PROVE IInv'
<1>1. /\ Head(resultsChan) \in Results
      /\ resultsChan' \in Seq(Results)
      /\ Len(resultsChan) \in Nat /\ Len(resultsChan') = Len(resultsChan) - 1
      /\ \A i \in 1..Len(resultsChan) :
            \/ resultsChan[i] = Head(resultsChan)
            \/ i - 1 \in 1..Len(resultsChan') /\ resultsChan'[i - 1] = resultsChan[i]
  BY Received DEF Collect, IInv, TypeOK
<1>2. /\ results \in Seq(Results) /\ results' \in Seq(Results)
      /\ Len(results) \in Nat /\ Len(results') = Len(results) + 1
      /\ \A i \in 1..Len(results) : i \in 1..Len(results') /\ results'[i] = results[i]
      /\ Len(results) + 1 \in 1..Len(results') /\ results'[Len(results) + 1] = Head(resultsChan)
  <2>1. results \in Seq(Results) /\ results' = Append(results, Head(resultsChan))
    BY DEF Collect, IInv, TypeOK
  <2>2. QED
    BY <1>1, <2>1, Sent
<1>3. /\ UNCHANGED <<cancelled, fed, stopsChan, stopsClosed, worker, resultsClosed, discarded, main, position, written>>
      /\ main = "collecting"
  BY DEF Collect, feeder, writer
<1>4. TypeOK'
  <2>1. Len(resultsChan) <= ResultsCapacity /\ position \in 0..Len(results)
    BY DEF IInv, TypeOK
  <2>2. Len(resultsChan') <= ResultsCapacity /\ position' \in 0..Len(results')
    BY <1>1, <1>2, <1>3, <2>1, Sizes
  <2>3. QED
    BY <1>1, <1>2, <1>3, <2>2 DEF IInv, TypeOK
<1>5. NoSendOnClosedChannel' /\ EndedWhenEmpty' /\ StopInHand' /\ WrittenWhenEmpty' /\ NoneDiscarded'
  BY <1>3 DEF IInv, NoSendOnClosedChannel, EndedWhenEmpty, StopInHand, WrittenWhenEmpty, NoneDiscarded
<1>6. Accounted'
  <2> SUFFICES ASSUME NEW s \in 1..fed
               PROVE  Queued(s)' \/ HeldByWorker(s)' \/ Delivered(s)' \/ Arrived(s)' \/ s \in discarded'
    BY <1>3 DEF Accounted
  <2>1. CASE Delivered(s)
    BY <1>1, <1>2, <2>1 DEF Delivered, Arrived
  <2>2. CASE Arrived(s)
    BY <1>2, <2>2 DEF Arrived
  <2>3. CASE Queued(s) \/ HeldByWorker(s) \/ s \in discarded
    BY <1>3, <2>3 DEF Queued, HeldByWorker
  <2>4. QED
    BY <2>1, <2>2, <2>3 DEF IInv, Accounted
<1>7. QED
  BY <1>4, <1>5, <1>6 DEF IInv

LEMMA WriteBatchKeeps == ASSUME IInv, WriteBatch PROVE IInv'
<1>1. /\ Len(results) \in Nat /\ \A i \in 1..Len(results) : results[i] \in Results
      /\ position \in 0..Len(results) /\ position < Len(results)
  <2>1. position \in 0..Len(results) /\ position < Len(results)
    BY DEF IInv, TypeOK, WriteBatch
  <2>2. QED
    BY <2>1, ChannelTypes, SequenceElements
<1>2. position' \in 0..Len(results)
  BY <1>1, PoolAssumption DEF PoolAssumption, WriteBatch, BatchEnd
<1>3. \A i \in 1..Len(results) : results[i].stop \in StopNumbers
  BY <1>1 DEF Results
<1>4. Batch \subseteq StopNumbers
  <2>1. BatchEnd <= Len(results) /\ BatchEnd \in Int
    BY <1>1, PoolAssumption DEF PoolAssumption, BatchEnd
  <2>2. QED
    BY <1>1, <1>3, <2>1 DEF Batch
<1>5. written' \subseteq StopNumbers
  BY <1>4 DEF WriteBatch, IInv, TypeOK
<1>6. UNCHANGED <<cancelled, fed, stopsChan, stopsClosed, worker, resultsChan, resultsClosed, results, discarded, main>>
  BY DEF WriteBatch, feeder
<1>7. QED
  BY <1>2, <1>5, <1>6
     DEF IInv, TypeOK, NoSendOnClosedChannel, EndedWhenEmpty, StopInHand, WrittenWhenEmpty, NoneDiscarded,
         Accounted, Queued, HeldByWorker, Delivered, Arrived

LEMMA RestKeeps ==
    ASSUME IInv, Collected \/ Finish \/ Cancel \/ UNCHANGED vars
    PROVE  IInv'
<1> USE DEF vars, feeder, writer, IInv, TypeOK, NoSendOnClosedChannel, EndedWhenEmpty,
           StopInHand, WrittenWhenEmpty, NoneDiscarded, Accounted, Queued, HeldByWorker, Delivered, Arrived
<1>1. CASE Collected
  BY <1>1 DEF Collected
<1>2. CASE Finish
  BY <1>2 DEF Finish
<1>3. CASE Cancel
  BY <1>3 DEF Cancel
<1>4. CASE UNCHANGED vars
  BY <1>4
<1>5. QED
  BY <1>1, <1>2, <1>3, <1>4

LEMMA StepKeepsInvariant == IInv /\ [Next]_vars => IInv'
BY FeedStopKeeps, CloseStopsKeeps, TakeStopKeeps, DecideKeeps, DeliverKeeps, DrainStopKeeps, WorkerEndsKeeps,
   CloseResultsKeeps, CollectKeeps, WriteBatchKeeps, RestKeeps
   DEF Next, FeederStep, WorkerStep, MainStep, Terminated

-----------------------------------------------------------------------------

\* Every stop is accounted for, and the channels are closed in order.
THEOREM InvariantHolds == Spec => []IInv
BY InitInvariant, StepKeepsInvariant, PTL DEF Spec

\* Neither the feeder nor a worker ever sends on a channel that was closed.
THEOREM NeverSendsOnClosedChannel == Spec => []NoSendOnClosedChannel
<1>1. IInv => NoSendOnClosedChannel
  BY DEF IInv
<1>2. QED
  BY <1>1, InvariantHolds, PTL

\* Once results are written, and unless cancelled, there is one for each
\* stop: by then all workers have left, so none is on its way.
LEMMA CompleteWhenWritten == IInv => ResultsComplete
<1> SUFFICES ASSUME IInv, main # "collecting", ~cancelled
             PROVE  {results[i].stop : i \in DOMAIN results} = StopNumbers
  BY DEF ResultsComplete
<1>1. resultsClosed /\ resultsChan = <<>> /\ discarded = {}
  BY DEF IInv, WrittenWhenEmpty, NoneDiscarded
<1>2. \A w \in PoolWorkers : worker[w].at = "end" /\ worker[w].stop = 0
  BY <1>1 DEF IInv, NoSendOnClosedChannel, StopInHand
<1>3. 1 \in PoolWorkers
  BY Sizes DEF PoolWorkers
<1>4. stopsClosed /\ stopsChan = <<>>
  BY <1>2, <1>3 DEF IInv, EndedWhenEmpty
<1>5. fed = NumStops
  BY <1>4 DEF IInv, NoSendOnClosedChannel
<1>6. ASSUME NEW s \in StopNumbers
      PROVE  Arrived(s)
  <2>1. s \in 1..fed /\ s # 0
    BY <1>5 DEF StopNumbers
  <2>2. ~Queued(s) /\ ~Delivered(s)
    BY <1>1, <1>4 DEF Queued, Delivered
  <2>3. ~HeldByWorker(s)
    BY <1>2, <2>1 DEF HeldByWorker
  <2>4. QED
    BY <1>1, <2>1, <2>2, <2>3 DEF IInv, Accounted
<1>7. DOMAIN results = 1..Len(results) /\ \A i \in 1..Len(results) : results[i] \in Results
  BY ChannelTypes, SequenceElements
<1>8. \A i \in 1..Len(results) : results[i].stop \in StopNumbers
  BY <1>7 DEF Results
<1>9. QED
  BY <1>6, <1>7, <1>8 DEF Arrived

\* A precomputation that is not cancelled covers every stop.
THEOREM ResultsAlwaysComplete == Spec => []ResultsComplete
BY CompleteWhenWritten, InvariantHolds, PTL

-----------------------------------------------------------------------------
(* Counting the stops. The channel is first in, first out, so the stop a   *)
(* draining worker throws away was never thrown away before.               *)

SentInOrder ==
    /\ \A i \in 1..Len(stopsChan) : stopsChan[i] = fed - Len(stopsChan) + i
    /\ discarded \subseteq 1..(fed - Len(stopsChan))

CountInv == SentInOrder /\ EveryStopOnce

\* A channel without its first element.
LEMMA TailElements ==
    ASSUME NEW S, NEW q \in Seq(S), q # <<>>
    PROVE  \A i \in 1..Len(Tail(q)) : i + 1 \in 1..Len(q) /\ Tail(q)[i] = q[i + 1]
OBVIOUS

\* What is counted is finite.
LEMMA Counts ==
    ASSUME IInv
    PROVE  /\ IsFiniteSet(Held) /\ Cardinality(Held) \in Nat
           /\ IsFiniteSet(discarded) /\ Cardinality(discarded) \in Nat
           /\ fed \in Nat /\ Len(stopsChan) \in Nat
           /\ Len(resultsChan) \in Nat /\ Len(results) \in Nat
<1>1. IsFiniteSet(PoolWorkers) /\ IsFiniteSet(StopNumbers)
  BY Sizes, FS_Interval DEF PoolWorkers, StopNumbers
<1>2. IsFiniteSet(Held)
  BY <1>1, FS_Subset DEF Held
<1>3. IsFiniteSet(discarded)
  BY <1>1, FS_Subset DEF IInv, TypeOK
<1>4. Cardinality(Held) \in Nat /\ Cardinality(discarded) \in Nat
  BY <1>2, <1>3, FS_CardinalityType
<1>5. fed \in Nat
  <2>1. fed \in 0..NumStops
    BY DEF IInv, TypeOK
  <2>2. QED
    BY <2>1, Sizes
<1>6. QED
  BY <1>2, <1>3, <1>4, <1>5, ChannelTypes, SequenceElements

\* As long as every worker keeps what it has in hand, so does the pool.
LEMMA HeldUnchanged ==
    ASSUME \A w \in PoolWorkers : worker'[w].stop = worker[w].stop
    PROVE  Held' = Held
BY DEF Held

\* The first stop in the channel is the lowest that is still in it.
LEMMA FirstInOrder ==
    ASSUME IInv, SentInOrder, stopsChan # <<>>, stopsChan' = Tail(stopsChan), fed' = fed,
           discarded' = discarded \/ discarded' = discarded \cup {Head(stopsChan)}
    PROVE  /\ Len(stopsChan') = Len(stopsChan) - 1
           /\ Head(stopsChan) \notin discarded
           /\ SentInOrder'
<1>1. /\ stopsChan \in Seq(StopNumbers) /\ Len(stopsChan) \in Nat /\ fed \in Nat
  BY ChannelTypes, Counts
<1>2. /\ Len(Tail(stopsChan)) = Len(stopsChan) - 1
      /\ Len(stopsChan) # 0
      /\ Head(stopsChan) = stopsChan[1]
  BY <1>1
<1>3. \A i \in 1..Len(Tail(stopsChan)) :
          i + 1 \in 1..Len(stopsChan) /\ Tail(stopsChan)[i] = stopsChan[i + 1]
  BY <1>1, TailElements
<1>4. Head(stopsChan) = fed - Len(stopsChan) + 1
  BY <1>1, <1>2 DEF SentInOrder
<1>5. Head(stopsChan) \notin discarded
  BY <1>1, <1>4 DEF SentInOrder
<1>6. \A i \in 1..Len(stopsChan') : stopsChan'[i] = fed' - Len(stopsChan') + i
  <2> SUFFICES ASSUME NEW i \in 1..Len(Tail(stopsChan))
               PROVE  Tail(stopsChan)[i] = fed - Len(Tail(stopsChan)) + i
    OBVIOUS
  <2>1. stopsChan[i + 1] = fed - Len(stopsChan) + (i + 1)
    BY <1>3 DEF SentInOrder
  <2>2. i \in Int
    OBVIOUS
  <2>3. QED
    BY <1>1, <1>2, <1>3, <2>1, <2>2
<1>7. discarded' \subseteq 1..(fed' - Len(stopsChan'))
  <2> DEFINE n == Len(stopsChan)
  <2>1. n \in Nat /\ fed \in Nat /\ n <= fed
    <3>1. 1 \in 1..Len(stopsChan) /\ \A i \in 1..Len(stopsChan) : stopsChan[i] \in StopNumbers
      BY <1>1, <1>2, SequenceElements
    <3>2. Head(stopsChan) \in 1..NumStops
      BY <1>2, <3>1 DEF StopNumbers
    <3>3. QED
      BY <1>1, <1>4, <3>2, Sizes
  <2>2. fed' - Len(stopsChan') = fed - n + 1
    BY <1>1, <1>2
  <2>3. discarded \subseteq 1..(fed - n) /\ Head(stopsChan) = fed - n + 1
    BY <1>4 DEF SentInOrder
  <2> HIDE DEF n
  <2>4. 1..(fed - n) \subseteq 1..(fed - n + 1) /\ fed - n + 1 \in 1..(fed - n + 1)
    BY <2>1
  <2>5. QED
    BY <2>2, <2>3, <2>4
<1>8. QED
  BY <1>2, <1>5, <1>6, <1>7 DEF SentInOrder

LEMMA FeedStopCounts == ASSUME IInv, CountInv, FeedStop PROVE CountInv'
<1>1. /\ stopsChan \in Seq(StopNumbers) /\ fed + 1 \in StopNumbers
      /\ Len(stopsChan) \in Nat /\ fed \in Nat
  <2>1. stopsChan \in Seq(StopNumbers) /\ Len(stopsChan) \in Nat /\ fed \in Nat
    BY ChannelTypes, Counts
  <2>2. QED
    BY <2>1, Sizes DEF FeedStop, StopNumbers
<1>2. /\ Len(stopsChan') = Len(stopsChan) + 1
      /\ \A i \in 1..Len(stopsChan) : stopsChan'[i] = stopsChan[i]
      /\ stopsChan'[Len(stopsChan) + 1] = fed + 1
  BY <1>1, Sent DEF FeedStop
<1>3. /\ fed' = fed + 1
      /\ UNCHANGED <<worker, resultsChan, results, discarded>>
  BY DEF FeedStop
<1>4. \A i \in 1..Len(stopsChan') : stopsChan'[i] = fed' - Len(stopsChan') + i
  <2> SUFFICES ASSUME NEW i \in 1..(Len(stopsChan) + 1)
               PROVE  stopsChan'[i] = fed - Len(stopsChan) + i
    BY <1>1, <1>2, <1>3
  <2>1. CASE i \in 1..Len(stopsChan)
    BY <1>2, <2>1 DEF CountInv, SentInOrder
  <2>2. CASE i = Len(stopsChan) + 1
    BY <1>1, <1>2, <2>2
  <2>3. QED
    BY <1>1, <2>1, <2>2
<1>5. SentInOrder'
  BY <1>1, <1>2, <1>3, <1>4 DEF CountInv, SentInOrder
<1>6. EveryStopOnce'
  <2>1. Held' = Held
    BY <1>3, HeldUnchanged
  <2>2. QED
    BY <1>1, <1>2, <1>3, <2>1, Counts DEF CountInv, EveryStopOnce
<1>7. QED
  BY <1>5, <1>6 DEF CountInv

\* The stop that leaves the channel is then held by one worker more.
LEMMA TakeStopCounts ==
    ASSUME IInv, IInv', CountInv, NEW w \in PoolWorkers, TakeStop(w)
    PROVE  CountInv'
<1>1. /\ UNCHANGED <<fed, resultsChan, results, discarded>>
      /\ stopsChan # <<>> /\ stopsChan' = Tail(stopsChan)
      /\ worker' = [worker EXCEPT ![w] = [at |-> "compute", stop |-> Head(stopsChan)]]
  BY DEF TakeStop, feeder, writer
<1>2. Len(stopsChan') = Len(stopsChan) - 1 /\ SentInOrder'
  BY <1>1, FirstInOrder DEF CountInv
<1>3. w \notin Held /\ Held' = Held \cup {w}
  <2>1. worker[w].stop = 0
    BY DEF IInv, StopInHand, TakeStop
  <2>2. DOMAIN worker = PoolWorkers
    BY DEF IInv, TypeOK
  <2>3. /\ \A v \in PoolWorkers \ {w} : worker'[v].stop = worker[v].stop
        /\ worker'[w].at = "compute"
    BY <1>1, <2>2
  <2>4. worker'[w].stop # 0
    BY <2>3 DEF IInv, StopInHand
  <2>5. QED
    BY <2>1, <2>3, <2>4 DEF Held
<1>4. Cardinality(Held') = Cardinality(Held) + 1
  BY <1>3, Counts, FS_AddElement
<1>5. EveryStopOnce'
  BY <1>1, <1>2, <1>4, Counts DEF CountInv, EveryStopOnce
<1>6. QED
  BY <1>2, <1>5 DEF CountInv

\* And the stop that is delivered by one less.
LEMMA DeliverCounts ==
    ASSUME IInv, IInv', CountInv, NEW w \in PoolWorkers, Deliver(w) \/ DeliverEmpty(w)
    PROVE  CountInv'
<1>1. /\ UNCHANGED <<fed, stopsChan, results, discarded>>
  BY DEF Deliver, DeliverEmpty, feeder, writer
<1>2. Len(resultsChan') = Len(resultsChan) + 1
  <2>1. PICK e : resultsChan' = Append(resultsChan, e)
    BY DEF Deliver, DeliverEmpty
  <2>2. resultsChan \in Seq(Results)
    BY ChannelTypes
  <2>3. QED
    BY <2>1, <2>2
<1>3. w \in Held /\ Held' = Held \ {w}
  <2>1. worker[w].stop # 0
    BY DEF IInv, StopInHand, Deliver, DeliverEmpty
  <2>2. DOMAIN worker = PoolWorkers
    BY DEF IInv, TypeOK
  <2>3. PICK at : worker' = [worker EXCEPT ![w] = [at |-> at, stop |-> 0]]
    BY DEF Deliver, DeliverEmpty
  <2>4. /\ \A v \in PoolWorkers \ {w} : worker'[v].stop = worker[v].stop
        /\ worker'[w].stop = 0
    BY <2>2, <2>3
  <2>5. QED
    BY <2>1, <2>4 DEF Held
<1>4. Cardinality(Held') = Cardinality(Held) - 1
  BY <1>3, Counts, FS_RemoveElement
<1>5. EveryStopOnce'
  BY <1>1, <1>2, <1>4, Counts DEF CountInv, EveryStopOnce
<1>6. QED
  BY <1>1, <1>5 DEF CountInv, SentInOrder

\* A stop that is thrown away was not thrown away before.
LEMMA DrainStopCounts ==
    ASSUME IInv, CountInv, NEW w \in PoolWorkers, DrainStop(w)
    PROVE  CountInv'
<1>1. /\ UNCHANGED <<fed, worker, resultsChan, results>>
      /\ stopsChan # <<>> /\ stopsChan' = Tail(stopsChan)
      /\ discarded' = discarded \cup {Head(stopsChan)}
  BY DEF DrainStop, feeder, writer
<1>2. /\ Len(stopsChan') = Len(stopsChan) - 1
      /\ Head(stopsChan) \notin discarded
      /\ SentInOrder'
  BY <1>1, FirstInOrder DEF CountInv
<1>3. Cardinality(discarded') = Cardinality(discarded) + 1
  BY <1>1, <1>2, Counts, FS_AddElement
<1>4. Held' = Held
  BY <1>1, HeldUnchanged
<1>5. EveryStopOnce'
  BY <1>1, <1>2, <1>3, <1>4, Counts DEF CountInv, EveryStopOnce
<1>6. QED
  BY <1>2, <1>5 DEF CountInv

LEMMA CollectCounts == ASSUME IInv, CountInv, Collect PROVE CountInv'
<1>1. /\ UNCHANGED <<fed, stopsChan, worker, discarded>>
      /\ resultsChan # <<>> /\ resultsChan' = Tail(resultsChan)
      /\ results' = Append(results, Head(resultsChan))
  BY DEF Collect, feeder, writer
<1>2. /\ Len(resultsChan') = Len(resultsChan) - 1
      /\ Len(results') = Len(results) + 1
  BY <1>1, ChannelTypes
<1>3. Held' = Held
  BY <1>1, HeldUnchanged
<1>4. EveryStopOnce'
  <2>1. Cardinality(Held') = Cardinality(Held) /\ Cardinality(Held) \in Nat
    BY <1>3, Counts
  <2>2. /\ Len(stopsChan) \in Nat /\ Len(resultsChan) \in Nat /\ Len(results) \in Nat
        /\ Cardinality(discarded) \in Nat
    BY Counts
  <2>3. fed = Len(stopsChan) + Cardinality(Held) + Len(resultsChan) + Len(results)
                  + Cardinality(discarded)
    BY DEF CountInv, EveryStopOnce
  <2>4. /\ fed' = fed /\ Len(stopsChan') = Len(stopsChan)
        /\ Cardinality(discarded') = Cardinality(discarded)
    BY <1>1
  <2>5. fed' = Len(stopsChan') + Cardinality(Held') + Len(resultsChan') + Len(results')
                   + Cardinality(discarded')
    <3> DEFINE waiting == Len(stopsChan) held == Cardinality(Held)
               found == Len(resultsChan) collected == Len(results)
               dropped == Cardinality(discarded)
    <3>1. waiting \in Nat /\ held \in Nat /\ found \in Nat /\ collected \in Nat /\ dropped \in Nat
      BY <2>1, <2>2
    <3>2. /\ fed = waiting + held + found + collected + dropped
          /\ fed' = fed /\ Len(stopsChan') = waiting /\ Cardinality(Held') = held
          /\ Len(resultsChan') = found - 1 /\ Len(results') = collected + 1
          /\ Cardinality(discarded') = dropped
      BY <1>2, <2>1, <2>3, <2>4
    <3> HIDE DEF waiting, held, found, collected, dropped
    <3>3. fed' = waiting + held + (found - 1) + (collected + 1) + dropped
      BY <3>1, <3>2
    <3>4. QED
      BY <3>2, <3>3
  <2>6. QED
    BY <2>5 DEF EveryStopOnce
<1>5. QED
  BY <1>1, <1>4 DEF CountInv, SentInOrder

\* The other steps move no stop.
LEMMA OtherStepsCount ==
    ASSUME IInv, CountInv, UNCHANGED <<fed, stopsChan, resultsChan, results, discarded>>,
           \A w \in PoolWorkers : worker'[w].stop = worker[w].stop
    PROVE  CountInv'
BY HeldUnchanged DEF CountInv, SentInOrder, EveryStopOnce

LEMMA DecideCounts ==
    ASSUME IInv, CountInv, NEW w \in PoolWorkers,
           SendResult(w) \/ NoticeCancel(w) \/ WorkerEnds(w)
    PROVE  CountInv'
<1>1. UNCHANGED <<fed, stopsChan, resultsChan, results, discarded>>
  BY DEF SendResult, NoticeCancel, WorkerEnds, feeder
<1>2. /\ worker \in [PoolWorkers -> WorkerStates]
      /\ worker[w].at \in {"take", "drain"} => worker[w].stop = 0
  BY DEF IInv, TypeOK, WorkerStates, StopInHand
<1>3. \A v \in PoolWorkers : worker'[v].stop = worker[v].stop
  <2>1. CASE WorkerEnds(w)
    BY <1>2, <2>1 DEF WorkerEnds
  <2>2. CASE SendResult(w) \/ NoticeCancel(w)
    <3>1. PICK at : worker' = [worker EXCEPT ![w] = [worker[w] EXCEPT !.at = at]]
      BY <2>2 DEF SendResult, NoticeCancel
    <3>2. [worker[w] EXCEPT !.at = at].stop = worker[w].stop
      BY <1>2 DEF WorkerStates
    <3>3. QED
      BY <1>2, <3>1, <3>2
  <2>3. QED
    BY <2>1, <2>2
<1>4. QED
  BY <1>1, <1>3, OtherStepsCount

LEMMA StepKeepsCount == ASSUME IInv, IInv', CountInv, [Next]_vars PROVE CountInv'
<1>1. CASE CloseStops \/ CloseResults \/ Collected \/ WriteBatch \/ Finish \/ Cancel
           \/ UNCHANGED vars
  BY <1>1, OtherStepsCount
     DEF CloseStops, CloseResults, Collected, WriteBatch, Finish, Cancel, vars, feeder
<1>2. QED
  BY <1>1, FeedStopCounts, TakeStopCounts, DecideCounts, DeliverCounts, DrainStopCounts, CollectCounts
     DEF Next, FeederStep, WorkerStep, MainStep, Terminated

\* What the feeder sent is in one of the channels, with one worker, collected
\* or discarded, and never in two of these places at once.
THEOREM NoStopLostOrHandledTwice == Spec => []EveryStopOnce
<1>1. Init => CountInv
  <2> SUFFICES ASSUME Init PROVE CountInv
    OBVIOUS
  <2>1. Held = {}
    BY DEF Init, Held
  <2>2. QED
    BY <2>1, FS_EmptySet DEF Init, CountInv, SentInOrder, EveryStopOnce
<1>2. IInv /\ IInv' /\ CountInv /\ [Next]_vars => CountInv'
  BY StepKeepsCount
<1>3. CountInv => EveryStopOnce
  BY DEF CountInv
<1>4. QED
  BY <1>1, <1>2, <1>3, InvariantHolds, PTL DEF Spec

=============================================================================
