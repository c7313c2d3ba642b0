-------------------------- MODULE SysMetricsService --------------------------
(***************************************************************************)
(* The service that samples the local machine                              *)
(* (src/sysmetrics/sys_metrics_service.cpp) and the rolling history it     *)
(* fills (src/sysmetrics/system_metric_history_model.cpp).                 *)
(*                                                                         *)
(* refresh() hands collect() to a thread pool; a QFutureWatcher brings the *)
(* result back to the GUI thread.  The collector keeps counters between    *)
(* calls and has no lock.  Timer timeouts, the queued call of refresh(),   *)
(* the worker and the delivery of its result interleave.                   *)
(*                                                                         *)
(* Data.  A sample is the time of its collection and the set of metrics    *)
(* whose ratio is known; the ratios themselves, the other metrics and the  *)
(* wording of diagnostics are left out.  Time is elapsed_timer_ in units   *)
(* of the instance.                                                        *)
(***************************************************************************)
EXTENDS Integers, Sequences, SequencesExt

CONSTANTS
  Metrics,        \* the charted ratios: cpu and memory
  Window,         \* kHistoryWindowMilliseconds
  Steps,          \* how far the clock may have moved from one sample to the next
  MaxCollections  \* bound on the collections explored

ASSUME ServiceAssumption ==
  /\ Window \in Nat \ {0}
  /\ Steps \subseteq Nat
  /\ MaxCollections \in Nat

VARIABLES
  service,  \* the members of SysMetricsService and its worker
  history   \* samples_ of usage_history_model_

\* Settled stands for Ready, Partial and Error, which nothing modelled tells apart.
ServiceStates == {"Idle", "Collecting", "Settled"}

Sample == [at: Nat, known: SUBSET Metrics]

\* started counts the collections begun, posted tells whether a queued call of refresh()
\* waits in the event loop, workers counts the running calls of collect(), and
\* finished tells whether the watcher's finished() has been posted.
ServiceType ==
  [state: ServiceStates, pending: BOOLEAN, posted: BOOLEAN, workers: Nat,
   finished: BOOLEAN, started: 0..MaxCollections, elapsed: Nat]

\* The constructor posts the first refresh.
ServiceInit ==
  /\ service = [state |-> "Idle", pending |-> FALSE, posted |-> TRUE, workers |-> 0,
                finished |-> FALSE, started |-> 0, elapsed |-> 0]
  /\ history = <<>>
-----------------------------------------------------------------------------
(* The history *)

\* Where a loop that skips the leading samples before a time stops.
LeadingBefore(samples, time) ==
  CHOOSE n \in 0..Len(samples) :
    /\ \A i \in 1..n : samples[i].at < time
    /\ n < Len(samples) => samples[n + 1].at >= time

\* The samples that appendSample() removes.
Expired(samples, at) == SubSeq(samples, 1, LeadingBefore(samples, at - Window))

Remaining(samples, at) ==
  SubSeq(samples, LeadingBefore(samples, at - Window) + 1, Len(samples))
-----------------------------------------------------------------------------
(* The service *)

\* Faulty: a refresh during a collection starts another one.
RefreshedAlways(s) ==
  [s EXCEPT !.state = "Collecting", !.workers = @ + 1, !.finished = FALSE, !.started = @ + 1]

\* refresh().
Refreshed(s) ==
  IF s.state = "Collecting"
  THEN [s EXCEPT !.pending = TRUE]
  ELSE [s EXCEPT !.state = "Collecting", !.workers = @ + 1, !.finished = FALSE,
                 !.started = @ + 1]

MayStart == service.state = "Collecting" \/ service.started < MaxCollections

TimerTimeout ==
  /\ MayStart
  /\ service' = Refreshed(service)
  /\ UNCHANGED history

QueuedRefresh ==
  /\ service.posted
  /\ MayStart
  /\ service' = Refreshed([service EXCEPT !.posted = FALSE])
  /\ UNCHANGED history

\* collect() returns or throws on its thread.
WorkerReturns ==
  /\ service.workers > 0
  /\ service' = [service EXCEPT !.workers = @ - 1, !.finished = TRUE]
  /\ UNCHANGED history

\* Faulty: a request made during the collection is dropped.
CompletedForgetful(s, at) ==
  [s EXCEPT !.state = "Settled", !.elapsed = at, !.finished = FALSE, !.pending = FALSE]

\* What every path of collectionFinished() ends with: a state, and the request
\* made meanwhile posted to the event loop.
Completed(s, at) ==
  [s EXCEPT !.state = "Settled", !.elapsed = at, !.finished = FALSE,
            !.posted = @ \/ s.pending, !.pending = FALSE]

\* The event loop delivers in order: a refresh posted before the result is served first.
ResultDelivered == service.finished /\ ~ service.posted

\* collect() threw: no sample is recorded.
CollectionThrows ==
  /\ ResultDelivered
  /\ service' = Completed(service, service.elapsed)
  /\ UNCHANGED history

\* A result is recorded whatever it holds.
CollectionFinished(at, known) ==
  /\ ResultDelivered
  /\ service' = Completed(service, at)
  /\ history' = Append(Remaining(history, at), [at |-> at, known |-> known])
-----------------------------------------------------------------------------
(* Properties *)

\* The collector's counters have one user at a time: whatever the order of timer,
\* queued refresh and results, collect() never runs twice at once, and the service is
\* Collecting exactly while a result is on its way.
OneCollection ==
  /\ service.workers <= 1
  /\ service.state = "Collecting" <=> (service.workers = 1 \/ service.finished)
  /\ ~ (service.workers = 1 /\ service.finished)

\* A refresh asked for during a collection is followed by a collection that
\* starts after it, also when the one that ran fails (refresh_pending_).
RefreshNotLost ==
  \A n \in 1..(MaxCollections - 1) :
    (service.pending /\ service.started = n) ~> (service.started > n)
=============================================================================
