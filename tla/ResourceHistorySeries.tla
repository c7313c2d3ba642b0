------------------------ MODULE ResourceHistorySeries ------------------------
(***************************************************************************)
(* The chart of the local resource history                                 *)
(* (src/dashboard/resource_history_series.cpp with the curve geometry of   *)
(* resource_history_geometry.cpp), attached to the history of              *)
(* SysMetricsService.                                                      *)
(*                                                                         *)
(* The chart keeps a copy of the model and shows a window that ends at a   *)
(* displayed time, which an animation moves towards the newest sample.     *)
(* Samples leave the model as soon as they are older than the window of    *)
(* the newest sample, that is, while the displayed window may still show   *)
(* them: a retained prefix keeps them.  The scene graph keeps the geometry *)
(* of an earlier time and only shifts it, until a revision number asks for *)
(* a new one.                                                              *)
(*                                                                         *)
(* Data.  Positions are times: heights, filters, tangents, tessellation    *)
(* and colours as such are left out.  A curve is the set of its segments,  *)
(* one for each two neighbouring samples that both know the metric.  Time  *)
(* is discrete; an animation may stop at any time between two samples.     *)
(***************************************************************************)
EXTENDS SysMetricsService

CONSTANTS
  Looks  \* sizes and colours of the item; 0 stands for one with no drawable area

VARIABLES
  chart,  \* the members of ResourceHistorySeries
  frame,  \* what the scene graph holds since the last updatePaintNode()
  seen    \* every sample of the attached model since it was attached; properties only

historyVars == <<service, history, chart, frame, seen>>

Build == [samples: Seq(Sample), prefix: Seq(Sample), origin: Nat, look: Looks]

\* pending: update() has been called and the frame has not been painted yet.
ChartType ==
  [attached: BOOLEAN, samples: Seq(Sample), prefix: Seq(Sample), hasEnd: BOOLEAN,
   current: Nat, target: Nat, animating: BOOLEAN, origin: Nat, pending: BOOLEAN, look: Looks]

\* fresh: the revision in the scene graph is geometry_revision_; shown: the curve and
\* marker nodes have children; at: the time at the right edge.  Geometry that is not fresh is
\* never used again, and one value stands for all of it.
FrameType == [fresh: BOOLEAN, shown: BOOLEAN, at: Nat, build: Build]

Outdated ==
  [fresh |-> FALSE, shown |-> FALSE, at |-> 0,
   build |-> [samples |-> <<>>, prefix |-> <<>>, origin |-> 0, look |-> 0]]

\* geometry_revision_ and the one of a new scene are both 0.
ChartInit ==
  /\ \E look \in Looks :
       chart = [attached |-> FALSE, samples |-> <<>>, prefix |-> <<>>, hasEnd |-> FALSE,
                current |-> 0, target |-> 0, animating |-> FALSE, origin |-> 0,
                pending |-> TRUE, look |-> look]
  /\ frame = [Outdated EXCEPT !.fresh = TRUE]
  /\ seen = <<>>
-----------------------------------------------------------------------------
(* Operations of the chart, as functions of its members *)

\* ++geometry_revision_
RevisionPassed(f) == Outdated

\* rebuildAt(currentWindowEnd()), with RevisionPassed for the frame.
Rebuilt(c) == [c EXCEPT !.origin = c.current, !.pending = TRUE]

\* Faulty: samples the model removes are not kept.
CapturedNothing(c, removed) == c

\* captureRemovedPrefix(), before the rows are removed.
Captured(c, removed) == [c EXCEPT !.prefix = @ \o removed]

ShownUntil(c, at) ==
  [c EXCEPT !.current = at, !.target = at, !.hasEnd = TRUE, !.animating = FALSE]

\* Faulty: a transition starts at the oldest time on the chart.
MovedFromStart(c, newest, jump) ==
  IF ~ c.hasEnd \/ newest < c.target THEN ShownUntil(c, newest)
  ELSE IF newest = c.target THEN c
  ELSE [c EXCEPT !.current = IF c.samples = <<>> THEN @ ELSE Head(c.samples).at,
                 !.target = newest, !.animating = TRUE]

\* Faulty: an animation that is not running is not started.
MovedWithoutStart(c, newest, jump) ==
  IF ~ c.hasEnd \/ newest < c.target THEN ShownUntil(c, newest)
  ELSE IF newest = c.target THEN c
  ELSE [c EXCEPT !.current = IF jump THEN newest ELSE @, !.target = newest]

\* The window's end for a model that changed.  jump: transition_duration_ is 0; QML may
\* set it at any time and it only matters when a transition starts.
Moved(c, newest, jump) ==
  IF ~ c.hasEnd \/ newest < c.target THEN ShownUntil(c, newest)
  ELSE IF newest = c.target THEN c
  ELSE [c EXCEPT !.current = IF jump THEN newest ELSE @, !.target = newest,
                 !.animating = ~ jump]

\* Of the retained samples left of the displayed window only the last is needed.
Trimmed(c) ==
  LET outside == LeadingBefore(c.prefix, c.current - Window)
  IN [c EXCEPT !.prefix = SubSeq(@, IF outside > 0 THEN outside ELSE 1, Len(@))]

\* cacheModel(true), on a signal of the model.
CachedAnimated(c, samples, jump) ==
  LET moved == IF samples = <<>> THEN c ELSE Moved(c, Last(samples).at, jump)
  IN Rebuilt([Trimmed(moved) EXCEPT !.samples = samples])

\* cacheModel(false), when the model is another one.
CachedAtOnce(c, samples) ==
  LET stopped == [c EXCEPT !.animating = FALSE, !.hasEnd = FALSE]
      moved == IF samples = <<>> THEN stopped ELSE ShownUntil(stopped, Last(samples).at)
  IN Rebuilt([Trimmed(moved) EXCEPT !.samples = samples])

\* The signals of one appendSample(): the removal, then the insertion.
Appended(c, at, known, jump) ==
  LET removed == Expired(history, at)
      rest == Remaining(history, at)
      pruned == IF removed = <<>> THEN c
                ELSE CachedAnimated(Captured(c, removed), rest, jump)
  IN CachedAnimated(pruned, Append(rest, [at |-> at, known |-> known]), jump)
-----------------------------------------------------------------------------
(* Geometry *)

RenderSamples(build) == build.prefix \o build.samples

\* completeRun(): the cubic between two samples of a run, cut off at the left edge of the
\* window it is built for (splitRight).
Clipped(start, end, cutoff) ==
  IF end < cutoff THEN {}
  ELSE {[from |-> IF start < cutoff THEN cutoff ELSE start, to |-> end]}

\* buildMetricGeometry(): a run ends at a sample that does not know the metric.
Curve(build, metric) ==
  LET all == RenderSamples(build)
      joined == {i \in 1..(Len(all) - 1) : metric \in all[i].known \cap all[i + 1].known}
  IN UNION {Clipped(all[i].at, all[i + 1].at, build.origin - Window) : i \in joined}

\* current_endpoint
Endpoint(build, metric) ==
  IF build.samples # <<>> /\ metric \in Last(build.samples).known
  THEN {Last(build.samples).at} ELSE {}

\* Faulty: only a curve carries a marker.
MarkerOnCurve(f, metric) ==
  \E segment \in Curve(f.build, metric) : segment.from <= f.at /\ f.at <= segment.to

\* curveIntersection() at the displayed time: positionMarker() shows the marker if there is one.
MarkerShown(f, metric) ==
  \/ \E segment \in Curve(f.build, metric) : segment.from <= f.at /\ f.at <= segment.to
  \/ f.at \in Endpoint(f.build, metric)

\* The times at which a curve is inside curve_clip, after the shift to the displayed time.
VisibleTimes(f, metric) ==
  {x \in (f.at - Window)..f.at :
     \E segment \in Curve(f.build, metric) : segment.from <= x /\ x <= segment.to}
-----------------------------------------------------------------------------
(* Actions *)

\* collectionFinished() with the signals its sample causes.
Collected ==
  \E step \in Steps, known \in SUBSET Metrics, jump \in BOOLEAN :
    LET at == service.elapsed + step
    IN /\ CollectionFinished(at, known)
       /\ IF chart.attached
          THEN /\ chart' = Appended(chart, at, known, jump)
               /\ frame' = RevisionPassed(frame)
               /\ seen' = Append(seen, [at |-> at, known |-> known])
          ELSE UNCHANGED <<chart, frame, seen>>

TimerStep == TimerTimeout /\ UNCHANGED <<chart, frame, seen>>

ServiceStep ==
  /\ QueuedRefresh \/ WorkerReturns
  /\ UNCHANGED <<chart, frame, seen>>

CollectionFailed == CollectionThrows /\ UNCHANGED <<chart, frame, seen>>

\* setModel() with the history or with null.
SetModel(attach) ==
  /\ chart.attached # attach
  /\ chart' = CachedAtOnce([chart EXCEPT !.attached = attach, !.samples = <<>>, !.prefix = <<>>],
                           IF attach THEN history ELSE <<>>)
  /\ frame' = RevisionPassed(frame)
  /\ seen' = IF attach THEN history ELSE <<>>
  /\ UNCHANGED <<service, history>>

\* The width or height, or a colour, changes.
SetLook(look) ==
  /\ look # chart.look
  /\ chart' = Rebuilt([chart EXCEPT !.look = look])
  /\ frame' = RevisionPassed(frame)
  /\ UNCHANGED <<service, history, seen>>

\* valueChanged of the animation: smoothstep never goes back.
AnimationStep ==
  /\ chart.animating
  /\ \E at \in chart.current..chart.target :
       chart' = [chart EXCEPT !.current = at, !.pending = TRUE]
  /\ UNCHANGED <<service, history, frame, seen>>

AnimationFinished ==
  /\ chart.animating
  /\ chart' = [chart EXCEPT !.current = chart.target, !.animating = FALSE, !.pending = TRUE]
  /\ UNCHANGED <<service, history, frame, seen>>

\* The window is hidden and shown again: the next paint starts from an empty scene.
SceneReleased ==
  /\ chart' = [chart EXCEPT !.pending = TRUE]
  /\ frame' = Outdated
  /\ UNCHANGED <<service, history, seen>>

Drawable == chart.samples # <<>> /\ chart.look # 0

\* rebuildSnapshot()
Rebuild ==
  [samples |-> chart.samples, prefix |-> chart.prefix, origin |-> chart.origin,
   look |-> chart.look]

\* updatePaintNode(), while the GUI thread waits.  Geometry is in place for its own origin
\* and shifted by what the displayed time has moved since the chart's origin.
Paint ==
  LET build == IF frame.fresh THEN frame.build ELSE Rebuild
  IN /\ chart.pending
     /\ chart' = [chart EXCEPT !.pending = FALSE]
     /\ frame' = IF Drawable
                 THEN [fresh |-> TRUE, shown |-> TRUE, build |-> build,
                       at |-> build.origin + (chart.current - chart.origin)]
                 ELSE [Outdated EXCEPT !.fresh = TRUE]
     /\ UNCHANGED <<service, history, seen>>

HistoryInit == ServiceInit /\ ChartInit

HistoryNext ==
  \/ TimerStep
  \/ ServiceStep
  \/ Collected
  \/ CollectionFailed
  \/ \E attach \in BOOLEAN : SetModel(attach)
  \/ \E look \in Looks : SetLook(look)
  \/ AnimationStep
  \/ AnimationFinished
  \/ SceneReleased
  \/ Paint

\* The event loop and the thread pool keep running, a result is delivered, an animation
\* ends after its duration, and a requested repaint is made.  The timer is not relied on.
HistorySpec ==
  /\ HistoryInit
  /\ [][HistoryNext]_historyVars
  /\ WF_historyVars(ServiceStep)
  /\ WF_historyVars(Collected \/ CollectionFailed)
  /\ WF_historyVars(AnimationFinished)
  /\ WF_historyVars(Paint)
-----------------------------------------------------------------------------
(* Properties *)

\* Type invariant of the service, the chart and the scene.
HistoryTypeOK ==
  /\ service \in ServiceType
  /\ history \in Seq(Sample)
  /\ chart \in ChartType
  /\ frame \in FrameType
  /\ seen \in Seq(Sample)

\* The times of the displayed window at which metric was really measured: between two
\* neighbouring samples that both know it.
MeasuredTimes(metric) ==
  {x \in (chart.current - Window)..chart.current :
     \E i \in 1..(Len(seen) - 1) :
       /\ metric \in seen[i].known \cap seen[i + 1].known
       /\ seen[i].at <= x /\ x <= seen[i + 1].at}

\* What is on the screen when no repaint is due is exactly the displayed window of
\* what was recorded since the model was attached: no gap between samples that it records is
\* bridged (a collection that throws records none, and is bridged), and nothing is missing
\* although the model has removed samples, a transition was interrupted, or the
\* geometry in the scene is older than the frame (updatePaintNode, cacheModel).  The
\* marker of a metric is there exactly when the displayed time was measured, or is
\* that of the newest sample and known (positionMarker).
FrameIsTruthful ==
  ~ chart.pending =>
    /\ frame.shown <=> (seen # <<>> /\ chart.look # 0)
    /\ frame.shown =>
         /\ frame.build.look = chart.look
         /\ frame.at = chart.current
         /\ \A metric \in Metrics :
              /\ VisibleTimes(frame, metric) = MeasuredTimes(metric)
              /\ MarkerShown(frame, metric) <=>
                   \/ chart.current \in MeasuredTimes(metric)
                   \/ metric \in Last(seen).known /\ Last(seen).at = chart.current

\* While a model stays attached the chart never scrolls back, whatever
\* transitions are interrupted, and never beyond the newest sample.
NeverScrollsBack ==
  [][(chart.attached /\ chart'.attached /\ chart.hasEnd) =>
       /\ chart'.current >= chart.current
       /\ chart'.current <= Last(seen').at]_historyVars

\* Once samples stop and the item stays attached or not, the chart comes to rest: it shows
\* the newest sample and is no longer animated.
ChartCatchesUp ==
  <>[][UNCHANGED <<history, chart.attached>>]_historyVars =>
    <>[](chart.attached /\ seen # <<>> => chart.current = Last(seen).at /\ ~ chart.animating)
=============================================================================
