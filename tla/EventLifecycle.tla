--------------------------- MODULE EventLifecycle ---------------------------
(***************************************************************************)
(* AnomalyEventLifecycle of ai/ai2/week3/event_lifecycle.py: how scored    *)
(* points of one asset open, merge and close its anomaly events, as pure   *)
(* operators on a checkpoint.  A point is [dev, seq, ts, score]; times are *)
(* ticks, 0 is "none", and a score is missing or in one of the three bands *)
(* that the two thresholds tell apart.  An event carries the set of the    *)
(* points counted in it, which stands for its sampleCount and its scores.  *)
(*                                                                         *)
(* The service sets min_consecutive_enter and min_consecutive_exit to 1    *)
(* (data.py _lifecycle_config_for), so that only durations matter, and an  *)
(* idempotency cache of twice the records kept, which is never full before *)
(* the records are.                                                        *)
(***************************************************************************)
EXTENDS Naturals, FiniteSets
CONSTANTS
  Duration,   \* durationSec: how long a streak lasts before it counts
  MergeGap,   \* mergeWindowSec: a new start this close to an end merges
  NoEvent

ASSUME LifecycleConstants == Duration \in Nat \ {0} /\ MergeGap \in Nat

\* No score; below the exit threshold; below the entry threshold; anomalous.
Scores == {"none", "low", "middle", "high"}

Fresh == [cand |-> {}, candStart |-> 0, exitStart |-> 0, open |-> NoEvent,
          closed |-> NoEvent, lastKey |-> <<0, 0, 0>>, boundary |-> 0,
          history |-> {}]

PointKey(p) == <<p.dev, p.seq>>
OrderKey(p) == <<p.ts, p.dev, p.seq>>
Before(a, b) == \/ a[1] < b[1]
                \/ a[1] = b[1] /\ a[2] < b[2]
                \/ a[1] = b[1] /\ a[2] = b[2] /\ a[3] < b[3]

\* A point is refused when its device and sequence were processed, when it is
\* not later than the sensor boundary, or when it is out of order.
Processable(lc, p) ==
  /\ PointKey(p) \notin lc.history
  /\ p.ts > lc.boundary
  /\ Before(lc.lastKey, OrderKey(p))

DropCandidate(lc) == [lc EXCEPT !.cand = {}, !.candStart = 0]
DropStreaks(lc) == [DropCandidate(lc) EXCEPT !.exitStart = 0]

\* An event is known by the point that opened it (a uuid4 in the code).
NewEvent(p, start, points) ==
  [id |-> PointKey(p), start |-> start, end |-> 0, reason |-> "", points |-> points]
Close(event, t, why) == [event EXCEPT !.end = t, !.reason = why]

MergeOpen(lc, start) ==
  /\ lc.closed # NoEvent
  /\ start >= lc.closed.end
  /\ start - lc.closed.end <= MergeGap

\* mutant: the candidate that opened an event is not reset.
OpenOrMerge_Mut(lc, p, start, points) ==
  IF MergeOpen(lc, start)
  THEN [lc EXCEPT
          !.open = [lc.closed EXCEPT !.end = 0, !.reason = "", !.points = @ \cup points],
          !.closed = NoEvent]
  ELSE [lc EXCEPT !.open = NewEvent(p, start, points)]

OpenOrMerge(lc, p, start, points) ==
  IF MergeOpen(lc, start)
  THEN [DropStreaks(lc) EXCEPT
          !.open = [lc.closed EXCEPT !.end = 0, !.reason = "", !.points = @ \cup points],
          !.closed = NoEvent]
  ELSE [DropStreaks(lc) EXCEPT !.open = NewEvent(p, start, points)]

Enter(lc, p) ==
  LET start == IF lc.candStart = 0 THEN p.ts ELSE lc.candStart
      points == lc.cand \cup {p}
  IN  IF p.score # "high" THEN DropCandidate(lc)
      ELSE IF p.ts - start < Duration
           THEN [lc EXCEPT !.cand = points, !.candStart = start]
           ELSE OpenOrMerge(lc, p, start, points)

Continue(lc, p) ==
  LET event == [lc.open EXCEPT !.points = @ \cup {p}]
      start == IF lc.exitStart = 0 THEN p.ts ELSE lc.exitStart
  IN  IF p.score # "low" THEN [lc EXCEPT !.open = event, !.exitStart = 0]
      ELSE IF p.ts - start < Duration
           THEN [lc EXCEPT !.open = event, !.exitStart = start]
           ELSE [lc EXCEPT !.open = NoEvent, !.exitStart = 0,
                           !.closed = Close(event, p.ts, "score_recovered")]

\* mutant: an event that a fault closed stays mergeable.
Suppress_Mut(lc) ==
  [DropStreaks(lc) EXCEPT
     !.open = NoEvent,
     !.closed = IF lc.open = NoEvent THEN @
                ELSE Close(lc.open, lc.lastKey[1], "sensor_fault_detected")]
\* Closes the open event; what is closed by a fault can never be merged again.
Suppress(lc) == [DropStreaks(lc) EXCEPT !.open = NoEvent, !.closed = NoEvent]

\* process_point, for a point that is Processable.
ProcessPoint(lc, p, fault) ==
  LET next == IF fault THEN Suppress(lc)
              ELSE IF p.score = "none" THEN DropStreaks(lc)
              ELSE IF lc.open = NoEvent THEN Enter(lc, p) ELSE Continue(lc, p)
  IN  [next EXCEPT !.lastKey = OrderKey(p), !.history = @ \cup {PointKey(p)}]

Latest(lc, t) == CHOOSE m \in {t, lc.lastKey[1], lc.boundary} :
                   \A x \in {t, lc.lastKey[1], lc.boundary} : m >= x

\* process_sensor_fault: a late report closes the event at the last measurement.
ProcessFault(lc, t) == [Suppress(lc) EXCEPT !.boundary = Latest(lc, t)]

\* The event that the step from lc to next ended, opened or changed, if any, as
\* the update hands it to the backend.
Updated(lc, next, t) ==
  CASE next.open # NoEvent /\ next.open # lc.open -> next.open
    [] lc.open # NoEvent /\ next.open = NoEvent /\ next.closed # NoEvent -> next.closed
    [] lc.open # NoEvent /\ next.open = NoEvent /\ next.closed = NoEvent ->
         Close(lc.open, t, "sensor_fault_detected")
    [] OTHER -> NoEvent
=============================================================================
