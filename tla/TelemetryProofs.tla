--------------------------- MODULE TelemetryProofs ---------------------------
(***************************************************************************)
(* Proofs about Telemetry: whatever packets, reports, failed saves and     *)
(* restarts an asset meets, its events have their own times and samples    *)
(* (EventsHold), a sensor fault is respected (FaultsAreRespected) and the  *)
(* stored records agree with what was answered (StoreConsistent).          *)
(***************************************************************************)
EXTENDS Telemetry, SetBounds, SequenceTheorems

-----------------------------------------------------------------------------
(* What the lifecycle and the events that operators see have to do with    *)
(* each other.                                                             *)

Disjoint(e, f) == \A p \in e.points, q \in f.points : PointKey(p) # PointKey(q)
Apart(e, f) == \/ e.end # 0 /\ e.end <= f.start
               \/ f.end # 0 /\ f.end <= e.start

\* A time that the lifecycle has left behind.
Past(lc, t) == t <= lc.lastKey[1] \/ t <= lc.boundary

OpenIsShown(lc, events) ==
  /\ lc.open # NoEvent => /\ lc.open \in events
                          /\ lc.open.end = 0 /\ lc.open.reason = ""
  /\ \A e \in events : e.end = 0 => e = lc.open

ClosedIsLast(lc, events) ==
  lc.closed # NoEvent =>
    /\ lc.closed \in events
    /\ lc.closed.end # 0 /\ lc.closed.reason = "score_recovered"
    /\ \A e \in events : e # lc.closed => e.end <= lc.closed.start

EventsApart(events) ==
  \A e, f \in events : e # f => e.id # f.id /\ Apart(e, f) /\ Disjoint(e, f)

EventsArePast(lc, events) == \A e \in events : Past(lc, e.end)

CandidateIsNew(lc, events) ==
  /\ lc.candStart # 0 => lc.open = NoEvent /\ \A e \in events : e.end <= lc.candStart
  /\ \A q \in lc.cand, e \in events : \A r \in e.points : PointKey(q) # PointKey(r)

AllInHistory(lc, events) ==
  /\ \A q \in lc.cand : PointKey(q) \in lc.history
  /\ \A e \in events : e.id \in lc.history /\ \A q \in e.points : PointKey(q) \in lc.history

Sound(lc, events) ==
  /\ lc \in Life /\ events \in SUBSET Event
  /\ OpenIsShown(lc, events)
  /\ ClosedIsLast(lc, events)
  /\ EventsApart(events)
  /\ EventsArePast(lc, events)
  /\ CandidateIsNew(lc, events)
  /\ AllInHistory(lc, events)

Shown(events, event) ==
  IF event = NoEvent THEN events ELSE {e \in events : e.id # event.id} \cup {event}

-----------------------------------------------------------------------------
(* The operators of the lifecycle.                                         *)

LEMMA ZeroIsLeast == \A n \in Nat : 0 <= n
OBVIOUS

LEMMA PacketParts ==
  ASSUME NEW p \in Packets
  PROVE  /\ p.dev \in Nat \ {0} /\ p.seq \in Nat \ {0} /\ p.ts \in Nat \ {0}
         /\ p.dev \in Devices /\ p.ts \in Times
         /\ PointKey(p) \in Nat \X Nat /\ OrderKey(p) \in Nat \X Nat \X Nat
         /\ OrderKey(p)[1] = p.ts
BY TelemetryConstants DEF PointKey, OrderKey

LEMMA LifeParts ==
  ASSUME NEW lc \in Life
  PROVE  /\ lc.cand \in SUBSET Packets /\ lc.candStart \in Nat /\ lc.exitStart \in Nat
         /\ lc.open \in Event \cup {NoEvent} /\ lc.closed \in Event \cup {NoEvent}
         /\ lc.lastKey \in Nat \X Nat \X Nat /\ lc.lastKey[1] \in Nat
         /\ lc.boundary \in Nat
         /\ lc.history \in SUBSET (Nat \X Nat)
BY DEF Life

LEMMA EventParts ==
  ASSUME NEW e \in Event
  PROVE  /\ e.id \in Nat \X Nat /\ e.start \in Nat /\ e.end \in Nat
         /\ e.reason \in Reasons /\ e.points \in SUBSET Packets
         /\ e # NoEvent
BY NothingIsNoValue DEF Event

\* Streaks can be dropped at any time.
LEMMA StreaksDropped ==
  ASSUME NEW lc \in Life
  PROVE  LET d == DropStreaks(lc) IN
         /\ d \in Life /\ d.cand = {} /\ d.candStart = 0
         /\ d.open = lc.open /\ d.closed = lc.closed /\ d.lastKey = lc.lastKey
         /\ d.boundary = lc.boundary /\ d.history = lc.history
BY DEF Life, DropStreaks, DropCandidate

LEMMA Suppressed ==
  ASSUME NEW lc \in Life
  PROVE  LET d == Suppress(lc) IN
         /\ d \in Life /\ d.cand = {} /\ d.candStart = 0
         /\ d.open = NoEvent /\ d.closed = NoEvent /\ d.lastKey = lc.lastKey
         /\ d.boundary = lc.boundary /\ d.history = lc.history
BY DEF Life, Suppress, DropStreaks, DropCandidate

LEMMA SoundDropped ==
  ASSUME NEW lc, NEW events, Sound(lc, events)
  PROVE  Sound(DropStreaks(lc), events)
<1> DEFINE d == DropStreaks(lc)
<1>1. /\ d \in Life /\ d.cand = {} /\ d.candStart = 0
      /\ d.open = lc.open /\ d.closed = lc.closed /\ d.lastKey = lc.lastKey
      /\ d.boundary = lc.boundary /\ d.history = lc.history
  BY StreaksDropped DEF Sound
<1> HIDE DEF d
<1>2. /\ events \in SUBSET Event /\ OpenIsShown(d, events)
      /\ ClosedIsLast(d, events) /\ EventsApart(events)
  BY <1>1 DEF Sound, OpenIsShown, ClosedIsLast
<1>3. EventsArePast(d, events)
  BY <1>1 DEF Sound, EventsArePast, Past
<1>4. CandidateIsNew(d, events) /\ AllInHistory(d, events)
  BY <1>1 DEF Sound, CandidateIsNew, AllInHistory
<1>5. Sound(d, events)
  BY <1>1, <1>2, <1>3, <1>4 DEF Sound
<1> QED BY <1>5 DEF d

\* Before anything was measured.
LEMMA SoundFresh == Fresh \in Life /\ Sound(Fresh, {})
<1>1. Fresh \in Life
  BY DEF Fresh, Life
<1> QED BY <1>1 DEF Fresh, Sound, OpenIsShown, ClosedIsLast, EventsApart, EventsArePast,
          CandidateIsNew, AllInHistory

\* An event that is shown takes the place of the one with its identifier.
LEMMA ShownApart ==
  ASSUME NEW events \in SUBSET Event, EventsApart(events), NEW v \in Event,
         \A e \in events : e.id # v.id => Apart(e, v) /\ Disjoint(e, v)
  PROVE  EventsApart(Shown(events, v))
<1>1. v # NoEvent
  BY EventParts
<1>2. \A e \in events : Apart(e, v) => Apart(v, e)
  BY DEF Apart
<1>3. \A e \in events : Disjoint(e, v) => Disjoint(v, e)
  BY DEF Disjoint
<1> QED BY <1>1, <1>2, <1>3 DEF Shown, EventsApart

-----------------------------------------------------------------------------
(* What a step of the lifecycle may do to the events, in three kinds.      *)

\* Nothing is left behind twice: time and the history only grow.
Later(lc, next) ==
  /\ lc \in Life /\ next \in Life
  /\ \A t \in Nat : Past(lc, t) => Past(next, t)
  /\ lc.history \subseteq next.history

\* A point that the lifecycle processes in this step.
NewPoint(lc, next, q) == PointKey(q) \notin lc.history /\ PointKey(q) \in next.history

\* The events stay as they are; only candidate and streaks change.
LEMMA SoundKept ==
  ASSUME NEW lc, NEW next, NEW events, Sound(lc, events), Later(lc, next),
         next.open = lc.open, next.closed \in {lc.closed, NoEvent},
         \A q \in next.cand : q \in lc.cand \/ NewPoint(lc, next, q),
         next.candStart # 0 =>
           /\ next.open = NoEvent
           /\ \/ next.candStart = lc.candStart
              \/ \A t \in Nat : Past(lc, t) => t <= next.candStart
  PROVE  Sound(next, events)
<1>1. /\ next \in Life /\ events \in SUBSET Event /\ OpenIsShown(next, events)
      /\ ClosedIsLast(next, events) /\ EventsApart(events)
  BY DEF Sound, Later, OpenIsShown, ClosedIsLast
<1>2. \A e \in events : e.end \in Nat /\ Past(lc, e.end)
  BY EventParts DEF Sound, EventsArePast
<1>3. EventsArePast(next, events)
  BY <1>2 DEF Later, EventsArePast
<1>4. CandidateIsNew(next, events)
  <2>1. next.candStart # 0 => next.open = NoEvent /\ \A e \in events : e.end <= next.candStart
    BY <1>2 DEF Sound, CandidateIsNew
  <2>2. ASSUME NEW q \in next.cand, NEW e \in events, NEW r \in e.points
        PROVE  PointKey(q) # PointKey(r)
    BY <2>2 DEF Sound, CandidateIsNew, AllInHistory, NewPoint
  <2> QED BY <2>1, <2>2 DEF CandidateIsNew
<1>5. AllInHistory(next, events)
  BY DEF Sound, AllInHistory, Later, NewPoint
<1> QED BY <1>1, <1>3, <1>4, <1>5 DEF Sound

\* An event is opened after all the others.
LEMMA SoundOpened ==
  ASSUME NEW lc, NEW next, NEW events, Sound(lc, events), Later(lc, next),
         NEW v \in Event, v.end = 0, v.reason = "",
         lc.open = NoEvent, next.open = v, next.closed = lc.closed,
         next.cand = {}, next.candStart = 0,
         v.id \notin lc.history, v.id \in next.history,
         \A q \in v.points : q \in lc.cand \/ NewPoint(lc, next, q),
         \A e \in events : e.end <= v.start
  PROVE  Sound(next, Shown(events, v))
<1> DEFINE shown == Shown(events, v)
<1>1. v # NoEvent /\ events \in SUBSET Event
  BY EventParts DEF Sound
<1>2. \A e \in events : e.id # v.id /\ e.end # 0
  <2>1. \A e \in events : e # NoEvent
    BY EventParts, <1>1
  <2> QED BY <2>1 DEF Sound, AllInHistory, OpenIsShown
<1>3. shown = events \cup {v} /\ v \notin events
  BY <1>1, <1>2 DEF Shown
<1>4. \A e \in events : Disjoint(e, v)
  BY DEF Disjoint, Sound, CandidateIsNew, AllInHistory, NewPoint
<1>5. EventsApart(shown)
  <2>1. \A e \in events : Apart(e, v)
    BY <1>2 DEF Apart
  <2> QED BY <2>1, <1>4, <1>1, ShownApart DEF Sound
<1> HIDE DEF shown
<1>6. /\ next \in Life /\ shown \in SUBSET Event /\ OpenIsShown(next, shown)
  BY <1>1, <1>2, <1>3 DEF Sound, Later, OpenIsShown
<1>7. ClosedIsLast(next, shown)
  <2>1. CASE lc.closed = NoEvent
    BY <2>1 DEF ClosedIsLast
  <2>2. CASE lc.closed # NoEvent
    <3>1. /\ lc.closed \in events /\ lc.closed.end # 0 /\ lc.closed.reason = "score_recovered"
          /\ \A e \in events : e # lc.closed => e.end <= lc.closed.start
      BY <2>2 DEF Sound, ClosedIsLast
    <3>2. lc.closed.start \in Nat
      BY <3>1, <1>1, EventParts
    <3>3. \A e \in shown : e # lc.closed => e.end <= lc.closed.start
      <4>1. v.end <= lc.closed.start
        BY <3>2, ZeroIsLeast
      <4> QED BY <3>1, <4>1, <1>3
    <3> QED BY <3>1, <3>3, <1>3 DEF ClosedIsLast
  <2> QED BY <2>1, <2>2
<1>8. EventsArePast(next, shown)
  <2>1. \A e \in events : Past(next, e.end)
    BY <1>1, EventParts DEF Sound, EventsArePast, Later
  <2>2. Past(next, v.end)
    <3>1. next.boundary \in Nat
      BY LifeParts DEF Later
    <3>2. v.end <= next.boundary
      BY <3>1, ZeroIsLeast
    <3> QED BY <3>2 DEF Past
  <2> QED BY <2>1, <2>2, <1>3 DEF EventsArePast
<1>9. CandidateIsNew(next, shown) /\ AllInHistory(next, shown)
  BY <1>3 DEF CandidateIsNew, AllInHistory, Sound, Later, NewPoint
<1>10. Sound(next, shown)
  BY <1>5, <1>6, <1>7, <1>8, <1>9 DEF Sound
<1> QED BY <1>10 DEF shown

\* The last event is opened again, continued or closed.
LEMMA SoundChanged ==
  ASSUME NEW lc, NEW next, NEW events, Sound(lc, events), Later(lc, next),
         NEW u \in events, NEW v \in Event, v.id = u.id, v.start = u.start,
         u = lc.open \/ (u = lc.closed /\ lc.open = NoEvent),
         next.open = (IF v.end = 0 THEN v ELSE NoEvent),
         v.end = 0 => v.reason = "",
         Past(next, v.end),
         \/ next.closed = NoEvent
         \/ next.closed = v /\ v.end # 0 /\ v.reason = "score_recovered"
         \/ next.closed = lc.closed /\ v.end = 0 /\ u = lc.open,
         next.candStart = 0,
         \A q \in v.points : q \in u.points \/ q \in lc.cand \/ NewPoint(lc, next, q),
         \/ next.cand = {}
         \/ /\ next.cand \subseteq lc.cand
            /\ \A q \in v.points : q \in u.points \/ NewPoint(lc, next, q)
  PROVE  Sound(next, Shown(events, v))
<1> DEFINE shown == Shown(events, v)
<1>1. v # NoEvent /\ u # NoEvent /\ events \in SUBSET Event
  BY EventParts DEF Sound
<1>2. shown = (events \ {u}) \cup {v}
  BY <1>1 DEF Shown, Sound, EventsApart
<1>3. \A e \in events : e # u => e.end # 0 /\ e.end <= u.start
  <2>1. CASE u = lc.open
    BY <2>1, <1>1 DEF Sound, OpenIsShown, EventsApart, Apart
  <2>2. CASE u = lc.closed /\ lc.open = NoEvent
    <3>1. \A e \in events : e # NoEvent
      BY EventParts, <1>1
    <3> QED BY <2>2, <3>1, <1>1 DEF Sound, OpenIsShown, ClosedIsLast
  <2> QED BY <2>1, <2>2
<1>4. \A e \in events : e # u => Apart(e, v)
  BY <1>3 DEF Apart
<1>5. \A e \in events : e # u => Disjoint(e, v)
  BY ZenonT(60) DEF Disjoint, Sound, EventsApart, CandidateIsNew, AllInHistory, NewPoint
<1>6. EventsApart(shown)
  BY <1>1, <1>4, <1>5, ShownApart DEF Sound
<1> HIDE DEF shown
<1>7. next \in Life /\ shown \in SUBSET Event /\ OpenIsShown(next, shown)
  BY <1>1, <1>2, <1>3 DEF Later, OpenIsShown
<1>8. ClosedIsLast(next, shown)
  <2>1. CASE next.closed = v /\ v.end # 0 /\ v.reason = "score_recovered"
    BY <2>1, <1>2, <1>3 DEF ClosedIsLast
  <2>2. CASE next.closed = lc.closed /\ v.end = 0 /\ u = lc.open /\ lc.closed # NoEvent
    <3>1. /\ lc.closed \in events /\ lc.closed # u /\ lc.closed.start \in Nat
          /\ lc.closed.end # 0 /\ lc.closed.reason = "score_recovered"
          /\ \A e \in events : e # lc.closed => e.end <= lc.closed.start
      BY <2>2, <1>1, EventParts DEF Sound, ClosedIsLast, OpenIsShown
    <3>2. v.end <= lc.closed.start
      BY <2>2, <3>1, ZeroIsLeast
    <3>3. lc.closed \in shown
      BY <3>1, <1>2
    <3>4. \A e \in shown : e # lc.closed => e.end <= lc.closed.start
      BY <3>1, <3>2, <1>2
    <3> QED BY <2>2, <3>1, <3>3, <3>4 DEF ClosedIsLast
  <2> QED BY <2>1, <2>2 DEF ClosedIsLast
<1>9. EventsArePast(next, shown)
  <2>1. \A e \in events : Past(next, e.end)
    BY <1>1, EventParts DEF Sound, EventsArePast, Later
  <2> QED BY <2>1, <1>2 DEF EventsArePast
<1>10. CandidateIsNew(next, shown)
  <2>1. ASSUME NEW q \in next.cand, NEW e \in shown, NEW r \in e.points
        PROVE  PointKey(q) # PointKey(r)
    <3>1. CASE e \in events
      BY <3>1, <2>1 DEF Sound, CandidateIsNew
    <3>2. CASE e = v
      BY <3>2, <2>1 DEF Sound, CandidateIsNew, AllInHistory, NewPoint
    <3> QED BY <3>1, <3>2, <1>2
  <2> QED BY <2>1 DEF CandidateIsNew
<1>11. AllInHistory(next, shown)
  <2>1. \A q \in next.cand : PointKey(q) \in next.history
    BY DEF Sound, AllInHistory, Later
  <2>2. \A e \in events : e.id \in next.history /\ \A q \in e.points : PointKey(q) \in next.history
    BY DEF Sound, AllInHistory, Later
  <2>3. v.id \in next.history /\ \A q \in v.points : PointKey(q) \in next.history
    BY <2>2 DEF Sound, AllInHistory, Later, NewPoint
  <2> QED BY <2>1, <2>2, <2>3, <1>2 DEF AllInHistory
<1>12. Sound(next, shown)
  BY <1>6, <1>7, <1>8, <1>9, <1>10, <1>11 DEF Sound
<1> QED BY <1>12 DEF shown

-----------------------------------------------------------------------------
(* One point, and one fault report, at the lifecycle.                      *)

\* What a fault closed stays, and only points of `extra' are counted anew.
Respects(events, shown, extra) ==
  /\ \A e \in events : e.reason = "sensor_fault_detected" => e \in shown
  /\ \A e \in shown : \A q \in e.points : q \in extra \/ \E f \in events : q \in f.points

LEMMA RespectsKept == \A events, extra : Respects(events, events, extra)
BY DEF Respects

LEMMA RespectsOpened ==
  ASSUME NEW lc, NEW events, Sound(lc, events), NEW v \in Event, v.id \notin lc.history,
         NEW extra, v.points \subseteq extra
  PROVE  Respects(events, Shown(events, v), extra)
<1>1. v # NoEvent
  BY EventParts
<1> QED BY <1>1 DEF Respects, Shown, Sound, AllInHistory

LEMMA RespectsChanged ==
  ASSUME NEW lc, NEW events, Sound(lc, events), NEW v \in Event,
         NEW u \in events, v.id = u.id, u = lc.open \/ u = lc.closed,
         NEW extra, v.points \subseteq u.points \cup extra
  PROVE  Respects(events, Shown(events, v), extra)
<1>1. v # NoEvent /\ u # NoEvent
  BY EventParts DEF Sound
<1>2. Shown(events, v) = (events \ {u}) \cup {v}
  BY <1>1 DEF Shown, Sound, EventsApart
<1>3. u.reason # "sensor_fault_detected"
  BY <1>1 DEF Sound, OpenIsShown, ClosedIsLast
<1> QED BY <1>2, <1>3 DEF Respects

\* The point is entered in the history of the lifecycle `mid'.
Noted(mid, p) == [mid EXCEPT !.lastKey = OrderKey(p), !.history = @ \cup {PointKey(p)}]

LEMMA NotedParts ==
  ASSUME NEW lc \in Life, NEW p \in Packets, Processable(lc, p), NEW mid \in Life,
         mid.boundary = lc.boundary, mid.history = lc.history
  PROVE  LET next == Noted(mid, p) IN
         /\ Later(lc, next)
         /\ next.cand = mid.cand /\ next.candStart = mid.candStart
         /\ next.open = mid.open /\ next.closed = mid.closed
         /\ next.boundary = lc.boundary
         /\ NewPoint(lc, next, p) /\ Past(next, p.ts)
         /\ \A t \in Nat : Past(lc, t) => t <= p.ts
<1> DEFINE next == Noted(mid, p)
<1>1. /\ p.ts \in Nat /\ p.dev \in Nat /\ p.seq \in Nat /\ OrderKey(p)[1] = p.ts
      /\ PointKey(p) \in Nat \X Nat /\ OrderKey(p) \in Nat \X Nat \X Nat
  BY PacketParts
<1>2. /\ next \in Life
      /\ next.cand = mid.cand /\ next.candStart = mid.candStart
      /\ next.open = mid.open /\ next.closed = mid.closed
      /\ next.boundary = lc.boundary /\ next.lastKey = OrderKey(p)
      /\ next.history = lc.history \cup {PointKey(p)}
  BY <1>1 DEF Noted, Life
<1>3. lc.lastKey[1] \in Nat /\ lc.boundary \in Nat
  BY LifeParts
<1> HIDE DEF next
<1>4. lc.lastKey[1] <= p.ts /\ lc.boundary <= p.ts
  <2>1. lc.boundary <= p.ts
    BY <1>1, <1>3 DEF Processable
  <2>2. lc.lastKey[1] <= p.ts
    BY <1>1, <1>3 DEF Processable, Before
  <2> QED BY <2>1, <2>2
<1>5. \A t \in Nat : Past(lc, t) => t <= p.ts
  BY <1>1, <1>3, <1>4 DEF Past
<1>6. next.lastKey[1] = p.ts
  BY <1>1, <1>2
<1>7. Past(next, p.ts) /\ \A t \in Nat : Past(lc, t) => Past(next, t)
  BY <1>1, <1>5, <1>6 DEF Past
<1>8. NewPoint(lc, next, p)
  BY <1>2 DEF NewPoint, Processable
<1>9. Later(lc, next)
  BY <1>2, <1>7 DEF Later
<1> QED BY <1>2, <1>5, <1>7, <1>8, <1>9 DEF next

\* What holds after the lifecycle went from lc to next and v was shown.
StepSound(lc, events, next, v, extra) ==
  /\ Sound(next, Shown(events, v)) /\ v \in Event \cup {NoEvent}
  /\ next.boundary = lc.boundary
  /\ next.cand \subseteq extra
  /\ Respects(events, Shown(events, v), extra)

\* A point of a faulty sensor closes the open event and counts nothing.
LEMMA FaultyPoint ==
  ASSUME NEW lc, NEW events, Sound(lc, events), NEW p \in Packets, Processable(lc, p)
  PROVE  LET next == ProcessPoint(lc, p, TRUE)
         IN  StepSound(lc, events, next, Updated(lc, next, p.ts), {})
<1> DEFINE mid == Suppress(lc)
           next == ProcessPoint(lc, p, TRUE)
           v == Updated(lc, next, p.ts)
<1>1. next = Noted(mid, p)
  BY DEF ProcessPoint, Noted
<1>2. lc \in Life
  BY DEF Sound
<1>3. /\ mid \in Life /\ mid.cand = {} /\ mid.candStart = 0
      /\ mid.open = NoEvent /\ mid.closed = NoEvent
      /\ mid.boundary = lc.boundary /\ mid.history = lc.history
  BY <1>2, Suppressed
<1> HIDE DEF mid, next
<1>4. /\ Later(lc, next) /\ next.cand = {} /\ next.candStart = 0
      /\ next.open = NoEvent /\ next.closed = NoEvent /\ next.boundary = lc.boundary
      /\ Past(next, p.ts)
  BY <1>1, <1>2, <1>3, NotedParts
<1>5. CASE lc.open = NoEvent
  <2>1. v = NoEvent /\ Shown(events, v) = events
    BY <1>4, <1>5 DEF Updated, Shown
  <2>2. Sound(next, events)
    BY <1>4, <1>5, SoundKept
  <2>3. StepSound(lc, events, next, v, {})
    BY <2>1, <2>2, <1>4, RespectsKept DEF StepSound
  <2> QED BY <2>3 DEF next
<1>6. CASE lc.open # NoEvent
  <2>1. /\ lc.open \in events /\ lc.open \in Event /\ lc.open.end = 0
    BY <1>6 DEF Sound, OpenIsShown
  <2>2. v = Close(lc.open, p.ts, "sensor_fault_detected")
    BY <1>4, <1>6 DEF Updated
  <2>3. p.ts \in Nat \ {0}
    BY PacketParts
  <2>4. /\ v \in Event /\ v.id = lc.open.id /\ v.start = lc.open.start /\ v.end = p.ts
        /\ v.points = lc.open.points
    BY <2>1, <2>2, <2>3 DEF Event, Close, Reasons
  <2> HIDE DEF v
  <2>5. Sound(next, Shown(events, v))
    BY <2>1, <2>3, <2>4, <1>4, SoundChanged
  <2>6. Respects(events, Shown(events, v), {})
    BY <2>1, <2>4, RespectsChanged
  <2>7. StepSound(lc, events, next, v, {})
    BY <2>4, <2>5, <2>6, <1>4 DEF StepSound
  <2> QED BY <2>7 DEF next, v
<1> QED BY <1>5, <1>6

\* A step that shows nothing: the lifecycle only drops or extends its candidate.
LEMMA QuietPoint ==
  ASSUME NEW lc, NEW events, Sound(lc, events), NEW p \in Packets, Processable(lc, p),
         NEW mid \in Life, mid.boundary = lc.boundary, mid.history = lc.history,
         mid.open = lc.open, mid.closed = lc.closed,
         mid.cand \subseteq lc.cand \cup {p},
         \/ mid.candStart = 0
         \/ mid.candStart \in {lc.candStart, p.ts} /\ lc.open = NoEvent,
         NEW next, next = Noted(mid, p)
  PROVE  StepSound(lc, events, next, Updated(lc, next, p.ts), lc.cand \cup {p})
<1>1. lc \in Life
  BY DEF Sound
<1>2. /\ Later(lc, next) /\ next.cand = mid.cand /\ next.candStart = mid.candStart
      /\ next.open = lc.open /\ next.closed = lc.closed /\ next.boundary = lc.boundary
      /\ NewPoint(lc, next, p) /\ \A t \in Nat : Past(lc, t) => t <= p.ts
  BY <1>1, NotedParts
<1>3. Updated(lc, next, p.ts) = NoEvent /\ Shown(events, NoEvent) = events
  BY <1>2 DEF Updated, Shown
<1>4. next.candStart # 0 =>
        /\ next.open = NoEvent
        /\ \/ next.candStart = lc.candStart
           \/ \A t \in Nat : Past(lc, t) => t <= next.candStart
  <2>1. CASE mid.candStart = 0
    BY <2>1, <1>2
  <2>2. CASE mid.candStart = lc.candStart /\ lc.open = NoEvent
    BY <2>2, <1>2
  <2>3. CASE mid.candStart = p.ts /\ lc.open = NoEvent
    BY <2>3, <1>2
  <2> QED BY <2>1, <2>2, <2>3
<1>5. Sound(next, events)
  BY <1>2, <1>4, SoundKept
<1> QED BY <1>2, <1>3, <1>5, RespectsKept DEF StepSound

\* While no event is open: a candidate, a new event, or the last one again.
LEMMA EnterPoint ==
  ASSUME NEW lc, NEW events, Sound(lc, events), NEW p \in Packets, Processable(lc, p),
         lc.open = NoEvent,
         NEW next, next = Noted(Enter(lc, p), p)
  PROVE  StepSound(lc, events, next, Updated(lc, next, p.ts), lc.cand \cup {p})
<1> DEFINE start == IF lc.candStart = 0 THEN p.ts ELSE lc.candStart
           points == lc.cand \cup {p}
           merged == [lc.closed EXCEPT !.end = 0, !.reason = "", !.points = @ \cup points]
           fresh == NewEvent(p, start, points)
           v == Updated(lc, next, p.ts)
<1>1. /\ lc \in Life /\ lc.candStart \in Nat /\ lc.cand \in SUBSET Packets
      /\ p.ts \in Nat \ {0} /\ PointKey(p) \in Nat \X Nat
  BY LifeParts, PacketParts DEF Sound
<1>2. start \in Nat \ {0} /\ points \in SUBSET Packets
  BY <1>1
<1>3. CASE p.score # "high"
  <2>1. Enter(lc, p) = DropCandidate(lc)
    BY <1>3 DEF Enter
  <2>2. LET mid == DropCandidate(lc) IN
        /\ mid \in Life /\ mid.boundary = lc.boundary /\ mid.history = lc.history
        /\ mid.open = lc.open /\ mid.closed = lc.closed /\ mid.cand = {} /\ mid.candStart = 0
    BY <1>1 DEF Life, DropCandidate
  <2> QED BY <2>1, <2>2, QuietPoint
<1>4. CASE p.score = "high" /\ p.ts - start < Duration
  <2> DEFINE mid == [lc EXCEPT !.cand = points, !.candStart = start]
  <2>1. Enter(lc, p) = mid
    BY <1>4 DEF Enter
  <2>2. /\ mid \in Life /\ mid.boundary = lc.boundary /\ mid.history = lc.history
        /\ mid.open = lc.open /\ mid.closed = lc.closed /\ mid.cand = points
        /\ mid.candStart = start
    BY <1>1, <1>2 DEF Life
  <2>3. start \in {lc.candStart, p.ts}
    OBVIOUS
  <2> HIDE DEF mid, start
  <2> QED BY <2>1, <2>2, <2>3, QuietPoint
<1> HIDE DEF start
<1>5. CASE p.score = "high" /\ ~(p.ts - start < Duration) /\ MergeOpen(lc, start)
  <2> DEFINE mid == [DropStreaks(lc) EXCEPT !.open = merged, !.closed = NoEvent]
  <2>1. Enter(lc, p) = mid
    BY <1>5 DEF Enter, OpenOrMerge, start
  <2>2. lc.closed # NoEvent /\ lc.closed \in events /\ lc.closed \in Event
    BY <1>5 DEF MergeOpen, Sound, ClosedIsLast
  <2>3. /\ merged \in Event /\ merged.id = lc.closed.id /\ merged.start = lc.closed.start
        /\ merged.end = 0 /\ merged.reason = "" /\ merged.points = lc.closed.points \cup points
    BY <2>2, <1>2 DEF Event, Reasons
  <2> HIDE DEF merged
  <2>4. /\ mid \in Life /\ mid.boundary = lc.boundary /\ mid.history = lc.history
        /\ mid.open = merged /\ mid.closed = NoEvent /\ mid.cand = {} /\ mid.candStart = 0
    BY <1>1, <2>3 DEF Life, DropStreaks, DropCandidate
  <2> HIDE DEF mid
  <2>5. /\ Later(lc, next) /\ next.cand = {} /\ next.candStart = 0
        /\ next.open = merged /\ next.closed = NoEvent /\ next.boundary = lc.boundary
        /\ NewPoint(lc, next, p)
    BY <1>1, <2>1, <2>4, NotedParts
  <2>6. merged # NoEvent
    BY <2>3, EventParts
  <2>7. v = merged
    BY <2>5, <2>6 DEF Updated
  <2>8. Past(next, merged.end)
    BY <2>3, <2>5, LifeParts, ZeroIsLeast DEF Past, Later
  <2>9. Sound(next, Shown(events, merged))
    BY ZenonT(60), <2>2, <2>3, <2>5, <2>8, SoundChanged
  <2>10. Respects(events, Shown(events, merged), points)
    BY <2>2, <2>3, RespectsChanged
  <2> QED BY <2>3, <2>5, <2>7, <2>9, <2>10 DEF StepSound
<1>6. CASE p.score = "high" /\ ~(p.ts - start < Duration) /\ ~MergeOpen(lc, start)
  <2> DEFINE mid == [DropStreaks(lc) EXCEPT !.open = fresh]
  <2>1. Enter(lc, p) = mid
    BY <1>6 DEF Enter, OpenOrMerge, start
  <2>3. /\ fresh \in Event /\ fresh.id = PointKey(p) /\ fresh.start = start
        /\ fresh.end = 0 /\ fresh.reason = "" /\ fresh.points = points
    BY <1>1, <1>2 DEF Event, Reasons, NewEvent
  <2> HIDE DEF fresh
  <2>4. /\ mid \in Life /\ mid.boundary = lc.boundary /\ mid.history = lc.history
        /\ mid.open = fresh /\ mid.closed = lc.closed /\ mid.cand = {} /\ mid.candStart = 0
    BY <1>1, <2>3 DEF Life, DropStreaks, DropCandidate
  <2> HIDE DEF mid
  <2>5. /\ Later(lc, next) /\ next.cand = {} /\ next.candStart = 0
        /\ next.open = fresh /\ next.closed = lc.closed /\ next.boundary = lc.boundary
        /\ NewPoint(lc, next, p) /\ \A t \in Nat : Past(lc, t) => t <= p.ts
    BY <1>1, <2>1, <2>4, NotedParts
  <2>6. fresh # NoEvent
    BY <2>3, EventParts
  <2>7. v = fresh
    BY <2>5, <2>6 DEF Updated
  <2>8. \A e \in events : e.end <= fresh.start
    <3>1. \A e \in events : e.end \in Nat /\ Past(lc, e.end)
      BY EventParts DEF Sound, EventsArePast
    <3>2. CASE lc.candStart = 0
      BY <3>1, <3>2, <2>3, <2>5 DEF start
    <3>3. CASE lc.candStart # 0
      BY <3>3, <2>3 DEF start, Sound, CandidateIsNew
    <3> QED BY <3>2, <3>3
  <2>9. Sound(next, Shown(events, fresh))
    <3>1. fresh.id \notin lc.history /\ fresh.id \in next.history
      BY <2>3, <2>5 DEF NewPoint
    <3> QED BY <2>3, <2>5, <2>8, <3>1, SoundOpened
  <2>10. Respects(events, Shown(events, fresh), points)
    BY <2>3, <2>5, RespectsOpened DEF NewPoint
  <2> QED BY <2>3, <2>5, <2>7, <2>9, <2>10 DEF StepSound
<1> QED BY <1>3, <1>4, <1>5, <1>6

\* While an event is open: the point is counted in it, and may close it.
LEMMA ContinuePoint ==
  ASSUME NEW lc, NEW events, Sound(lc, events), NEW p \in Packets, Processable(lc, p),
         lc.open # NoEvent,
         NEW next, next = Noted(Continue(lc, p), p)
  PROVE  StepSound(lc, events, next, Updated(lc, next, p.ts), lc.cand \cup {p})
<1> DEFINE event == [lc.open EXCEPT !.points = @ \cup {p}]
           ended == Close(event, p.ts, "score_recovered")
           start == IF lc.exitStart = 0 THEN p.ts ELSE lc.exitStart
           mid == Continue(lc, p)
           v == Updated(lc, next, p.ts)
<1>1. /\ lc \in Life /\ lc.exitStart \in Nat /\ lc.cand \in SUBSET Packets
      /\ p.ts \in Nat \ {0}
  BY LifeParts, PacketParts DEF Sound
<1>2. /\ lc.open \in events /\ lc.open \in Event /\ lc.open.end = 0 /\ lc.open.reason = ""
      /\ lc.candStart = 0
  BY DEF Sound, OpenIsShown, CandidateIsNew
<1>3. /\ event \in Event /\ event.id = lc.open.id /\ event.start = lc.open.start
      /\ event.end = 0 /\ event.reason = "" /\ event.points = lc.open.points \cup {p}
  BY <1>2 DEF Event
<1>4. p \notin lc.open.points
  BY <1>2 DEF Sound, AllInHistory, Processable
<1>5. event # lc.open /\ event # NoEvent
  BY <1>3, <1>4, EventParts
<1> HIDE DEF event
<1>6. /\ ended \in Event /\ ended.id = lc.open.id /\ ended.start = lc.open.start
      /\ ended.end = p.ts /\ ended.reason = "score_recovered"
      /\ ended.points = lc.open.points \cup {p}
  BY <1>1, <1>3 DEF Event, Close, Reasons
<1> HIDE DEF ended
<1>7. /\ mid \in Life /\ mid.boundary = lc.boundary /\ mid.history = lc.history
      /\ mid.cand = lc.cand /\ mid.candStart = 0
      /\ \/ mid.open = event /\ mid.closed = lc.closed
         \/ mid.open = NoEvent /\ mid.closed = ended
  <2>1. CASE p.score # "low"
    <3>1. mid = [lc EXCEPT !.open = event, !.exitStart = 0]
      BY <2>1 DEF Continue, event
    <3> QED BY <3>1, <1>1, <1>2, <1>3 DEF Life
  <2>2. CASE p.score = "low" /\ p.ts - start < Duration
    <3>1. mid = [lc EXCEPT !.open = event, !.exitStart = start]
      BY <2>2 DEF Continue, event
    <3>2. start \in Nat
      BY <1>1
    <3> QED BY <3>1, <3>2, <1>1, <1>2, <1>3 DEF Life
  <2>3. CASE p.score = "low" /\ ~(p.ts - start < Duration)
    <3>1. mid = [lc EXCEPT !.open = NoEvent, !.exitStart = 0, !.closed = ended]
      BY <2>3 DEF Continue, event, ended
    <3> QED BY <3>1, <1>1, <1>2, <1>6 DEF Life
  <2> QED BY <2>1, <2>2, <2>3
<1> HIDE DEF mid, v
<1>8. /\ Later(lc, next) /\ next.cand = lc.cand /\ next.candStart = 0
      /\ next.open = mid.open /\ next.closed = mid.closed
      /\ next.boundary = lc.boundary
      /\ NewPoint(lc, next, p) /\ Past(next, p.ts)
  BY <1>1, <1>7, NotedParts DEF mid
<1>9. CASE mid.open = event /\ mid.closed = lc.closed
  <2>1. v = event
    BY <1>5, <1>8, <1>9 DEF Updated, v
  <2>2. Past(next, event.end)
    BY <1>3, <1>8, LifeParts, ZeroIsLeast DEF Past, Later
  <2>3. Sound(next, Shown(events, event))
    BY <1>2, <1>3, <1>8, <1>9, <2>2, SoundChanged
  <2>4. Respects(events, Shown(events, event), lc.cand \cup {p})
    BY <1>2, <1>3, RespectsChanged
  <2> QED BY <1>3, <1>8, <2>1, <2>3, <2>4 DEF StepSound, v
<1>10. CASE mid.open = NoEvent /\ mid.closed = ended
  <2>1. ended # NoEvent
    BY <1>6, EventParts
  <2>2. v = ended
    BY <1>8, <1>10, <2>1 DEF Updated, v
  <2>3. Sound(next, Shown(events, ended))
    BY <1>1, <1>2, <1>6, <1>8, <1>10, SoundChanged
  <2>4. Respects(events, Shown(events, ended), lc.cand \cup {p})
    BY <1>2, <1>6, RespectsChanged
  <2> QED BY <1>6, <1>8, <2>2, <2>3, <2>4 DEF StepSound, v
<1> QED BY <1>7, <1>9, <1>10

\* process_point, whether or not the sensor is faulty.
LEMMA PointSound ==
  ASSUME NEW lc, NEW events, Sound(lc, events), NEW p \in Packets, Processable(lc, p),
         NEW fault \in BOOLEAN
  PROVE  LET next == ProcessPoint(lc, p, fault)
         IN  StepSound(lc, events, next, Updated(lc, next, p.ts),
                       IF fault THEN {} ELSE lc.cand \cup {p})
<1> DEFINE next == ProcessPoint(lc, p, fault)
<1>1. CASE fault
  <2>1. fault = TRUE
    BY <1>1
  <2> QED BY <2>1, FaultyPoint
<1>2. CASE ~fault /\ p.score = "none"
  <2>1. next = Noted(DropStreaks(lc), p)
    BY <1>2 DEF ProcessPoint, Noted
  <2>2. lc \in Life
    BY DEF Sound
  <2> HIDE DEF next
  <2>3. StepSound(lc, events, next, Updated(lc, next, p.ts), lc.cand \cup {p})
    BY <2>1, <2>2, StreaksDropped, QuietPoint
  <2> QED BY <2>3, <1>2 DEF next
<1>3. CASE ~fault /\ p.score # "none" /\ lc.open = NoEvent
  <2>1. next = Noted(Enter(lc, p), p)
    BY <1>3 DEF ProcessPoint, Noted
  <2> HIDE DEF next
  <2>2. StepSound(lc, events, next, Updated(lc, next, p.ts), lc.cand \cup {p})
    BY <2>1, <1>3, EnterPoint
  <2> QED BY <2>2, <1>3 DEF next
<1>4. CASE ~fault /\ p.score # "none" /\ lc.open # NoEvent
  <2>1. next = Noted(Continue(lc, p), p)
    BY <1>4 DEF ProcessPoint, Noted
  <2> HIDE DEF next
  <2>2. StepSound(lc, events, next, Updated(lc, next, p.ts), lc.cand \cup {p})
    BY <2>1, <1>4, ContinuePoint
  <2> QED BY <2>2, <1>4 DEF next
<1> QED BY <1>1, <1>2, <1>3, <1>4

LEMMA LatestIs ==
  ASSUME NEW lc \in Life, NEW t \in Nat
  PROVE  /\ Latest(lc, t) \in {t, lc.lastKey[1], lc.boundary}
         /\ Latest(lc, t) \in Nat
         /\ t <= Latest(lc, t) /\ lc.lastKey[1] <= Latest(lc, t)
         /\ lc.boundary <= Latest(lc, t)
<1> DEFINE S == {t, lc.lastKey[1], lc.boundary}
<1>1. t \in Nat /\ lc.lastKey[1] \in Nat /\ lc.boundary \in Nat
  BY LifeParts
<1>2. \E m \in S : \A x \in S : m >= x
  BY <1>1
<1>3. Latest(lc, t) = CHOOSE m \in S : \A x \in S : m >= x
  BY DEF Latest
<1>4. Latest(lc, t) \in S /\ \A x \in S : Latest(lc, t) >= x
  <2> HIDE DEF S
  <2> QED BY <1>2, <1>3
<1> QED BY <1>1, <1>4

\* process_sensor_fault: no point is counted, and the boundary passes the report.
LEMMA FaultSound ==
  ASSUME NEW lc, NEW events, Sound(lc, events), NEW t \in Nat \ {0}
  PROVE  LET next == ProcessFault(lc, t)
             shown == Shown(events, Updated(lc, next, next.boundary))
         IN  /\ Sound(next, shown)
             /\ Updated(lc, next, next.boundary) \in Event \cup {NoEvent}
             /\ next.cand = {} /\ t <= next.boundary /\ lc.boundary <= next.boundary
             /\ Respects(events, shown, {})
<1> DEFINE mid == Suppress(lc)
           next == ProcessFault(lc, t)
           v == Updated(lc, next, next.boundary)
<1>1. lc \in Life
  BY DEF Sound
<1>2. /\ Latest(lc, t) \in Nat /\ t <= Latest(lc, t)
      /\ lc.lastKey[1] <= Latest(lc, t) /\ lc.boundary <= Latest(lc, t)
  BY <1>1, LatestIs
<1>3. /\ mid \in Life /\ mid.cand = {} /\ mid.candStart = 0
      /\ mid.open = NoEvent /\ mid.closed = NoEvent /\ mid.lastKey = lc.lastKey
      /\ mid.boundary = lc.boundary /\ mid.history = lc.history
  BY <1>1, Suppressed
<1>4. next = [mid EXCEPT !.boundary = Latest(lc, t)]
  BY DEF ProcessFault
<1> HIDE DEF mid, next
<1>5. /\ next \in Life /\ next.cand = {} /\ next.candStart = 0
      /\ next.open = NoEvent /\ next.closed = NoEvent /\ next.lastKey = lc.lastKey
      /\ next.boundary = Latest(lc, t) /\ next.history = lc.history
  BY <1>2, <1>3, <1>4 DEF Life
<1>6. Later(lc, next) /\ Past(next, next.boundary)
  <2>1. lc.lastKey[1] \in Nat /\ lc.boundary \in Nat
    BY <1>1, LifeParts
  <2>2. \A s \in Nat : Past(lc, s) => Past(next, s)
    BY <1>2, <1>5, <2>1 DEF Past
  <2>3. next.boundary <= next.boundary
    BY <1>2, <1>5
  <2> QED BY <1>1, <1>5, <2>2, <2>3 DEF Later, Past
<1>7. CASE lc.open = NoEvent
  <2>1. v = NoEvent /\ Shown(events, v) = events
    BY <1>5, <1>7 DEF Updated, Shown
  <2>2. Sound(next, events)
    BY <1>5, <1>6, <1>7, SoundKept
  <2> QED BY <1>2, <1>5, <2>1, <2>2, RespectsKept DEF next
<1>8. CASE lc.open # NoEvent
  <2>1. /\ lc.open \in events /\ lc.open \in Event /\ lc.open.end = 0
    BY <1>8 DEF Sound, OpenIsShown
  <2>2. v = Close(lc.open, next.boundary, "sensor_fault_detected")
    BY <1>5, <1>8 DEF Updated
  <2>3. next.boundary \in Nat \ {0}
    BY <1>2, <1>5
  <2>4. /\ v \in Event /\ v.id = lc.open.id /\ v.start = lc.open.start
        /\ v.end = next.boundary /\ v.points = lc.open.points
    BY <2>1, <2>2, <2>3 DEF Event, Close, Reasons
  <2> HIDE DEF v
  <2>5. Sound(next, Shown(events, v))
    BY <2>1, <2>3, <2>4, <1>5, <1>6, SoundChanged
  <2>6. Respects(events, Shown(events, v), {})
    BY <2>1, <2>4, RespectsChanged
  <2> QED BY <1>2, <1>5, <2>4, <2>5, <2>6 DEF next, v
<1> QED BY <1>7, <1>8

-----------------------------------------------------------------------------
(* The records that are kept.  Unexpired is defined by recursion, so what  *)
(* it returns is shown by induction over the length of the records.        *)

KeptStep(r, n, before) ==
  CASE n = 0 -> <<>>
    [] n > 0 /\ r[n].ts >= cutoff -> Append(before, r[n])
    [] OTHER -> before

LEMMA KeptStepType ==
  ASSUME NEW r \in Seq(Packets), cutoff \in Nat, NEW n \in 0 .. Len(r),
         NEW before, n > 0 => before \in Seq(Packets)
  PROVE  KeptStep(r, n, before) \in Seq(Packets)
<1>1. CASE n = 0
  BY <1>1 DEF KeptStep
<1>2. CASE n > 0
  <2>1. r[n] \in Packets
    BY <1>2
  <2> QED BY <1>2, <2>1 DEF KeptStep
<1> QED BY <1>1, <1>2

\* The function that the definition of Unexpired chooses exists.
LEMMA KeptExists ==
  ASSUME NEW r \in Seq(Packets), cutoff \in Nat
  PROVE  \E g \in [0 .. Len(r) -> Seq(Packets)] :
           g = [n \in 0 .. Len(r) |-> KeptStep(r, n, g[n - 1])]
<1> DEFINE Up(m, g) == /\ g \in [0 .. m -> Seq(Packets)]
                       /\ \A n \in 0 .. m : g[n] = KeptStep(r, n, g[n - 1])
           Good == {m \in Nat : m <= Len(r) => \E g : Up(m, g)}
<1>1. Len(r) \in Nat
  OBVIOUS
<1>2. 0 \in Good
  <2> DEFINE g == [n \in 0 .. 0 |-> <<>>]
  <2>1. g \in [0 .. 0 -> Seq(Packets)]
    OBVIOUS
  <2>2. \A n \in 0 .. 0 : g[n] = KeptStep(r, n, g[n - 1])
    BY DEF KeptStep
  <2> QED BY <2>1, <2>2
<1>3. ASSUME NEW m \in Good PROVE m + 1 \in Good
  <2>0. m \in Nat /\ m + 1 \in Nat
    OBVIOUS
  <2> SUFFICES ASSUME m + 1 <= Len(r) PROVE \E g : Up(m + 1, g)
    BY <2>0
  <2>1. PICK g : Up(m, g)
    <3>1. m <= Len(r)
      BY <1>1, <2>0
    <3> QED BY <3>1
  <2> DEFINE h == [n \in 0 .. m + 1 |-> IF n <= m THEN g[n] ELSE KeptStep(r, m + 1, g[m])]
  <2>2. KeptStep(r, m + 1, g[m]) \in Seq(Packets)
    BY <2>0, <2>1, KeptStepType
  <2>3. h \in [0 .. m + 1 -> Seq(Packets)]
    BY <2>0, <2>1, <2>2
  <2>4. ASSUME NEW n \in 0 .. m + 1 PROVE h[n] = KeptStep(r, n, h[n - 1])
    <3>1. CASE n = 0
      <4>1. h[n] = g[n] /\ n \in 0 .. m
        BY <3>1, <2>0
      <4>2. g[n] = KeptStep(r, n, g[n - 1])
        BY <4>1, <2>1
      <4> QED BY <4>1, <4>2, <3>1 DEF KeptStep
    <3>2. CASE n \in 1 .. m
      <4>1. h[n] = g[n] /\ h[n - 1] = g[n - 1] /\ n \in 0 .. m
        BY <3>2, <2>0
      <4> QED BY <4>1, <2>1
    <3>3. CASE n = m + 1
      <4>1. h[n] = KeptStep(r, m + 1, g[m]) /\ h[n - 1] = g[m]
        BY <3>3, <2>0
      <4> QED BY <4>1, <3>3
    <3> QED BY <3>1, <3>2, <3>3
  <2> HIDE DEF h
  <2> QED BY <2>3, <2>4
<1>4. Good = Nat
  <2> HIDE DEF Good
  <2>1. Good \in SUBSET Nat
    BY DEF Good
  <2> QED BY <2>1, <1>2, <1>3, AllNaturals
<1>5. PICK g : Up(Len(r), g)
  <2>1. Len(r) \in Good
    BY <1>1, <1>4
  <2>2. Len(r) <= Len(r)
    BY <1>1
  <2> QED BY <2>1, <2>2
<1>6. g = [n \in 0 .. Len(r) |-> KeptStep(r, n, g[n - 1])]
  BY <1>5
<1> QED BY <1>5, <1>6

\* No two records are of the same measurement.
Distinct(r) == \A i, j \in 1 .. Len(r) : PointKey(r[i]) = PointKey(r[j]) => i = j

\* What the first n records leave: those that have not expired, as they came.
KeptOf(r, n, k) ==
  /\ k \in Seq(Packets) /\ Len(k) <= n
  /\ Len(k) = n => \A i \in 1 .. n : k[i] = r[i]
  /\ \A i \in 1 .. Len(k) : \E j \in 1 .. n : k[i] = r[j] /\ r[j].ts >= cutoff
  /\ \A j \in 1 .. n : r[j].ts >= cutoff => \E i \in 1 .. Len(k) : k[i] = r[j]
  /\ Distinct(r) => Distinct(k)

LEMMA KeptOfDropped ==
  ASSUME NEW r \in Seq(Packets), NEW n \in 1 .. Len(r), NEW k, KeptOf(r, n - 1, k),
         ~(r[n].ts >= cutoff)
  PROVE  KeptOf(r, n, k)
<1>1. Len(k) \in Nat /\ Len(k) <= n - 1 /\ n \in Nat
  BY DEF KeptOf
<1>2. Len(k) <= n /\ Len(k) # n
  BY <1>1
<1>3. ASSUME NEW i \in 1 .. Len(k) PROVE \E j \in 1 .. n : k[i] = r[j] /\ r[j].ts >= cutoff
  <2>1. PICK j \in 1 .. n - 1 : k[i] = r[j] /\ r[j].ts >= cutoff
    BY DEF KeptOf
  <2>2. j \in 1 .. n
    BY <1>1
  <2> QED BY <2>1, <2>2
<1>4. ASSUME NEW j \in 1 .. n, r[j].ts >= cutoff PROVE \E i \in 1 .. Len(k) : k[i] = r[j]
  <2>1. j \in 1 .. n - 1
    BY <1>1, <1>4
  <2> QED BY <2>1, <1>4 DEF KeptOf
<1> QED BY <1>2, <1>3, <1>4 DEF KeptOf

LEMMA KeptOfAppended ==
  ASSUME NEW r \in Seq(Packets), NEW n \in 1 .. Len(r), NEW k, KeptOf(r, n - 1, k),
         r[n].ts >= cutoff
  PROVE  KeptOf(r, n, Append(k, r[n]))
<1> DEFINE a == Append(k, r[n])
<1>1. /\ Len(k) \in Nat /\ Len(k) <= n - 1 /\ n \in Nat /\ n <= Len(r)
      /\ r[n] \in Packets /\ k \in Seq(Packets)
  BY DEF KeptOf
<1>2. /\ a \in Seq(Packets) /\ Len(a) = Len(k) + 1
      /\ \A i \in 1 .. Len(k) : a[i] = k[i]
      /\ a[Len(k) + 1] = r[n]
  BY <1>1, AppendProperties
<1> HIDE DEF a
<1>3. Len(a) <= n
  BY <1>1, <1>2
<1>4. Len(a) = n => \A i \in 1 .. n : a[i] = r[i]
  <2> SUFFICES ASSUME Len(a) = n, NEW i \in 1 .. n PROVE a[i] = r[i]
    OBVIOUS
  <2>1. Len(k) = n - 1
    BY <1>1, <1>2
  <2>2. CASE i = n
    BY <2>1, <2>2, <1>1, <1>2
  <2>3. CASE i \in 1 .. n - 1
    BY <2>1, <2>3, <1>2 DEF KeptOf
  <2> QED BY <2>2, <2>3, <1>1
<1>5. ASSUME NEW i \in 1 .. Len(a)
      PROVE  \E j \in 1 .. n : a[i] = r[j] /\ r[j].ts >= cutoff
  <2>1. CASE i = Len(k) + 1
    BY <2>1, <1>2
  <2>2. CASE i \in 1 .. Len(k)
    <3>1. PICK j \in 1 .. n - 1 : k[i] = r[j] /\ r[j].ts >= cutoff
      BY <2>2 DEF KeptOf
    <3>2. j \in 1 .. n
      BY <1>1
    <3> QED BY <3>1, <3>2, <2>2, <1>2
  <2> QED BY <2>1, <2>2, <1>1, <1>2
<1>6. ASSUME NEW j \in 1 .. n, r[j].ts >= cutoff PROVE \E i \in 1 .. Len(a) : a[i] = r[j]
  <2>1. CASE j = n
    <3>1. Len(k) + 1 \in 1 .. Len(a)
      BY <1>1, <1>2
    <3> QED BY <3>1, <2>1, <1>2
  <2>2. CASE j \in 1 .. n - 1
    <3>1. PICK i \in 1 .. Len(k) : k[i] = r[j]
      BY <2>2, <1>6 DEF KeptOf
    <3>2. i \in 1 .. Len(a)
      BY <1>1, <1>2
    <3> QED BY <3>1, <3>2, <1>2
  <2> QED BY <2>1, <2>2, <1>1
<1>7. Distinct(r) => Distinct(a)
  <2> SUFFICES ASSUME Distinct(r), NEW i \in 1 .. Len(a), NEW j \in 1 .. Len(a),
                      PointKey(a[i]) = PointKey(a[j])
               PROVE  i = j
    BY DEF Distinct
  <2>1. \A m \in 1 .. Len(k) : PointKey(k[m]) # PointKey(r[n])
    <3> SUFFICES ASSUME NEW m \in 1 .. Len(k) PROVE PointKey(k[m]) # PointKey(r[n])
      OBVIOUS
    <3>1. PICK l \in 1 .. n - 1 : k[m] = r[l]
      BY DEF KeptOf
    <3>2. l \in 1 .. Len(r) /\ n \in 1 .. Len(r) /\ l # n
      BY <1>1
    <3>3. PointKey(r[l]) # PointKey(r[n])
      BY <3>2 DEF Distinct
    <3> QED BY <3>1, <3>3
  <2>2. \A m \in 1 .. Len(a) : m \in 1 .. Len(k) \/ m = Len(k) + 1
    BY <1>1, <1>2
  <2>3. \A l, m \in 1 .. Len(k) : PointKey(k[l]) = PointKey(k[m]) => l = m
    BY DEF KeptOf, Distinct
  <2>4. CASE i \in 1 .. Len(k) /\ j \in 1 .. Len(k)
    BY <2>3, <2>4, <1>2
  <2>5. CASE i \in 1 .. Len(k) /\ j = Len(k) + 1
    BY <2>1, <2>5, <1>2
  <2>6. CASE j \in 1 .. Len(k) /\ i = Len(k) + 1
    BY <2>1, <2>6, <1>2
  <2> QED BY <2>2, <2>4, <2>5, <2>6
<1>8. KeptOf(r, n, a)
  BY <1>2, <1>3, <1>4, <1>5, <1>6, <1>7 DEF KeptOf
<1> QED BY <1>8 DEF a

\* The records that have not expired are kept, in order, and no others.
LEMMA UnexpiredIs ==
  ASSUME NEW r \in Seq(Packets), cutoff \in Nat
  PROVE  /\ KeptOf(r, Len(r), Unexpired(r))
         /\ Len(Unexpired(r)) = Len(r) => Unexpired(r) = r
<1> DEFINE F == CHOOSE g : g = [n \in 0 .. Len(r) |-> KeptStep(r, n, g[n - 1])]
           Good == {m \in Nat : m <= Len(r) => KeptOf(r, m, F[m])}
<1>1. Unexpired(r) = F[Len(r)]
  BY DEF Unexpired, KeptStep
<1>2. F = [n \in 0 .. Len(r) |-> KeptStep(r, n, F[n - 1])]
  BY KeptExists
<1> HIDE DEF F
<1>3. Len(r) \in Nat /\ \A n \in 0 .. Len(r) : F[n] = KeptStep(r, n, F[n - 1])
  BY <1>2
<1>4. 0 \in Good
  <2>1. F[0] = <<>>
    BY <1>3 DEF KeptStep
  <2>2. <<>> \in Seq(Packets) /\ Len(<<>>) = 0
    BY EmptySeq
  <2>3. KeptOf(r, 0, <<>>)
    BY <2>2 DEF KeptOf, Distinct
  <2> QED BY <2>1, <2>3
<1>5. ASSUME NEW m \in Good PROVE m + 1 \in Good
  <2>1. m \in Nat /\ m + 1 \in Nat /\ (m + 1) - 1 = m
    OBVIOUS
  <2> SUFFICES ASSUME m + 1 <= Len(r) PROVE KeptOf(r, m + 1, F[m + 1])
    BY <2>1
  <2>2. m + 1 \in 1 .. Len(r) /\ m <= Len(r)
    BY <1>3, <2>1
  <2>3. KeptOf(r, (m + 1) - 1, F[m])
    BY <2>1, <2>2
  <2>4. F[m + 1] = KeptStep(r, m + 1, F[m])
    BY <1>3, <2>1, <2>2
  <2>5. CASE r[m + 1].ts >= cutoff
    <3>1. F[m + 1] = Append(F[m], r[m + 1])
      BY <2>1, <2>4, <2>5 DEF KeptStep
    <3> QED BY <2>2, <2>3, <2>5, <3>1, KeptOfAppended
  <2>6. CASE ~(r[m + 1].ts >= cutoff)
    <3>1. F[m + 1] = F[m]
      BY <2>1, <2>4, <2>6 DEF KeptStep
    <3> QED BY <2>2, <2>3, <2>6, <3>1, KeptOfDropped
  <2> QED BY <2>5, <2>6
<1>6. Good = Nat
  <2> HIDE DEF Good
  <2>1. Good \in SUBSET Nat
    BY DEF Good
  <2> QED BY <2>1, <1>4, <1>5, AllNaturals
<1>7. KeptOf(r, Len(r), Unexpired(r))
  <2>1. Len(r) \in Good /\ Len(r) <= Len(r)
    BY <1>3, <1>6
  <2> QED BY <2>1, <1>1
<1>8. Len(Unexpired(r)) = Len(r) => Unexpired(r) = r
  BY <1>7, SeqEqual DEF KeptOf
<1> QED BY <1>7, <1>8

-----------------------------------------------------------------------------
(* A store whose records, counters, events and faults are as they should   *)
(* be, and a lifecycle object that follows its checkpoint.                 *)

HeldLife(s) == IF s.checkpoint = None THEN Fresh ELSE s.checkpoint.lc

RecordsAgree(s) == s.keys = Range(s.records) /\ Distinct(s.records)

CountersAgree(s) ==
  /\ s.metrics.requests = s.metrics.accepted + s.metrics.duplicates + s.metrics.rejected
  /\ s.quarantine = s.metrics.rejected

\* What the lifecycle was told of a fault it respects.
FaultsKnown(lc, faults) ==
  \A f \in faults : f.told =>
    /\ f.end # 0 => f.end <= lc.boundary
    /\ \A q \in lc.cand : q.dev = f.dev => f.end # 0 /\ q.ts > f.end

RuntimeFollows(s, object) ==
  /\ object \in Held \cup {None}
  /\ object # None =>
       object.lc = IF s.checkpoint # None /\ object.version # s.checkpoint.version
                   THEN DropStreaks(HeldLife(s)) ELSE HeldLife(s)

GoodStore(s) ==
  /\ s \in Store
  /\ RecordsAgree(s)
  /\ CountersAgree(s)
  /\ Sound(HeldLife(s), s.events)
  /\ FaultsKnown(HeldLife(s), s.faults)

\* What a request may do to the events of a store.
RespectsFaults(s, new) ==
  /\ \A e \in s.events : e.reason = "sensor_fault_detected" => e \in new.events
  /\ \A q \in CountedPoints(new) \ CountedPoints(s), f \in s.faults :
       f.dev = q.dev /\ f.told => f.end # 0 /\ q.ts > f.end

LEMMA StoreParts ==
  ASSUME NEW s \in Store
  PROVE  /\ s.records \in Seq(Packets) /\ s.keys \in SUBSET Packets
         /\ s.events \in SUBSET Event /\ s.faults \in SUBSET Fault
         /\ s.checkpoint \in Held \cup {None}
         /\ s.rule.active \in BOOLEAN /\ s.rule.version \in Nat
         /\ s.rule \in [active : BOOLEAN, version : Nat]
         /\ s.mapped \in SUBSET Devices /\ s.reported \in [Devices -> Nat]
         /\ s.offline \in SUBSET Devices /\ s.metrics \in Metrics
         /\ s.quarantine \in Nat /\ s.mqttKeys \in SUBSET MqttKeys
         /\ s.storage \in {"healthy", "degraded"}
BY DEF Store

LEMMA FaultParts ==
  ASSUME NEW f \in Fault
  PROVE  f.dev \in Devices /\ f.end \in Nat /\ f.told \in BOOLEAN
<1>1. f.dev \in Devices /\ f.end \in Times \cup {0} /\ f.told \in BOOLEAN
  BY DEF Fault
<1>2. Times \cup {0} \subseteq Nat
  BY TelemetryConstants
<1> QED BY <1>1, <1>2

LEMMA HeldParts ==
  ASSUME NEW c \in Held
  PROVE  c.lc \in Life /\ c.version \in Nat /\ c # None
BY NothingIsNoValue DEF Held

\* Stores that tell the same story of records, counters, events and faults.
SameStory(s, t) ==
  /\ t \in Store
  /\ t.records = s.records /\ t.keys = s.keys
  /\ t.metrics = s.metrics /\ t.quarantine = s.quarantine
  /\ t.events = s.events /\ t.faults = s.faults /\ t.checkpoint = s.checkpoint

LEMMA SameIsGood ==
  ASSUME NEW s, NEW t, GoodStore(s), SameStory(s, t)
  PROVE  /\ GoodStore(t) /\ RespectsFaults(s, t)
         /\ \A object : RuntimeFollows(s, object) => RuntimeFollows(t, object)
<1>1. HeldLife(t) = HeldLife(s)
  BY DEF HeldLife, SameStory
<1>2. GoodStore(t)
  BY <1>1 DEF GoodStore, SameStory, RecordsAgree, CountersAgree
<1>3. RespectsFaults(s, t)
  BY DEF RespectsFaults, SameStory, CountedPoints
<1> QED BY <1>1, <1>2, <1>3 DEF RuntimeFollows, SameStory

LEMMA RespectsItself == \A s : RespectsFaults(s, s)
BY DEF RespectsFaults

\* The view of the operators is the checkpoint, and its events follow each other.
LEMMA GoodShows ==
  ASSUME GoodStore(mem), RuntimeFollows(mem, runtime)
  PROVE  EventsHold
<1>1. HeldLife(mem) = (IF mem.checkpoint = None THEN Fresh ELSE mem.checkpoint.lc)
  BY DEF HeldLife
<1>2. Sound(HeldLife(mem), mem.events)
  BY DEF GoodStore
<1> DEFINE lc == HeldLife(mem)
<1>3. lc \in Life /\ lc.open \in Event \cup {NoEvent}
  BY <1>2, LifeParts DEF Sound
<1>4. {e \in mem.events : e.end = 0} = {lc.open} \ {NoEvent}
  <2> HIDE DEF lc
  <2>1. \A e \in mem.events : e # NoEvent
    BY EventParts, <1>2 DEF Sound
  <2> QED BY <2>1, <1>2 DEF Sound, OpenIsShown, lc
<1>5. lc.closed # NoEvent => lc.closed \in mem.events
  BY <1>2 DEF Sound, ClosedIsLast
<1>6. ViewIsCheckpoint
  BY <1>1, <1>4, <1>5 DEF ViewIsCheckpoint, RuntimeFollows
<1>7. EventsFollow
  <2> SUFFICES ASSUME NEW e \in mem.events, NEW f \in mem.events, e # f
               PROVE  /\ \/ e.end # 0 /\ e.end <= f.start
                         \/ f.end # 0 /\ f.end <= e.start
                      /\ {PointKey(p) : p \in e.points} \cap {PointKey(p) : p \in f.points} = {}
    BY DEF EventsFollow
  <2>1. Apart(e, f) /\ Disjoint(e, f)
    BY <1>2 DEF Sound, EventsApart
  <2> QED BY <2>1 DEF Apart, Disjoint
<1> QED BY <1>6, <1>7 DEF EventsHold

-----------------------------------------------------------------------------
(* What is kept when records expire, and what the lock saves.              *)

LEMMA RangeIs ==
  ASSUME NEW r \in Seq(Packets)
  PROVE  /\ Range(r) = {r[i] : i \in 1 .. Len(r)}
         /\ Range(r) \in SUBSET Packets
BY LenProperties DEF Range

LEMMA StorageSet ==
  ASSUME NEW s \in Store, NEW how \in {"healthy", "degraded"}
  PROVE  LET t == [s EXCEPT !.storage = how] IN SameStory(s, t) /\ t.storage = how
BY DEF Store, SameStory

\* Retention drops what has expired, with the keys of what it dropped.
LEMMA RetainedIs ==
  ASSUME NEW s, GoodStore(s), cutoff \in Nat
  PROVE  LET t == Retained(s) IN
         /\ GoodStore(t) /\ RespectsFaults(s, t)
         /\ \A object : RuntimeFollows(s, object) => RuntimeFollows(t, object)
         /\ t.metrics = s.metrics /\ t.storage = s.storage
         /\ t.keys \subseteq s.keys
         /\ \A p \in s.keys : p \in t.keys \/ p.ts < cutoff
<1> DEFINE t == Retained(s)
           kept == Unexpired(s.records)
           keys == {p \in s.keys : \E q \in Range(kept) : PointKey(q) = PointKey(p)}
<1>1. s \in Store /\ s.records \in Seq(Packets) /\ s.keys \in SUBSET Packets
  BY StoreParts DEF GoodStore
<1>2. /\ KeptOf(s.records, Len(s.records), kept) /\ kept \in Seq(Packets)
  BY <1>1, UnexpiredIs DEF KeptOf
<1>3. CASE Len(kept) = Len(s.records)
  <2>1. t = s
    BY <1>3 DEF Retained
  <2>2. kept = s.records
    BY <1>1, <1>3, UnexpiredIs
  <2>3. \A p \in s.keys : p \in s.keys \/ p.ts < cutoff
    OBVIOUS
  <2> QED BY <2>1, <2>3, RespectsItself
<1>4. CASE Len(kept) # Len(s.records)
  <2>1. t = [s EXCEPT !.records = kept, !.keys = keys]
    BY <1>4 DEF Retained
  <2>2. keys \in SUBSET Packets
    BY <1>1
  <2> HIDE DEF kept
  <2>3. Range(kept) \subseteq Range(s.records)
    <3>1. \A i \in 1 .. Len(kept) : \E j \in 1 .. Len(s.records) : kept[i] = s.records[j]
      BY <1>2 DEF KeptOf
    <3> QED BY <3>1, <1>1, <1>2, RangeIs
  <2>4. keys = Range(kept)
    <3>1. s.keys = Range(s.records) /\ Distinct(s.records)
      BY DEF GoodStore, RecordsAgree
    <3>2. \A p, q \in s.keys : PointKey(p) = PointKey(q) => p = q
      BY <3>1, <1>1, RangeIs DEF Distinct
    <3> QED BY <2>3, <3>1, <3>2
  <2>5. \A p \in s.keys : p \in Range(kept) \/ p.ts < cutoff
    <3> SUFFICES ASSUME NEW p \in s.keys, ~(p.ts < cutoff) PROVE p \in Range(kept)
      OBVIOUS
    <3>1. PICK j \in 1 .. Len(s.records) : p = s.records[j]
      BY <1>1, RangeIs DEF GoodStore, RecordsAgree
    <3>2. p.ts >= cutoff
      <4>1. p.ts \in Nat
        BY <1>1, PacketParts
      <4> QED BY <4>1
    <3>3. PICK i \in 1 .. Len(kept) : kept[i] = p
      BY <3>1, <3>2, <1>2 DEF KeptOf
    <3> QED BY <3>3, <1>2, RangeIs
  <2> HIDE DEF keys
  <2>6. /\ t \in Store /\ t.records = kept /\ t.keys = keys
        /\ t.metrics = s.metrics /\ t.storage = s.storage /\ t.quarantine = s.quarantine
        /\ t.events = s.events /\ t.faults = s.faults /\ t.checkpoint = s.checkpoint
    BY <2>1, <2>2, <1>1, <1>2 DEF Store
  <2> HIDE DEF t
  <2>7. RecordsAgree(t)
    BY <2>4, <2>6, <1>2 DEF RecordsAgree, GoodStore, KeptOf
  <2>8. HeldLife(t) = HeldLife(s)
    BY <2>6 DEF HeldLife
  <2>9. GoodStore(t)
    BY <2>6, <2>7, <2>8 DEF GoodStore, CountersAgree
  <2>10. RespectsFaults(s, t)
    BY <2>6 DEF RespectsFaults, CountedPoints
  <2>11. \A object : RuntimeFollows(s, object) => RuntimeFollows(t, object)
    BY <2>6, <2>8 DEF RuntimeFollows
  <2>12. t.keys \subseteq s.keys
    BY <2>3, <2>4, <2>6 DEF GoodStore, RecordsAgree
  <2> QED BY <2>4, <2>5, <2>6, <2>9, <2>10, <2>11, <2>12 DEF t
<1> QED BY <1>3, <1>4

LEMMA CheckpointIs ==
  ASSUME NEW s, GoodStore(s), cutoff \in Nat
  PROVE  LET t == Checkpoint(s) IN
         /\ GoodStore(t) /\ RespectsFaults(s, t)
         /\ \A object : RuntimeFollows(s, object) => RuntimeFollows(t, object)
         /\ t.storage = "healthy" /\ t = [t EXCEPT !.storage = "healthy"]
         /\ t.keys \subseteq s.keys
         /\ \A p \in s.keys : p \in t.keys \/ p.ts < cutoff
<1> DEFINE u == Retained(s)
           t == Checkpoint(s)
<1>1. /\ GoodStore(u) /\ RespectsFaults(s, u)
      /\ \A object : RuntimeFollows(s, object) => RuntimeFollows(u, object)
      /\ u.keys \subseteq s.keys
      /\ \A p \in s.keys : p \in u.keys \/ p.ts < cutoff
  BY RetainedIs
<1>2. t = [u EXCEPT !.storage = "healthy"]
  BY DEF Checkpoint
<1> HIDE DEF u, t
<1>3. SameStory(u, t) /\ t.storage = "healthy"
  BY <1>1, <1>2, StorageSet DEF GoodStore
<1>4. /\ GoodStore(t)
      /\ \A object : RuntimeFollows(u, object) => RuntimeFollows(t, object)
  BY <1>1, <1>3, SameIsGood
<1>5. RespectsFaults(s, t)
  BY <1>1, <1>3 DEF RespectsFaults, SameStory, CountedPoints
<1>6. t = [t EXCEPT !.storage = "healthy"]
  BY <1>3 DEF SameStory, Store
<1>7. t.keys = u.keys
  BY <1>3 DEF SameStory
<1> QED BY <1>1, <1>3, <1>4, <1>5, <1>6, <1>7 DEF t

\* After a good state, whatever the request wrote and however it ended.
DiskIsMemory == disk = [mem EXCEPT !.storage = "healthy"]

Outcome(new, how) ==
  /\ GoodStore(mem') /\ RuntimeFollows(mem', runtime') /\ DiskIsMemory'
  /\ RespectsFaults(disk, disk')
  /\ rare' \in Nat
  /\ how = "failed" => mem'.keys = mem.keys
  /\ how # "failed" => \A p \in new.keys : p \in mem'.keys \/ p.ts < cutoff

LEMMA RespectsDisk ==
  ASSUME GoodStore(mem), DiskIsMemory,
         NEW new, RespectsFaults(mem, new)
  PROVE  RespectsFaults(disk, new)
<1>1. SameStory(mem, disk)
  BY StorageSet DEF DiskIsMemory, GoodStore
<1> QED BY <1>1 DEF RespectsFaults, SameStory, CountedPoints

LEMMA NoObject == \A s : RuntimeFollows(s, None)
BY DEF RuntimeFollows

LEMMA SavedIs ==
  ASSUME GoodStore(mem), DiskIsMemory, cutoff \in Nat,
         NEW new, GoodStore(new), RespectsFaults(mem, new),
         NEW object, RuntimeFollows(new, object),
         mem' = Checkpoint(new), disk' = Checkpoint(new), runtime' \in {object, None}
  PROVE  /\ GoodStore(mem') /\ RuntimeFollows(mem', runtime') /\ DiskIsMemory'
         /\ RespectsFaults(disk, disk')
         /\ \A p \in new.keys : p \in mem'.keys \/ p.ts < cutoff
<1>1. /\ GoodStore(mem') /\ RespectsFaults(new, mem')
      /\ \A o : RuntimeFollows(new, o) => RuntimeFollows(mem', o)
      /\ mem' = [mem' EXCEPT !.storage = "healthy"]
      /\ \A p \in new.keys : p \in mem'.keys \/ p.ts < cutoff
  BY CheckpointIs
<1>2. RuntimeFollows(mem', runtime')
  BY <1>1, NoObject
<1>3. RespectsFaults(disk, new)
  BY RespectsDisk
<1>4. mem'.events = new.events
  BY DEF Checkpoint, Retained, GoodStore, Store
<1>5. RespectsFaults(disk, disk')
  BY <1>3, <1>4 DEF RespectsFaults, CountedPoints
<1> QED BY <1>1, <1>2, <1>5 DEF DiskIsMemory

\* The lock is released after a request that wrote a good store.
LEMMA ReleaseIs ==
  ASSUME GoodStore(mem), RuntimeFollows(mem, runtime), DiskIsMemory,
         cutoff \in Nat, rare \in Nat,
         NEW new, GoodStore(new), RespectsFaults(mem, new),
         NEW object, RuntimeFollows(new, object),
         NEW how, NEW late, Release(new, object, how, late)
  PROVE  Outcome(new, how)
<1>1. rare' \in Nat
  BY DEF Release, Cost
<1>2. \/ /\ how = "done" /\ new = mem /\ runtime' = object /\ mem' = mem /\ disk' = disk
      \/ /\ how = "done" /\ mem' = Checkpoint(new) /\ disk' = Checkpoint(new)
         /\ runtime' = object
      \/ /\ how = "failed" /\ mem' = [mem EXCEPT !.storage = "degraded"]
         /\ runtime' = None /\ disk' = disk
      \/ /\ how = "stopped" /\ mem' = Checkpoint(new) /\ disk' = Checkpoint(new)
         /\ runtime' = None
  BY DEF Release
<1>3. CASE how = "done" /\ new = mem /\ runtime' = object /\ mem' = mem /\ disk' = disk
  <2>1. GoodStore(mem') /\ RuntimeFollows(mem', runtime')
    BY <1>3
  <2>2. DiskIsMemory' /\ RespectsFaults(disk, disk')
    BY <1>3, RespectsItself DEF DiskIsMemory
  <2>3. \A p \in new.keys : p \in mem'.keys \/ p.ts < cutoff
    BY <1>3
  <2> QED BY <1>1, <1>3, <2>1, <2>2, <2>3 DEF Outcome
<1>4. CASE /\ how \in {"done", "stopped"} /\ mem' = Checkpoint(new)
           /\ disk' = Checkpoint(new) /\ runtime' \in {object, None}
  BY <1>1, <1>4, SavedIs DEF Outcome
<1>5. CASE /\ how = "failed" /\ mem' = [mem EXCEPT !.storage = "degraded"]
           /\ runtime' = None /\ disk' = disk
  <2>1. SameStory(mem, mem') /\ mem \in Store
    BY <1>5, StorageSet DEF GoodStore
  <2>2. GoodStore(mem') /\ RuntimeFollows(mem', runtime')
    BY <1>5, <2>1, SameIsGood, NoObject
  <2>3. DiskIsMemory'
    BY <1>5, <2>1 DEF DiskIsMemory, Store
  <2>4. RespectsFaults(disk, disk') /\ mem'.keys = mem.keys
    BY <1>5, <2>1, RespectsItself DEF SameStory
  <2> QED BY <1>1, <1>5, <2>2, <2>3, <2>4 DEF Outcome
<1> QED BY <1>2, <1>3, <1>4, <1>5

-----------------------------------------------------------------------------
(* What each request writes.                                               *)

\* A counter of the metrics is a natural number, and only the named one and the
\* requests go up.
LEMMA CountedIs ==
  ASSUME NEW s \in Store, NEW what \in {"accepted", "duplicates", "rejected"}
  PROVE  LET t == Counted(s, what) IN
         /\ t \in Store
         /\ t.records = s.records /\ t.keys = s.keys /\ t.quarantine = s.quarantine
         /\ t.events = s.events /\ t.faults = s.faults /\ t.checkpoint = s.checkpoint
         /\ t.metrics.requests = s.metrics.requests + 1
         /\ t.metrics[what] = s.metrics[what] + 1
         /\ \A other \in {"accepted", "duplicates", "rejected"} \ {what} :
              t.metrics[other] = s.metrics[other]
<1> DEFINE counted == [s.metrics EXCEPT ![what] = @ + 1]
           summed == [counted EXCEPT !.requests = @ + 1]
           t == Counted(s, what)
<1>1. s.metrics \in Metrics
  BY StoreParts
<1>2. counted \in Metrics /\ counted[what] = s.metrics[what] + 1
      /\ \A other \in {"requests", "accepted", "duplicates", "rejected"} \ {what} :
           counted[other] = s.metrics[other]
  BY <1>1 DEF Metrics
<1>3. /\ summed \in Metrics /\ summed.requests = s.metrics.requests + 1
      /\ summed[what] = s.metrics[what] + 1
      /\ \A other \in {"accepted", "duplicates", "rejected"} \ {what} :
           summed[other] = s.metrics[other]
  <2> HIDE DEF counted
  <2> QED BY <1>2 DEF Metrics
<1>4. t = [s EXCEPT !.metrics = summed]
  BY <1>1 DEF Counted, Store, Metrics
<1> HIDE DEF summed
<1>5. /\ t \in Store /\ t.metrics = summed
      /\ t.records = s.records /\ t.keys = s.keys /\ t.quarantine = s.quarantine
      /\ t.events = s.events /\ t.faults = s.faults /\ t.checkpoint = s.checkpoint
  BY <1>3, <1>4 DEF Store
<1> QED BY <1>3, <1>5

\* The same but for the counters.
SameEvents(s, t) ==
  /\ t.events = s.events /\ t.faults = s.faults /\ t.checkpoint = s.checkpoint

LEMMA EventsSame ==
  ASSUME NEW s, NEW t, GoodStore(s), SameEvents(s, t), t \in Store,
         RecordsAgree(t), CountersAgree(t)
  PROVE  /\ GoodStore(t) /\ RespectsFaults(s, t)
         /\ \A object : RuntimeFollows(s, object) => RuntimeFollows(t, object)
<1>1. HeldLife(t) = HeldLife(s)
  BY DEF HeldLife, SameEvents
<1> QED BY <1>1 DEF GoodStore, RespectsFaults, SameEvents, CountedPoints, RuntimeFollows

LEMMA DuplicateIs ==
  ASSUME NEW s, GoodStore(s)
  PROVE  LET t == Counted(s, "duplicates") IN
         /\ GoodStore(t) /\ RespectsFaults(s, t) /\ t.keys = s.keys
         /\ \A object : RuntimeFollows(s, object) => RuntimeFollows(t, object)
<1> DEFINE t == Counted(s, "duplicates")
<1>1. s \in Store /\ s.metrics \in Metrics
  BY StoreParts DEF GoodStore
<1>2. /\ t \in Store /\ t.records = s.records /\ t.keys = s.keys
      /\ t.quarantine = s.quarantine /\ SameEvents(s, t)
      /\ t.metrics.requests = s.metrics.requests + 1
      /\ t.metrics.duplicates = s.metrics.duplicates + 1
      /\ t.metrics.accepted = s.metrics.accepted /\ t.metrics.rejected = s.metrics.rejected
  BY <1>1, CountedIs DEF SameEvents
<1> HIDE DEF t
<1>3. RecordsAgree(t)
  BY <1>2 DEF GoodStore, RecordsAgree
<1>4. CountersAgree(t)
  BY <1>1, <1>2 DEF GoodStore, CountersAgree, Metrics
<1> QED BY <1>2, <1>3, <1>4, EventsSame DEF t

LEMMA RejectedIs ==
  ASSUME NEW s, GoodStore(s)
  PROVE  LET t == [Counted(s, "rejected") EXCEPT !.quarantine = @ + 1] IN
         /\ GoodStore(t) /\ RespectsFaults(s, t) /\ t.keys = s.keys
         /\ \A object : RuntimeFollows(s, object) => RuntimeFollows(t, object)
<1> DEFINE c == Counted(s, "rejected")
           t == [c EXCEPT !.quarantine = @ + 1]
<1>1. s \in Store /\ s.metrics \in Metrics
  BY StoreParts DEF GoodStore
<1>2. /\ c \in Store /\ c.records = s.records /\ c.keys = s.keys
      /\ c.quarantine = s.quarantine /\ SameEvents(s, c)
      /\ c.metrics.requests = s.metrics.requests + 1
      /\ c.metrics.rejected = s.metrics.rejected + 1
      /\ c.metrics.accepted = s.metrics.accepted /\ c.metrics.duplicates = s.metrics.duplicates
  BY <1>1, CountedIs DEF SameEvents
<1> HIDE DEF c
<1>3. /\ t \in Store /\ t.records = s.records /\ t.keys = s.keys
      /\ t.quarantine = s.quarantine + 1 /\ SameEvents(s, t) /\ t.metrics = c.metrics
  <2> DEFINE n == c.quarantine + 1
  <2>1. n \in Nat /\ n = s.quarantine + 1
    BY <1>2, StoreParts
  <2>2. t = [c EXCEPT !.quarantine = n]
    OBVIOUS
  <2> HIDE DEF n, t
  <2> QED BY <1>2, <2>1, <2>2 DEF Store, SameEvents
<1> HIDE DEF t
<1>4. RecordsAgree(t)
  BY <1>3 DEF GoodStore, RecordsAgree
<1>5. CountersAgree(t)
  BY <1>1, <1>2, <1>3 DEF GoodStore, CountersAgree, Metrics
<1> QED BY <1>3, <1>4, <1>5, EventsSame DEF t, c

LEMMA QuarantinedIs ==
  ASSUME NEW s, GoodStore(s), NEW k \in MqttKeys
  PROVE  LET t == [Counted(s, "rejected") EXCEPT
                     !.metrics.local = @ + 1, !.quarantine = @ + 1, !.mqttKeys = @ \cup {k}] IN
         /\ GoodStore(t) /\ RespectsFaults(s, t) /\ t.keys = s.keys
         /\ \A object : RuntimeFollows(s, object) => RuntimeFollows(t, object)
<1> DEFINE c == Counted(s, "rejected")
           m == [c.metrics EXCEPT !.local = @ + 1]
           t == [c EXCEPT !.metrics.local = @ + 1, !.quarantine = @ + 1, !.mqttKeys = @ \cup {k}]
<1>1. s \in Store /\ s.metrics \in Metrics
  BY StoreParts DEF GoodStore
<1>2. /\ c \in Store /\ c.records = s.records /\ c.keys = s.keys
      /\ c.quarantine = s.quarantine /\ SameEvents(s, c)
      /\ c.metrics.requests = s.metrics.requests + 1
      /\ c.metrics.rejected = s.metrics.rejected + 1
      /\ c.metrics.accepted = s.metrics.accepted /\ c.metrics.duplicates = s.metrics.duplicates
  BY <1>1, CountedIs DEF SameEvents
<1> HIDE DEF c
<1>3. /\ m \in Metrics /\ m.requests = c.metrics.requests /\ m.rejected = c.metrics.rejected
      /\ m.accepted = c.metrics.accepted /\ m.duplicates = c.metrics.duplicates
  <2>1. c.metrics \in Metrics
    BY <1>2, StoreParts
  <2> QED BY <2>1 DEF Metrics
<1> DEFINE n == c.quarantine + 1
           all == c.mqttKeys \cup {k}
<1>4. t = [c EXCEPT !.metrics = m, !.quarantine = n, !.mqttKeys = all]
  OBVIOUS
<1>5. n \in Nat /\ n = s.quarantine + 1 /\ all \in SUBSET MqttKeys
  BY <1>2, StoreParts
<1> HIDE DEF m, n, all, t
<1>6. /\ t \in Store /\ t.records = s.records /\ t.keys = s.keys
      /\ t.quarantine = s.quarantine + 1 /\ SameEvents(s, t) /\ t.metrics = m
  BY <1>2, <1>3, <1>4, <1>5 DEF Store, SameEvents
<1>7. RecordsAgree(t)
  BY <1>6 DEF GoodStore, RecordsAgree
<1>8. CountersAgree(t)
  BY <1>1, <1>2, <1>3, <1>6 DEF GoodStore, CountersAgree, Metrics
<1> QED BY <1>6, <1>7, <1>8, EventsSame DEF t, c

\* The lifecycle that is in memory or is made from the checkpoint.
LEMMA LifeIs ==
  ASSUME NEW s, GoodStore(s), RuntimeFollows(s, runtime)
  PROVE  LET lc == LifecycleOf(s) IN
         /\ Sound(lc, s.events) /\ FaultsKnown(lc, s.faults)
         /\ RuntimeFollows(s, [lc |-> lc, version |-> s.rule.version])
<1> DEFINE lc == LifecycleOf(s)
<1>1. /\ Sound(HeldLife(s), s.events) /\ FaultsKnown(HeldLife(s), s.faults)
      /\ HeldLife(s) \in Life /\ s.rule.version \in Nat
      /\ s.checkpoint \in Held \cup {None}
  BY StoreParts DEF GoodStore, Sound
<1>2. /\ Sound(DropStreaks(HeldLife(s)), s.events)
      /\ FaultsKnown(DropStreaks(HeldLife(s)), s.faults)
      /\ DropStreaks(HeldLife(s)) \in Life
  <2>1. Sound(DropStreaks(HeldLife(s)), s.events)
    BY <1>1, SoundDropped
  <2>2. DropStreaks(HeldLife(s)).cand = {}
        /\ DropStreaks(HeldLife(s)).boundary = HeldLife(s).boundary
    BY <1>1, StreaksDropped
  <2> QED BY <1>1, <2>1, <2>2 DEF FaultsKnown, Sound
<1>3. lc = IF s.checkpoint # None /\ s.rule.version # s.checkpoint.version
           THEN DropStreaks(HeldLife(s)) ELSE HeldLife(s)
  <2>1. CASE runtime # None /\ runtime.version = s.rule.version
    BY <2>1 DEF LifecycleOf, RuntimeFollows
  <2>2. CASE ~(runtime # None /\ runtime.version = s.rule.version)
    BY <2>2 DEF LifecycleOf, HeldLife
  <2> QED BY <2>1, <2>2
<1> HIDE DEF lc
<1>4. Sound(lc, s.events) /\ FaultsKnown(lc, s.faults) /\ lc \in Life
  BY <1>1, <1>2, <1>3
<1>5. [lc |-> lc, version |-> s.rule.version] \in Held
  BY <1>1, <1>4 DEF Held
<1> QED BY <1>3, <1>4, <1>5 DEF RuntimeFollows, lc

\* persist_transaction: checkpoint and view are changed together.
LEMMA PersistedIs ==
  ASSUME NEW s \in Store, RecordsAgree(s), CountersAgree(s), NEW lc, NEW next \in Life, NEW t,
         Updated(lc, next, t) \in Event \cup {NoEvent},
         Sound(next, Shown(s.events, Updated(lc, next, t))),
         FaultsKnown(next, s.faults)
  PROVE  LET new == Persisted(s, lc, next, t)
             object == [lc |-> next, version |-> s.rule.version] IN
         /\ GoodStore(new) /\ RuntimeFollows(new, object)
         /\ new.events = Shown(s.events, Updated(lc, next, t))
         /\ new.keys = s.keys /\ new.records = s.records
         /\ new.metrics = s.metrics /\ new.quarantine = s.quarantine
         /\ new.faults = s.faults
<1> DEFINE new == Persisted(s, lc, next, t)
           object == [lc |-> next, version |-> s.rule.version]
           v == Updated(lc, next, t)
           c == [s EXCEPT !.checkpoint = object]
<1>1. s \in Store /\ s.rule.version \in Nat /\ s.events \in SUBSET Event
  BY StoreParts
<1>2. object \in Held /\ object # None
  <2>1. object \in Held
    BY <1>1 DEF Held
  <2> QED BY <2>1, HeldParts
<1> HIDE DEF v
<1>3. /\ c \in Store /\ c.events = s.events /\ c.checkpoint = object
      /\ c.records = s.records /\ c.keys = s.keys /\ c.metrics = s.metrics
      /\ c.quarantine = s.quarantine /\ c.faults = s.faults
  <2> HIDE DEF object
  <2> QED BY <1>1, <1>2 DEF Store
<1>4. new = ShowEvent(c, v)
  BY DEF Persisted, v
<1> HIDE DEF c, new
<1>5. /\ new \in Store /\ new.events = Shown(s.events, v) /\ new.checkpoint = object
      /\ new.records = s.records /\ new.keys = s.keys /\ new.metrics = s.metrics
      /\ new.quarantine = s.quarantine /\ new.faults = s.faults
  <2>1. CASE v = NoEvent
    BY <2>1, <1>3, <1>4 DEF ShowEvent, Shown
  <2>2. CASE v # NoEvent
    <3> DEFINE shown == {e \in c.events : e.id # v.id} \cup {v}
    <3>1. new = [c EXCEPT !.events = shown]
      BY <2>2, <1>4 DEF ShowEvent
    <3>2. shown \in SUBSET Event /\ shown = Shown(s.events, v)
      BY <2>2, <1>1, <1>3 DEF Shown, v
    <3> HIDE DEF shown
    <3> QED BY <3>1, <3>2, <1>3 DEF Store
  <2> QED BY <2>1, <2>2
<1>6. HeldLife(new) = next
  BY <1>2, <1>5 DEF HeldLife
<1>7. GoodStore(new)
  BY <1>5, <1>6 DEF GoodStore, RecordsAgree, CountersAgree, v
<1>8. RuntimeFollows(new, object)
  BY <1>2, <1>5, <1>6 DEF RuntimeFollows
<1> QED BY <1>5, <1>7, <1>8 DEF new, v

\* process_accepted_telemetry, for a point that is stored.
LEMMA AnalysedIs ==
  ASSUME NEW s, GoodStore(s), RuntimeFollows(s, runtime), NEW p \in Packets
  PROVE  LET result == Analysed(s, p)
             new == result.store
         IN  /\ GoodStore(new) /\ RuntimeFollows(new, result.runtime)
             /\ RespectsFaults(s, new)
             /\ new.keys = s.keys /\ new.records = s.records
             /\ new.metrics = s.metrics /\ new.quarantine = s.quarantine
<1> DEFINE lc == LifecycleOf(s)
           fault == Faulty(s, p.dev)
           next == ProcessPoint(lc, p, fault)
           v == Updated(lc, next, p.ts)
           extra == IF fault THEN {} ELSE lc.cand \cup {p}
           result == Analysed(s, p)
<1>1. /\ Sound(lc, s.events) /\ FaultsKnown(lc, s.faults)
      /\ RuntimeFollows(s, [lc |-> lc, version |-> s.rule.version])
  BY LifeIs
<1>2. CASE ~s.rule.active /\ ~fault
  <2>1. result.store = s /\ result.runtime = runtime
    BY <1>2 DEF Analysed
  <2> QED BY <2>1, RespectsItself
<1>3. CASE ~(~s.rule.active /\ ~fault) /\ ~Processable(lc, p)
  <2>1. result.store = s /\ result.runtime = [lc |-> lc, version |-> s.rule.version]
    BY <1>3 DEF Analysed
  <2> QED BY <2>1, <1>1, RespectsItself
<1>4. CASE ~(~s.rule.active /\ ~fault) /\ Processable(lc, p)
  <2>1. /\ result.store = Persisted(s, lc, next, p.ts)
        /\ result.runtime = [lc |-> next, version |-> s.rule.version]
    BY <1>4 DEF Analysed
  <2>2. fault \in BOOLEAN
    BY DEF Faulty
  <2> HIDE DEF lc, fault
  <2>3. StepSound(lc, s.events, next, v, extra)
    BY <1>1, <1>4, <2>2, PointSound
  <2> HIDE DEF next, v, extra, result
  <2>4. /\ Sound(next, Shown(s.events, v)) /\ v \in Event \cup {NoEvent}
        /\ next.boundary = lc.boundary /\ next.cand \subseteq extra
        /\ Respects(s.events, Shown(s.events, v), extra)
    BY <2>3 DEF StepSound
  <2>5. \A f \in s.faults : f.told =>
          \A q \in extra : q.dev = f.dev => f.end # 0 /\ q.ts > f.end
    <3> SUFFICES ASSUME NEW f \in s.faults, f.told, NEW q \in extra, q.dev = f.dev
                 PROVE  f.end # 0 /\ q.ts > f.end
      OBVIOUS
    <3>1. ~fault /\ (q \in lc.cand \/ q = p)
      BY DEF extra
    <3>2. CASE q \in lc.cand
      BY <3>2, <1>1 DEF FaultsKnown
    <3>3. CASE q = p
      <4>1. f.end # 0
        BY <3>1, <3>3 DEF fault, Faulty
      <4>2. f.end <= lc.boundary /\ p.ts > lc.boundary
        BY <4>1, <1>1, <1>4 DEF FaultsKnown, Processable
      <4>3. f.end \in Nat /\ lc.boundary \in Nat /\ p.ts \in Nat
        <5>1. f.end \in Nat
          BY StoreParts, FaultParts DEF GoodStore
        <5> QED BY <5>1, <1>1, LifeParts, PacketParts DEF Sound
      <4> QED BY <3>3, <4>1, <4>2, <4>3
    <3> QED BY <3>1, <3>2, <3>3
  <2>6. FaultsKnown(next, s.faults)
    BY <2>4, <2>5, <1>1 DEF FaultsKnown
  <2>7. /\ GoodStore(result.store) /\ RuntimeFollows(result.store, result.runtime)
        /\ result.store.events = Shown(s.events, v)
        /\ result.store.keys = s.keys /\ result.store.records = s.records
        /\ result.store.metrics = s.metrics /\ result.store.quarantine = s.quarantine
    BY <2>1, <2>4, <2>6, PersistedIs DEF v, Sound, GoodStore
  <2>8. RespectsFaults(s, result.store)
    <3>1. \A q \in CountedPoints(result.store) \ CountedPoints(s) : q \in extra
      BY <2>4, <2>7 DEF Respects, CountedPoints
    <3> QED BY <3>1, <2>4, <2>5, <2>7 DEF Respects, RespectsFaults
  <2> QED BY <2>7, <2>8 DEF result
<1> QED BY <1>2, <1>3, <1>4

\* What Recorded stores: the packet, and at most MaxRecords of them.
LEMMA RecordedIs ==
  ASSUME NEW s, GoodStore(s), NEW p \in Packets, ~Known(s, p)
  PROVE  LET t == Recorded(s, p) IN
         /\ GoodStore(t) /\ RespectsFaults(s, t) /\ p \in t.keys
         /\ \A object : RuntimeFollows(s, object) => RuntimeFollows(t, object)
         /\ \A q \in s.keys : q \in t.keys \/ q \in Range(s.records) \ Range(t.records)
         /\ Range(s.records) \subseteq Packets
         /\ t.metrics = s.metrics
<1> DEFINE all == Append(s.records, p)
           n == IF Surplus(all) > 0 THEN Surplus(all) ELSE 0
           gone == Range(SubSeq(all, 1, n))
           left == SubSeq(all, n + 1, Len(all))
           keys == {q \in s.keys \cup {p} : \A g \in gone : PointKey(q) # PointKey(g)}
           t == Recorded(s, p)
<1>1. /\ s \in Store /\ s.records \in Seq(Packets) /\ s.keys \in SUBSET Packets
      /\ s.offline \in SUBSET Devices
      /\ s.keys = Range(s.records) /\ Distinct(s.records)
  BY StoreParts DEF GoodStore, RecordsAgree
<1>2. /\ all \in Seq(Packets) /\ Len(all) = Len(s.records) + 1 /\ Len(s.records) \in Nat
      /\ \A i \in 1 .. Len(s.records) : all[i] = s.records[i]
      /\ all[Len(all)] = p
  <2>1. Len(s.records) \in Nat
    BY <1>1, LenProperties
  <2> QED BY <1>1, <2>1, AppendProperties
<1>3. MaxRecords \in Nat \ {0}
  BY TelemetryConstants
<1>4. n \in Nat /\ n < Len(all)
  BY <1>2, <1>3 DEF Surplus
<1> HIDE DEF all, n
<1>5. /\ left \in Seq(Packets) /\ Len(left) = Len(all) - n
      /\ \A i \in 1 .. Len(left) : left[i] = all[n + i]
  <2>1. \A i \in n + 1 .. Len(all) : all[i] \in Packets
    BY <1>2, <1>4
  <2>2. /\ left \in Seq(Packets)
        /\ Len(left) = IF n + 1 <= Len(all) THEN Len(all) - (n + 1) + 1 ELSE 0
        /\ \A i \in 1 .. Len(all) - (n + 1) + 1 : left[i] = all[(n + 1) + i - 1]
    BY <2>1, <1>2, <1>4, SubSeqProperties
  <2>3. Len(left) = Len(all) - n
    BY <2>2, <1>2, <1>4
  <2>4. \A i \in 1 .. Len(left) : left[i] = all[n + i]
    <3> SUFFICES ASSUME NEW i \in 1 .. Len(left) PROVE left[i] = all[n + i]
      OBVIOUS
    <3>1. i \in 1 .. Len(all) - (n + 1) + 1 /\ (n + 1) + i - 1 = n + i
      BY <2>3, <1>2, <1>4
    <3> QED BY <3>1, <2>2
  <2> QED BY <2>2, <2>3, <2>4
<1>6. gone = {all[i] : i \in 1 .. n}
  <2> DEFINE first == SubSeq(all, 1, n)
  <2>1. \A i \in 1 .. n : all[i] \in Packets
    BY <1>2, <1>4
  <2>2. /\ first \in Seq(Packets) /\ Len(first) = IF 1 <= n THEN n - 1 + 1 ELSE 0
        /\ \A i \in 1 .. n - 1 + 1 : first[i] = all[1 + i - 1]
    BY <2>1, <1>4, SubSeqProperties
  <2>3. Len(first) = n
    BY <2>2, <1>4
  <2>4. \A i \in 1 .. n : first[i] = all[i]
    <3> SUFFICES ASSUME NEW i \in 1 .. n PROVE first[i] = all[i]
      OBVIOUS
    <3>1. i \in 1 .. n - 1 + 1 /\ 1 + i - 1 = i
      BY <1>4
    <3> QED BY <3>1, <2>2
  <2> HIDE DEF first
  <2>5. Range(first) = {all[i] : i \in 1 .. n}
    BY <2>2, <2>3, <2>4, RangeIs
  <2> QED BY <2>5 DEF first
<1> HIDE DEF left, gone
<1>7. Distinct(all)
  <2>1. \A i \in 1 .. Len(s.records) : PointKey(s.records[i]) # PointKey(p)
    BY <1>1, RangeIs DEF Known
  <2>2. \A i \in 1 .. Len(all) : i \in 1 .. Len(s.records) \/ i = Len(all)
    BY <1>2
  <2>3. \A i, j \in 1 .. Len(s.records) : PointKey(all[i]) = PointKey(all[j]) => i = j
    BY <1>1, <1>2 DEF Distinct
  <2>4. \A i \in 1 .. Len(s.records) : PointKey(all[i]) # PointKey(all[Len(all)])
    BY <2>1, <1>2
  <2> QED BY <2>2, <2>3, <2>4 DEF Distinct
<1>8. s.keys \cup {p} = {all[i] : i \in 1 .. Len(all)}
  <2>1. Range(s.records) = {s.records[i] : i \in 1 .. Len(s.records)}
    BY <1>1, RangeIs
  <2>2. 1 .. Len(all) = (1 .. Len(s.records)) \cup {Len(all)}
    BY <1>2
  <2>3. {all[i] : i \in 1 .. Len(all)} = {all[i] : i \in 1 .. Len(s.records)} \cup {p}
    BY <2>2, <1>2
  <2>4. {all[i] : i \in 1 .. Len(s.records)} = Range(s.records)
    BY <2>1, <1>2
  <2> QED BY <2>3, <2>4, <1>1
<1>9. keys = {all[i] : i \in n + 1 .. Len(all)}
  <2>1. ASSUME NEW i \in n + 1 .. Len(all) PROVE all[i] \in keys
    <3>1. i \in 1 .. Len(all) /\ \A j \in 1 .. n : j \in 1 .. Len(all) /\ j # i
      BY <1>2, <1>4
    <3>2. \A j \in 1 .. n : PointKey(all[i]) # PointKey(all[j])
      BY <3>1, <1>7 DEF Distinct
    <3> QED BY <3>1, <3>2, <1>6, <1>8
  <2>2. ASSUME NEW q \in keys PROVE q \in {all[i] : i \in n + 1 .. Len(all)}
    <3>1. PICK i \in 1 .. Len(all) : q = all[i]
      BY <1>8
    <3>2. all[i] \notin gone
      BY <3>1
    <3>3. i \notin 1 .. n
      BY <3>2, <1>6
    <3>4. i \in n + 1 .. Len(all)
      BY <3>3, <1>2, <1>4
    <3> QED BY <3>1, <3>4
  <2> QED BY <2>1, <2>2
<1>10. Range(left) = keys
  <2>1. Range(left) = {left[i] : i \in 1 .. Len(left)}
    BY <1>5, RangeIs
  <2>2. ASSUME NEW i \in 1 .. Len(left) PROVE left[i] \in {all[j] : j \in n + 1 .. Len(all)}
    <3>1. n + i \in n + 1 .. Len(all)
      BY <1>2, <1>4, <1>5
    <3> QED BY <3>1, <1>5
  <2>3. ASSUME NEW j \in n + 1 .. Len(all) PROVE all[j] \in {left[i] : i \in 1 .. Len(left)}
    <3>1. j - n \in 1 .. Len(left) /\ n + (j - n) = j
      BY <1>2, <1>4, <1>5
    <3> QED BY <3>1, <1>5
  <2> QED BY <2>1, <2>2, <2>3, <1>9
<1>11. Distinct(left)
  <2> SUFFICES ASSUME NEW i \in 1 .. Len(left), NEW j \in 1 .. Len(left),
                      PointKey(left[i]) = PointKey(left[j])
               PROVE  i = j
    BY DEF Distinct
  <2>1. n + i \in 1 .. Len(all) /\ n + j \in 1 .. Len(all)
    BY <1>2, <1>4, <1>5
  <2>2. PointKey(all[n + i]) = PointKey(all[n + j])
    BY <1>5
  <2>3. n + i = n + j
    BY <2>1, <2>2, <1>7 DEF Distinct
  <2> QED BY <2>3, <1>4
<1>12. t = [s EXCEPT !.records = left, !.keys = keys, !.offline = @ \ {p.dev}]
  BY DEF Recorded, all, n, left, gone
<1>13. keys \in SUBSET Packets
  BY <1>1
<1>14. p \in keys
  <2>1. Len(all) \in n + 1 .. Len(all)
    BY <1>2, <1>4
  <2> QED BY <2>1, <1>2, <1>9
<1>15. \A q \in s.keys : q \in keys \/ q \in Range(s.records) \ keys
  BY <1>1
<1> HIDE DEF keys, t
<1>16. /\ t \in Store /\ t.records = left /\ t.keys = keys /\ t.metrics = s.metrics
       /\ t.quarantine = s.quarantine /\ SameEvents(s, t)
  BY <1>1, <1>5, <1>12, <1>13 DEF Store, SameEvents
<1>17. RecordsAgree(t) /\ CountersAgree(t)
  BY <1>10, <1>11, <1>16 DEF RecordsAgree, CountersAgree, GoodStore
<1> QED BY <1>1, <1>10, <1>14, <1>15, <1>16, <1>17, EventsSame DEF t

\* A packet that is new to a mapped device.
LEMMA AcceptedIs ==
  ASSUME GoodStore(mem), RuntimeFollows(mem, runtime), NEW p \in Packets, ~Known(mem, p)
  PROVE  LET stored == Recorded(mem, p)
             result == Analysed(stored, p)
             new == Counted(result.store, "accepted")
         IN  /\ GoodStore(new) /\ RespectsFaults(mem, new)
             /\ RuntimeFollows(new, result.runtime)
             /\ p \in new.keys
             /\ \A q \in mem.keys :
                  q \in new.keys \/ q \in Range(mem.records) \ Range(stored.records)
             /\ Range(mem.records) \subseteq Packets
<1> DEFINE stored == Recorded(mem, p)
           result == Analysed(stored, p)
           new == Counted(result.store, "accepted")
<1>1. /\ GoodStore(stored) /\ RespectsFaults(mem, stored) /\ p \in stored.keys
      /\ RuntimeFollows(stored, runtime)
      /\ \A q \in mem.keys :
           q \in stored.keys \/ q \in Range(mem.records) \ Range(stored.records)
      /\ Range(mem.records) \subseteq Packets
      /\ stored.metrics = mem.metrics
  BY RecordedIs
<1>2. stored.events = mem.events /\ stored.faults = mem.faults
  BY DEF Recorded, GoodStore, Store
<1> HIDE DEF stored
<1>3. /\ GoodStore(result.store) /\ RuntimeFollows(result.store, result.runtime)
      /\ RespectsFaults(stored, result.store) /\ result.store.keys = stored.keys
  BY <1>1, AnalysedIs
<1> HIDE DEF result
<1>4. result.store \in Store /\ result.store.metrics \in Metrics
  BY <1>3, StoreParts DEF GoodStore
<1>5. /\ new \in Store /\ new.records = result.store.records /\ new.keys = result.store.keys
      /\ new.quarantine = result.store.quarantine /\ SameEvents(result.store, new)
      /\ new.metrics.requests = result.store.metrics.requests + 1
      /\ new.metrics.accepted = result.store.metrics.accepted + 1
      /\ new.metrics.duplicates = result.store.metrics.duplicates
      /\ new.metrics.rejected = result.store.metrics.rejected
  BY <1>4, CountedIs DEF SameEvents
<1> HIDE DEF new
<1>6. RecordsAgree(new)
  BY <1>3, <1>5 DEF GoodStore, RecordsAgree
<1>7. CountersAgree(new)
  BY <1>3, <1>4, <1>5 DEF GoodStore, CountersAgree, Metrics
<1>8. GoodStore(new) /\ RuntimeFollows(new, result.runtime)
  BY <1>3, <1>5, <1>6, <1>7, EventsSame
<1>9. RespectsFaults(mem, new)
  BY <1>2, <1>3, <1>5 DEF RespectsFaults, SameEvents, CountedPoints
<1> QED BY <1>1, <1>3, <1>5, <1>8, <1>9 DEF new, result, stored

\* A health report: the fault it shows and, for a mapped device, the boundary of
\* the asset's lifecycle.
LEMMA ReportParts ==
  ASSUME NEW r \in Reports
  PROVE  /\ r.dev \in Devices /\ r.at \in Nat /\ r.since \in Times
         /\ r.since \in Nat \ {0} /\ r.status \in {"healthy", "active", "recovered"}
<1>1. /\ r.dev \in Devices /\ r.at \in Times /\ r.since \in Times
      /\ r.status \in {"healthy", "active", "recovered"}
  BY TelemetryConstants
<1> QED BY <1>1, TelemetryConstants

\* A fault that this report began, repeated or ended.
Reported(s, r, f) ==
  /\ f.dev = r.dev
  /\ f.told => \/ r.dev \in s.mapped
               \/ f.end = 0 /\ \E g \in s.faults : g.dev = r.dev /\ g.end = 0 /\ g.told
  /\ \/ r.status = "active" /\ f.end = 0
     \/ r.status = "recovered" /\ f.end = r.since

\* After a report the faults are those of before but for what was reported.
LEMMA FaultsAfter ==
  ASSUME NEW s \in Store, NEW r \in Reports
  PROVE  LET t == FaultShown(s, r)
         IN  /\ t \in Store
             /\ t.records = s.records /\ t.keys = s.keys /\ t.metrics = s.metrics
             /\ t.quarantine = s.quarantine /\ t.events = s.events
             /\ t.checkpoint = s.checkpoint /\ t.rule = s.rule /\ t.mapped = s.mapped
             /\ \A f \in t.faults : f \in s.faults \/ Reported(s, r, f)
<1> DEFINE open == OpenFault(s, r.dev)
           told == r.dev \in s.mapped
           begun == [dev |-> r.dev, start |-> r.since, end |-> 0, told |-> told]
           again == {[f EXCEPT !.told = @ \/ told] : f \in open}
           ended == {[f EXCEPT !.end = r.since, !.told = told] : f \in open}
           t == FaultShown(s, r)
<1>1. /\ r.dev \in Devices /\ r.since \in Times
      /\ r.status \in {"healthy", "active", "recovered"}
      /\ s.faults \in SUBSET Fault
  BY ReportParts, StoreParts
<1>2. open \in SUBSET Fault /\ open \subseteq s.faults
      /\ \A f \in open : f.dev = r.dev /\ f.end = 0
  BY <1>1 DEF OpenFault
<1>3. told \in BOOLEAN
  OBVIOUS
<1> HIDE DEF told, open
<1>4. begun \in Fault /\ begun.dev = r.dev /\ begun.end = 0 /\ begun.told = told
  BY <1>1, <1>3 DEF Fault
<1>5. \A g \in again : /\ g \in Fault /\ g.dev = r.dev /\ g.end = 0
                       /\ g.told => told \/ \E f \in open : f.told
  <2> SUFFICES ASSUME NEW f \in open, NEW g, g = [f EXCEPT !.told = @ \/ told]
               PROVE  /\ g \in Fault /\ g.dev = r.dev /\ g.end = 0
                      /\ g.told => told \/ f.told
    OBVIOUS
  <2>1. f \in Fault /\ f.dev = r.dev /\ f.end = 0 /\ f.told \in BOOLEAN
    BY <1>2, FaultParts
  <2>2. (f.told \/ told) \in BOOLEAN
    OBVIOUS
  <2>3. g \in Fault /\ g.dev = f.dev /\ g.end = f.end /\ g.told = (f.told \/ told)
    BY <2>1, <2>2 DEF Fault
  <2> QED BY <2>1, <2>3
<1>6. \A g \in ended : g \in Fault /\ g.dev = r.dev /\ g.end = r.since /\ g.told = told
  <2> SUFFICES ASSUME NEW f \in open, NEW g, g = [f EXCEPT !.end = r.since, !.told = told]
               PROVE  g \in Fault /\ g.dev = r.dev /\ g.end = r.since /\ g.told = told
    OBVIOUS
  <2> QED BY <1>1, <1>2, <1>3 DEF Fault
<1> HIDE DEF begun, again, ended
<1>7. CASE r.status = "active" /\ open = {}
  <2> DEFINE faults == s.faults \cup {begun}
  <2>1. t = [s EXCEPT !.faults = faults]
    BY <1>7 DEF FaultShown, open, begun, told
  <2>2. faults \in SUBSET Fault
    BY <1>1, <1>4
  <2>3. \A f \in faults : f \in s.faults \/ Reported(s, r, f)
    BY <1>4, <1>7 DEF Reported, told
  <2> HIDE DEF faults, t
  <2> QED BY <2>1, <2>2, <2>3 DEF Store, t
<1>8. CASE r.status = "active" /\ open # {}
  <2> DEFINE faults == (s.faults \ open) \cup again
  <2>1. t = [s EXCEPT !.faults = faults]
    BY <1>8 DEF FaultShown, open, again, told
  <2>2. faults \in SUBSET Fault
    BY <1>1, <1>5
  <2>3. \A f \in faults : f \in s.faults \/ Reported(s, r, f)
    <3>1. \A g \in again :
             g.told => told \/ \E f \in s.faults : f.dev = r.dev /\ f.end = 0 /\ f.told
      BY <1>2, <1>5
    <3>2. \A g \in again : Reported(s, r, g)
      BY <3>1, <1>5, <1>8 DEF Reported, told
    <3> QED BY <3>2
  <2> HIDE DEF faults, t
  <2> QED BY <2>1, <2>2, <2>3 DEF Store, t
<1>9. CASE r.status = "recovered" /\ open # {}
  <2> DEFINE faults == (s.faults \ open) \cup ended
  <2>1. t = [s EXCEPT !.faults = faults]
    BY <1>9 DEF FaultShown, open, ended, told
  <2>2. faults \in SUBSET Fault
    BY <1>1, <1>6
  <2>3. \A f \in faults : f \in s.faults \/ Reported(s, r, f)
    <3>1. \A g \in ended : Reported(s, r, g)
      BY <1>6, <1>9 DEF Reported, told
    <3> QED BY <3>1
  <2> HIDE DEF faults, t
  <2> QED BY <2>1, <2>2, <2>3 DEF Store, t
<1>10. CASE ~(r.status = "active") /\ ~(r.status = "recovered" /\ open # {})
  <2>1. t = s
    BY <1>10 DEF FaultShown, open
  <2> QED BY <2>1
<1> QED BY <1>1, <1>7, <1>8, <1>9, <1>10

\* Where the reporting device is not mapped, its fault changes nothing else.
LEMMA FaultKeptToItself ==
  ASSUME NEW s, GoodStore(s), NEW r \in Reports, r.dev \notin s.mapped
  PROVE  LET t == FaultShown(s, r) IN
         /\ GoodStore(t) /\ RespectsFaults(s, t) /\ t.keys = s.keys
         /\ \A object : RuntimeFollows(s, object) => RuntimeFollows(t, object)
<1> DEFINE t == FaultShown(s, r)
<1>1. /\ t \in Store
      /\ t.records = s.records /\ t.keys = s.keys /\ t.metrics = s.metrics
      /\ t.quarantine = s.quarantine /\ t.events = s.events
      /\ t.checkpoint = s.checkpoint
      /\ \A f \in t.faults : f \in s.faults \/ Reported(s, r, f)
  BY FaultsAfter DEF GoodStore
<1> HIDE DEF t
<1>2. HeldLife(t) = HeldLife(s)
  BY <1>1 DEF HeldLife
<1>3. FaultsKnown(HeldLife(s), t.faults)
  <2> SUFFICES ASSUME NEW f \in t.faults, f.told
               PROVE  /\ f.end # 0 => f.end <= HeldLife(s).boundary
                      /\ \A q \in HeldLife(s).cand :
                           q.dev = f.dev => f.end # 0 /\ q.ts > f.end
    BY DEF FaultsKnown
  <2>1. CASE f \in s.faults
    BY <2>1 DEF GoodStore, FaultsKnown
  <2>2. CASE Reported(s, r, f)
    <3>1. PICK g \in s.faults : f.end = 0 /\ g.dev = r.dev /\ g.end = 0 /\ g.told
      BY <2>2 DEF Reported
    <3>2. \A q \in HeldLife(s).cand : q.dev # r.dev
      BY <3>1 DEF GoodStore, FaultsKnown
    <3> QED BY <2>2, <3>1, <3>2 DEF Reported
  <2> QED BY <1>1, <2>1, <2>2
<1>4. GoodStore(t)
  BY <1>1, <1>2, <1>3 DEF GoodStore, RecordsAgree, CountersAgree
<1>5. RespectsFaults(s, t)
  BY <1>1 DEF RespectsFaults, CountedPoints
<1> QED BY <1>1, <1>2, <1>4, <1>5 DEF RuntimeFollows, t

\* Where it is mapped, the asset's lifecycle is told.
LEMMA FaultTold ==
  ASSUME NEW s, GoodStore(s), RuntimeFollows(s, runtime), NEW r \in Reports,
         r.dev \in s.mapped
  PROVE  LET result == Bounded(FaultShown(s, r), r)
             new == result.store
         IN  /\ GoodStore(new) /\ RespectsFaults(s, new) /\ new.keys = s.keys
             /\ RuntimeFollows(new, result.runtime)
<1> DEFINE t == FaultShown(s, r)
           lc == LifecycleOf(t)
           next == ProcessFault(lc, r.since)
           v == Updated(lc, next, next.boundary)
           result == Bounded(t, r)
<1>1. /\ t \in Store
      /\ t.records = s.records /\ t.keys = s.keys /\ t.metrics = s.metrics
      /\ t.quarantine = s.quarantine /\ t.events = s.events
      /\ t.checkpoint = s.checkpoint /\ t.rule = s.rule /\ t.mapped = s.mapped
      /\ \A f \in t.faults : f \in s.faults \/ Reported(s, r, f)
  BY FaultsAfter DEF GoodStore
<1> HIDE DEF t
<1>2. lc = LifecycleOf(s)
  BY <1>1 DEF LifecycleOf
<1>3. Sound(lc, s.events) /\ FaultsKnown(lc, s.faults)
  BY <1>2, LifeIs
<1>4. /\ result.store = Persisted(t, lc, next, next.boundary)
      /\ result.runtime = [lc |-> next, version |-> t.rule.version]
  BY <1>1 DEF Bounded
<1>5. r.since \in Nat \ {0}
  BY ReportParts
<1> HIDE DEF lc
<1>6. /\ Sound(next, Shown(s.events, v)) /\ v \in Event \cup {NoEvent}
      /\ next.cand = {} /\ r.since <= next.boundary /\ lc.boundary <= next.boundary
      /\ Respects(s.events, Shown(s.events, v), {})
  BY <1>3, <1>5, FaultSound
<1> HIDE DEF next, result
<1>7. FaultsKnown(next, t.faults)
  <2> SUFFICES ASSUME NEW f \in t.faults, f.told, f.end # 0
               PROVE  f.end <= next.boundary
    BY <1>6 DEF FaultsKnown
  <2>1. CASE f \in s.faults
    <3>1. f.end <= lc.boundary
      BY <2>1, <1>3 DEF FaultsKnown
    <3>2. f.end \in Nat /\ lc.boundary \in Nat /\ next.boundary \in Nat
      <4>1. f.end \in Nat
        BY <2>1, StoreParts, FaultParts DEF GoodStore
      <4> QED BY <4>1, <1>3, <1>6, LifeParts DEF Sound
    <3> QED BY <3>1, <3>2, <1>6
  <2>2. CASE Reported(s, r, f)
    BY <2>2, <1>6 DEF Reported
  <2> QED BY <1>1, <2>1, <2>2
<1>8. RecordsAgree(t) /\ CountersAgree(t) /\ next \in Life
  BY <1>1, <1>6 DEF GoodStore, RecordsAgree, CountersAgree, Sound
<1>9. /\ GoodStore(result.store) /\ RuntimeFollows(result.store, result.runtime)
      /\ result.store.events = Shown(s.events, v)
      /\ result.store.keys = s.keys
  BY <1>1, <1>4, <1>6, <1>7, <1>8, PersistedIs
<1>10. RespectsFaults(s, result.store)
  BY <1>6, <1>9 DEF Respects, RespectsFaults, CountedPoints
<1> QED BY <1>9, <1>10 DEF result, t

LEMMA ReportIs ==
  ASSUME NEW s, GoodStore(s), RuntimeFollows(s, runtime), NEW r \in Reports
  PROVE  LET shown == FaultShown(s, r)
             result == IF r.status = "active" \/ (r.status = "recovered" /\ shown # s)
                       THEN Bounded(shown, r)
                       ELSE [store |-> shown, runtime |-> runtime]
             new == result.store
         IN  /\ GoodStore(new) /\ RespectsFaults(s, new) /\ new.keys = s.keys
             /\ RuntimeFollows(new, result.runtime)
<1> DEFINE shown == FaultShown(s, r)
           heard == r.status = "active" \/ (r.status = "recovered" /\ shown # s)
<1>1. CASE ~heard
  <2>1. shown = s
    <3>1. CASE r.status = "recovered"
      BY <3>1, <1>1
    <3>2. CASE r.status # "recovered"
      BY <3>2, <1>1 DEF FaultShown
    <3> QED BY <3>1, <3>2
  <2> QED BY <2>1, <1>1, RespectsItself
<1>2. CASE heard /\ r.dev \notin s.mapped
  <2>1. r.dev \notin shown.mapped
    BY <1>2, FaultsAfter DEF GoodStore
  <2>2. Bounded(shown, r) = [store |-> shown, runtime |-> runtime]
    BY <2>1 DEF Bounded
  <2> QED BY <2>2, <1>2, FaultKeptToItself
<1>3. CASE heard /\ r.dev \in s.mapped
  BY <1>3, FaultTold
<1> QED BY <1>1, <1>2, <1>3

-----------------------------------------------------------------------------
(* The inductive invariant, and what a step may do to the saved events.    *)

AnsweredKept == \A p \in answered : p \in mem.keys \/ p \in evicted \/ p.ts < cutoff

TelemetryInv ==
  /\ GoodStore(mem) /\ RuntimeFollows(mem, runtime) /\ DiskIsMemory
  /\ answered \in SUBSET Packets /\ evicted \in SUBSET Packets
  /\ rejecting \in Packets \cup {None} /\ cutoff \in Nat /\ rare \in Nat
  /\ AnsweredKept

StepHolds == TelemetryInv' /\ RespectsFaults(disk, disk')

LEMMA TelemetryInitially ==
  ASSUME TelemetryInit PROVE TelemetryInv
<1> DEFINE least == CHOOSE d \in Devices : \A e \in Devices : d <= e
           metrics == [requests |-> 0, accepted |-> 0, duplicates |-> 0, rejected |-> 0,
                       local |-> 0]
           reported == [d \in Devices |-> 0]
           rule == [active |-> TRUE, version |-> 1]
<1>1. least \in Devices
  <2>1. \E d \in Devices : \A e \in Devices : d <= e
    BY TelemetryConstants, LeastOfNaturals
  <2> QED BY <2>1
<1>2. metrics \in Metrics /\ reported \in [Devices -> Nat]
      /\ rule \in [active : BOOLEAN, version : Nat]
  BY DEF Metrics
<1>3. <<>> \in Seq(Packets) /\ Len(<<>>) = 0
  BY EmptySeq
<1>4. mem = [records |-> <<>>, keys |-> {}, events |-> {}, faults |-> {},
             checkpoint |-> None, rule |-> rule, mapped |-> {least},
             reported |-> reported, offline |-> {}, metrics |-> metrics,
             quarantine |-> 0, mqttKeys |-> {}, storage |-> "healthy"]
  BY DEF TelemetryInit, Empty
<1>5. metrics.requests = 0 /\ metrics.accepted = 0 /\ metrics.duplicates = 0
      /\ metrics.rejected = 0
  OBVIOUS
<1> HIDE DEF least, metrics, reported, rule
<1>6. /\ mem \in Store /\ mem.records = <<>> /\ mem.keys = {} /\ mem.events = {}
      /\ mem.faults = {} /\ mem.checkpoint = None /\ mem.metrics = metrics
      /\ mem.quarantine = 0 /\ mem.storage = "healthy"
  BY <1>1, <1>2, <1>3, <1>4 DEF Store
<1>7. RecordsAgree(mem)
  <2>1. Range(<<>>) = {}
    <3>1. Range(<<>>) = {<<>>[i] : i \in 1 .. Len(<<>>)}
      BY <1>3, RangeIs
    <3>2. 1 .. Len(<<>>) = {}
      BY <1>3
    <3> QED BY <3>1, <3>2
  <2> QED BY <1>3, <1>6, <2>1 DEF RecordsAgree, Distinct
<1>8. CountersAgree(mem)
  BY <1>5, <1>6 DEF CountersAgree
<1>9. HeldLife(mem) = Fresh
  BY <1>6 DEF HeldLife
<1>10. GoodStore(mem)
  BY <1>6, <1>7, <1>8, <1>9, SoundFresh DEF GoodStore, FaultsKnown
<1>11. disk = mem /\ disk = [mem EXCEPT !.storage = "healthy"]
  <2>1. disk = mem
    BY DEF TelemetryInit
  <2>2. mem = [mem EXCEPT !.storage = "healthy"]
    BY <1>6 DEF Store
  <2> QED BY <2>1, <2>2
<1> QED BY <1>10, <1>11, NoObject DEF TelemetryInit, TelemetryInv, DiskIsMemory, AnsweredKept

\* What every request shares: its outcome, and no answer that is forgotten.
LEMMA RequestHolds ==
  ASSUME TelemetryInv, NEW new, GoodStore(new), RespectsFaults(mem, new),
         NEW object, RuntimeFollows(new, object), mem.keys \subseteq new.keys,
         NEW how, NEW late, Release(new, object, how, late),
         UNCHANGED <<cutoff, answered, evicted>>, rejecting' \in {rejecting, None}
  PROVE  StepHolds
<1>1. Outcome(new, how)
  BY ReleaseIs DEF TelemetryInv
<1>2. AnsweredKept'
  BY <1>1 DEF TelemetryInv, AnsweredKept, Outcome
<1> QED BY <1>1, <1>2 DEF StepHolds, TelemetryInv, Outcome

LEMMA AcceptHolds ==
  ASSUME TelemetryInv, NEW p \in Packets, NEW how \in {"done", "failed", "stopped"},
         Accept(p, how)
  PROVE  StepHolds
<1> DEFINE stored == Recorded(mem, p)
           result == Analysed(stored, p)
           new == Counted(result.store, "accepted")
<1>1. /\ ~Known(mem, p) /\ Release(new, result.runtime, how, OutOfTurn(p))
      /\ evicted' = IF how = "failed" THEN evicted
                    ELSE evicted \cup (Range(mem.records) \ Range(stored.records))
      /\ answered' = IF how = "done" THEN answered \cup {p} ELSE answered
      /\ rejecting' \in {rejecting, None} /\ cutoff' = cutoff
  BY DEF Accept, Waiting
<1>2. /\ GoodStore(new) /\ RespectsFaults(mem, new)
      /\ RuntimeFollows(new, result.runtime)
      /\ p \in new.keys
      /\ \A q \in mem.keys : q \in new.keys \/ q \in Range(mem.records) \ Range(stored.records)
      /\ Range(mem.records) \subseteq Packets
  BY <1>1, AcceptedIs DEF TelemetryInv
<1> HIDE DEF stored, result, new
<1>3. Outcome(new, how)
  BY <1>1, <1>2, ReleaseIs DEF TelemetryInv
<1>4. AnsweredKept'
  <2>1. CASE how = "failed"
    BY <2>1, <1>1, <1>3 DEF TelemetryInv, AnsweredKept, Outcome
  <2>2. CASE how # "failed"
    <3>1. \A q \in new.keys : q \in mem'.keys \/ q.ts < cutoff
      BY <2>2, <1>3 DEF Outcome
    <3> QED BY <2>2, <3>1, <1>1, <1>2 DEF TelemetryInv, AnsweredKept
  <2> QED BY <2>1, <2>2
<1>5. answered' \in SUBSET Packets /\ evicted' \in SUBSET Packets
      /\ rejecting' \in Packets \cup {None}
  BY <1>1, <1>2 DEF TelemetryInv
<1> QED BY <1>1, <1>3, <1>4, <1>5 DEF StepHolds, TelemetryInv, Outcome

LEMMA RepeatHolds ==
  ASSUME TelemetryInv, NEW p \in Packets, NEW how \in {"done", "failed", "stopped"},
         Repeat(p, how)
  PROVE  StepHolds
<1> DEFINE new == Counted(mem, "duplicates")
<1>1. /\ p \in mem.keys /\ Release(new, runtime, how, TRUE)
      /\ answered' = IF how = "done" THEN answered \cup {p} ELSE answered
      /\ rejecting' \in {rejecting, None} /\ cutoff' = cutoff /\ evicted' = evicted
  BY DEF Repeat, Waiting
<1>2. /\ GoodStore(new) /\ RespectsFaults(mem, new) /\ new.keys = mem.keys
      /\ RuntimeFollows(new, runtime)
  BY DuplicateIs DEF TelemetryInv
<1> HIDE DEF new
<1>3. Outcome(new, how)
  BY <1>1, <1>2, ReleaseIs DEF TelemetryInv
<1>4. AnsweredKept'
  BY <1>1, <1>2, <1>3 DEF TelemetryInv, AnsweredKept, Outcome
<1>5. answered' \in SUBSET Packets /\ evicted' \in SUBSET Packets
      /\ rejecting' \in Packets \cup {None}
  BY <1>1 DEF TelemetryInv
<1> QED BY <1>1, <1>3, <1>4, <1>5 DEF StepHolds, TelemetryInv, Outcome

\* A change that is saved as it is made.
LEMMA SavedHolds ==
  ASSUME TelemetryInv, NEW new, SameStory(mem, new),
         mem' = Checkpoint(new), disk' = mem', runtime' \in {runtime, None},
         UNCHANGED <<cutoff, answered, evicted>>, rejecting' \in {rejecting, None},
         rare' \in Nat
  PROVE  StepHolds
<1>1. /\ GoodStore(new) /\ RespectsFaults(mem, new) /\ RuntimeFollows(new, runtime)
      /\ new.keys = mem.keys
  BY SameIsGood DEF TelemetryInv, SameStory
<1>2. /\ GoodStore(mem') /\ RuntimeFollows(mem', runtime') /\ DiskIsMemory'
      /\ RespectsFaults(disk, disk')
      /\ \A p \in new.keys : p \in mem'.keys \/ p.ts < cutoff
  BY <1>1, SavedIs DEF TelemetryInv
<1>3. AnsweredKept'
  BY <1>1, <1>2 DEF TelemetryInv, AnsweredKept
<1> QED BY <1>2, <1>3 DEF StepHolds, TelemetryInv

LEMMA RareIs ==
  ASSUME rare \in Nat, NEW n \in {0, 1}, rare' = rare + n PROVE rare' \in Nat
OBVIOUS

LEMMA RestartHolds ==
  ASSUME TelemetryInv, Restart PROVE StepHolds
<1>1. SameStory(mem, disk) /\ disk.storage = "healthy"
  BY StorageSet DEF TelemetryInv, GoodStore, DiskIsMemory
<1>2. rare' \in Nat
  BY RareIs DEF Restart, TelemetryInv
<1>3. CASE Retained(disk) = disk
  <2>1. mem' = disk /\ disk' = disk
    BY <1>3 DEF Restart, Restored
  <2>2. GoodStore(mem') /\ RuntimeFollows(mem', runtime')
    <3>1. GoodStore(disk)
      BY <1>1, SameIsGood DEF TelemetryInv
    <3> QED BY <3>1, <2>1, NoObject DEF Restart
  <2>3. DiskIsMemory'
    <3>1. disk = [disk EXCEPT !.storage = "healthy"]
      BY <1>1 DEF SameStory, Store
    <3> QED BY <3>1, <2>1 DEF DiskIsMemory
  <2>4. AnsweredKept' /\ RespectsFaults(disk, disk')
    BY <1>1, <2>1, RespectsItself DEF TelemetryInv, AnsweredKept, SameStory, Restart
  <2> QED BY <1>2, <2>2, <2>3, <2>4 DEF StepHolds, TelemetryInv, Restart
<1>4. CASE Retained(disk) # disk
  <2>1. mem' = Checkpoint(disk) /\ disk' = mem'
    BY <1>4 DEF Restart, Restored
  <2> QED BY <1>1, <1>2, <2>1, SavedHolds DEF Restart
<1> QED BY <1>3, <1>4

LEMMA SilentHolds ==
  ASSUME TelemetryInv, NEW d \in Devices, Silent(d) PROVE StepHolds
<1> DEFINE new == [mem EXCEPT !.offline = @ \cup {d}]
<1>1. SameStory(mem, new)
  BY DEF TelemetryInv, GoodStore, Store, SameStory
<1>2. /\ mem' = Checkpoint(new) /\ disk' = mem' /\ rare' = rare + 1
      /\ UNCHANGED <<runtime, rejecting, cutoff, answered, evicted>>
  BY DEF Silent
<1> HIDE DEF new
<1> QED BY <1>1, <1>2, SavedHolds, RareIs DEF TelemetryInv

LEMMA RuleHolds ==
  ASSUME TelemetryInv, NEW active \in BOOLEAN, UpdateRule(active) PROVE StepHolds
<1> DEFINE new == [mem EXCEPT !.rule = [active |-> active, version |-> @.version + 1]]
           rule == [active |-> active, version |-> mem.rule.version + 1]
<1>1. SameStory(mem, new)
  <2>1. mem \in Store /\ mem.rule.version \in Nat
    BY StoreParts DEF TelemetryInv, GoodStore
  <2>2. rule \in [active : BOOLEAN, version : Nat]
    BY <2>1
  <2>3. new = [mem EXCEPT !.rule = rule]
    OBVIOUS
  <2> HIDE DEF rule, new
  <2> QED BY <2>1, <2>2, <2>3 DEF Store, SameStory
<1>2. /\ mem' = Checkpoint(new) /\ disk' = mem' /\ rare' = rare + 1
      /\ UNCHANGED <<runtime, rejecting, cutoff, answered, evicted>>
  BY DEF UpdateRule
<1> HIDE DEF new
<1> QED BY <1>1, <1>2, SavedHolds, RareIs DEF TelemetryInv

LEMMA RemapHolds ==
  ASSUME TelemetryInv, NEW d \in Devices, Remap(d) PROVE StepHolds
<1> DEFINE new == [mem EXCEPT !.mapped = IF d \in @ THEN {} ELSE {d}]
<1>1. SameStory(mem, new)
  BY DEF TelemetryInv, GoodStore, Store, SameStory
<1>2. /\ mem' = Checkpoint(new) /\ disk' = mem'
      /\ UNCHANGED <<runtime, rejecting, cutoff, answered, evicted>>
  BY DEF Remap
<1>3. rare' \in Nat
  BY DEF Remap, TelemetryInv
<1> HIDE DEF new
<1> QED BY <1>1, <1>2, <1>3, SavedHolds

LEMMA AgeHolds ==
  ASSUME TelemetryInv, Age PROVE StepHolds
<1>1. /\ cutoff' = cutoff + 1 /\ rare' = rare + 1
      /\ UNCHANGED <<mem, disk, runtime, rejecting, answered, evicted>>
  BY DEF Age
<1>2. cutoff' \in Nat /\ rare' \in Nat
  BY <1>1 DEF TelemetryInv
<1>3. AnsweredKept'
  <2>1. \A p \in answered : p.ts \in Nat
    BY PacketParts DEF TelemetryInv
  <2>2. \A p \in answered : p.ts < cutoff => p.ts < cutoff + 1
    BY <2>1 DEF TelemetryInv
  <2> QED BY <2>2, <1>1 DEF AnsweredKept, TelemetryInv
<1>4. GoodStore(mem') /\ RuntimeFollows(mem', runtime') /\ DiskIsMemory'
  BY <1>1 DEF TelemetryInv, DiskIsMemory
<1>5. RespectsFaults(disk, disk')
  BY <1>1, RespectsItself
<1> QED BY <1>1, <1>2, <1>3, <1>4, <1>5 DEF StepHolds, TelemetryInv

LEMMA RefuseHolds ==
  ASSUME TelemetryInv, NEW p \in Packets, Refuse(p) PROVE StepHolds
<1>1. /\ rejecting' = p /\ runtime' = None
      /\ UNCHANGED <<mem, disk, cutoff, answered, evicted, rare>>
  BY DEF Refuse
<1>2. GoodStore(mem') /\ RuntimeFollows(mem', runtime') /\ DiskIsMemory' /\ AnsweredKept'
  BY <1>1, NoObject DEF TelemetryInv, DiskIsMemory, AnsweredKept
<1>3. RespectsFaults(disk, disk')
  BY <1>1, RespectsItself
<1> QED BY <1>1, <1>2, <1>3 DEF StepHolds, TelemetryInv

LEMMA ReportHolds ==
  ASSUME TelemetryInv, NEW r \in Reports, NEW how \in {"done", "failed", "stopped"},
         ReportHealth(r, how)
  PROVE  StepHolds
<1> DEFINE seen == [mem EXCEPT !.reported[r.dev] = r.at, !.offline = @ \ {r.dev}]
           shown == FaultShown(seen, r)
           result == IF r.status = "active" \/ (r.status = "recovered" /\ shown # seen)
                     THEN Bounded(shown, r)
                     ELSE [store |-> shown, runtime |-> runtime]
<1>1. SameStory(mem, seen)
  <2> DEFINE reported == [mem.reported EXCEPT ![r.dev] = r.at]
  <2>1. mem \in Store /\ reported \in [Devices -> Nat]
    BY StoreParts, ReportParts DEF TelemetryInv, GoodStore
  <2>2. seen = [mem EXCEPT !.reported = reported, !.offline = @ \ {r.dev}]
    OBVIOUS
  <2> HIDE DEF reported, seen
  <2> QED BY <2>1, <2>2 DEF Store, SameStory
<1>2. /\ Release(result.store, result.runtime, how, FALSE)
      /\ rejecting' \in {rejecting, None} /\ UNCHANGED <<cutoff, answered, evicted>>
  BY DEF ReportHealth, Waiting
<1> HIDE DEF seen
<1>3. /\ GoodStore(seen) /\ RespectsFaults(mem, seen) /\ RuntimeFollows(seen, runtime)
      /\ seen.keys = mem.keys /\ seen.events = mem.events /\ seen.faults = mem.faults
  BY <1>1, SameIsGood DEF TelemetryInv, SameStory
<1>4. /\ GoodStore(result.store) /\ RespectsFaults(seen, result.store)
      /\ result.store.keys = seen.keys
      /\ RuntimeFollows(result.store, result.runtime)
  BY <1>3, ReportIs
<1> HIDE DEF result
<1>5. RespectsFaults(mem, result.store) /\ mem.keys \subseteq result.store.keys
  BY <1>3, <1>4 DEF RespectsFaults, CountedPoints
<1> QED BY <1>2, <1>4, <1>5, RequestHolds

LEMMA StepsHold ==
  ASSUME TelemetryInv, TelemetryNext PROVE StepHolds
<1>1. ASSUME NEW p \in Packets, Ingest(p) PROVE StepHolds
  BY <1>1, AcceptHolds, RepeatHolds, RefuseHolds DEF Ingest
<1>2. ASSUME NEW how \in {"done", "failed", "stopped"}, Diagnose(how) PROVE StepHolds
  <2> DEFINE new == [Counted(mem, "rejected") EXCEPT !.quarantine = @ + 1]
  <2>1. /\ Release(new, runtime, how, FALSE)
        /\ rejecting' = None /\ UNCHANGED <<cutoff, answered, evicted>>
    BY <1>2 DEF Diagnose
  <2>2. /\ GoodStore(new) /\ RespectsFaults(mem, new) /\ new.keys = mem.keys
        /\ RuntimeFollows(new, runtime)
    BY RejectedIs DEF TelemetryInv
  <2> HIDE DEF new
  <2> QED BY <2>1, <2>2, RequestHolds
<1>3. ASSUME NEW how \in {"done", "failed", "stopped"}, MaintainRetention(how)
      PROVE  StepHolds
  <2> DEFINE new == Retained(mem)
  <2>1. /\ Release(new, runtime, how, FALSE)
        /\ rejecting' \in {rejecting, None} /\ UNCHANGED <<cutoff, answered, evicted>>
    BY <1>3 DEF MaintainRetention, Waiting
  <2>2. /\ GoodStore(new) /\ RespectsFaults(mem, new) /\ RuntimeFollows(new, runtime)
        /\ \A p \in mem.keys : p \in new.keys \/ p.ts < cutoff
    BY RetainedIs DEF TelemetryInv
  <2> HIDE DEF new
  <2>3. Outcome(new, how)
    BY <2>1, <2>2, ReleaseIs DEF TelemetryInv
  <2>4. AnsweredKept'
    <3>1. CASE how = "failed"
      BY <3>1, <2>1, <2>3 DEF TelemetryInv, AnsweredKept, Outcome
    <3>2. CASE how # "failed"
      BY <3>2, <2>1, <2>2, <2>3 DEF TelemetryInv, AnsweredKept, Outcome
    <3> QED BY <3>1, <3>2
  <2> QED BY <2>1, <2>3, <2>4 DEF StepHolds, TelemetryInv, Outcome
<1>4. ASSUME NEW how \in {"done", "failed", "stopped"}, NEW k \in MqttKeys,
             QuarantineMqtt(k, how)
      PROVE  StepHolds
  <2> DEFINE new == [Counted(mem, "rejected") EXCEPT
                       !.metrics.local = @ + 1, !.quarantine = @ + 1, !.mqttKeys = @ \cup {k}]
  <2>1. /\ Release(new, runtime, how, TRUE)
        /\ rejecting' \in {rejecting, None} /\ UNCHANGED <<cutoff, answered, evicted>>
    BY <1>4 DEF QuarantineMqtt, Waiting
  <2>2. /\ GoodStore(new) /\ RespectsFaults(mem, new) /\ new.keys = mem.keys
        /\ RuntimeFollows(new, runtime)
    BY QuarantinedIs DEF TelemetryInv
  <2> HIDE DEF new
  <2> QED BY <2>1, <2>2, RequestHolds
<1> QED BY <1>1, <1>2, <1>3, <1>4, ReportHolds, SilentHolds, RemapHolds, RuleHolds, AgeHolds,
           RestartHolds DEF TelemetryNext

LEMMA StutterHolds ==
  ASSUME TelemetryInv, UNCHANGED telemetryVars PROVE StepHolds
<1>1. UNCHANGED <<mem, disk, runtime, rejecting, cutoff, answered, evicted, rare>>
  BY DEF telemetryVars
<1> QED BY <1>1, RespectsItself DEF StepHolds, TelemetryInv, DiskIsMemory, AnsweredKept

THEOREM TelemetryInvariance == TelemetrySpec => []TelemetryInv
<1>1. TelemetryInit => TelemetryInv
  BY TelemetryInitially
<1>2. TelemetryInv /\ [TelemetryNext]_telemetryVars => TelemetryInv'
  BY StepsHold, StutterHolds DEF StepHolds
<1> QED BY <1>1, <1>2, PTL DEF TelemetrySpec

\* The events that operators see are those of the saved lifecycle, one after the
\* other, and no sample is counted in two of them (_lifecycle_event_record and
\* process_accepted_telemetry change both in one transaction).
THEOREM EventsStayTrue == TelemetrySpec => []EventsHold
<1>1. TelemetryInv => EventsHold
  BY GoodShows DEF TelemetryInv
<1> QED BY <1>1, TelemetryInvariance, PTL

\* No step of any request opens again or changes what a sensor fault closed, or
\* counts a sample of a fault that the lifecycle was told of
\* (_apply_sensor_health_boundary, process_sensor_fault).
THEOREM FaultsStayRespected == TelemetrySpec => FaultsAreRespected
<1>1. /\ TelemetryInv /\ [TelemetryNext]_telemetryVars =>
           [\A e \in disk.events :
              e.reason = "sensor_fault_detected" => e \in disk'.events]_telemetryVars
      /\ TelemetryInv /\ [TelemetryNext]_telemetryVars =>
           [\A p \in CountedPoints(disk') \ CountedPoints(disk), f \in disk.faults :
              f.dev = p.dev /\ f.told => f.end # 0 /\ p.ts > f.end]_telemetryVars
  <2>1. TelemetryInv /\ [TelemetryNext]_telemetryVars => RespectsFaults(disk, disk')
    BY StepsHold, StutterHolds DEF StepHolds
  <2> QED BY <2>1 DEF RespectsFaults
<1>2. TelemetrySpec => FaultCloseIsFinal
  BY <1>1, TelemetryInvariance, PTL DEF TelemetrySpec, FaultCloseIsFinal
<1>3. TelemetrySpec => FaultySamplesExcluded
  BY <1>1, TelemetryInvariance, PTL DEF TelemetrySpec, FaultySamplesExcluded
<1> QED BY <1>2, <1>3, PTL DEF FaultsAreRespected

\* As many records as keys: no measurement is stored twice.
LEMMA RecordsAreCounted ==
  ASSUME NEW r \in Seq(Packets), Distinct(r)
  PROVE  Cardinality({PointKey(p) : p \in Range(r)}) = Len(r)
<1> DEFINE K == {PointKey(p) : p \in Range(r)}
           f == [i \in 1 .. Len(r) |-> PointKey(r[i])]
<1>1. Len(r) \in Nat /\ Range(r) = {r[i] : i \in 1 .. Len(r)}
  BY LenProperties, RangeIs
<1>2. f \in [1 .. Len(r) -> K]
  BY <1>1
<1>3. \A k \in K : \E i \in 1 .. Len(r) : f[i] = k
  BY <1>1
<1>4. \A i, j \in 1 .. Len(r) : f[i] = f[j] => i = j
  BY DEF Distinct
<1>5. f \in Bijection(1 .. Len(r), K)
  <2> HIDE DEF f, K
  <2>1. DOMAIN f = 1 .. Len(r)
    BY <1>2
  <2>2. IsInjective(f)
    BY <2>1, <1>4 DEF IsInjective
  <2>3. f \in Injection(1 .. Len(r), K)
    BY <1>2, <2>2 DEF Injection
  <2>4. f \in Surjection(1 .. Len(r), K)
    BY <1>2, <1>3 DEF Surjection
  <2> QED BY <2>3, <2>4 DEF Bijection
<1> HIDE DEF f, K
<1>6. IsFiniteSet(1 .. Len(r)) /\ Cardinality(1 .. Len(r)) = Len(r)
  BY SMTT(60), <1>1, FS_Interval
<1>7. Cardinality(K) = Cardinality(1 .. Len(r))
  <2>1. ExistsBijection(1 .. Len(r), K)
    BY <1>5 DEF ExistsBijection
  <2> QED BY <2>1, <1>1, <1>6, FS_CountingElements
<1> QED BY <1>6, <1>7 DEF K

\* Between requests memory is what was saved, every record has its idempotency
\* key and every key its record, the counters add up, and a packet that was
\* answered is stored until it expires or is pushed out (_accept_telemetry,
\* _enforce_runtime_retention, DurableStateLock).
THEOREM StoreStaysConsistent == TelemetrySpec => []StoreConsistent
<1>1. TelemetryInv => StoreConsistent
  <2> SUFFICES ASSUME TelemetryInv PROVE StoreConsistent
    OBVIOUS
  <2>1. TelemetryTypeOK
    <3>1. mem \in Store /\ disk \in Store
      BY StorageSet DEF TelemetryInv, GoodStore, DiskIsMemory, SameStory
    <3> QED BY <3>1 DEF TelemetryTypeOK, TelemetryInv, RuntimeFollows
  <2>2. mem.records \in Seq(Packets) /\ mem.keys = Range(mem.records) /\ Distinct(mem.records)
    BY StoreParts DEF TelemetryInv, GoodStore, RecordsAgree
  <2>3. Cardinality({PointKey(p) : p \in mem.keys}) = Len(mem.records)
    BY <2>2, RecordsAreCounted
  <2> QED BY <2>1, <2>2, <2>3 DEF StoreConsistent, TelemetryInv, DiskIsMemory, GoodStore,
             CountersAgree, AnsweredKept
<1> QED BY <1>1, TelemetryInvariance, PTL
=============================================================================
