-------------------------- MODULE AlertOutboxProofs --------------------------
(***************************************************************************)
(* Proofs about SnapshotEvents and AlertOutbox, for any windows, models,   *)
(* modes, channels, attempts and rare events: incidents rest on judgements *)
(* of their own, the shared view shows and audits them as they are, and    *)
(* what is announced is true, by one sender, in order and not repeated.    *)
(***************************************************************************)
EXTENDS AlertOutbox, SetBounds

(* A window whose judgement by model b was applied, and one that was used. *)
Judged(w, b) ==
  /\ rows[w] # None /\ rows[w].status = "completed" /\ rows[w].binding = b
  /\ evjobs[w] # None /\ evjobs[w].status = "processed" /\ evjobs[w].mode # "shadow"
Used(w) == rows[w] # None /\ evjobs[w] # None /\ evjobs[w].status = "processed"

JobsFollow == \A w \in Windows : evjobs[w] # None => rows[w] # None

(* An incident rests on used windows, in the order of their measurement.   *)
BackedBy(i, inc) ==
  /\ Judged(i, inc.binding) /\ i \in Anomalous /\ evjobs[i].mode = inc.mode
  /\ i <= inc.changed /\ inc.changed <= inc.last /\ Used(inc.last)
  /\ inc.transition = "closed" =>
       Judged(inc.changed, inc.binding) /\ inc.changed \notin Anomalous /\ inc.changed = inc.last
BackedInv == \A i \in Windows : incidents[i] # None => BackedBy(i, incidents[i])

(* Incidents of one model do not overlap.                                  *)
Succeeding(incs) ==
  \A i, j \in Windows :
    /\ i < j /\ incs[i] # None /\ incs[j] # None /\ incs[i].binding = incs[j].binding
    => incs[i].transition # "open" /\ incs[i].last < j
SuccessionInv == Succeeding(incidents)

(* What is left to project exists, what is left to mark was projected, and *)
(* a resolution that is shown stands.                                      *)
DispatchInv ==
  /\ \A i \in todo : incidents[i] # None
  /\ marking # None =>
       events[marking] # None /\ events[marking].copy.rev = incidents[marking].rev
  /\ \A i \in Windows : events[i] # None /\ events[i].copy.transition = "manual_closed" =>
       incidents[i].transition = "manual_closed"

EventsIInv ==
  /\ EventsTypeOK /\ JobsFollow /\ BackedInv /\ SuccessionInv
  /\ ViewMatches /\ AuditedOnce /\ DispatchInv

(* What a step may do to incidents: they stay, with model and mode, and a  *)
(* revision that changed is a later one; what is closed stays so.          *)
LastingTo(incs) ==
  \A i \in Windows : incidents[i] # None =>
    /\ incs[i] # None
    /\ incs[i].binding = incidents[i].binding /\ incs[i].mode = incidents[i].mode
    /\ incs[i] = incidents[i] \/ incs[i].rev > incidents[i].rev
    /\ incidents[i].transition # "open" => incs[i] = incidents[i]

(* Windows and the jobs that were settled stay as they are.                *)
JobsStay ==
  /\ rows' = rows
  /\ \A w \in Windows : evjobs[w] # None /\ evjobs[w].status # "pending" =>
       evjobs'[w] = evjobs[w]

(* The incidents a step leaves; those of a tick before they are audited.   *)
Applied(incs) ==
  /\ incs \in [Windows -> Incident \cup {None}]
  /\ \A i \in Windows : incs[i] # None => BackedBy(i, incs[i])'
  /\ Succeeding(incs) /\ LastingTo(incs)
-----------------------------------------------------------------------------
(* The steps.                                                              *)

LEMMA EventsInitially == EventsInit => EventsIInv
BY EventsAssumption, InboxAssumption DEF EventsInit, InboxInit, EventsIInv, EventsTypeOK,
   JobsFollow, BackedInv, SuccessionInv, Succeeding, ViewMatches, AuditedOnce, DispatchInv

LEMMA IngestInv == ASSUME EventsIInv, NEW w \in Windows, Ingest(w) PROVE EventsIInv'
<1>1. PICK expired \in BOOLEAN :
        /\ Receive(w, server.model, expired)
        /\ evjobs' = IF expired THEN evjobs
                     ELSE [evjobs EXCEPT ![w] = [mode |-> server.mode, binding |-> server.model,
                                                 status |-> "pending"]]
  BY DEF Ingest
<1> DEFINE row == [late |-> IsLate(w), binding |-> server.model,
                   status |-> ReceivedStatus(w, expired)]
<1>2. rows[w] = None /\ rows' = [rows EXCEPT ![w] = row] /\ row \in Row
  BY <1>1 DEF Receive, IsLate, ReceivedStatus, Row, EventsIInv, EventsTypeOK
<1>3. UNCHANGED <<settingVars, incidents, viewVars, dispatchVars, rare>>
  BY DEF Ingest
<1>4. evjobs[w] = None
  BY <1>2 DEF EventsIInv, JobsFollow
<1>5. EventsTypeOK'
  BY <1>1, <1>2, <1>3 DEF EventsIInv, EventsTypeOK, EventJob, settingVars, viewVars, dispatchVars
<1>6. JobsFollow'
  BY <1>1, <1>2, NoneIsNoRow DEF EventsIInv, EventsTypeOK, JobsFollow
<1>7. \A v \in Windows : v # w => rows'[v] = rows[v] /\ evjobs'[v] = evjobs[v]
  BY <1>1, <1>2 DEF EventsIInv, EventsTypeOK
<1>8. BackedInv'
  BY <1>2, <1>3, <1>4, <1>7 DEF EventsIInv, EventsTypeOK, BackedInv, BackedBy, Judged, Used,
     Incident
<1> QED
  BY <1>3, <1>5, <1>6, <1>8 DEF EventsIInv, SuccessionInv, Succeeding, ViewMatches, AuditedOnce,
     DispatchInv, settingVars, viewVars, dispatchVars

LEMMA InferInv == ASSUME EventsIInv, NEW w \in Windows, Infer(w) PROVE EventsIInv'
<1>1. PICK s \in {"completed", "unavailable"} :
        /\ rows[w] # None /\ rows[w].status = "open"
        /\ rows' = [rows EXCEPT ![w].status = s]
  BY DEF Infer, Decide
<1>2. UNCHANGED <<settingVars, decisionVars, viewVars, dispatchVars>> /\ rare' \in Nat
  BY DEF Infer, Rare, EventsIInv, EventsTypeOK
<1>3. rows[w] \in Row /\ rows'[w] \in Row /\ rows' \in [Windows -> Row \cup {None}]
  BY <1>1 DEF EventsIInv, EventsTypeOK, Row
<1>4. \A v \in Windows : v # w => rows'[v] = rows[v]
  BY <1>1 DEF EventsIInv, EventsTypeOK
<1>5. rows'[w] # None
  BY <1>3, NoneIsNoRow
<1>6. EventsTypeOK'
  BY <1>2, <1>3 DEF EventsIInv, EventsTypeOK, settingVars, decisionVars, viewVars, dispatchVars
<1>7. BackedInv' /\ JobsFollow'
  <2>1. \A v \in Windows : \A b : Judged(v, b) => v # w
    BY <1>1 DEF Judged
  <2>2. \A v \in Windows : \A b : Judged(v, b) => Judged(v, b)'
    BY <2>1, <1>2, <1>4 DEF Judged, decisionVars
  <2>3. \A v \in Windows : Used(v) => Used(v)'
    BY <1>2, <1>4, <1>5 DEF Used, decisionVars
  <2>4. \A i \in Windows, inc \in Incident : BackedBy(i, inc) => BackedBy(i, inc)'
    BY <2>2, <2>3, <1>2 DEF BackedBy, Incident, decisionVars
  <2> QED
    BY <2>4, <1>2, <1>4, <1>5 DEF EventsIInv, EventsTypeOK, BackedInv, JobsFollow, decisionVars
<1> QED
  BY <1>2, <1>6, <1>7 DEF EventsIInv, SuccessionInv, Succeeding, ViewMatches, AuditedOnce,
     DispatchInv, decisionVars, viewVars, dispatchVars

(* What was judged or used stays so while its job is no longer pending.    *)
LEMMA JudgedStays ==
  ASSUME JobsStay
  PROVE  /\ \A w \in Windows : \A b : Judged(w, b) => Judged(w, b)'
         /\ \A w \in Windows : Used(w) => Used(w)'
         /\ \A i \in Windows, inc \in Incident : BackedBy(i, inc) => BackedBy(i, inc)'
<1>1. \A w \in Windows : \A b : Judged(w, b) => Judged(w, b)'
  BY DEF JobsStay, Judged
<1>2. \A w \in Windows : Used(w) => Used(w)'
  BY DEF JobsStay, Used
<1>3. \A i \in Windows, inc \in Incident : BackedBy(i, inc) => evjobs'[i] = evjobs[i]
  BY DEF JobsStay, BackedBy, Judged
<1>4. ASSUME NEW i \in Windows, NEW inc \in Incident, BackedBy(i, inc)
      PROVE  BackedBy(i, inc)'
  <2>1. inc.changed \in Windows /\ inc.last \in Windows
    BY DEF Incident
  <2>2. Judged(i, inc.binding)' /\ evjobs'[i] = evjobs[i] /\ Used(inc.last)'
    BY <1>1, <1>2, <1>3, <1>4, <2>1 DEF BackedBy
  <2>3. inc.transition = "closed" => Judged(inc.changed, inc.binding)'
    BY <1>1, <1>4, <2>1 DEF BackedBy
  <2> QED
    BY <1>4, <2>2, <2>3 DEF BackedBy
<1> QED
  BY <1>1, <1>2, <1>4 DEF BackedBy, Judged, Used

LEMMA LatestIs ==
  ASSUME NEW w \in Received
  PROVE  Latest \in Received /\ \A v \in Received : v <= Latest
<1>1. Received \in SUBSET Int /\ IsFiniteSet(Received) /\ Received # {}
  <2>1. Received \in SUBSET Windows /\ Windows \subseteq Int
    BY InboxAssumption DEF Received
  <2>2. IsFiniteSet(Received)
    BY <2>1, EventsAssumption, FS_Subset
  <2> QED
    BY <2>1, <2>2
<1> QED
  BY <1>1, MaxIs DEF Latest

(* The window that may change an incident is the latest received, judged by *)
(* the model of the server, in its mode, and not used before.              *)
LEMMA DecisiveIs ==
  ASSUME EventsIInv, NEW w \in Received, Decisive(w)
  PROVE  /\ w = Latest /\ w \in Windows /\ rows[w] # None
         /\ rows[w].status = "completed" /\ rows[w].binding = server.model
         /\ evjobs[w] # None /\ evjobs[w].status = "pending"
         /\ evjobs[w].mode = server.mode /\ server.mode # "shadow"
         /\ server.model \in Bindings /\ incidents[w] = None
<1>1. Reason(w, MaxTransitionAge) = None /\ Settleable(w) /\ Pinned(w)
  BY DEF Decisive
<1>2. {"disabled", "superseded", "result", "changed", "stale", "quality", "mapping", "model"}
        \subseteq Reasons /\ None \notin Reasons
  BY NoneIsNoEvent DEF Reasons
<1>3. /\ w = Latest /\ rows[w].status = "completed" /\ rows[w].binding = server.model
      /\ server.mode # "shadow"
  BY <1>1, <1>2 DEF Reason, Superseded
<1>4. /\ evjobs[w] # None /\ evjobs[w].status = "pending"
      /\ evjobs[w].mode = server.mode /\ evjobs[w].binding # None
      /\ evjobs[w].binding = server.model
  BY <1>1 DEF Settleable, Pinned
<1>5. w \in Windows /\ rows[w] # None
  BY DEF Received
<1>6. server.model \in Bindings
  BY <1>4 DEF EventsIInv, EventsTypeOK
<1>7. incidents[w] = None
  BY <1>4, <1>5 DEF EventsIInv, BackedInv, BackedBy, Judged
<1> QED
  BY <1>3, <1>4, <1>5, <1>6, <1>7

LEMMA AuditedIs ==
  ASSUME EventsTypeOK, NEW inc \in Incident
  PROVE  /\ Audited(inc) \in Incident
         /\ Audited(inc).binding = inc.binding /\ Audited(inc).mode = inc.mode
         /\ Audited(inc).transition = inc.transition
         /\ Audited(inc).changed = inc.changed /\ Audited(inc).last = inc.last
         /\ Audited(inc) = inc \/ Audited(inc).rev > inc.rev
         /\ inc.transition # "open" => Audited(inc) = inc
<1>1. AuditReason(inc) \in Reasons \cup {None}
  BY DEF AuditReason, Reason, Reasons
<1>2. CASE Audited(inc) = inc
  BY <1>2
<1>3. CASE Audited(inc) # inc
  <2>1. /\ inc.transition = "open" /\ AuditReason(inc) # None
        /\ Audited(inc) = Saved([inc EXCEPT !.observation = "unknown",
                                            !.reason = AuditReason(inc)])
    BY <1>3 DEF Audited
  <2>2. Audited(inc) = [inc EXCEPT !.observation = "unknown", !.reason = AuditReason(inc),
                                   !.rev = inc.rev + 1]
    BY <2>1 DEF Saved, Incident
  <2>3. inc.rev + 1 \in Nat /\ inc.rev + 1 > inc.rev /\ AuditReason(inc) \in Reasons
    BY <1>1, <2>1 DEF Incident
  <2>4. /\ Audited(inc).binding = inc.binding /\ Audited(inc).mode = inc.mode
        /\ Audited(inc).transition = inc.transition /\ Audited(inc).changed = inc.changed
        /\ Audited(inc).last = inc.last /\ Audited(inc).rev = inc.rev + 1
    BY <2>2 DEF Incident
  <2>5. Audited(inc) \in Incident
    BY <2>2, <2>3 DEF Incident
  <2> QED
    BY <2>1, <2>3, <2>4, <2>5
<1> QED
  BY <1>2, <1>3

LEMMA TickJobs ==
  ASSUME EventsIInv, Tick
  PROVE  /\ evjobs' \in [Windows -> EventJob \cup {None}]
         /\ \A w \in Windows : evjobs'[w] # None => evjobs[w] # None
         /\ JobsStay
         /\ \A w \in Received : Decisive(w) /\ ~(Concerned = {} /\ w \in Anomalous /\ Full) =>
              /\ evjobs'[w] # None /\ evjobs'[w].status = "processed"
              /\ evjobs'[w].mode = evjobs[w].mode
<1> DEFINE decisive == {w \in Received : Decisive(w)}
           refused == {w \in decisive : Concerned = {} /\ w \in Anomalous /\ Full}
           Status(w) == IF w \in decisive \ refused THEN "processed" ELSE "ignored"
<1>1. evjobs' = [w \in Windows |->
                   IF ~Settleable(w) THEN evjobs[w]
                   ELSE [evjobs[w] EXCEPT !.status = Status(w)]]
  BY DEF Tick
<1>2. \A w \in Windows : evjobs[w] \in EventJob \cup {None}
  BY DEF EventsIInv, EventsTypeOK
<1>3. \A w \in Windows : Status(w) \in {"processed", "ignored"}
  OBVIOUS
<1>4. \A w \in Windows : Settleable(w) => evjobs[w] # None /\ evjobs[w].status = "pending"
  BY DEF Settleable
<1>5. \A w \in decisive : Settleable(w) /\ w \in Windows
  BY DEF Decisive, Received
<1>6. \A w \in decisive : w \notin refused <=> ~(Concerned = {} /\ w \in Anomalous /\ Full)
  OBVIOUS
<1> HIDE DEF Status, decisive, refused
<1>7. \A w \in Windows : Settleable(w) =>
        /\ evjobs'[w] \in EventJob /\ evjobs'[w].mode = evjobs[w].mode
        /\ evjobs'[w].status = Status(w)
  BY <1>1, <1>2, <1>3, <1>4 DEF EventJob
<1>8. \A w \in Windows : ~Settleable(w) => evjobs'[w] = evjobs[w]
  BY <1>1
<1>9. \A w \in decisive \ refused : Status(w) = "processed"
  BY DEF Status
<1>10. evjobs' \in [Windows -> EventJob \cup {None}]
  BY <1>1, <1>2, <1>7, <1>8
<1>11. \A w \in Windows : evjobs'[w] # None => evjobs[w] # None
  BY <1>4, <1>8
<1>12. \A w \in Received : Decisive(w) => w \in decisive
  BY DEF decisive
<1> QED
  BY <1>4, <1>5, <1>6, <1>7, <1>8, <1>9, <1>10, <1>11, <1>12, NoneIsNoEvent
     DEF JobsStay, Tick

LEMMA UnchangedApplied == ASSUME EventsIInv, JobsStay PROVE \E a : a = incidents /\ Applied(a)
<1>1. PICK a : a = incidents
  OBVIOUS
<1>2. /\ a \in [Windows -> Incident \cup {None}] /\ Succeeding(a)
      /\ \A i \in Windows : a[i] # None => BackedBy(i, a[i])
  BY <1>1 DEF EventsIInv, EventsTypeOK, BackedInv, SuccessionInv
<1>4. ASSUME NEW i \in Windows, a[i] # None PROVE BackedBy(i, a[i])'
  <2>1. a[i] \in Incident /\ BackedBy(i, a[i])
    BY <1>2, <1>4
  <2> QED
    BY <2>1, JudgedStays
<1>5. LastingTo(a)
  BY <1>1 DEF LastingTo
<1> QED
  BY <1>1, <1>2, <1>4, <1>5 DEF Applied

(* One incident is replaced: by the conditions on the new one alone.       *)
LEMMA ReplacedApplied ==
  ASSUME EventsIInv, JobsStay, NEW i \in Windows, NEW inc \in Incident,
         incidents[i] # None =>
           /\ incidents[i].transition = "open" /\ inc.rev > incidents[i].rev
           /\ inc.binding = incidents[i].binding /\ inc.mode = incidents[i].mode,
         BackedBy(i, inc)',
         \A j \in Windows : j < i /\ incidents[j] # None /\ incidents[j].binding = inc.binding
           => incidents[j].transition # "open" /\ incidents[j].last < i,
         \A j \in Windows : i < j /\ incidents[j] # None => incidents[j].binding # inc.binding
  PROVE  \E a : a = [incidents EXCEPT ![i] = inc] /\ Applied(a)
<1>1. PICK a : a = [incidents EXCEPT ![i] = inc]
  OBVIOUS
<1>2. PICK b : b = incidents /\ Applied(b)
  BY UnchangedApplied
<1>3. /\ a \in [Windows -> Incident \cup {None}] /\ a[i] = inc
      /\ \A j \in Windows : j # i => a[j] = b[j]
  BY <1>1, <1>2 DEF Applied
<1>4. ASSUME NEW j \in Windows, a[j] # None PROVE BackedBy(j, a[j])'
  <2>1. CASE j = i
    BY <2>1, <1>3
  <2>2. CASE j # i
    BY <1>2, <1>3, <1>4, <2>2 DEF Applied
  <2> QED
    BY <2>1, <2>2
<1>5. Succeeding(a)
  BY <1>2, <1>3, InboxAssumption DEF Succeeding, Applied
<1>6. LastingTo(a)
  BY <1>1, <1>2, <1>3, NoneIsNoEvent DEF LastingTo, Applied
<1> QED
  BY <1>1, <1>3, <1>4, <1>5, <1>6 DEF Applied

(* Every incident was over or last seen before the window that decides now. *)
LEMMA IncidentsAreEarlier ==
  ASSUME EventsIInv, NEW w \in Received, Decisive(w), NEW j \in Windows, incidents[j] # None
  PROVE  incidents[j] \in Incident /\ j < w /\ incidents[j].last < w
<1>1. incidents[j] \in Incident /\ BackedBy(j, incidents[j])
  BY DEF EventsIInv, EventsTypeOK, BackedInv
<1>2. /\ incidents[j].last \in Windows /\ incidents[j].last \in Received /\ j \in Received
      /\ evjobs[incidents[j].last].status = "processed"
  BY <1>1 DEF BackedBy, Judged, Used, Received, Incident
<1>3. w = Latest /\ evjobs[w].status = "pending"
  BY DecisiveIs
<1>4. incidents[j].last <= w /\ incidents[j].last # w
  BY <1>2, <1>3, LatestIs
<1>5. /\ j \in Nat /\ incidents[j].last \in Nat /\ incidents[j].changed \in Nat /\ w \in Nat
      /\ j <= incidents[j].changed /\ incidents[j].changed <= incidents[j].last
  BY <1>1, <1>2, InboxAssumption DEF BackedBy, Incident, Received
<1> QED
  BY <1>1, <1>4, <1>5

LEMMA OpenedApplied ==
  ASSUME EventsIInv, Tick, NEW w \in Received, Decisive(w),
         Concerned = {}, w \in Anomalous, ~Full
  PROVE  \E a : a = [incidents EXCEPT ![w] = Opened(w)] /\ Applied(a)
<1>1. /\ w \in Windows /\ rows[w] # None /\ rows[w].status = "completed"
      /\ rows[w].binding = server.model /\ server.model \in Bindings
      /\ server.mode # "shadow" /\ evjobs[w].mode = server.mode /\ incidents[w] = None
  BY DecisiveIs
<1>2. evjobs'[w] # None /\ evjobs'[w].status = "processed" /\ evjobs'[w].mode = server.mode
  BY <1>1, TickJobs
<1>3. rows' = rows
  BY DEF Tick
<1>4. PICK inc \in Incident : inc = Opened(w)
  BY <1>1 DEF Opened, Incident, EventsIInv, EventsTypeOK
<1>5. /\ inc.binding = server.model /\ inc.mode = server.mode /\ inc.transition = "open"
      /\ inc.changed = w /\ inc.last = w
  BY <1>4 DEF Opened
<1>6. BackedBy(w, inc)'
  BY <1>1, <1>2, <1>3, <1>5, InboxAssumption DEF BackedBy, Judged, Used
<1>7. \A j \in Windows : incidents[j] # None => j < w /\ incidents[j].last < w
  BY IncidentsAreEarlier
<1>8. \A j \in Windows : incidents[j] # None /\ incidents[j].binding = inc.binding =>
        incidents[j].transition # "open"
  BY <1>5 DEF Concerned, OpenIncidents
<1>9. ASSUME NEW j \in Windows, w < j, incidents[j] # None PROVE FALSE
  <2>1. j \in Nat /\ w \in Nat /\ j < w
    BY <1>1, <1>7, <1>9, InboxAssumption
  <2> QED
    BY <2>1, <1>9
<1>10. \E a : a = [incidents EXCEPT ![w] = inc] /\ Applied(a)
  BY <1>1, <1>6, <1>7, <1>8, <1>9, TickJobs, ReplacedApplied
<1> QED
  BY <1>4, <1>10

LEMMA ContinuedOrRecoveredApplied ==
  ASSUME EventsIInv, Tick, NEW w \in Received, Decisive(w), NEW i \in Concerned,
         NEW inc, inc = IF w \in Anomalous THEN Continued(incidents[i], w)
                        ELSE Recovered(incidents[i], w)
  PROVE  \E a : a = [incidents EXCEPT ![i] = inc] /\ Applied(a)
<1>1. /\ w \in Windows /\ rows[w] # None /\ rows[w].status = "completed"
      /\ rows[w].binding = server.model
      /\ server.mode # "shadow" /\ evjobs[w].mode = server.mode
  BY DecisiveIs
<1>2. evjobs'[w] # None /\ evjobs'[w].status = "processed" /\ evjobs'[w].mode = server.mode
  BY <1>1, TickJobs
<1>3. rows' = rows
  BY DEF Tick
<1>4. /\ i \in Windows /\ incidents[i] # None /\ incidents[i].transition = "open"
      /\ incidents[i].binding = server.model
  BY DEF Concerned, OpenIncidents
<1>5. incidents[i] \in Incident /\ i < w /\ incidents[i].last < w
  BY <1>4, IncidentsAreEarlier
<1>6. /\ inc \in Incident /\ inc.binding = server.model /\ inc.mode = incidents[i].mode
      /\ inc.last = w /\ inc.rev = incidents[i].rev + 1
      /\ w \in Anomalous => inc.changed = incidents[i].changed /\ inc.transition = "open"
      /\ w \notin Anomalous => inc.changed = w
  <2>0. PICK was \in Incident : was = incidents[i] /\ was.rev + 1 \in Nat
    BY <1>5 DEF Incident
  <2>1. CASE w \in Anomalous
    <3>1. inc = [was EXCEPT !.last = w, !.reason = None, !.observation = "observing",
                            !.rev = was.rev + 1]
      BY <2>0, <2>1 DEF Continued, Saved, Incident
    <3> QED
      BY <1>1, <1>4, <2>0, <2>1, <3>1 DEF Incident
  <2>2. CASE w \notin Anomalous
    <3>1. inc = [was EXCEPT !.transition = "closed", !.changed = w, !.last = w,
                            !.reason = None, !.observation = "recovered",
                            !.rev = was.rev + 1]
      BY <2>0, <2>2 DEF Recovered, Saved, Incident
    <3> QED
      BY ZenonT(60), <1>1, <1>4, <2>0, <2>2, <3>1 DEF Incident
  <2> QED
    BY <2>1, <2>2
<1>7. PICK old \in Incident : old = incidents[i] /\ BackedBy(i, old) /\ BackedBy(i, old)'
  <2>1. PICK b : b = incidents /\ Applied(b)
    BY TickJobs, UnchangedApplied
  <2>2. BackedBy(i, b[i])'
    BY <2>1, <1>4 DEF Applied
  <2>3. b[i] \in Incident /\ b[i] = incidents[i] /\ BackedBy(i, b[i])
    BY <2>1, <1>4, <1>5 DEF EventsIInv, BackedInv
  <2> QED
    BY <2>2, <2>3
<1>8. BackedBy(i, inc)'
  <2>1. Used(w)'
    BY <1>1, <1>2, <1>3 DEF Used
  <2>2. Judged(w, inc.binding)'
    BY <1>1, <1>2, <1>3, <1>6 DEF Judged
  <2>3. old.changed \in Nat /\ old.last \in Nat /\ i \in Nat /\ w \in Nat
    BY <1>1, <1>4, InboxAssumption DEF Incident
  <2>4. /\ Judged(i, inc.binding)' /\ i \in Anomalous /\ evjobs'[i].mode = inc.mode
        /\ i <= old.changed /\ old.changed < w
    BY <1>4, <1>5, <1>6, <1>7, <2>3 DEF BackedBy
  <2> QED
    BY <1>5, <1>6, <1>7, <2>1, <2>2, <2>3, <2>4 DEF BackedBy
<1>9. \A j \in Windows : j < i /\ incidents[j] # None /\ incidents[j].binding = inc.binding
        => incidents[j].transition # "open" /\ incidents[j].last < i
  BY <1>4, <1>6 DEF EventsIInv, SuccessionInv, Succeeding
<1>10. \A j \in Windows : i < j /\ incidents[j] # None => incidents[j].binding # inc.binding
  BY <1>4, <1>6 DEF EventsIInv, SuccessionInv, Succeeding
<1>11. inc.rev > incidents[i].rev
  BY <1>5, <1>6 DEF Incident
<1> QED
  BY <1>4, <1>6, <1>8, <1>9, <1>10, <1>11, TickJobs, ReplacedApplied

(* A tick applies what the latest window says, and then audits.            *)
LEMMA TickApplies ==
  ASSUME EventsIInv, Tick
  PROVE  \E a : /\ Applied(a)
                /\ incidents' = [i \in Windows |-> IF a[i] = None THEN None ELSE Audited(a[i])]
<1> DEFINE decisive == {w \in Received : Decisive(w)}
           applied == IF decisive = {} THEN incidents ELSE AfterWindow(Max(decisive))
<1>1. incidents' = [i \in Windows |-> IF applied[i] = None THEN None ELSE Audited(applied[i])]
  BY DEF Tick
<1>2. CASE applied = incidents
  BY <1>1, <1>2, TickJobs, UnchangedApplied
<1>3. CASE applied # incidents
  <2>1. PICK w \in decisive : TRUE
    BY <1>3
  <2>2. \A v \in decisive : v = w
    BY <2>1, DecisiveIs
  <2>3. Max(decisive) = w
    <3>1. decisive = {w} /\ w \in Nat
      BY <2>1, <2>2, InboxAssumption DEF Received
    <3> QED
      BY <3>1 DEF Max
  <2>4. applied = AfterWindow(w)
    BY <2>1, <2>3
  <2> HIDE DEF applied
  <2>5. CASE Concerned = {}
    <3>1. w \in Anomalous /\ ~Full /\ applied = [incidents EXCEPT ![w] = Opened(w)]
      BY <1>3, <2>4, <2>5 DEF AfterWindow
    <3>2. PICK a : a = applied /\ Applied(a)
      BY <2>1, <2>5, <3>1, OpenedApplied
    <3> QED
      BY <1>1, <3>2
  <2>6. CASE Concerned # {}
    <3> DEFINE i == CHOOSE i \in Concerned : TRUE
    <3>1. i \in Concerned
      BY <2>6
    <3>2. PICK inc : inc = IF w \in Anomalous THEN Continued(incidents[i], w)
                           ELSE Recovered(incidents[i], w)
      <4>1. \E inc : inc = Continued(incidents[i], w)
        OBVIOUS
      <4>2. \E inc : inc = Recovered(incidents[i], w)
        OBVIOUS
      <4> QED
        BY <4>1, <4>2
    <3>3. applied = [incidents EXCEPT ![i] = inc]
      BY <2>4, <2>6, <3>2 DEF AfterWindow
    <3> HIDE DEF i
    <3>4. PICK a : a = applied /\ Applied(a)
      BY <2>1, <3>1, <3>2, <3>3, ContinuedOrRecoveredApplied
    <3> QED
      BY <1>1, <3>4
  <2> QED
    BY <2>5, <2>6
<1> QED
  BY <1>2, <1>3

(* What holds of the incidents a step leaves, audited or not.              *)
LEMMA AppliedInv ==
  ASSUME EventsIInv, NEW a, Applied(a),
         incidents' \in [Windows -> Incident \cup {None}],
         \A i \in Windows :
           /\ incidents'[i] = None <=> a[i] = None
           /\ a[i] # None =>
                /\ incidents'[i].binding = a[i].binding /\ incidents'[i].mode = a[i].mode
                /\ incidents'[i].transition = a[i].transition
                /\ incidents'[i].changed = a[i].changed /\ incidents'[i].last = a[i].last
                /\ incidents'[i] = a[i] \/ incidents'[i].rev > a[i].rev
                /\ a[i].transition # "open" => incidents'[i] = a[i]
  PROVE  BackedInv' /\ SuccessionInv' /\ LastingTo(incidents')
<1>1. BackedInv'
  BY DEF BackedInv, Applied, BackedBy
<1>2. SuccessionInv'
  BY DEF SuccessionInv, Succeeding, Applied
<1>3. ASSUME NEW i \in Windows, incidents[i] # None
      PROVE  /\ incidents'[i] # None
             /\ incidents'[i].binding = incidents[i].binding
             /\ incidents'[i].mode = incidents[i].mode
             /\ incidents'[i] = incidents[i] \/ incidents'[i].rev > incidents[i].rev
             /\ incidents[i].transition # "open" => incidents'[i] = incidents[i]
  <2>1. /\ a[i] # None /\ a[i] \in Incident /\ incidents[i] \in Incident
        /\ incidents'[i] \in Incident
        /\ a[i].binding = incidents[i].binding /\ a[i].mode = incidents[i].mode
        /\ a[i] = incidents[i] \/ a[i].rev > incidents[i].rev
        /\ incidents[i].transition # "open" => a[i] = incidents[i]
    BY <1>3 DEF Applied, LastingTo, EventsIInv, EventsTypeOK
  <2>2. a[i].rev \in Nat /\ incidents[i].rev \in Nat /\ incidents'[i].rev \in Nat
    BY <2>1 DEF Incident
  <2> QED
    BY <2>1, <2>2
<1> QED
  BY <1>1, <1>2, <1>3 DEF LastingTo

(* The view may fall behind the incidents, and still shows what they were. *)
LEMMA ViewStays ==
  ASSUME EventsIInv, UNCHANGED viewVars, LastingTo(incidents'),
         incidents' \in [Windows -> Incident \cup {None}]
  PROVE  /\ ViewMatches' /\ AuditedOnce'
         /\ \A i \in Windows : events'[i] # None /\ events'[i].copy.transition = "manual_closed" =>
              incidents'[i].transition = "manual_closed"
<1>1. events' = events /\ projected' = projected
  BY DEF viewVars
<1>2. ASSUME NEW i \in Windows, events[i] # None
      PROVE  /\ incidents'[i] # None /\ events[i].copy.rev <= incidents'[i].rev
             /\ events[i].copy.rev = incidents'[i].rev => events[i].copy = incidents'[i]
             /\ events[i].copy.transition = "manual_closed" =>
                  incidents'[i].transition = "manual_closed"
  <2>1. /\ incidents[i] # None /\ events[i].copy.rev <= incidents[i].rev
        /\ events[i].copy.rev = incidents[i].rev => events[i].copy = incidents[i]
        /\ events[i].copy.transition = "manual_closed" =>
             incidents[i].transition = "manual_closed"
    BY <1>2 DEF EventsIInv, ViewMatches, DispatchInv
  <2>2. /\ incidents[i] \in Incident /\ incidents'[i] \in Incident
        /\ incidents'[i] = incidents[i] \/ incidents'[i].rev > incidents[i].rev
        /\ incidents[i].transition # "open" => incidents'[i] = incidents[i]
    BY <2>1, NoneIsNoEvent DEF LastingTo, EventsIInv, EventsTypeOK
  <2>3. events[i].copy.rev \in Nat /\ incidents[i].rev \in Nat /\ incidents'[i].rev \in Nat
    BY <1>2, <2>2 DEF EventsIInv, EventsTypeOK, Event, Incident
  <2>4. incidents'[i] # None
    BY <2>1 DEF LastingTo
  <2>5. CASE incidents'[i] = incidents[i]
    BY <2>1, <2>4, <2>5
  <2>6. CASE incidents'[i].rev > incidents[i].rev
    <3>1. events[i].copy.rev < incidents'[i].rev
      BY <2>1, <2>3, <2>6
    <3>2. incidents[i].transition = "open"
      BY <2>2, <2>3, <2>6
    <3> QED
      BY <2>1, <2>3, <2>4, <3>1, <3>2
  <2> QED
    BY <2>2, <2>5, <2>6
<1> QED
  BY <1>1, <1>2 DEF EventsIInv, ViewMatches, AuditedOnce

LEMMA TickInv ==
  ASSUME EventsIInv, Tick
  PROVE  EventsIInv' /\ LastingTo(incidents')
<1>1. PICK a : /\ Applied(a)
               /\ incidents' = [i \in Windows |-> IF a[i] = None THEN None ELSE Audited(a[i])]
  BY TickApplies
<1>2. EventsTypeOK
  BY DEF EventsIInv
<1>3. ASSUME NEW i \in Windows
      PROVE  IF a[i] = None THEN incidents'[i] = None
             ELSE /\ a[i] \in Incident /\ incidents'[i] = Audited(a[i])
                  /\ incidents'[i] \in Incident /\ incidents'[i] # None
  <2>1. a[i] # None => a[i] \in Incident
    BY <1>1 DEF Applied
  <2>2. a[i] # None => Audited(a[i]) \in Incident
    BY <1>2, <2>1, AuditedIs
  <2> QED
    BY <1>1, <2>1, <2>2, NoneIsNoEvent
<1>4. incidents' \in [Windows -> Incident \cup {None}]
  BY <1>1, <1>3
<1>5. BackedInv' /\ SuccessionInv' /\ LastingTo(incidents')
  BY <1>1, <1>2, <1>3, <1>4, AuditedIs, AppliedInv
<1>6. UNCHANGED <<rows, settingVars, viewVars, marking, rare>>
  BY DEF Tick
<1>7. /\ todo' = Unprojected(incidents')
      /\ gate' = IF todo' = {} THEN "free" ELSE "worker"
      /\ gate = "free"
  BY DEF Tick, StartDispatch, GateFree
<1>8. marking = None
  BY <1>7 DEF EventsIInv, EventsTypeOK
<1>9. EventsTypeOK'
  BY <1>2, <1>4, <1>6, <1>7, <1>8, TickJobs DEF EventsTypeOK, settingVars, viewVars, Unprojected
<1>10. JobsFollow'
  BY <1>6, TickJobs DEF EventsIInv, JobsFollow
<1>11. DispatchInv'
  BY <1>4, <1>5, <1>6, <1>7, <1>8, ViewStays DEF DispatchInv, Unprojected
<1> QED
  BY <1>4, <1>5, <1>6, <1>9, <1>10, <1>11, ViewStays DEF EventsIInv

LEMMA ResolveInv ==
  ASSUME EventsIInv, NEW i \in Windows, Resolve(i)
  PROVE  EventsIInv' /\ LastingTo(incidents')
<1>1. /\ gate = "free" /\ incidents[i] # None /\ rare' = rare + 1
      /\ incidents' = IF i \in OpenIncidents THEN [incidents EXCEPT ![i] = Resolved(@)]
                      ELSE incidents
      /\ todo' = Unprojected(incidents')
      /\ gate' = IF todo' = {} THEN "free" ELSE "operator"
      /\ UNCHANGED <<rows, settingVars, evjobs, viewVars, marking>>
  BY DEF Resolve, GateFree, Rare, StartDispatch
<1>2. JobsStay
  BY <1>1 DEF JobsStay
<1>3. PICK a : a = incidents' /\ Applied(a)
  <2>1. CASE i \notin OpenIncidents
    BY <1>1, <1>2, <2>1, UnchangedApplied
  <2>2. CASE i \in OpenIncidents
    <3>1. PICK was \in Incident : was = incidents[i] /\ was.rev + 1 \in Nat
      BY <1>1 DEF EventsIInv, EventsTypeOK, Incident
    <3>2. PICK inc : inc = [was EXCEPT !.transition = "manual_closed", !.reason = None,
                              !.observation = "operator_resolved", !.rev = was.rev + 1]
      OBVIOUS
    <3>3. inc = Resolved(incidents[i])
      BY <3>1, <3>2 DEF Resolved, Saved, Incident
    <3>4. /\ inc \in Incident /\ inc.transition = "manual_closed"
          /\ inc.binding = was.binding /\ inc.mode = was.mode
          /\ inc.changed = was.changed /\ inc.last = was.last /\ inc.rev = was.rev + 1
      BY <3>1, <3>2 DEF Incident
    <3>5. was.transition = "open" /\ inc.rev > was.rev
      BY <2>2, <3>1, <3>4 DEF OpenIncidents, Incident
    <3>6. BackedBy(i, was)'
      BY <1>1, <1>2, <3>1, JudgedStays DEF EventsIInv, BackedInv
    <3>7. BackedBy(i, inc)'
      BY <3>4, <3>6 DEF BackedBy
    <3>8. \A j \in Windows : j < i /\ incidents[j] # None /\ incidents[j].binding = inc.binding
            => incidents[j].transition # "open" /\ incidents[j].last < i
      BY <1>1, <3>1, <3>4 DEF EventsIInv, SuccessionInv, Succeeding
    <3>9. \A j \in Windows : i < j /\ incidents[j] # None => incidents[j].binding # inc.binding
      BY <1>1, <3>1, <3>4, <3>5 DEF EventsIInv, SuccessionInv, Succeeding
    <3>10. \E a : a = [incidents EXCEPT ![i] = inc] /\ Applied(a)
      BY <1>2, <3>1, <3>4, <3>5, <3>7, <3>8, <3>9, ReplacedApplied
    <3> QED
      BY <1>1, <2>2, <3>3, <3>10
  <2> QED
    BY <2>1, <2>2
<1>4. incidents' \in [Windows -> Incident \cup {None}]
  BY <1>3 DEF Applied
<1>5. BackedInv' /\ SuccessionInv' /\ LastingTo(incidents')
  BY <1>3, <1>4, AppliedInv
<1>6. marking = None
  BY <1>1 DEF EventsIInv, EventsTypeOK
<1>7. EventsTypeOK'
  BY <1>1, <1>4, <1>6 DEF EventsIInv, EventsTypeOK, settingVars, viewVars, Unprojected
<1>8. JobsFollow'
  BY <1>1 DEF EventsIInv, JobsFollow
<1>9. DispatchInv'
  BY <1>1, <1>4, <1>5, <1>6, ViewStays DEF DispatchInv, Unprojected
<1> QED
  BY <1>1, <1>4, <1>5, <1>7, <1>8, <1>9, ViewStays DEF EventsIInv

(* What the projection shows is the incident as it is.                     *)
LEMMA ShownIs ==
  ASSUME EventsIInv, NEW i \in Windows, incidents[i] # None
  PROVE  Shown(i) = incidents[i] /\ incidents[i] \in Incident
<1>1. incidents[i] \in Incident /\ incidents[i].rev \in Nat
  BY DEF EventsIInv, EventsTypeOK, Incident
<1>2. CASE Behind(i)
  BY <1>1, <1>2 DEF Shown
<1>3. CASE ~Behind(i)
  <2>1. events[i] # None /\ ~(events[i].copy.rev < incidents[i].rev)
    BY <1>3 DEF Behind
  <2>2. events[i].copy.rev \in Nat /\ events[i].copy.rev <= incidents[i].rev
    BY <2>1 DEF EventsIInv, EventsTypeOK, ViewMatches, Event, Incident
  <2>3. events[i].copy = incidents[i]
    BY <1>1, <2>1, <2>2 DEF EventsIInv, ViewMatches
  <2> QED
    BY <1>1, <1>3, <2>3 DEF Shown
<1> QED
  BY <1>2, <1>3

LEMMA NextToProject ==
  ASSUME EventsIInv, todo # {}
  PROVE  Min(todo) \in todo /\ Min(todo) \in Windows /\ incidents[Min(todo)] # None
<1>1. todo \in SUBSET Windows /\ todo \in SUBSET Int
  BY InboxAssumption DEF EventsIInv, EventsTypeOK
<1>2. IsFiniteSet(todo)
  BY <1>1, EventsAssumption, FS_Subset
<1>3. Min(todo) \in todo
  BY <1>1, <1>2, MinIs
<1> QED
  BY <1>1, <1>3 DEF EventsIInv, DispatchInv

(* A projection shows the incident as it is, keeps the review and records  *)
(* the resolution it shows first.                                          *)
LEMMA ProjectShows ==
  ASSUME EventsIInv, Project
  PROVE  \/ UNCHANGED events /\ UNCHANGED marking
         \/ \E i \in todo :
              /\ incidents[i] # None /\ marking' = i
              /\ events' \in [Windows -> Event \cup {None}]
              /\ \A j \in Windows : j # i => events'[j] = events[j]
              /\ events'[i] # None /\ events'[i].copy = incidents[i]
              /\ events'[i].audits = IF incidents[i].transition = "manual_closed" THEN 1 ELSE 0
              /\ events[i] # None => events'[i].reviewed = events[i].reviewed
<1>1. CASE UNCHANGED events /\ UNCHANGED marking
  BY <1>1
<1>2. CASE ~(UNCHANGED events /\ UNCHANGED marking)
  <2>1. todo # {}
    BY DEF Project
  <2>2. PICK i \in todo : i = Min(todo) /\ i \in Windows /\ incidents[i] # None
    BY <2>1, NextToProject
  <2>3. /\ events' = [events EXCEPT ![i] =
             [copy |-> Shown(i), reviewed |-> Reviewed(i),
              audits |-> RecordedAudits(i) + IF ToAudit(i) THEN 1 ELSE 0]]
        /\ marking' = i
    BY <1>2, <2>2 DEF Project
  <2>4. Shown(i) = incidents[i] /\ incidents[i] \in Incident
    BY <2>2, ShownIs
  <2>5. events \in [Windows -> Event \cup {None}]
    BY DEF EventsIInv, EventsTypeOK
  <2>6. Reviewed(i) \in BOOLEAN /\ (events[i] # None => Reviewed(i) = events[i].reviewed)
    BY <2>2, <2>5 DEF Reviewed, Event
  <2>7. RecordedAudits(i) + (IF ToAudit(i) THEN 1 ELSE 0)
          = IF incidents[i].transition = "manual_closed" THEN 1 ELSE 0
    <3>1. CASE events[i] = None
      BY <3>1 DEF RecordedAudits, ToAudit
    <3>2. CASE events[i] # None
      <4>1. /\ events[i].audits = IF events[i].copy.transition = "manual_closed" THEN 1 ELSE 0
            /\ events[i].copy.transition = "manual_closed" =>
                 incidents[i].transition = "manual_closed"
        BY <2>2, <3>2 DEF EventsIInv, AuditedOnce, DispatchInv
      <4> QED
        BY <3>2, <4>1 DEF RecordedAudits, ToAudit
    <3> QED
      BY <3>1, <3>2
  <2>8. PICK ev \in Event :
          /\ events' = [events EXCEPT ![i] = ev]
          /\ ev.copy = incidents[i] /\ ev.reviewed = Reviewed(i)
          /\ ev.audits = IF incidents[i].transition = "manual_closed" THEN 1 ELSE 0
    <3>1. PICK n \in Nat : n = IF incidents[i].transition = "manual_closed" THEN 1 ELSE 0
      OBVIOUS
    <3>2. PICK inc \in Incident, r \in BOOLEAN : inc = incidents[i] /\ r = Reviewed(i)
      BY <2>4, <2>6
    <3>3. events' = [events EXCEPT ![i] = [copy |-> inc, reviewed |-> r, audits |-> n]]
      BY <2>3, <2>4, <2>7, <3>1, <3>2
    <3>4. [copy |-> inc, reviewed |-> r, audits |-> n] \in Event
      BY DEF Event
    <3> QED
      BY <3>1, <3>2, <3>3, <3>4
  <2>9. events' \in [Windows -> Event \cup {None}] /\ events'[i] = ev
        /\ \A j \in Windows : j # i => events'[j] = events[j]
    BY <2>2, <2>5, <2>8
  <2>10. ev # None
    BY <2>8, NoneIsNoEvent
  <2>11. events[i] # None => ev.reviewed = events[i].reviewed
    BY <2>6, <2>8
  <2> QED
    BY <2>2, <2>3, <2>8, <2>9, <2>10, <2>11
<1> QED
  BY <1>1, <1>2

LEMMA ProjectInv == ASSUME EventsIInv, Project PROVE EventsIInv'
<1>1. /\ UNCHANGED <<rows, settingVars, decisionVars, projected>>
      /\ todo # {} /\ marking = None
      /\ \/ UNCHANGED <<gate, todo, rare>>
         \/ rare' = rare + 1 /\ todo' = {} /\ gate' = "free" /\ UNCHANGED <<events, marking>>
  BY DEF Project, Rare, StopDispatch
<1>2. JobsFollow' /\ BackedInv' /\ SuccessionInv'
  BY <1>1 DEF EventsIInv, JobsFollow, BackedInv, BackedBy, Judged, Used, SuccessionInv, Succeeding,
     decisionVars
<1>4. CASE UNCHANGED events /\ UNCHANGED marking
  <2>1. EventsTypeOK'
    BY <1>1, <1>4 DEF EventsIInv, EventsTypeOK, settingVars, decisionVars
  <2>2. ViewMatches' /\ AuditedOnce' /\ DispatchInv'
    BY <1>1, <1>4 DEF EventsIInv, ViewMatches, AuditedOnce, DispatchInv, decisionVars
  <2> QED
    BY <1>2, <2>1, <2>2 DEF EventsIInv
<1>5. CASE ~(UNCHANGED events /\ UNCHANGED marking)
  <2>1. UNCHANGED <<gate, todo, rare>>
    BY <1>1, <1>5
  <2>2. PICK i \in todo :
          /\ incidents[i] # None /\ marking' = i
          /\ events' \in [Windows -> Event \cup {None}]
          /\ \A j \in Windows : j # i => events'[j] = events[j]
          /\ events'[i] # None /\ events'[i].copy = incidents[i]
          /\ events'[i].audits = IF incidents[i].transition = "manual_closed" THEN 1 ELSE 0
    BY <1>5, ProjectShows
  <2>3. EventsTypeOK'
    BY <1>1, <2>1, <2>2 DEF EventsIInv, EventsTypeOK, settingVars, decisionVars
  <2>4. incidents' = incidents /\ projected' = projected
    BY <1>1 DEF decisionVars
  <2>5. i \in Windows /\ incidents[i] \in Incident /\ incidents[i].rev \in Nat
    BY <2>2 DEF EventsIInv, EventsTypeOK, Incident
  <2>6. projected[i] > 0 => projected[i] <= incidents[i].rev
    <3>1. projected[i] > 0 => /\ events[i] # None /\ projected[i] <= events[i].copy.rev
                              /\ events[i].copy.rev <= incidents[i].rev
      BY <2>5 DEF EventsIInv, ViewMatches
    <3>2. projected[i] \in Nat /\ (events[i] # None => events[i].copy.rev \in Nat)
      BY <2>5 DEF EventsIInv, EventsTypeOK, Event, Incident
    <3> QED
      BY <2>5, <3>1, <3>2
  <2>7. ViewMatches'
    BY <2>2, <2>4, <2>5, <2>6 DEF EventsIInv, ViewMatches
  <2>8. AuditedOnce'
    BY <2>2, <2>5 DEF EventsIInv, AuditedOnce
  <2>9. DispatchInv'
    BY <2>1, <2>2, <2>4, <2>5 DEF EventsIInv, DispatchInv
  <2> QED
    BY <1>2, <2>3, <2>7, <2>8, <2>9 DEF EventsIInv
<1> QED
  BY <1>4, <1>5

LEMMA MarkInv == ASSUME EventsIInv, Mark PROVE EventsIInv'
<1>1. /\ UNCHANGED <<rows, settingVars, decisionVars, events>>
      /\ marking # None /\ marking' = None
      /\ \/ /\ projected' = [projected EXCEPT ![marking] = incidents[marking].rev]
            /\ UNCHANGED rare
            /\ \/ todo = {marking} /\ todo' = {} /\ gate' = "free"
               \/ todo # {marking} /\ todo' = todo \ {marking} /\ UNCHANGED gate
         \/ rare' = rare + 1 /\ todo' = {} /\ gate' = "free" /\ UNCHANGED projected
  BY DEF Mark, Rare, StopDispatch
<1>2. /\ marking \in todo /\ marking \in Windows /\ events[marking] # None
      /\ incidents[marking] # None /\ events[marking].copy.rev = incidents[marking].rev
      /\ incidents[marking].rev \in Nat
  BY <1>1 DEF EventsIInv, EventsTypeOK, DispatchInv, Incident
<1>3. JobsFollow' /\ BackedInv' /\ SuccessionInv' /\ AuditedOnce'
  BY <1>1 DEF EventsIInv, JobsFollow, BackedInv, BackedBy, Judged, Used, SuccessionInv, Succeeding,
     AuditedOnce, decisionVars
<1>4. todo' \in SUBSET Windows /\ (gate' = "free") = (todo' = {})
      /\ gate' \in {"free", "worker", "operator"} /\ rare' \in Nat
  BY <1>1, <1>2 DEF EventsIInv, EventsTypeOK
<1>5. /\ projected' \in [Windows -> Nat]
      /\ \A i \in Windows : i # marking => projected'[i] = projected[i]
      /\ projected'[marking] \in {projected[marking], incidents[marking].rev}
  <2>1. projected \in [Windows -> Nat]
    BY DEF EventsIInv, EventsTypeOK
  <2>2. CASE projected' = [projected EXCEPT ![marking] = incidents[marking].rev]
    BY <1>2, <2>1, <2>2
  <2>3. CASE UNCHANGED projected
    BY <1>2, <2>1, <2>3
  <2> QED
    BY <1>1, <2>2, <2>3
<1>6. EventsTypeOK'
  BY <1>1, <1>4, <1>5 DEF EventsIInv, EventsTypeOK, settingVars, decisionVars
<1>7. ViewMatches'
  BY <1>1, <1>2, <1>5 DEF EventsIInv, ViewMatches, decisionVars
<1>8. DispatchInv'
  BY <1>1 DEF EventsIInv, DispatchInv, decisionVars
<1> QED
  BY <1>3, <1>6, <1>7, <1>8 DEF EventsIInv

LEMMA ReviewInv == ASSUME EventsIInv, NEW i \in Windows, Review(i) PROVE EventsIInv'
<1>1. /\ UNCHANGED <<rows, settingVars, decisionVars, projected, dispatchVars>>
      /\ events[i] # None /\ rare' = rare + 1
      /\ events' = [events EXCEPT ![i].reviewed = ~@]
  BY DEF Review, Rare
<1>2. PICK was \in Event : was = events[i]
  BY <1>1 DEF EventsIInv, EventsTypeOK
<1>3. events' = [events EXCEPT ![i] = [was EXCEPT !.reviewed = ~was.reviewed]]
  BY <1>1, <1>2 DEF EventsIInv, EventsTypeOK, Event
<1>4. PICK ev \in Event : /\ events' = [events EXCEPT ![i] = ev]
                          /\ ev.copy = was.copy /\ ev.audits = was.audits
  <2>1. PICK ev : ev = [was EXCEPT !.reviewed = ~was.reviewed]
    OBVIOUS
  <2>2. ev \in Event /\ ev.copy = was.copy /\ ev.audits = was.audits
    BY <2>1 DEF Event
  <2> QED
    BY <1>3, <2>1, <2>2
<1>5. /\ events' \in [Windows -> Event \cup {None}] /\ events'[i] = ev /\ ev # None
      /\ \A j \in Windows : j # i => events'[j] = events[j]
  BY <1>4, NoneIsNoEvent DEF EventsIInv, EventsTypeOK
<1>6. \A j \in Windows : /\ events'[j] = None <=> events[j] = None
                         /\ events[j] # None => /\ events'[j].copy = events[j].copy
                                                /\ events'[j].audits = events[j].audits
  BY <1>1, <1>2, <1>4, <1>5
<1>7. EventsTypeOK'
  BY <1>1, <1>5 DEF EventsIInv, EventsTypeOK, settingVars, decisionVars, dispatchVars
<1>8. JobsFollow' /\ BackedInv' /\ SuccessionInv'
  BY <1>1 DEF EventsIInv, JobsFollow, BackedInv, BackedBy, Judged, Used, SuccessionInv, Succeeding,
     decisionVars
<1>9. ViewMatches' /\ AuditedOnce'
  BY <1>1, <1>6 DEF EventsIInv, ViewMatches, AuditedOnce, decisionVars
<1>10. DispatchInv'
  <2>1. marking # None => marking \in Windows
    BY DEF EventsIInv, EventsTypeOK
  <2> QED
    BY <1>1, <1>6, <2>1 DEF EventsIInv, DispatchInv, decisionVars, dispatchVars
<1> QED
  BY <1>7, <1>8, <1>9, <1>10 DEF EventsIInv

LEMMA RestartInv == ASSUME EventsIInv, Restart PROVE EventsIInv'
<1>1. /\ UNCHANGED <<rows, now, mapped, decisionVars, viewVars>>
      /\ server' \in [model : Bindings \cup {None}, mode : Modes] /\ rare' = rare + 1
      /\ todo' = {} /\ gate' = "free" /\ marking' = None
  BY DEF Restart, Rare, StopDispatch
<1>2. EventsTypeOK'
  BY <1>1 DEF EventsIInv, EventsTypeOK, decisionVars, viewVars
<1>3. JobsFollow' /\ BackedInv' /\ SuccessionInv' /\ ViewMatches' /\ AuditedOnce' /\ DispatchInv'
  BY <1>1 DEF EventsIInv, JobsFollow, BackedInv, BackedBy, Judged, Used, SuccessionInv, Succeeding,
     ViewMatches, AuditedOnce, DispatchInv, decisionVars, viewVars
<1> QED
  BY <1>2, <1>3 DEF EventsIInv

(* The clock, the mapping and the count of rare events bind nothing.       *)
LEMMA SettingsInv ==
  ASSUME EventsIInv, UNCHANGED <<rows, server, decisionVars, viewVars, dispatchVars>>,
         now' \in Nat, mapped' \in BOOLEAN, rare' \in Nat
  PROVE  EventsIInv'
<1>1. EventsTypeOK'
  BY DEF EventsIInv, EventsTypeOK, decisionVars, viewVars, dispatchVars
<1>2. JobsFollow' /\ BackedInv' /\ SuccessionInv' /\ ViewMatches' /\ AuditedOnce' /\ DispatchInv'
  BY DEF EventsIInv, JobsFollow, BackedInv, BackedBy, Judged, Used, SuccessionInv, Succeeding,
     ViewMatches, AuditedOnce, DispatchInv, decisionVars, viewVars, dispatchVars
<1> QED
  BY <1>1, <1>2 DEF EventsIInv

LEMMA SameLasts == ASSUME UNCHANGED incidents PROVE LastingTo(incidents')
BY DEF LastingTo

LEMMA EventsStep ==
  ASSUME EventsIInv, [EventsNext]_eventVars
  PROVE  EventsIInv' /\ LastingTo(incidents')
<1>0. now \in Nat /\ mapped \in BOOLEAN /\ rare \in Nat
  BY DEF EventsIInv, EventsTypeOK
<1>1. ASSUME NEW w \in Windows, Ingest(w) PROVE EventsIInv' /\ LastingTo(incidents')
  BY <1>1, IngestInv, SameLasts DEF Ingest
<1>2. ASSUME NEW w \in Windows, Infer(w) PROVE EventsIInv' /\ LastingTo(incidents')
  BY <1>2, InferInv, SameLasts DEF Infer, decisionVars
<1>3. CASE Tick
  BY <1>3, TickInv
<1>4. CASE Project
  BY <1>4, ProjectInv, SameLasts DEF Project, decisionVars
<1>5. CASE Mark
  BY <1>5, MarkInv, SameLasts DEF Mark, decisionVars
<1>6. ASSUME NEW i \in Windows, Resolve(i) PROVE EventsIInv' /\ LastingTo(incidents')
  BY <1>6, ResolveInv
<1>7. ASSUME NEW i \in Windows, Review(i) PROVE EventsIInv' /\ LastingTo(incidents')
  BY <1>7, ReviewInv, SameLasts DEF Review, decisionVars
<1>8. CASE Pass
  BY <1>0, <1>8, SettingsInv, SameLasts DEF Pass, decisionVars
<1>9. CASE Remap
  BY <1>0, <1>9, SettingsInv, SameLasts DEF Remap, Rare, decisionVars
<1>10. CASE Restart
  BY <1>10, RestartInv, SameLasts DEF Restart, decisionVars
<1>11. CASE UNCHANGED eventVars
  BY <1>0, <1>11, SettingsInv, SameLasts DEF eventVars, settingVars, decisionVars
<1> QED
  BY <1>1, <1>2, <1>3, <1>4, <1>5, <1>6, <1>7, <1>8, <1>9, <1>10, <1>11 DEF EventsNext

(* The inductive invariant of the incidents and their projection.          *)
THEOREM EventsInvariance == EventsSpec => []EventsIInv
<1>1. EventsInit => EventsIInv
  BY EventsInitially
<1>2. EventsIInv /\ [EventsNext]_eventVars => EventsIInv'
  BY EventsStep
<1> QED
  BY <1>1, <1>2, PTL DEF EventsSpec

LEMMA BackedAndInOrder == EventsIInv => IncidentsHold
<1> SUFFICES ASSUME EventsIInv PROVE IncidentsHold
  OBVIOUS
<1>1. ASSUME NEW i \in Windows, incidents[i] # None
      PROVE  BackedBy(i, incidents[i]) /\ incidents[i] \in Incident
  BY <1>1 DEF EventsIInv, EventsTypeOK, BackedInv
<1>2. TransitionsAreBacked
  BY <1>1 DEF TransitionsAreBacked, BackedBy, Judged
<1>3. IncidentsInOrder
  BY <1>1 DEF IncidentsInOrder, BackedBy, EventsIInv, SuccessionInv, Succeeding
<1> QED
  BY <1>2, <1>3 DEF IncidentsHold

(* Every opening and recovery rests on a judgement of its own model, in the *)
(* mode the incident carries, and the incidents of a model follow each     *)
(* other in the time of measurement.                                       *)
THEOREM IncidentsStayBacked == EventsSpec => []IncidentsHold
BY EventsInvariance, BackedAndInOrder, PTL

(* The shared view never runs ahead of an incident, and a resolution is in *)
(* the audit log exactly once as soon as the view shows it.                *)
THEOREM ViewStaysTrue == EventsSpec => []ViewHolds
<1>1. EventsIInv => ViewHolds
  BY DEF EventsIInv, ViewHolds
<1> QED
  BY <1>1, EventsInvariance, PTL

LEMMA ReviewsStep ==
  ASSUME EventsIInv, [EventsNext]_eventVars, NEW i \in Windows, events[i] # None
  PROVE  /\ events'[i] # None /\ events'[i].copy.rev >= events[i].copy.rev
         /\ events'[i].copy # events[i].copy => events'[i].reviewed = events[i].reviewed
<1>1. events[i] \in Event /\ events[i].copy.rev \in Nat
  BY DEF EventsIInv, EventsTypeOK, Event, Incident
<1>2. CASE UNCHANGED events
  BY <1>1, <1>2
<1>3. CASE Project /\ ~UNCHANGED events
  <2>1. PICK j \in todo :
          /\ incidents[j] # None
          /\ \A v \in Windows : v # j => events'[v] = events[v]
          /\ events'[j] # None /\ events'[j].copy = incidents[j]
          /\ events[j] # None => events'[j].reviewed = events[j].reviewed
    BY <1>3, ProjectShows
  <2>2. events[i].copy.rev <= incidents[i].rev /\ incidents[i].rev \in Nat
    BY NoneIsNoEvent DEF EventsIInv, EventsTypeOK, ViewMatches, Incident
  <2>3. CASE i = j
    BY <1>1, <2>1, <2>2, <2>3
  <2>4. CASE i # j
    BY <1>1, <2>1, <2>4
  <2> QED
    BY <2>3, <2>4
<1>4. ASSUME NEW j \in Windows, Review(j)
      PROVE  events'[i].copy = events[i].copy /\ events'[i] # None
  <2>1. events' = [events EXCEPT ![j].reviewed = ~@] /\ events \in [Windows -> Event \cup {None}]
    BY <1>4 DEF Review, EventsIInv, EventsTypeOK
  <2>2. CASE i # j
    BY <2>1, <2>2
  <2>3. CASE i = j
    <3>1. events'[i] = [events[i] EXCEPT !.reviewed = ~@]
      BY <2>1, <2>3
    <3>2. events'[i] \in Event /\ events'[i].copy = events[i].copy
      BY <1>1, <3>1 DEF Event
    <3> QED
      BY <3>2, NoneIsNoEvent
  <2> QED
    BY <2>2, <2>3
<1>5. UNCHANGED events \/ Project \/ \E j \in Windows : Review(j)
  BY DEF EventsNext, eventVars, viewVars, Ingest, Infer, Tick, Mark, Resolve, Pass, Remap, Restart
<1> QED
  BY <1>1, <1>2, <1>3, <1>4, <1>5

(* No projection undoes a review and no review undoes a projection.        *)
THEOREM ReviewsStay == EventsSpec => ReviewKept
<1>1. EventsIInv /\ [EventsNext]_eventVars =>
        [\A i \in Windows : events[i] # None =>
           /\ events'[i] # None /\ events'[i].copy.rev >= events[i].copy.rev
           /\ events'[i].copy # events[i].copy =>
                events'[i].reviewed = events[i].reviewed]_eventVars
  BY ReviewsStep
<1> QED
  BY <1>1, EventsInvariance, PTL DEF EventsSpec, ReviewKept
-----------------------------------------------------------------------------
(* The outbox.                                                             *)

IsTrue(i, t) ==
  /\ incidents[i] # None /\ incidents[i].mode = "alerts"
  /\ t = "closed" => incidents[i].transition = "closed"

(* A thread has a delivery of its own channel exactly while it is busy; what *)
(* it is about to send is true, was not confirmed, and no recovery of the  *)
(* incident was sent before its opening.                                   *)
Busy(c, w) ==
  /\ (w.pc = "idle") = (w.key = None)
  /\ w.key # None => w.key[3] = c
  /\ w.pc = "send" =>
       /\ IsTrue(w.key[1], w.key[2])
       /\ w.key[2] = "open" => sends[<<w.key[1], "closed", c>>] = 0
  /\ w.pc \in {"guard", "send"} => w.key \notin confirmed
WorkerInv == \A c \in Channels : Busy(c, worker[c])

(* A delivery is of an incident that exists, and may be attempted once more  *)
(* while it is due.                                                        *)
DeliveryInv ==
  \A k \in Keys : deliveries[k] # None =>
    /\ incidents[k[1]] # None
    /\ deliveries[k].status \in {"pending", "sending"} => deliveries[k].attempts < MaxAttempts

(* What was confirmed is in the outbox as sent, or its thread still has to *)
(* save that.                                                              *)
ToSave(k) ==
  /\ worker[k[3]].key = k /\ worker[k[3]].outcome = "sent"
  /\ worker[k[3]].pc \in {"save", "unsaved"}
ConfirmedInv ==
  \A k \in confirmed : deliveries[k] # None /\ (deliveries[k].status = "sent" \/ ToSave(k))

(* What the coordinator or an operator looks at is a copy of an incident.  *)
CopyInv ==
  /\ \A o \in coordinator.batch : incidents[o.key[1]] # None
  /\ coordinator.pc \in {"queue", "seen"} => Unseen # {}
  /\ request # None => incidents[request.key[1]] # None

OutboxInv == AnnouncedIsTrue /\ OneSender /\ WorkerInv /\ DeliveryInv /\ ConfirmedInv
AlertsIInv == EventsIInv /\ TypeOK /\ OutboxInv /\ CopyInv

Requests == [key : Observations, reviewed : BOOLEAN, allowed : BOOLEAN]
Coordinators == [pc : {"idle", "flush", "observe", "queue", "seen"}, batch : SUBSET Observed,
                 allowed : BOOLEAN]
Workers == [pc : {"idle", "guard", "send", "save", "unsaved"}, key : Keys \cup {None},
            outcome : Outcome]
USE DEF Requests, Coordinators, Workers

LEMMA IdleOnes == IdleCoordinator \in Coordinators /\ IdleWorker \in Workers
BY DEF IdleCoordinator, IdleWorker, Outcome

LEMMA KeyParts ==
  ASSUME NEW k \in Keys
  PROVE  /\ k[1] \in Windows /\ k[2] \in {"open", "closed"} /\ k[3] \in Channels
         /\ k = <<k[1], k[2], k[3]>>
BY DEF Keys, Announced

LEMMA AlertsInitially == AlertsInit => AlertsIInv
<1> SUFFICES ASSUME AlertsInit PROVE AlertsIInv
  OBVIOUS
<1>1. EventsIInv
  BY EventsInitially DEF AlertsInit
<1>2. TypeOK
  BY <1>1, IdleOnes DEF AlertsInit, TypeOK, EventsIInv
<1>3. OutboxInv
  BY NoneIsNoDelivery, KeyParts DEF AlertsInit, OutboxInv, AnnouncedIsTrue, OneSender, WorkerInv,
     Busy, DeliveryInv, ConfirmedInv, IdleWorker
<1>4. CopyInv
  BY DEF AlertsInit, CopyInv, IdleCoordinator
<1> QED
  BY <1>1, <1>2, <1>3, <1>4 DEF AlertsIInv

(* What the outbox holds of incidents outlasts every step of theirs.       *)
LEMMA TruthStays ==
  ASSUME EventsIInv, LastingTo(incidents'), NEW i \in Windows, NEW t
  PROVE  /\ incidents[i] # None => incidents'[i] # None
         /\ IsTrue(i, t) => IsTrue(i, t)'
BY DEF LastingTo, IsTrue

LEMMA OutboxStays ==
  ASSUME AlertsIInv, LastingTo(incidents'), UNCHANGED <<deliveries, worker, sendVars>>
  PROVE  OutboxInv'
<1>1. EventsIInv /\ OutboxInv
  BY DEF AlertsIInv
<1>2. deliveries' = deliveries /\ worker' = worker /\ sends' = sends /\ confirmed' = confirmed
  BY DEF sendVars
<1>3. AnnouncedIsTrue'
  <2>1. \A k \in Keys : sends[k] > 0 => IsTrue(k[1], k[2])
    BY <1>1 DEF OutboxInv, AnnouncedIsTrue, IsTrue
  <2>2. \A k \in Keys : sends[k] > 0 => IsTrue(k[1], k[2])'
    BY <1>1, <2>1, KeyParts, TruthStays
  <2> QED
    BY <1>2, <2>2 DEF AnnouncedIsTrue, IsTrue
<1>4. OneSender'
  BY <1>1, <1>2 DEF OutboxInv, OneSender
<1>5. ASSUME NEW c \in Channels PROVE Busy(c, worker[c])'
  <2>1. Busy(c, worker[c])
    BY <1>1 DEF OutboxInv, WorkerInv
  <2>2. worker[c].pc = "send" => worker[c].key \in Keys
    BY <2>1 DEF AlertsIInv, TypeOK, Busy
  <2>3. worker[c].pc = "send" => IsTrue(worker[c].key[1], worker[c].key[2])'
    BY <1>1, <2>1, <2>2, KeyParts, TruthStays DEF Busy
  <2> QED
    BY <1>2, <2>1, <2>3 DEF Busy
<1>6. DeliveryInv'
  BY <1>1, <1>2, KeyParts, TruthStays DEF OutboxInv, DeliveryInv
<1>7. ConfirmedInv'
  BY <1>1, <1>2 DEF OutboxInv, ConfirmedInv, ToSave
<1> QED
  BY <1>3, <1>4, <1>5, <1>6, <1>7 DEF OutboxInv, WorkerInv

LEMMA CopiesStay ==
  ASSUME AlertsIInv, LastingTo(incidents'), UNCHANGED <<coordinator, seen, request>>
  PROVE  CopyInv'
<1>1. EventsIInv /\ CopyInv
  BY DEF AlertsIInv
<1>2. \A o \in coordinator.batch : o.key[1] \in Windows
  BY DEF AlertsIInv, TypeOK, Observed, Observations
<1>3. request # None => request.key[1] \in Windows
  BY DEF AlertsIInv, TypeOK, Observations
<1> QED
  BY <1>1, <1>2, <1>3, TruthStays DEF CopyInv, Unseen

(* A step of the event worker or of an operator beside the outbox.         *)
LEMMA BesideInv ==
  ASSUME AlertsIInv, EventsIInv', LastingTo(incidents'), UNCHANGED alertVars
  PROVE  AlertsIInv'
<1>1. TypeOK'
  BY DEF AlertsIInv, EventsIInv, TypeOK, alertVars, sendVars
<1> QED
  BY <1>1, OutboxStays, CopiesStay DEF AlertsIInv, alertVars

(* A step of the outbox leaves the events alone, but for a rare failure.   *)
LEMMA EventsAside ==
  ASSUME AlertsIInv, UNCHANGED <<rows, settingVars, decisionVars, viewVars, dispatchVars>>,
         UNCHANGED rare \/ Rare
  PROVE  EventsIInv' /\ EventsTypeOK' /\ LastingTo(incidents') /\ incidents' = incidents
<1>1. EventsIInv'
  <2>1. now \in Nat /\ mapped \in BOOLEAN /\ rare \in Nat
    BY DEF AlertsIInv, EventsIInv, EventsTypeOK
  <2> QED
    BY <2>1, SettingsInv DEF AlertsIInv, Rare, settingVars
<1> QED
  BY <1>1, SameLasts DEF EventsIInv, decisionVars

LEMMA OldestIs ==
  ASSUME AlertsIInv, Unseen # {}
  PROVE  /\ Oldest \in Unseen /\ Oldest \in Observed
         /\ Oldest.key \in Observations /\ Oldest.key[1] \in Windows
         /\ incidents[Oldest.key[1]] # None
<1>1. /\ Unseen \subseteq coordinator.batch /\ Unseen \subseteq Observed
      /\ \A o \in Unseen : incidents[o.key[1]] # None
  BY DEF Unseen, AlertsIInv, TypeOK, CopyInv
<1>2. \A o \in Observed : o.key \in Observations /\ o.key[1] \in Windows
  BY DEF Observed, Observations
<1> DEFINE S == {o.key[1] : o \in Unseen}
<1>3. S \in SUBSET Nat /\ S # {}
  BY <1>1, <1>2, InboxAssumption
<1>4. PICK m \in S : \A n \in S : m <= n
  BY <1>3, LeastOfNaturals
<1>5. PICK o \in Unseen : o.key[1] = m
  BY <1>4
<1>6. \A p \in Unseen : o.key[1] <= p.key[1]
  BY <1>4, <1>5
<1>7. Oldest \in Unseen
  BY <1>6 DEF Oldest
<1> QED
  BY <1>1, <1>2, <1>7

LEMMA WorkerTickInv == ASSUME AlertsIInv, WorkerTick PROVE AlertsIInv'
<1>1. UNCHANGED <<seen, deliveries, worker, request, sendVars>>
      /\ coordinator' = [IdleCoordinator EXCEPT !.pc = "flush"]
  BY DEF WorkerTick
<1>2. EventsIInv' /\ LastingTo(incidents')
  <2>1. CASE Tick
    BY <2>1, TickInv DEF AlertsIInv
  <2>2. CASE ~Tick
    BY <2>2, EventsAside DEF WorkerTick
  <2> QED
    BY <2>1, <2>2
<1>3. coordinator' \in Coordinators /\ coordinator'.pc = "flush" /\ coordinator'.batch = {}
  BY <1>1, IdleOnes DEF IdleCoordinator
<1>4. TypeOK'
  BY <1>1, <1>2, <1>3 DEF AlertsIInv, EventsIInv, TypeOK, sendVars
<1>5. CopyInv'
  <2>1. request # None => request.key[1] \in Windows
    BY DEF AlertsIInv, TypeOK, Observations
  <2> QED
    BY <1>1, <1>2, <1>3, <2>1, TruthStays DEF AlertsIInv, CopyInv
<1> QED
  BY <1>1, <1>2, <1>4, <1>5, OutboxStays DEF AlertsIInv

LEMMA CollectInv == ASSUME AlertsIInv, Collect PROVE AlertsIInv'
<1>1. /\ UNCHANGED <<eventVars, seen, deliveries, worker, request, sendVars>>
      /\ coordinator' = [IdleCoordinator EXCEPT !.pc = "observe", !.batch =
           {[key |-> <<i, events[i].copy.transition>>, reviewed |-> events[i].reviewed] :
              i \in ViewCopy}]
  BY DEF Collect
<1>2. PICK batch : batch =
        {[key |-> <<i, events[i].copy.transition>>, reviewed |-> events[i].reviewed] :
           i \in ViewCopy}
  OBVIOUS
<1>3. \A i \in ViewCopy : /\ i \in Windows /\ incidents[i] # None
                          /\ events[i].copy.transition \in {"open", "closed", "manual_closed"}
                          /\ events[i].reviewed \in BOOLEAN
  BY DEF ViewCopy, AlertsIInv, EventsIInv, EventsTypeOK, ViewMatches, Event, Incident
<1>4. batch \in SUBSET Observed /\ \A o \in batch : incidents[o.key[1]] # None
  BY <1>2, <1>3 DEF Observed, Observations
<1>5. /\ coordinator' \in Coordinators /\ coordinator'.pc = "observe"
      /\ coordinator'.batch = batch
  BY <1>1, <1>2, <1>4 DEF IdleCoordinator
<1>6. EventsIInv' /\ EventsTypeOK' /\ LastingTo(incidents') /\ incidents' = incidents
  BY <1>1, EventsAside DEF eventVars
<1>7. TypeOK'
  BY <1>1, <1>5, <1>6 DEF AlertsIInv, TypeOK, sendVars
<1>8. CopyInv'
  BY <1>1, <1>4, <1>5, <1>6 DEF AlertsIInv, CopyInv
<1> QED
  BY <1>1, <1>6, <1>7, <1>8, OutboxStays DEF AlertsIInv

LEMMA AskInv == ASSUME AlertsIInv, Ask PROVE AlertsIInv'
<1>1. /\ UNCHANGED <<eventVars, seen, deliveries, worker, request, sendVars>> /\ Unseen # {}
      /\ coordinator' = [coordinator EXCEPT !.pc = "queue",
                           !.allowed = Allowed(Oldest.key[1], Oldest.key[2])]
  BY DEF Ask
<1>2. Allowed(Oldest.key[1], Oldest.key[2]) \in BOOLEAN
  BY DEF Allowed
<1>3. /\ coordinator' \in Coordinators /\ coordinator'.batch = coordinator.batch
  BY <1>1, <1>2 DEF AlertsIInv, TypeOK
<1>4. EventsIInv' /\ EventsTypeOK' /\ LastingTo(incidents') /\ incidents' = incidents
  BY <1>1, EventsAside DEF eventVars
<1>5. TypeOK'
  BY <1>1, <1>3, <1>4 DEF AlertsIInv, TypeOK, sendVars
<1>6. CopyInv'
  BY <1>1, <1>3, <1>4 DEF AlertsIInv, CopyInv, Unseen
<1> QED
  BY <1>1, <1>4, <1>5, <1>6, OutboxStays DEF AlertsIInv

LEMMA MarkSeenInv == ASSUME AlertsIInv, MarkSeen PROVE AlertsIInv'
<1>1. /\ coordinator.pc = "seen"
      /\ \/ /\ seen' = seen \cup {Oldest.key}
            /\ coordinator' = [coordinator EXCEPT !.pc = "observe"]
         \/ coordinator' = IdleCoordinator /\ UNCHANGED seen
      /\ UNCHANGED <<deliveries, worker, request, sendVars>>
  BY DEF MarkSeen
<1>2. EventsIInv' /\ EventsTypeOK' /\ LastingTo(incidents') /\ incidents' = incidents
  BY EventsAside DEF MarkSeen
<1>3. Oldest.key \in Observations
  BY <1>1, OldestIs DEF AlertsIInv, CopyInv
<1>4. /\ coordinator' \in Coordinators /\ coordinator'.pc \notin {"queue", "seen"}
      /\ coordinator'.batch \subseteq coordinator.batch
  <2>1. coordinator \in Coordinators
    BY DEF AlertsIInv, TypeOK
  <2>2. CASE coordinator' = [coordinator EXCEPT !.pc = "observe"]
    BY <2>1, <2>2
  <2>3. CASE coordinator' = IdleCoordinator
    BY <2>3, IdleOnes DEF IdleCoordinator
  <2> QED
    BY <1>1, <2>2, <2>3
<1>5. TypeOK'
  BY <1>1, <1>2, <1>3, <1>4 DEF AlertsIInv, TypeOK, sendVars
<1>6. CopyInv'
  BY <1>1, <1>2, <1>4 DEF AlertsIInv, CopyInv
<1> QED
  BY <1>1, <1>2, <1>5, <1>6, OutboxStays DEF AlertsIInv

(* What is queued is due, and of an incident that exists.                  *)
LEMMA QueueKeeps ==
  ASSUME AlertsIInv, NEW i \in Windows, incidents[i] # None, NEW t, NEW allowed, NEW reviewed,
         Queue(i, t, allowed, reviewed), incidents' = incidents,
         UNCHANGED <<worker, sendVars>>
  PROVE  OutboxInv' /\ deliveries' \in [Keys -> Delivery \cup {None}]
<1>1. /\ worker' = worker /\ sends' = sends /\ confirmed' = confirmed
      /\ deliveries \in [Keys -> Delivery \cup {None}] /\ OutboxInv
  BY DEF sendVars, AlertsIInv, TypeOK
<1>2. PICK new : new = [status |-> "pending", attempts |-> 0]
  OBVIOUS
<1>3. /\ new \in Delivery /\ new # None /\ new.status = "pending" /\ new.attempts = 0
      /\ 0 < MaxAttempts
  BY <1>2, AlertsAssumption, NoneIsNoDelivery DEF Delivery
<1>4. \A k \in Keys : \/ deliveries'[k] = deliveries[k]
                      \/ k[1] = i /\ deliveries[k] = None /\ deliveries'[k] = new
  BY <1>2 DEF Queue
<1>5. deliveries' \in [Keys -> Delivery \cup {None}]
  BY <1>1, <1>2, <1>3 DEF Queue
<1>6. AnnouncedIsTrue' /\ WorkerInv'
  BY <1>1 DEF OutboxInv, AnnouncedIsTrue, WorkerInv, Busy, IsTrue
<1>7. OneSender'
  BY <1>1, <1>3, <1>4 DEF OutboxInv, OneSender
<1>8. DeliveryInv'
  BY <1>1, <1>3, <1>4 DEF OutboxInv, DeliveryInv
<1>9. ConfirmedInv'
  <2>1. confirmed \subseteq Keys
    BY DEF AlertsIInv, TypeOK
  <2> QED
    BY <1>1, <1>4, <2>1 DEF OutboxInv, ConfirmedInv, ToSave
<1> QED
  BY <1>5, <1>6, <1>7, <1>8, <1>9 DEF OutboxInv

LEMMA QueueObservedInv == ASSUME AlertsIInv, QueueObserved PROVE AlertsIInv'
<1>1. /\ coordinator.pc = "queue" /\ UNCHANGED <<seen, worker, request, sendVars>>
      /\ \/ /\ Queue(Oldest.key[1], Oldest.key[2], coordinator.allowed, Oldest.reviewed)
            /\ coordinator' = [coordinator EXCEPT !.pc = "seen"]
         \/ coordinator' = IdleCoordinator /\ UNCHANGED deliveries
  BY DEF QueueObserved
<1>2. EventsIInv' /\ EventsTypeOK' /\ LastingTo(incidents') /\ incidents' = incidents
  BY EventsAside DEF QueueObserved
<1>3. Unseen # {} /\ coordinator \in Coordinators
  BY <1>1 DEF AlertsIInv, CopyInv, TypeOK
<1>4. OutboxInv' /\ deliveries' \in [Keys -> Delivery \cup {None}]
  <2>1. CASE UNCHANGED deliveries
    BY <1>1, <1>2, <2>1, OutboxStays DEF AlertsIInv, TypeOK
  <2>2. CASE Queue(Oldest.key[1], Oldest.key[2], coordinator.allowed, Oldest.reviewed)
    BY <1>1, <1>2, <1>3, <2>2, OldestIs, QueueKeeps
  <2> QED
    BY <1>1, <2>1, <2>2
<1>5. /\ coordinator' \in Coordinators
      /\ coordinator' = IdleCoordinator \/ coordinator'.batch = coordinator.batch
  BY <1>1, <1>3, IdleOnes
<1>6. TypeOK'
  BY <1>1, <1>2, <1>4, <1>5 DEF AlertsIInv, TypeOK, sendVars
<1>7. CopyInv'
  <2>1. CASE coordinator' = IdleCoordinator
    BY <1>1, <1>2, <2>1 DEF AlertsIInv, CopyInv, IdleCoordinator
  <2>2. CASE coordinator'.batch = coordinator.batch
    BY <1>1, <1>2, <1>3, <2>2 DEF AlertsIInv, CopyInv, Unseen
  <2> QED
    BY <1>5, <2>1, <2>2
<1> QED
  BY <1>2, <1>4, <1>6, <1>7 DEF AlertsIInv

LEMMA QueueRequestedInv == ASSUME AlertsIInv, QueueRequested PROVE AlertsIInv'
<1>1. /\ request # None /\ request' = None /\ UNCHANGED <<seen, coordinator, worker, sendVars>>
      /\ \/ Queue(request.key[1], request.key[2], request.allowed, request.reviewed)
         \/ UNCHANGED deliveries
  BY DEF QueueRequested
<1>2. EventsIInv' /\ EventsTypeOK' /\ LastingTo(incidents') /\ incidents' = incidents
  BY EventsAside DEF QueueRequested
<1>3. request.key[1] \in Windows /\ incidents[request.key[1]] # None
  BY <1>1 DEF AlertsIInv, TypeOK, CopyInv, Observations
<1>4. OutboxInv' /\ deliveries' \in [Keys -> Delivery \cup {None}]
  <2>1. CASE UNCHANGED deliveries
    BY <1>1, <1>2, <2>1, OutboxStays DEF AlertsIInv, TypeOK
  <2>2. CASE Queue(request.key[1], request.key[2], request.allowed, request.reviewed)
    BY <1>1, <1>2, <1>3, <2>2, QueueKeeps
  <2> QED
    BY <1>1, <2>1, <2>2
<1>5. TypeOK'
  BY <1>1, <1>2, <1>4 DEF AlertsIInv, TypeOK, sendVars
<1>6. CopyInv'
  BY <1>1, <1>2 DEF AlertsIInv, CopyInv, Unseen
<1> QED
  BY <1>2, <1>4, <1>5, <1>6 DEF AlertsIInv

LEMMA RequestSendInv == ASSUME AlertsIInv, NEW i \in Windows, RequestSend(i) PROVE AlertsIInv'
<1>1. /\ events[i] # None /\ UNCHANGED <<seen, deliveries, coordinator, worker, sendVars>>
      /\ request' = [key |-> <<i, events[i].copy.transition>>, reviewed |-> events[i].reviewed,
                     allowed |-> Allowed(i, events[i].copy.transition)]
  BY DEF RequestSend
<1>2. EventsIInv' /\ EventsTypeOK' /\ LastingTo(incidents') /\ incidents' = incidents
  BY EventsAside DEF RequestSend
<1>3. /\ incidents[i] # None /\ events[i].reviewed \in BOOLEAN
      /\ events[i].copy.transition \in {"open", "closed", "manual_closed"}
  BY <1>1 DEF AlertsIInv, EventsIInv, EventsTypeOK, ViewMatches, Event, Incident
<1>4. Allowed(i, events[i].copy.transition) \in BOOLEAN
  BY DEF Allowed
<1>5. request' \in Requests /\ request'.key[1] = i
  BY <1>1, <1>3, <1>4 DEF Observations
<1>6. TypeOK'
  BY <1>1, <1>2, <1>5 DEF AlertsIInv, TypeOK, sendVars
<1>7. CopyInv'
  BY <1>1, <1>2, <1>3, <1>5 DEF AlertsIInv, CopyInv, Unseen
<1> QED
  BY <1>1, <1>2, <1>6, <1>7, OutboxStays DEF AlertsIInv

(* A claim hands a channel's thread a delivery that was due.               *)
LEMMA ClaimInv == ASSUME AlertsIInv, Claim PROVE AlertsIInv'
<1>1. coordinator' = IdleCoordinator /\ UNCHANGED <<seen, request, sendVars>>
  BY DEF Claim
<1>2. EventsIInv' /\ EventsTypeOK' /\ LastingTo(incidents') /\ incidents' = incidents
  BY EventsAside DEF Claim
<1>3. CopyInv'
  BY <1>1, <1>2 DEF AlertsIInv, CopyInv, IdleCoordinator
<1>4. CASE UNCHANGED <<deliveries, worker>>
  <2>1. TypeOK'
    BY <1>1, <1>2, <1>4, IdleOnes DEF AlertsIInv, TypeOK, sendVars
  <2> QED
    BY <1>1, <1>2, <1>3, <1>4, <2>1, OutboxStays DEF AlertsIInv
<1>5. CASE ~UNCHANGED <<deliveries, worker>>
  <2>1. PICK picked \in [Ready -> Keys] :
          /\ \A c \in Ready : picked[c] \in Waiting(c)
          /\ deliveries' = [k \in Keys |-> IF \E c \in Ready : picked[c] = k
                                           THEN [deliveries[k] EXCEPT !.status = "sending"]
                                           ELSE deliveries[k]]
          /\ worker' = [c \in Channels |->
                          IF c \in Ready THEN [IdleWorker EXCEPT !.pc = "guard", !.key = picked[c]]
                          ELSE worker[c]]
    BY ZenonT(60), <1>5 DEF Claim
  <2>2. /\ deliveries \in [Keys -> Delivery \cup {None}] /\ worker \in [Channels -> Workers]
        /\ OutboxInv /\ sends' = sends /\ confirmed' = confirmed /\ confirmed \subseteq Keys
    BY <1>1 DEF AlertsIInv, TypeOK, sendVars
  <2>3. \A c \in Ready : /\ c \in Channels /\ worker[c].pc = "idle" /\ worker[c].key = None
                         /\ picked[c] \in Keys /\ picked[c][3] = c
                         /\ deliveries[picked[c]] \in Delivery
                         /\ deliveries[picked[c]].status = "pending"
    BY ZenonT(60), <2>1, <2>2 DEF Ready, Waiting, OutboxInv, WorkerInv, Busy
  <2> DEFINE Picked(k) == \E c \in Ready : picked[c] = k
  <2>4. \A k \in Keys : Picked(k) =>
          /\ k[3] \in Ready /\ picked[k[3]] = k
          /\ deliveries[k] \in Delivery /\ deliveries[k].status = "pending"
          /\ deliveries'[k] \in Delivery /\ deliveries'[k].status = "sending"
          /\ deliveries'[k].attempts = deliveries[k].attempts
    <3>1. ASSUME NEW k \in Keys, Picked(k)
          PROVE  /\ k[3] \in Ready /\ picked[k[3]] = k
                 /\ deliveries[k] \in Delivery /\ deliveries[k].status = "pending"
      BY <2>3, <3>1
    <3>2. ASSUME NEW k \in Keys, Picked(k), deliveries[k] \in Delivery
          PROVE  /\ deliveries'[k] \in Delivery /\ deliveries'[k].status = "sending"
                 /\ deliveries'[k].attempts = deliveries[k].attempts
      <4>1. deliveries'[k] = [deliveries[k] EXCEPT !.status = "sending"]
        BY <2>1, <3>2
      <4> QED
        BY <3>2, <4>1 DEF Delivery
    <3> QED
      BY <3>1, <3>2
  <2>5. \A k \in Keys : ~Picked(k) => deliveries'[k] = deliveries[k]
    BY <2>1
  <2>6. \A c \in Ready : /\ worker'[c] \in Workers /\ worker'[c].pc = "guard"
                         /\ worker'[c].key = picked[c]
    BY <2>1, <2>3 DEF IdleWorker, Outcome
  <2>7. \A c \in Channels \ Ready : worker'[c] = worker[c]
    BY <2>1
  <2>8. \A c \in Ready : Picked(picked[c])
    OBVIOUS
  <2> HIDE DEF Picked
  <2>9. /\ deliveries' \in [Keys -> Delivery \cup {None}]
        /\ worker' \in [Channels -> Workers]
    <3>1. \A k \in Keys : deliveries'[k] \in Delivery \cup {None}
      BY <2>2, <2>4, <2>5
    <3>2. \A c \in Channels : worker'[c] \in Workers
      BY <2>2, <2>6, <2>7
    <3> QED
      BY <2>1, <3>1, <3>2
  <2>10. TypeOK'
    BY <1>1, <1>2, <2>9, IdleOnes DEF AlertsIInv, TypeOK, sendVars
  <2>11. AnnouncedIsTrue'
    BY <1>2, <2>2 DEF OutboxInv, AnnouncedIsTrue
  <2>12. ASSUME NEW k \in Keys
         PROVE  (deliveries'[k] # None /\ deliveries'[k].status = "sending")
                  = (worker'[k[3]].key = k)
    <3>1. CASE Picked(k)
      BY <2>4, <2>6, <3>1, NoneIsNoDelivery
    <3>2. CASE ~Picked(k) /\ k[3] \in Ready
      <4>1. worker'[k[3]].key # k
        BY <2>6, <2>8, <3>2
      <4>2. ~(deliveries[k] # None /\ deliveries[k].status = "sending")
        BY <2>2, <2>3, <3>2, NoneIsNoDelivery DEF OutboxInv, OneSender
      <4> QED
        BY <2>5, <3>2, <4>1, <4>2
    <3>3. CASE ~Picked(k) /\ k[3] \notin Ready
      BY <2>2, <2>5, <2>7, <3>3, KeyParts DEF OutboxInv, OneSender
    <3> QED
      BY <3>1, <3>2, <3>3
  <2>13. ASSUME NEW c \in Channels PROVE Busy(c, worker[c])'
    <3>1. CASE c \in Ready
      <4>1. picked[c] \notin confirmed
        <5>1. worker[picked[c][3]].key # picked[c]
          BY <2>3, <3>1, NoneIsNoDelivery
        <5> QED
          BY <2>2, <2>3, <3>1, <5>1 DEF OutboxInv, ConfirmedInv, ToSave
      <4> QED
        BY <2>2, <2>3, <2>6, <3>1, <4>1, NoneIsNoDelivery DEF Busy
    <3>2. CASE c \notin Ready
      BY <1>2, <2>2, <2>7, <3>2 DEF OutboxInv, WorkerInv, Busy, IsTrue
    <3> QED
      BY <3>1, <3>2
  <2>14. DeliveryInv'
    BY <1>2, <2>2, <2>4, <2>5, NoneIsNoDelivery DEF OutboxInv, DeliveryInv
  <2>15. ConfirmedInv'
    <3>1. ASSUME NEW k \in confirmed
          PROVE  deliveries'[k] # None /\ (deliveries'[k].status = "sent" \/ ToSave(k)')
      <4>1. k \in Keys /\ k[3] \in Channels /\ deliveries[k] # None
            /\ (deliveries[k].status = "sent" \/ ToSave(k))
        BY <2>2, KeyParts DEF OutboxInv, ConfirmedInv
      <4>2. CASE ToSave(k)
        <5>1. k[3] \notin Ready
          BY <2>3, <4>2 DEF ToSave
        <5>2. ~Picked(k)
          BY <2>4, <4>1, <5>1
        <5> QED
          BY <2>5, <2>7, <4>1, <4>2, <5>1, <5>2 DEF ToSave
      <4>3. CASE deliveries[k].status = "sent"
        BY <2>4, <2>5, <4>1, <4>3
      <4> QED
        BY <4>1, <4>2, <4>3
    <3> QED
      BY <2>2, <3>1 DEF ConfirmedInv
  <2> QED
    BY <1>2, <1>3, <2>10, <2>11, <2>12, <2>13, <2>14, <2>15
       DEF AlertsIInv, OutboxInv, OneSender, WorkerInv
<1> QED
  BY <1>4, <1>5

(* A busy thread works on a delivery the outbox says is sending.           *)
LEMMA BusyKey ==
  ASSUME AlertsIInv, NEW c \in Channels, worker[c].pc # "idle"
  PROVE  /\ worker[c] \in Workers /\ worker[c].key \in Keys /\ worker[c].key[3] = c
         /\ worker[c].key[1] \in Windows /\ worker[c].key[2] \in {"open", "closed"}
         /\ deliveries[worker[c].key] \in Delivery
         /\ deliveries[worker[c].key].status = "sending"
         /\ deliveries[worker[c].key].attempts < MaxAttempts
         /\ incidents[worker[c].key[1]] # None
<1>1. worker[c] \in Workers /\ Busy(c, worker[c])
  BY DEF AlertsIInv, TypeOK, OutboxInv, WorkerInv
<1>2. worker[c].key \in Keys /\ worker[c].key[3] = c
  BY <1>1 DEF Busy
<1>3. /\ deliveries[worker[c].key] # None
      /\ deliveries[worker[c].key].status = "sending"
  BY <1>2 DEF AlertsIInv, OutboxInv, OneSender
<1>4. deliveries[worker[c].key] \in Delivery
  BY <1>2, <1>3 DEF AlertsIInv, TypeOK
<1> QED
  BY <1>1, <1>2, <1>3, <1>4, KeyParts DEF AlertsIInv, OutboxInv, DeliveryInv

(* Two channels never work on one delivery.                                *)
LEMMA OthersElsewhere ==
  ASSUME AlertsIInv, NEW c \in Channels, NEW d \in Channels, d # c, worker[c].pc # "idle"
  PROVE  worker[d].key # worker[c].key
<1>1. worker[c].key[3] = c /\ worker[c].key # None
  BY BusyKey, NoneIsNoDelivery
<1>2. Busy(d, worker[d])
  BY DEF AlertsIInv, OutboxInv, WorkerInv
<1> QED
  BY <1>1, <1>2 DEF Busy

LEMMA GuardInv == ASSUME AlertsIInv, NEW c \in Channels, Guard(c) PROVE AlertsIInv'
<1>1. /\ worker[c].pc = "guard"
      /\ worker' = [worker EXCEPT ![c].pc =
           IF Allowed(worker[c].key[1], worker[c].key[2]) THEN "send" ELSE "save"]
      /\ UNCHANGED <<eventVars, seen, deliveries, coordinator, request, sendVars>>
  BY DEF Guard
<1>2. EventsIInv' /\ EventsTypeOK' /\ LastingTo(incidents') /\ incidents' = incidents
  BY <1>1, EventsAside DEF eventVars
<1>3. PICK was \in Workers : was = worker[c] /\ Busy(c, was)
  BY DEF AlertsIInv, TypeOK, OutboxInv, WorkerInv
<1>4. PICK pc \in {"send", "save"} :
        pc = IF Allowed(was.key[1], was.key[2]) THEN "send" ELSE "save"
  OBVIOUS
<1>5. PICK w \in Workers : /\ worker' = [worker EXCEPT ![c] = w]
                           /\ w.pc = pc /\ w.key = was.key /\ w.outcome = was.outcome
  <2>1. PICK w : w = [was EXCEPT !.pc = pc]
    OBVIOUS
  <2>2. w \in Workers /\ w.pc = pc /\ w.key = was.key /\ w.outcome = was.outcome
    BY <2>1
  <2>3. worker' = [worker EXCEPT ![c] = w]
    BY <1>1, <1>3, <1>4, <2>1 DEF AlertsIInv, TypeOK
  <2> QED
    BY <2>2, <2>3
<1>6. /\ worker' \in [Channels -> Workers] /\ worker'[c] = w
      /\ \A d \in Channels : d # c => worker'[d] = worker[d]
      /\ deliveries' = deliveries /\ sends' = sends /\ confirmed' = confirmed
      /\ OutboxInv /\ confirmed \subseteq Keys
  BY <1>1, <1>5 DEF AlertsIInv, TypeOK, sendVars
<1>7. TypeOK'
  BY <1>1, <1>2, <1>6 DEF AlertsIInv, TypeOK, sendVars
<1>8. was.key \in Keys /\ was.key[3] = c /\ was.key[2] \in {"open", "closed"}
      /\ was.key[1] \in Windows /\ incidents[was.key[1]] # None
  BY <1>1, <1>3, BusyKey
<1>9. AnnouncedIsTrue' /\ DeliveryInv'
  BY <1>2, <1>6 DEF OutboxInv, AnnouncedIsTrue, DeliveryInv
<1>10. OneSender'
  BY <1>3, <1>5, <1>6, KeyParts DEF OutboxInv, OneSender
<1>11. ConfirmedInv'
  <2>1. was.key \notin confirmed
    BY <1>1, <1>3 DEF Busy
  <2>2. \A k \in confirmed : k[3] = c => ~ToSave(k)
    BY <1>3, <2>1 DEF ToSave
  <2> QED
    BY <1>6, <2>2, KeyParts DEF OutboxInv, ConfirmedInv, ToSave
<1>12. ASSUME pc = "send"
       PROVE  /\ IsTrue(was.key[1], was.key[2])
              /\ was.key[2] = "open" => sends[<<was.key[1], "closed", c>>] = 0
  <2>1. Allowed(was.key[1], was.key[2])
    BY <1>4, <1>12
  <2>2. incidents[was.key[1]].mode = "alerts" /\ incidents[was.key[1]].transition = was.key[2]
    BY <2>1 DEF Allowed, Promoted, Overtaken
  <2>3. ASSUME was.key[2] = "open" PROVE sends[<<was.key[1], "closed", c>>] = 0
    <3>1. PICK k \in Keys : k = <<was.key[1], "closed", c>>
      BY <1>8 DEF Keys, Announced
    <3>2. ~(sends[k] > 0)
      BY <1>6, <2>2, <2>3, <3>1 DEF OutboxInv, AnnouncedIsTrue
    <3>3. sends[k] \in Nat
      BY DEF AlertsIInv, TypeOK
    <3> QED
      BY <3>1, <3>2, <3>3
  <2> QED
    BY <1>8, <2>2, <2>3 DEF IsTrue
<1>13. ASSUME NEW d \in Channels PROVE Busy(d, worker[d])'
  <2>1. CASE d = c
    <3>1. was.key # None /\ was.key \notin confirmed
      BY <1>1, <1>3, <1>8, NoneIsNoDelivery DEF Busy
    <3> QED
      BY <1>2, <1>5, <1>6, <1>8, <1>12, <2>1, <3>1 DEF Busy, IsTrue
  <2>2. CASE d # c
    BY <1>2, <1>6, <2>2 DEF OutboxInv, WorkerInv, Busy, IsTrue
  <2> QED
    BY <2>1, <2>2
<1> QED
  BY <1>1, <1>2, <1>7, <1>9, <1>10, <1>11, <1>13, CopiesStay DEF AlertsIInv, OutboxInv, WorkerInv

(* A send counts for the delivery of the thread alone, and is confirmed or *)
(* not.                                                                    *)
LEMMA SendIs ==
  ASSUME AlertsIInv, NEW c \in Channels, Send(c)
  PROVE  \E k \in Keys, o \in Outcome, w \in Workers :
           /\ worker[c].key = k /\ k[3] = c /\ worker[c].pc = "send"
           /\ worker' = [worker EXCEPT ![c] = w]
           /\ w.pc = "save" /\ w.key = k /\ w.outcome = o
           /\ confirmed' = IF o = "sent" THEN confirmed \cup {k} ELSE confirmed
           /\ sends' = [sends EXCEPT ![k] = sends[k] + 1]
<1>1. PICK o \in Outcome :
        /\ worker' = [worker EXCEPT ![c].pc = "save", ![c].outcome = o]
        /\ confirmed' = IF o = "sent" THEN confirmed \cup {worker[c].key} ELSE confirmed
  BY DEF Send
<1>2. worker[c].pc = "send" /\ sends' = [sends EXCEPT ![worker[c].key] = @ + 1]
  BY DEF Send
<1>3. PICK was \in Workers : was = worker[c] /\ was.key \in Keys /\ was.key[3] = c
  BY <1>2, BusyKey
<1>4. PICK w : w = [was EXCEPT !.pc = "save", !.outcome = o]
  OBVIOUS
<1>5. w \in Workers /\ w.pc = "save" /\ w.key = was.key /\ w.outcome = o
  BY <1>4
<1>6. worker' = [worker EXCEPT ![c] = w]
  BY <1>1, <1>3, <1>4 DEF AlertsIInv, TypeOK
<1>7. sends' = [sends EXCEPT ![was.key] = sends[was.key] + 1]
  BY <1>2, <1>3 DEF AlertsIInv, TypeOK
<1> QED
  BY ZenonT(60), <1>1, <1>2, <1>3, <1>5, <1>6, <1>7

LEMMA SendInv == ASSUME AlertsIInv, NEW c \in Channels, Send(c) PROVE AlertsIInv'
<1>1. PICK k \in Keys, o \in Outcome, w \in Workers :
        /\ worker[c].key = k /\ k[3] = c /\ worker[c].pc = "send"
        /\ worker' = [worker EXCEPT ![c] = w]
        /\ w.pc = "save" /\ w.key = k /\ w.outcome = o
        /\ confirmed' = IF o = "sent" THEN confirmed \cup {k} ELSE confirmed
        /\ sends' = [sends EXCEPT ![k] = sends[k] + 1]
  BY SendIs
<1>2. UNCHANGED <<eventVars, seen, deliveries, coordinator, request>>
  BY DEF Send
<1>3. EventsIInv' /\ EventsTypeOK' /\ LastingTo(incidents') /\ incidents' = incidents
  BY <1>2, EventsAside DEF eventVars
<1>4. /\ worker' \in [Channels -> Workers] /\ worker'[c] = w
      /\ \A d \in Channels : d # c => worker'[d] = worker[d]
      /\ deliveries' = deliveries /\ OutboxInv /\ confirmed \subseteq Keys
      /\ confirmed' \subseteq Keys /\ confirmed' \subseteq confirmed \cup {k}
      /\ k \in confirmed' => o = "sent" \/ k \in confirmed
  BY <1>1, <1>2 DEF AlertsIInv, TypeOK
<1>5. /\ sends' \in [Keys -> Nat]
      /\ \A j \in Keys : j # k => sends'[j] = sends[j]
  BY <1>1 DEF AlertsIInv, TypeOK
<1>6. TypeOK'
  BY <1>2, <1>3, <1>4, <1>5 DEF AlertsIInv, TypeOK
<1>7. Busy(c, worker[c])
  BY <1>4 DEF OutboxInv, WorkerInv
<1>8. AnnouncedIsTrue'
  BY <1>1, <1>3, <1>4, <1>5, <1>7 DEF OutboxInv, AnnouncedIsTrue, Busy, IsTrue
<1>9. OneSender'
  BY <1>1, <1>4, KeyParts DEF OutboxInv, OneSender
<1>10. DeliveryInv'
  BY <1>3, <1>4 DEF OutboxInv, DeliveryInv
<1>11. k \notin confirmed
  BY <1>1, <1>7 DEF Busy
<1>12. ConfirmedInv'
  <2>1. ASSUME NEW j \in confirmed', j # k
        PROVE  deliveries'[j] # None /\ (deliveries'[j].status = "sent" \/ ToSave(j)')
    <3>1. j \in confirmed /\ j \in Keys /\ j[3] \in Channels
      BY <1>4, <2>1, KeyParts
    <3>2. ToSave(j) => j[3] # c
      BY <1>1, <2>1 DEF ToSave
    <3> QED
      BY <1>4, <3>1, <3>2 DEF OutboxInv, ConfirmedInv, ToSave
  <2>2. ASSUME k \in confirmed' PROVE deliveries'[k] # None /\ ToSave(k)'
    <3>1. deliveries[k] # None
      BY <1>1, <1>4 DEF OutboxInv, OneSender
    <3> QED
      BY <1>1, <1>4, <1>11, <2>2, <3>1 DEF ToSave
  <2> QED
    BY <2>1, <2>2 DEF ConfirmedInv
<1>13. ASSUME NEW d \in Channels PROVE Busy(d, worker[d])'
  <2>1. CASE d = c
    BY <1>1, <1>4, <2>1, NoneIsNoDelivery DEF Busy
  <2>2. CASE d # c
    <3>1. Busy(d, worker[d]) /\ worker'[d] = worker[d] /\ worker[d].key # k
      BY <1>1, <1>4, <2>2, OthersElsewhere DEF OutboxInv, WorkerInv
    <3>2. ASSUME worker[d].pc = "send", worker[d].key[2] = "open"
          PROVE  sends'[<<worker[d].key[1], "closed", d>>] = 0
      <4>1. PICK j \in Keys : j = <<worker[d].key[1], "closed", d>>
        BY <3>2, BusyKey DEF Keys, Announced
      <4>2. j # k
        BY <1>1, <2>2, <4>1
      <4> QED
        BY <1>5, <3>1, <3>2, <4>1, <4>2 DEF Busy
    <3> QED
      BY <1>3, <1>4, <3>1, <3>2 DEF Busy, IsTrue
  <2> QED
    BY <2>1, <2>2
<1> QED
  BY <1>2, <1>3, <1>6, <1>8, <1>9, <1>10, <1>12, <1>13, CopiesStay
     DEF AlertsIInv, OutboxInv, WorkerInv

(* A stored result settles the delivery or makes it due again.             *)
LEMMA StoreInv ==
  ASSUME AlertsIInv, NEW c \in Channels, worker[c].pc \in {"save", "unsaved"}, Store(c),
         worker' = [worker EXCEPT ![c] = IdleWorker], incidents' = incidents, UNCHANGED sendVars
  PROVE  /\ OutboxInv' /\ deliveries' \in [Keys -> Delivery \cup {None}]
         /\ worker' \in [Channels -> Workers]
<1>1. PICK k \in Keys : /\ k = worker[c].key /\ k[3] = c
                        /\ deliveries[k] \in Delivery /\ deliveries[k].status = "sending"
                        /\ deliveries[k].attempts < MaxAttempts
  BY BusyKey
<1>2. PICK d : d = AfterAttempt(deliveries[k], worker[c].outcome)
  OBVIOUS
<1>3. worker[c].outcome \in {"sent", "retry", "failed"}
  BY DEF AlertsIInv, TypeOK, Outcome
<1>4. /\ d \in Delivery /\ d # None /\ d.status # "sending"
      /\ d.status = "pending" => d.attempts < MaxAttempts
      /\ worker[c].outcome = "sent" => d.status = "sent"
  <2>1. deliveries[k].attempts + 1 \in 0..MaxAttempts
    BY <1>1, AlertsAssumption DEF Delivery
  <2>2. d = [status |-> IF worker[c].outcome = "retry"
                        THEN IF deliveries[k].attempts + 1 < MaxAttempts
                             THEN "pending" ELSE "failed"
                        ELSE worker[c].outcome,
             attempts |-> deliveries[k].attempts + 1]
    BY <1>2 DEF AfterAttempt
  <2>3. d.attempts = deliveries[k].attempts + 1
        /\ d.status \in {"pending", "failed", "sent"}
        /\ d.status = "pending" => deliveries[k].attempts + 1 < MaxAttempts
    BY <1>3, <2>2
  <2>4. d \in Delivery
    <3>1. PICK st \in {"pending", "failed", "sent"}, n \in 0..MaxAttempts :
            d = [status |-> st, attempts |-> n]
      BY <1>3, <2>1, <2>2
    <3> QED
      BY <3>1 DEF Delivery
  <2> QED
    BY <1>3, <2>2, <2>3, <2>4, NoneIsNoDelivery
<1>5. /\ deliveries \in [Keys -> Delivery \cup {None}] /\ worker \in [Channels -> Workers]
      /\ OutboxInv /\ sends' = sends /\ confirmed' = confirmed /\ confirmed \subseteq Keys
  BY DEF AlertsIInv, TypeOK, sendVars
<1>6. deliveries' = [deliveries EXCEPT ![k] = d]
  BY <1>1, <1>2, <1>5 DEF Store
<1>7. /\ deliveries' \in [Keys -> Delivery \cup {None}] /\ deliveries'[k] = d
      /\ \A j \in Keys : j # k => deliveries'[j] = deliveries[j]
  BY <1>4, <1>5, <1>6
<1>8. /\ worker' \in [Channels -> Workers] /\ worker'[c] = IdleWorker
      /\ \A e \in Channels : e # c => worker'[e] = worker[e]
  BY <1>5, IdleOnes
<1>9. AnnouncedIsTrue'
  BY <1>5 DEF OutboxInv, AnnouncedIsTrue
<1>10. OneSender'
  <2>1. ASSUME NEW j \in Keys
        PROVE  (deliveries'[j] # None /\ deliveries'[j].status = "sending")
                 = (worker'[j[3]].key = j)
    <3>1. CASE j[3] = c
      <4>1. worker'[j[3]].key # j
        BY <1>8, <3>1, NoneIsNoDelivery DEF IdleWorker
      <4>2. j # k => ~(deliveries[j] # None /\ deliveries[j].status = "sending")
        BY <1>1, <1>5, <3>1 DEF OutboxInv, OneSender
      <4> QED
        BY <1>4, <1>7, <4>1, <4>2
    <3>2. CASE j[3] # c
      BY <1>1, <1>5, <1>7, <1>8, <3>2, KeyParts DEF OutboxInv, OneSender
    <3> QED
      BY <3>1, <3>2
  <2> QED
    BY <2>1 DEF OneSender
<1>11. WorkerInv'
  <2>1. Busy(c, worker[c])'
    BY <1>8 DEF Busy, IdleWorker
  <2>2. ASSUME NEW e \in Channels, e # c PROVE Busy(e, worker[e])'
    <3>1. Busy(e, worker[e]) /\ worker'[e] = worker[e]
      BY <1>5, <1>8, <2>2 DEF OutboxInv, WorkerInv
    <3> QED
      BY <1>5, <3>1 DEF Busy, IsTrue
  <2> QED
    BY <2>1, <2>2 DEF WorkerInv
<1>12. DeliveryInv'
  <2>1. ASSUME NEW j \in Keys, deliveries'[j] # None
        PROVE  /\ incidents[j[1]] # None
               /\ deliveries'[j].status \in {"pending", "sending"} =>
                    deliveries'[j].attempts < MaxAttempts
    <3>1. CASE j = k
      <4>1. incidents[k[1]] # None
        BY <1>1, <1>5, NoneIsNoDelivery DEF OutboxInv, DeliveryInv
      <4> QED
        BY <1>4, <1>7, <3>1, <4>1
    <3>2. CASE j # k
      BY <1>5, <1>7, <2>1, <3>2 DEF OutboxInv, DeliveryInv
    <3> QED
      BY <3>1, <3>2
  <2> QED
    BY <2>1 DEF DeliveryInv
<1>13. ConfirmedInv'
  <2>1. ASSUME NEW j \in confirmed
        PROVE  deliveries'[j] # None /\ (deliveries'[j].status = "sent" \/ ToSave(j)')
    <3>1. j \in Keys /\ j[3] \in Channels /\ deliveries[j] # None
          /\ (deliveries[j].status = "sent" \/ ToSave(j))
      BY <1>5, <2>1, KeyParts DEF OutboxInv, ConfirmedInv
    <3>2. CASE j = k
      BY <1>1, <1>4, <1>7, <3>1, <3>2 DEF ToSave
    <3>3. CASE j # k
      <4>1. ToSave(j) => j[3] # c
        BY <1>1, <3>3 DEF ToSave
      <4> QED
        BY <1>7, <1>8, <3>1, <3>3, <4>1 DEF ToSave
    <3> QED
      BY <3>2, <3>3
  <2> QED
    BY <1>5, <2>1 DEF ConfirmedInv
<1> QED
  BY <1>7, <1>8, <1>9, <1>10, <1>11, <1>12, <1>13 DEF OutboxInv

(* A result that could not be saved keeps its thread busy.                 *)
LEMMA UnstoredInv ==
  ASSUME AlertsIInv, NEW c \in Channels, worker[c].pc = "save",
         worker' = [worker EXCEPT ![c] = Unstored(@)], incidents' = incidents,
         UNCHANGED <<deliveries, sendVars>>
  PROVE  OutboxInv' /\ worker' \in [Channels -> Workers]
<1>1. PICK was \in Workers : was = worker[c] /\ Busy(c, was)
  BY DEF AlertsIInv, TypeOK, OutboxInv, WorkerInv
<1>2. PICK w : w = [was EXCEPT !.pc = "unsaved"]
  OBVIOUS
<1>3. w \in Workers /\ w.pc = "unsaved" /\ w.key = was.key /\ w.outcome = was.outcome
  BY <1>2
<1>4. worker' = [worker EXCEPT ![c] = w]
  BY <1>1, <1>2 DEF Unstored, AlertsIInv, TypeOK
<1>5. /\ worker' \in [Channels -> Workers] /\ worker'[c] = w
      /\ \A d \in Channels : d # c => worker'[d] = worker[d]
      /\ deliveries' = deliveries /\ sends' = sends /\ confirmed' = confirmed
      /\ OutboxInv /\ confirmed \subseteq Keys
  BY <1>3, <1>4 DEF AlertsIInv, TypeOK, sendVars
<1>6. AnnouncedIsTrue' /\ DeliveryInv'
  BY <1>5 DEF OutboxInv, AnnouncedIsTrue, DeliveryInv
<1>7. OneSender'
  BY <1>1, <1>3, <1>5, KeyParts DEF OutboxInv, OneSender
<1>8. WorkerInv'
  <2>1. was.key # None
    BY <1>1 DEF Busy
  <2> QED
    BY <1>1, <1>3, <1>5, <2>1 DEF OutboxInv, WorkerInv, Busy, IsTrue
<1>9. ConfirmedInv'
  BY <1>1, <1>3, <1>5, KeyParts DEF OutboxInv, ConfirmedInv, ToSave
<1> QED
  BY <1>5, <1>6, <1>7, <1>8, <1>9 DEF OutboxInv

LEMMA SaveInv == ASSUME AlertsIInv, NEW c \in Channels, Save(c) PROVE AlertsIInv'
<1>1. /\ worker[c].pc = "save" /\ UNCHANGED <<seen, coordinator, request, sendVars>>
      /\ \/ Store(c) /\ worker' = [worker EXCEPT ![c] = IdleWorker]
         \/ worker' = [worker EXCEPT ![c] = Unstored(@)] /\ UNCHANGED deliveries
  BY DEF Save
<1>2. EventsIInv' /\ EventsTypeOK' /\ LastingTo(incidents') /\ incidents' = incidents
  BY EventsAside DEF Save
<1>3. /\ OutboxInv' /\ worker' \in [Channels -> Workers]
      /\ deliveries' \in [Keys -> Delivery \cup {None}]
  <2>1. CASE Store(c) /\ worker' = [worker EXCEPT ![c] = IdleWorker]
    BY <1>1, <1>2, <2>1, StoreInv
  <2>2. CASE worker' = [worker EXCEPT ![c] = Unstored(@)] /\ UNCHANGED deliveries
    BY <1>1, <1>2, <2>2, UnstoredInv DEF AlertsIInv, TypeOK
  <2> QED
    BY <1>1, <2>1, <2>2
<1>4. TypeOK'
  BY <1>1, <1>2, <1>3 DEF AlertsIInv, TypeOK, sendVars
<1> QED
  BY <1>1, <1>2, <1>3, <1>4, CopiesStay DEF AlertsIInv

LEMMA FlushInv == ASSUME AlertsIInv, NEW c \in Channels, Flush(c) PROVE AlertsIInv'
<1>1. /\ worker[c].pc = "unsaved" /\ UNCHANGED <<seen, request, sendVars>>
      /\ \/ Store(c) /\ worker' = [worker EXCEPT ![c] = IdleWorker] /\ UNCHANGED coordinator
         \/ coordinator' = IdleCoordinator /\ UNCHANGED <<deliveries, worker>>
  BY DEF Flush
<1>2. EventsIInv' /\ EventsTypeOK' /\ LastingTo(incidents') /\ incidents' = incidents
  BY EventsAside DEF Flush
<1>3. CASE Store(c) /\ worker' = [worker EXCEPT ![c] = IdleWorker] /\ UNCHANGED coordinator
  <2>1. /\ OutboxInv' /\ worker' \in [Channels -> Workers]
        /\ deliveries' \in [Keys -> Delivery \cup {None}]
    BY <1>1, <1>2, <1>3, StoreInv
  <2>2. TypeOK'
    BY <1>1, <1>2, <1>3, <2>1 DEF AlertsIInv, TypeOK, sendVars
  <2> QED
    BY <1>1, <1>2, <1>3, <2>1, <2>2, CopiesStay DEF AlertsIInv
<1>4. CASE coordinator' = IdleCoordinator /\ UNCHANGED <<deliveries, worker>>
  <2>1. TypeOK'
    BY <1>1, <1>2, <1>4, IdleOnes DEF AlertsIInv, TypeOK, sendVars
  <2>2. CopyInv'
    BY <1>1, <1>2, <1>4 DEF AlertsIInv, CopyInv, IdleCoordinator
  <2> QED
    BY <1>1, <1>2, <1>4, <2>1, <2>2, OutboxStays DEF AlertsIInv
<1> QED
  BY <1>1, <1>3, <1>4

(* After a restart nothing is sending, and only what is saved is confirmed. *)
LEMMA RestartAllInv == ASSUME AlertsIInv, RestartAll PROVE AlertsIInv'
<1>1. /\ deliveries' = [k \in Keys |-> Interrupted(deliveries[k])]
      /\ coordinator' = IdleCoordinator /\ worker' = [c \in Channels |-> IdleWorker]
      /\ request' = None /\ confirmed' = {k \in confirmed : deliveries[k].status = "sent"}
      /\ UNCHANGED <<seen, sends>> /\ Restart
  BY DEF RestartAll
<1>2. EventsIInv' /\ incidents' = incidents
  BY <1>1, RestartInv DEF AlertsIInv, Restart, decisionVars
<1>3. /\ deliveries \in [Keys -> Delivery \cup {None}] /\ OutboxInv /\ confirmed \subseteq Keys
  BY DEF AlertsIInv, TypeOK
<1>4. ASSUME NEW k \in Keys
      PROVE  /\ deliveries'[k] \in Delivery \cup {None}
             /\ deliveries'[k] = None <=> deliveries[k] = None
             /\ deliveries[k] # None =>
                  /\ deliveries'[k].attempts = deliveries[k].attempts
                  /\ deliveries'[k].status # "sending"
                  /\ deliveries'[k].status = "pending" =>
                       deliveries[k].status \in {"pending", "sending"}
                  /\ deliveries[k].status = "sent" => deliveries'[k].status = "sent"
  <2>1. deliveries'[k] = IF deliveries[k] # None /\ deliveries[k].status = "sending"
                         THEN [deliveries[k] EXCEPT !.status = "pending"] ELSE deliveries[k]
    BY <1>1 DEF Interrupted
  <2>2. deliveries[k] # None => deliveries[k] \in Delivery
    BY <1>3
  <2>3. CASE deliveries[k] # None /\ deliveries[k].status = "sending"
    <3>1. /\ deliveries'[k] \in Delivery /\ deliveries'[k].status = "pending"
          /\ deliveries'[k].attempts = deliveries[k].attempts
      BY <2>1, <2>2, <2>3 DEF Delivery
    <3> QED
      BY <2>3, <3>1, NoneIsNoDelivery
  <2>4. CASE ~(deliveries[k] # None /\ deliveries[k].status = "sending")
    BY <2>1, <2>2, <2>4
  <2> QED
    BY <2>3, <2>4
<1>5. TypeOK'
  <2>1. /\ deliveries' \in [Keys -> Delivery \cup {None}] /\ coordinator' \in Coordinators
        /\ worker' \in [Channels -> Workers] /\ confirmed' \subseteq Keys
    BY <1>1, <1>3, <1>4, IdleOnes
  <2> QED
    BY <1>1, <1>2, <2>1 DEF AlertsIInv, EventsIInv, TypeOK
<1>6. AnnouncedIsTrue'
  BY <1>1, <1>2, <1>3 DEF OutboxInv, AnnouncedIsTrue
<1>7. OneSender'
  BY <1>1, <1>4, KeyParts, NoneIsNoDelivery DEF OneSender, IdleWorker
<1>8. WorkerInv'
  BY <1>1 DEF WorkerInv, Busy, IdleWorker
<1>9. DeliveryInv'
  BY <1>2, <1>3, <1>4 DEF OutboxInv, DeliveryInv
<1>10. ConfirmedInv'
  BY <1>1, <1>3, <1>4 DEF OutboxInv, ConfirmedInv
<1>11. CopyInv'
  BY <1>1 DEF CopyInv, IdleCoordinator
<1> QED
  BY <1>2, <1>5, <1>6, <1>7, <1>8, <1>9, <1>10, <1>11 DEF AlertsIInv, OutboxInv

LEMMA AlertsStep == ASSUME AlertsIInv, [Next]_vars PROVE AlertsIInv'
<1>1. EventsIInv
  BY DEF AlertsIInv
<1>2. CASE Coordinator
  BY <1>2, WorkerTickInv, CollectInv, AskInv, QueueObservedInv, MarkSeenInv, ClaimInv, FlushInv
     DEF Coordinator
<1>3. ASSUME NEW c \in Channels, Deliver(c) PROVE AlertsIInv'
  BY <1>3, GuardInv, SendInv, SaveInv DEF Deliver
<1>4. CASE Dispatch
  BY <1>1, <1>4, EventsStep, BesideInv DEF Dispatch, EventsNext
<1>5. CASE Others /\ UNCHANGED alertVars
  BY <1>1, <1>5, EventsStep, BesideInv DEF Others, EventsNext
<1>6. CASE QueueRequested
  BY <1>6, QueueRequestedInv
<1>7. CASE RestartAll
  BY <1>7, RestartAllInv
<1>8. ASSUME NEW i \in Windows, RequestSend(i) PROVE AlertsIInv'
  BY <1>8, RequestSendInv
<1>9. CASE UNCHANGED vars
  BY <1>1, <1>9, EventsStep, BesideInv DEF vars
<1> QED
  BY <1>2, <1>3, <1>4, <1>5, <1>6, <1>7, <1>8, <1>9 DEF Next

(* The inductive invariant of the outbox over the incidents.               *)
THEOREM AlertsInvariance == Spec => []AlertsIInv
<1>1. AlertsInit => AlertsIInv
  BY AlertsInitially
<1>2. AlertsIInv /\ [Next]_vars => AlertsIInv'
  BY AlertsStep
<1> QED
  BY <1>1, <1>2, PTL DEF Spec

(* What was announced happened in the alert mode, by one sender at a time, *)
(* whatever mode the server runs in later.                                 *)
THEOREM AlertsStayTrue == Spec => []AlertsHold
<1>1. AlertsIInv => AlertsHold
  BY SMTT(60) DEF AlertsIInv, OutboxInv, AlertsHold
<1> QED
  BY <1>1, AlertsInvariance, PTL

LEMMA SendsStep ==
  ASSUME AlertsIInv, [Next]_vars
  PROVE  \/ UNCHANGED sends
         \/ \E c \in Channels : Send(c)
BY DEF Next, Coordinator, WorkerTick, Collect, Ask, QueueObserved, MarkSeen, Claim, Flush, Dispatch,
   QueueRequested, RestartAll, Deliver, Guard, Save, RequestSend, vars, alertVars, sendVars

LEMMA SendsInOrder ==
  ASSUME AlertsIInv, [Next]_vars
  PROVE  /\ \A i \in Windows, c \in Channels :
              sends'[<<i, "open", c>>] > sends[<<i, "open", c>>] => sends[<<i, "closed", c>>] = 0
         /\ \A k \in confirmed : sends'[k] = sends[k]
<1>1. sends \in [Keys -> Nat] /\ confirmed \subseteq Keys
  BY DEF AlertsIInv, TypeOK
<1>2. \A i \in Windows, c \in Channels : <<i, "open", c>> \in Keys
  BY DEF Keys, Announced
<1>3. CASE UNCHANGED sends
  <2>1. \A i \in Windows, c \in Channels : sends[<<i, "open", c>>] \in Nat
    BY <1>1, <1>2
  <2> QED
    BY <1>3, <2>1
<1>4. ASSUME NEW c \in Channels, Send(c)
      PROVE  /\ \A i \in Windows, d \in Channels :
                  sends'[<<i, "open", d>>] > sends[<<i, "open", d>>]
                  => sends[<<i, "closed", d>>] = 0
             /\ \A k \in confirmed : sends'[k] = sends[k]
  <2>1. PICK k \in Keys : /\ worker[c].key = k /\ k[3] = c /\ worker[c].pc = "send"
                          /\ sends' = [sends EXCEPT ![k] = sends[k] + 1]
    BY <1>4, SendIs
  <2>2. Busy(c, worker[c])
    BY DEF AlertsIInv, OutboxInv, WorkerInv
  <2>3. k \notin confirmed
    BY <2>1, <2>2 DEF Busy
  <2>4. \A j \in Keys : j # k => sends'[j] = sends[j]
    BY <1>1, <2>1
  <2>5. ASSUME NEW i \in Windows, NEW d \in Channels,
               sends'[<<i, "open", d>>] > sends[<<i, "open", d>>]
        PROVE  sends[<<i, "closed", d>>] = 0
    <3>1. sends[<<i, "open", d>>] \in Nat
      BY <1>1, <1>2
    <3>2. k = <<i, "open", d>>
      BY <1>2, <2>4, <2>5, <3>1
    <3> QED
      BY <2>1, <2>2, <3>2 DEF Busy
  <2> QED
    BY <1>1, <2>3, <2>4, <2>5
<1> QED
  BY <1>3, <1>4, SendsStep

(* On a channel no opening is announced after its recovery, and what was   *)
(* confirmed is not sent again, however retries, failures to save and      *)
(* restarts fall.                                                          *)
THEOREM AlertsInOrder == Spec => AnnouncedInOrder
<1>1. AlertsIInv /\ [Next]_vars =>
        /\ [\A i \in Windows, c \in Channels :
              sends'[<<i, "open", c>>] > sends[<<i, "open", c>>]
              => sends[<<i, "closed", c>>] = 0]_vars
        /\ [\A k \in confirmed : sends'[k] = sends[k]]_vars
  BY SendsInOrder
<1> QED
  BY <1>1, AlertsInvariance, PTL DEF Spec, AnnouncedInOrder, NoOpeningAfterRecovery, SentOnce
=============================================================================
