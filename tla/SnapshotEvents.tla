--------------------------- MODULE SnapshotEvents ---------------------------
(***************************************************************************)
(* snapshot_events.py: incidents of one device, decided from the windows   *)
(* of SnapshotInbox, and their projection into the shared event view of    *)
(* data.py.                                                                *)
(*                                                                         *)
(* An incident changes in one SQLite transaction; the projection that      *)
(* follows writes the shared view, and then the mark that it did, in two   *)
(* stores that cannot commit together.  The device lifecycle gate is held  *)
(* from the transaction to the last mark; an operator's review needs only  *)
(* the lock of the shared view and comes in between.                       *)
(***************************************************************************)
EXTENDS SnapshotInbox, FiniteSets, FiniteSetsExt

CONSTANTS
  Modes,          \* the event modes the process may be started with
  Anomalous,      \* the windows a model judges anomalous
  MaxIncidents,   \* MAX_INCIDENTS
  MaxTransitionAge, MaxReportAge,
                  \* MAX_TRANSITION_AGE, and the report interval with REPORT_GRACE;
                  \* a window's number is the time of its measurement
  MaxRare         \* bound on the restarts, failures, reviews, resolutions and
                  \* mapping changes of a behaviour, all together


ASSUME EventsAssumption ==
  /\ Modes \subseteq {"shadow", "events", "alerts"}
  /\ IsFiniteSet(Windows) /\ Anomalous \subseteq Windows
  /\ MaxIncidents \in Nat /\ MaxRare \in Nat
  /\ MaxTransitionAge \in Nat /\ MaxReportAge \in Nat

VARIABLES
  now,        \* the clock
  server,     \* the model and the event mode the process was started with
  mapped,     \* the device's mapping is active and the one it reports
  evjobs,     \* snapshot_event_jobs
  incidents,  \* snapshot_incidents, by the window that opened them
  projected,  \* their column projected
  events,     \* the shared event view with its reviews and audit records
  gate,       \* the device lifecycle gate and who keeps it over several steps
  todo,       \* dispatch: the incidents left to project
  marking,    \* dispatch: the incident projected but not yet marked
  rare        \* how many rare events occurred

settingVars  == <<now, server, mapped>>
decisionVars == <<evjobs, incidents>>
viewVars     == <<projected, events>>
dispatchVars == <<gate, todo, marking>>
eventVars == <<rows, settingVars, decisionVars, viewVars, dispatchVars, rare>>

EventJob == [mode : Modes, binding : Bindings \cup {None},
             status : {"pending", "processed", "ignored"}]
Reasons  == {"disabled", "mapping", "model", "superseded", "stale", "quality",
             "result", "changed", "unapplied"}
Incident ==
  [binding : Bindings, mode : Modes, transition : {"open", "closed", "manual_closed"},
   changed : Windows,     \* the window of the last transition
   last : Windows,        \* the last window that was applied
   observation : {"observing", "unknown", "recovered", "operator_resolved"},
   reason : Reasons \cup {None}, rev : Nat]
Event == [copy : Incident, reviewed : BOOLEAN, audits : Nat]
ASSUME NoneIsNoEvent == None \notin EventJob \cup Incident \cup Event \cup Reasons

EventsInit ==
  /\ InboxInit
  /\ now = 0
  /\ server \in [model : Bindings \cup {None}, mode : Modes]
  /\ mapped = TRUE
  /\ evjobs = [w \in Windows |-> None]
  /\ incidents = [i \in Windows |-> None]
  /\ projected = [i \in Windows |-> 0]
  /\ events = [i \in Windows |-> None]
  /\ gate = "free" /\ todo = {} /\ marking = None
  /\ rare = 0

Rare == rare < MaxRare /\ rare' = rare + 1
GateFree == gate = "free"
OpenIncidents == {i \in Windows : incidents[i] # None /\ incidents[i].transition = "open"}
Latest == Max(Received)
Age(w) == now - w

-----------------------------------------------------------------------------
(* ingest: the event job pins the mode and the model at the receipt.        *)
Ingest(w) ==
  /\ GateFree /\ mapped /\ w <= now
  /\ \E expired \in BOOLEAN :
       /\ expired => Age(w) > MaxReportAge
       /\ Receive(w, server.model, expired)
       /\ evjobs' = IF expired THEN evjobs
                    ELSE [evjobs EXCEPT ![w] = [mode |-> server.mode, binding |-> server.model,
                                                status |-> "pending"]]
  /\ UNCHANGED <<settingVars, incidents, viewVars, dispatchVars, rare>>

(* Preparation and inference decide a window, with the model it is bound to  *)
(* when the process has it.                                                  *)
Infer(w) ==
  /\ \/ Decide(w, "completed") /\ rows[w].binding = server.model /\ UNCHANGED rare
     \/ Decide(w, "unavailable") /\ IF rows[w].binding = None THEN UNCHANGED rare ELSE Rare
  /\ UNCHANGED <<settingVars, decisionVars, viewVars, dispatchVars>>

-----------------------------------------------------------------------------
(* _reason: why the window says nothing of the present, or None.  A change  *)
(* of an incident has a narrower age limit than its observation.            *)
Superseded(w) == rows[w].late \/ w # Latest

Reason(w, limit) ==
  IF server.mode = "shadow" THEN "disabled"
  ELSE IF ~mapped THEN "mapping"
  ELSE IF server.model = None THEN "model"
  ELSE IF Superseded(w) THEN "superseded"
  ELSE IF Age(w) > limit THEN "stale"
  ELSE IF w \notin Valid THEN "quality"
  ELSE IF rows[w].status # "completed" THEN "result"
  ELSE IF rows[w].binding # server.model THEN "changed"
  ELSE None

(* _save *)
Saved(inc) == [inc EXCEPT !.rev = @ + 1]

Concerned == {i \in OpenIncidents : incidents[i].binding = server.model}

Opened(w) == [binding |-> server.model, mode |-> server.mode, transition |-> "open",
              changed |-> w, last |-> w, observation |-> "observing", reason |-> None, rev |-> 1]
Continued(inc, w) ==
  Saved([inc EXCEPT !.last = w, !.reason = None, !.observation = "observing"])
Recovered(inc, w) ==
  Saved([inc EXCEPT !.transition = "closed", !.changed = w, !.last = w, !.reason = None,
                    !.observation = "recovered"])

(* _apply for the window that may change an incident *)
Full == Cardinality({i \in Windows : incidents[i] # None}) >= MaxIncidents
AfterWindow(w) ==
  IF Concerned = {}
  THEN IF w \in Anomalous /\ ~Full THEN [incidents EXCEPT ![w] = Opened(w)] ELSE incidents
  ELSE LET i == CHOOSE i \in Concerned : TRUE IN
       [incidents EXCEPT ![i] = IF w \in Anomalous THEN Continued(@, w) ELSE Recovered(@, w)]

(* _audit_active: only a window may make an unknown incident observed again. *)
AuditReason(inc) ==
  IF server.model # inc.binding THEN "model"
  ELSE LET r == Reason(Latest, MaxReportAge) IN
       IF r = None /\ inc.last # Latest THEN "unapplied" ELSE r
Audited(inc) ==
  LET r == AuditReason(inc) IN
  IF inc.transition = "open" /\ r # None /\ (inc.observation # "unknown" \/ inc.reason # r)
  THEN Saved([inc EXCEPT !.observation = "unknown", !.reason = r])
  ELSE inc

(* tick: one transaction over the jobs that can be settled, then dispatch.   *)
Pinned_Mut(w) == evjobs[w].binding # None /\ evjobs[w].binding = server.model
Pinned(w) ==
  evjobs[w].mode = server.mode /\ evjobs[w].binding # None /\ evjobs[w].binding = server.model
Settleable(w) ==
  /\ evjobs[w] # None /\ evjobs[w].status = "pending"
  /\ evjobs[w].mode = "shadow" \/ ~Pinned(w) \/ rows[w].status # "open"
Decisive(w) == Settleable(w) /\ Pinned(w) /\ Reason(w, MaxTransitionAge) = None
(* dispatch takes the rows that are behind, in the gate of its caller.       *)
Unprojected(incs) == {i \in Windows : incs[i] # None /\ projected[i] < incs[i].rev}
StartDispatch(incs, holder) ==
  /\ todo' = Unprojected(incs)
  /\ gate' = IF todo' = {} THEN "free" ELSE holder
StopDispatch == todo' = {} /\ gate' = "free"

Tick ==
  LET decisive == {w \in Received : Decisive(w)}     \* at most the latest window
      applied == IF decisive = {} THEN incidents ELSE AfterWindow(Max(decisive))
      refused == {w \in decisive : Concerned = {} /\ w \in Anomalous /\ Full}
      after == [i \in Windows |-> IF applied[i] = None THEN None ELSE Audited(applied[i])]
  IN
  /\ GateFree
  /\ evjobs' = [w \in Windows |->
                  IF ~Settleable(w) THEN evjobs[w]
                  ELSE [evjobs[w] EXCEPT
                          !.status = IF w \in decisive \ refused THEN "processed" ELSE "ignored"]]
  /\ incidents' = after
  /\ StartDispatch(after, "worker")
  /\ UNCHANGED <<rows, settingVars, viewVars, marking, rare>>

(* resolve: an operator closes the incident, which is no recovery.           *)
Resolved(inc) ==
  Saved([inc EXCEPT !.transition = "manual_closed", !.observation = "operator_resolved",
                    !.reason = None])
Resolve(i) ==
  LET after == IF i \in OpenIncidents THEN [incidents EXCEPT ![i] = Resolved(@)] ELSE incidents
  IN
  /\ GateFree /\ incidents[i] # None /\ Rare
  /\ incidents' = after
  /\ StartDispatch(after, "operator")
  /\ UNCHANGED <<rows, settingVars, evjobs, viewVars, marking>>

-----------------------------------------------------------------------------
(* dispatch, one incident after the other in the order of their opening *)

Reviewed_Mut(i) == FALSE
Reviewed(i) == events[i] # None /\ events[i].reviewed
Behind_Mut(i) == events[i] = None
Behind(i) == events[i] = None \/ events[i].copy.rev < incidents[i].rev
RecordedAudits(i) == IF events[i] = None THEN 0 ELSE events[i].audits
ToAudit(i) == incidents[i].transition = "manual_closed" /\ RecordedAudits(i) = 0
Shown(i) == IF Behind(i) THEN incidents[i] ELSE events[i].copy

(* The shared view commits with its audit record or not at all; a failed     *)
(* commit ends the dispatch.                                                 *)
Project ==
  LET i == Min(todo) IN
  /\ todo # {} /\ marking = None
  /\ \/ /\ events' = [events EXCEPT ![i] =
             [copy |-> Shown(i), reviewed |-> Reviewed(i),
              audits |-> RecordedAudits(i) + IF ToAudit(i) THEN 1 ELSE 0]]
        /\ marking' = i
        /\ UNCHANGED <<gate, todo, rare>>
     \/ Rare /\ StopDispatch /\ UNCHANGED <<events, marking>>
  /\ UNCHANGED <<rows, settingVars, decisionVars, projected>>

Mark ==
  /\ marking # None
  /\ \/ /\ projected' = [projected EXCEPT ![marking] = incidents[marking].rev]
        /\ IF todo = {marking} THEN StopDispatch
           ELSE todo' = todo \ {marking} /\ UNCHANGED gate
        /\ UNCHANGED rare
     \/ Rare /\ StopDispatch /\ UNCHANGED projected
  /\ marking' = None
  /\ UNCHANGED <<rows, settingVars, decisionVars, events>>

(* review_event in data.py *)
Review(i) ==
  /\ events[i] # None /\ Rare
  /\ events' = [events EXCEPT ![i].reviewed = ~@]
  /\ UNCHANGED <<rows, settingVars, decisionVars, projected, dispatchVars>>

-----------------------------------------------------------------------------
(* The environment *)

(* Time passes, until the last window is stale. *)
Pass ==
  /\ now <= Max(Windows) + MaxReportAge /\ now' = now + 1
  /\ UNCHANGED <<rows, server, mapped, decisionVars, viewVars, dispatchVars, rare>>

(* The device is mapped elsewhere, or back, under the gate.                  *)
Remap ==
  /\ GateFree /\ Rare
  /\ mapped' = ~mapped
  /\ UNCHANGED <<rows, now, server, decisionVars, viewVars, dispatchVars>>

(* The process stops anywhere and starts with another model or mode.         *)
Restart ==
  /\ Rare
  /\ server' \in [model : Bindings \cup {None}, mode : Modes]
  /\ StopDispatch /\ marking' = None
  /\ UNCHANGED <<rows, now, mapped, decisionVars, viewVars>>

EventsNext ==
  \/ \E w \in Windows : Ingest(w) \/ Infer(w)
  \/ Tick \/ Project \/ Mark
  \/ \E i \in Windows : Resolve(i) \/ Review(i)
  \/ Pass \/ Remap \/ Restart

EventsSpec == EventsInit /\ [][EventsNext]_eventVars

-----------------------------------------------------------------------------
(* Properties *)

EventsTypeOK ==
  /\ rows \in [Windows -> Row \cup {None}]
  /\ now \in Nat
  /\ server \in [model : Bindings \cup {None}, mode : Modes]
  /\ mapped \in BOOLEAN
  /\ evjobs \in [Windows -> EventJob \cup {None}]
  /\ incidents \in [Windows -> Incident \cup {None}]
  /\ projected \in [Windows -> Nat]
  /\ events \in [Windows -> Event \cup {None}]
  /\ gate \in {"free", "worker", "operator"} /\ (gate = "free") = (todo = {})
  /\ todo \in SUBSET Windows /\ marking \in todo \cup {None}
  /\ rare \in Nat

(* An incident opens and recovers only on a judgement of its own model,      *)
(* received in the mode the incident carries: shadow results and results of  *)
(* another model never become incidents or recoveries, whenever they arrive. *)
TransitionsAreBacked ==
  \A i \in Windows : incidents[i] # None =>
    LET inc == incidents[i]
        Backed(w) == /\ rows[w].status = "completed" /\ rows[w].binding = inc.binding
                     /\ evjobs[w].status = "processed" /\ evjobs[w].mode # "shadow"
    IN
    /\ Backed(i) /\ i \in Anomalous /\ evjobs[i].mode = inc.mode
    /\ inc.transition = "closed" =>
         Backed(inc.changed) /\ inc.changed \notin Anomalous /\ inc.changed = inc.last

(* In the time of measurement an incident opens, continues and recovers in   *)
(* that order, and one of the same model is over before the next opens,      *)
(* however late or disordered the windows arrive.                            *)
IncidentsInOrder ==
  \A i \in Windows : incidents[i] # None =>
    /\ i <= incidents[i].changed /\ incidents[i].changed <= incidents[i].last
    /\ \A j \in Windows :
         i < j /\ incidents[j] # None /\ incidents[i].binding = incidents[j].binding
         => incidents[i].transition # "open" /\ incidents[i].last < j

(* The shared view never shows a state the incident was not in last, and     *)
(* what is marked projected is what the view shows.                          *)
ViewMatches ==
  \A i \in Windows :
    /\ events[i] # None => /\ incidents[i] # None
                           /\ events[i].copy.rev <= incidents[i].rev
                           /\ events[i].copy.rev = incidents[i].rev =>
                                events[i].copy = incidents[i]
    /\ projected[i] > 0 => events[i] # None /\ projected[i] <= events[i].copy.rev

(* An operator's resolution is in the audit log exactly once as soon as the  *)
(* view shows it, whatever failed or restarted in between.                   *)
AuditedOnce ==
  \A i \in Windows : events[i] # None =>
    events[i].audits = IF events[i].copy.transition = "manual_closed" THEN 1 ELSE 0

(* No projection undoes a review, and no review undoes a projection.         *)
ReviewKept ==
  [][\A i \in Windows : events[i] # None =>
       /\ events'[i] # None /\ events'[i].copy.rev >= events[i].copy.rev
       /\ events'[i].copy # events[i].copy => events'[i].reviewed = events[i].reviewed]_eventVars

(* Every opening and recovery rests on a judgement of its own, and the       *)
(* incidents of a model follow each other in the time of measurement.        *)
IncidentsHold == TransitionsAreBacked /\ IncidentsInOrder
(* The shared view shows what the incidents are or were, and audits a        *)
(* resolution once.                                                          *)
ViewHolds == EventsTypeOK /\ ViewMatches /\ AuditedOnce

(* The shared view shows the incident as it is; AlertOutbox states that it   *)
(* always gets there.                                                        *)
Current(i) == events[i] # None /\ events[i].copy = incidents[i]
=============================================================================
