---------------------------- MODULE AlertOutbox ----------------------------
(***************************************************************************)
(* alerts.py over SnapshotEvents: the outbox of the notifications that     *)
(* announce the opening and the recovery of incidents.                     *)
(*                                                                         *)
(* One coordinator thread alternates the event worker's tick with its own: *)
(* it flushes the results it could not save, looks at a copy of the shared *)
(* event view, queues a delivery for every transition not seen before and  *)
(* claims one delivery per free channel.  Each channel has one thread that *)
(* asks the guard again, sends, and saves the result.  The outbox, the     *)
(* snapshot database and the shared view commit separately.                *)
(***************************************************************************)
EXTENDS SnapshotEvents

CONSTANTS Channels, MaxAttempts

ASSUME AlertsAssumption == MaxAttempts \in Nat \ {0}

VARIABLES
  seen,         \* alert_seen_events
  deliveries,   \* alert_deliveries of one policy and recipient
  coordinator,  \* the coordinator thread
  worker,       \* the thread of each channel; busy unless idle
  request,      \* a manual send between its guard and its transaction
  sends,        \* history: how often a delivery was handed to its channel
  confirmed     \* history: deliveries that succeeded, as far as this process or
                \* the outbox knows

sendVars  == <<sends, confirmed>>
alertVars == <<seen, deliveries, coordinator, worker, request, sendVars>>
vars == <<eventVars, alertVars>>

Announced == {"open", "closed"}
Observations == Windows \X {"open", "closed", "manual_closed"}
Keys == Windows \X Announced \X Channels
Delivery == [status : {"pending", "sending", "sent", "failed"}, attempts : 0..MaxAttempts]
ASSUME NoneIsNoDelivery == None \notin Keys \cup Delivery
Observed == [key : Observations, reviewed : BOOLEAN]
Outcome == {"sent", "retry", "failed"}

IdleCoordinator == [pc |-> "idle", batch |-> {}, allowed |-> FALSE]
IdleWorker == [pc |-> "idle", key |-> None, outcome |-> "failed"]

AlertsInit ==
  /\ EventsInit
  /\ seen = {}
  /\ deliveries = [k \in Keys |-> None]
  /\ coordinator = IdleCoordinator
  /\ worker = [c \in Channels |-> IdleWorker]
  /\ request = None
  /\ sends = [k \in Keys |-> 0] /\ confirmed = {}

(* The coordinator keeps the outbox lock from its guard to the seen mark.    *)
OutboxFree == coordinator.pc \notin {"queue", "seen"}

-----------------------------------------------------------------------------
(* notification_allowed, evaluated in the gate *)
Promoted_Mut(i) == FALSE
Promoted(i) == incidents[i].mode # "alerts"
Overtaken_Mut(i, t) == FALSE
Overtaken(i, t) == incidents[i].transition # t

Allowed(i, t) ==
  /\ server.mode = "alerts" /\ ~Promoted(i) /\ t \in Announced
  /\ server.model = incidents[i].binding /\ ~Overtaken(i, t)
  /\ incidents[i].observation # "unknown"
  /\ incidents[i].last = Latest /\ Reason(Latest, MaxReportAge) = None
  /\ Age(incidents[i].changed) <= MaxTransitionAge

(* _queue: scope, severity, hours and cooldown may each suppress a policy; a *)
(* delivery that exists is never queued again.                               *)
Queue(i, t, allowed, reviewed) ==
  \/ /\ allowed /\ ~reviewed
     /\ deliveries' = [k \in Keys |->
          IF k[1] = i /\ k[2] = t /\ deliveries[k] = None
          THEN [status |-> "pending", attempts |-> 0] ELSE deliveries[k]]
  \/ UNCHANGED deliveries

-----------------------------------------------------------------------------
(* The coordinator: the event worker's tick, then observe_events *)

WorkerTick ==
  /\ coordinator.pc = "idle"
  /\ \/ Tick
     \/ Rare /\ UNCHANGED <<rows, settingVars, decisionVars, viewVars, dispatchVars>>
  /\ coordinator' = [IdleCoordinator EXCEPT !.pc = "flush"]
  /\ UNCHANGED <<seen, deliveries, worker, request, sendVars>>

(* The pass starts from a copy of the view, after the results that were left *)
(* to save.                                                                  *)
ViewCopy == {i \in Windows : events[i] # None}
Collect ==
  /\ coordinator.pc = "flush" /\ gate # "worker"
  /\ \A c \in Channels : worker[c].pc # "unsaved"
  /\ coordinator' = [IdleCoordinator EXCEPT !.pc = "observe", !.batch =
       {[key |-> <<i, events[i].copy.transition>>, reviewed |-> events[i].reviewed] :
          i \in ViewCopy}]
  /\ UNCHANGED <<eventVars, seen, deliveries, worker, request, sendVars>>

Unseen == {o \in coordinator.batch : o.key \notin seen}
Oldest == CHOOSE o \in Unseen : \A p \in Unseen : o.key[1] <= p.key[1]

Ask ==
  /\ coordinator.pc = "observe" /\ Unseen # {} /\ GateFree
  /\ coordinator' = [coordinator EXCEPT !.pc = "queue",
                       !.allowed = Allowed(Oldest.key[1], Oldest.key[2])]
  /\ UNCHANGED <<eventVars, seen, deliveries, worker, request, sendVars>>

QueueObserved ==
  /\ coordinator.pc = "queue"
  /\ \/ /\ Queue(Oldest.key[1], Oldest.key[2], coordinator.allowed, Oldest.reviewed)
        /\ coordinator' = [coordinator EXCEPT !.pc = "seen"] /\ UNCHANGED rare
     \/ Rare /\ coordinator' = IdleCoordinator /\ UNCHANGED deliveries
  /\ UNCHANGED <<rows, settingVars, decisionVars, viewVars, dispatchVars,
                 seen, worker, request, sendVars>>

MarkSeen ==
  /\ coordinator.pc = "seen"
  /\ \/ /\ seen' = seen \cup {Oldest.key}
        /\ coordinator' = [coordinator EXCEPT !.pc = "observe"] /\ UNCHANGED rare
     \/ Rare /\ coordinator' = IdleCoordinator /\ UNCHANGED seen
  /\ UNCHANGED <<rows, settingVars, decisionVars, viewVars, dispatchVars,
                 deliveries, worker, request, sendVars>>

(* _claim with one_per_channel *)
Waiting(c) == {k \in Keys : k[3] = c /\ deliveries[k] # None /\ deliveries[k].status = "pending"}
Ready == {c \in Channels : worker[c].pc = "idle" /\ Waiting(c) # {}}

Claim ==
  /\ coordinator.pc = "observe" /\ Unseen = {}
  /\ \/ \E picked \in [Ready -> Keys] :
          /\ \A c \in Ready : picked[c] \in Waiting(c)
          /\ deliveries' = [k \in Keys |-> IF \E c \in Ready : picked[c] = k
                                           THEN [deliveries[k] EXCEPT !.status = "sending"]
                                           ELSE deliveries[k]]
          /\ worker' = [c \in Channels |->
                          IF c \in Ready THEN [IdleWorker EXCEPT !.pc = "guard", !.key = picked[c]]
                          ELSE worker[c]]
          /\ UNCHANGED rare
     \/ Rare /\ UNCHANGED <<deliveries, worker>>
  /\ coordinator' = IdleCoordinator
  /\ UNCHANGED <<rows, settingVars, decisionVars, viewVars, dispatchVars, seen, request, sendVars>>

-----------------------------------------------------------------------------
(* The thread of a channel: _deliver *)

Guard(c) ==
  /\ worker[c].pc = "guard" /\ GateFree
  /\ worker' = [worker EXCEPT ![c].pc =
       IF Allowed(worker[c].key[1], worker[c].key[2]) THEN "send" ELSE "save"]
  /\ UNCHANGED <<eventVars, seen, deliveries, coordinator, request, sendVars>>

Send(c) ==
  /\ worker[c].pc = "send"
  /\ \E outcome \in Outcome :
       /\ worker' = [worker EXCEPT ![c].pc = "save", ![c].outcome = outcome]
       /\ confirmed' = IF outcome = "sent" THEN confirmed \cup {worker[c].key} ELSE confirmed
  /\ sends' = [sends EXCEPT ![worker[c].key] = @ + 1]
  /\ UNCHANGED <<eventVars, seen, deliveries, coordinator, request>>

(* The result of the attempt.  When it cannot be saved the channel stays     *)
(* busy until the coordinator has flushed it.                                *)
AfterAttempt(d, outcome) ==
  [status |-> IF outcome = "retry"
              THEN IF d.attempts + 1 < MaxAttempts THEN "pending" ELSE "failed"
              ELSE outcome,
   attempts |-> d.attempts + 1]
Store(c) ==
  deliveries' = [deliveries EXCEPT ![worker[c].key] = AfterAttempt(@, worker[c].outcome)]

Unstored(w) == [w EXCEPT !.pc = "unsaved"]

Save(c) ==
  /\ worker[c].pc = "save" /\ OutboxFree
  /\ \/ Store(c) /\ worker' = [worker EXCEPT ![c] = IdleWorker] /\ UNCHANGED rare
     \/ Rare /\ worker' = [worker EXCEPT ![c] = Unstored(@)] /\ UNCHANGED deliveries
  /\ UNCHANGED <<rows, settingVars, decisionVars, viewVars, dispatchVars,
                 seen, coordinator, request, sendVars>>

Flush(c) ==
  /\ worker[c].pc = "unsaved" /\ coordinator.pc = "flush" /\ gate # "worker"
  /\ \/ /\ Store(c) /\ worker' = [worker EXCEPT ![c] = IdleWorker]
        /\ UNCHANGED <<coordinator, rare>>
     \/ Rare /\ coordinator' = IdleCoordinator /\ UNCHANGED <<deliveries, worker>>
  /\ UNCHANGED <<rows, settingVars, decisionVars, viewVars, dispatchVars,
                 seen, request, sendVars>>

-----------------------------------------------------------------------------
(* send, asked for by an operator: the event is read, then the guard asked,  *)
(* then the deliveries are queued.                                           *)
RequestSend(i) ==
  /\ request = None /\ events[i] # None /\ GateFree /\ Rare
  /\ request' = [key |-> <<i, events[i].copy.transition>>, reviewed |-> events[i].reviewed,
                 allowed |-> Allowed(i, events[i].copy.transition)]
  /\ UNCHANGED <<rows, settingVars, decisionVars, viewVars, dispatchVars,
                 seen, deliveries, coordinator, worker, sendVars>>

QueueRequested ==
  /\ request # None /\ OutboxFree
  /\ \/ /\ Queue(request.key[1], request.key[2], request.allowed, request.reviewed)
        /\ UNCHANGED rare
     \/ Rare /\ UNCHANGED deliveries
  /\ request' = None
  /\ UNCHANGED <<rows, settingVars, decisionVars, viewVars, dispatchVars,
                 seen, coordinator, worker, sendVars>>

(* A restart: an interrupted send is uncertain, and is due again.            *)
Interrupted_Mut(d) == d
Interrupted(d) == IF d # None /\ d.status = "sending" THEN [d EXCEPT !.status = "pending"] ELSE d
RestartAll ==
  /\ Restart
  /\ deliveries' = [k \in Keys |-> Interrupted(deliveries[k])]
  /\ coordinator' = IdleCoordinator
  /\ worker' = [c \in Channels |-> IdleWorker]
  /\ request' = None
  /\ confirmed' = {k \in confirmed : deliveries[k].status = "sent"}
  /\ UNCHANGED <<seen, sends>>

-----------------------------------------------------------------------------
Coordinator ==
  \/ WorkerTick \/ Collect \/ Ask \/ QueueObserved \/ MarkSeen \/ Claim
  \/ \E c \in Channels : Flush(c)
Deliver(c) == Guard(c) \/ Send(c) \/ Save(c)
Dispatch == (Project \/ Mark) /\ UNCHANGED alertVars
Others ==
  \/ \E w \in Windows : Ingest(w) \/ Infer(w)
  \/ \E i \in Windows : Resolve(i) \/ Review(i)
  \/ Pass \/ Remap

Next ==
  \/ Coordinator \/ Dispatch \/ QueueRequested \/ RestartAll
  \/ \E c \in Channels : Deliver(c)
  \/ \E i \in Windows : RequestSend(i)
  \/ Others /\ UNCHANGED alertVars

Spec == AlertsInit /\ [][Next]_vars

(* The threads keep running, and a channel answers within its timeout.       *)
Fairness ==
  /\ WF_vars(Coordinator) /\ WF_vars(Dispatch) /\ WF_vars(QueueRequested)
  /\ \A c \in Channels : WF_vars(Deliver(c))
FairSpec == Spec /\ Fairness

-----------------------------------------------------------------------------
(* Properties *)

TypeOK ==
  /\ EventsTypeOK
  /\ seen \subseteq Observations
  /\ deliveries \in [Keys -> Delivery \cup {None}]
  /\ coordinator \in [pc : {"idle", "flush", "observe", "queue", "seen"}, batch : SUBSET Observed,
                      allowed : BOOLEAN]
  /\ worker \in [Channels -> [pc : {"idle", "guard", "send", "save", "unsaved"},
                              key : Keys \cup {None}, outcome : Outcome]]
  /\ request \in [key : Observations, reviewed : BOOLEAN, allowed : BOOLEAN] \cup {None}
  /\ sends \in [Keys -> Nat] /\ confirmed \subseteq Keys

(* What is announced happened in the alert mode: no incident that began in   *)
(* another mode, and no recovery of an incident an operator closed, is ever  *)
(* announced, whatever mode the server runs in later.                        *)
AnnouncedIsTrue ==
  \A k \in Keys : sends[k] > 0 =>
    /\ incidents[k[1]] # None /\ incidents[k[1]].mode = "alerts"
    /\ k[2] = "closed" => incidents[k[1]].transition = "closed"

(* On a channel, no opening of an incident is announced after its recovery,  *)
(* however the retries and restarts fall.                                    *)
NoOpeningAfterRecovery ==
  [][\A i \in Windows, c \in Channels :
       sends'[<<i, "open", c>>] > sends[<<i, "open", c>>] => sends[<<i, "closed", c>>] = 0]_vars

(* A delivery that succeeded is not sent again while the process lives, even *)
(* if the result could not be saved, and never once it is saved.             *)
SentOnce == [][\A k \in confirmed : sends'[k] = sends[k]]_vars

(* A thread works on a delivery exactly when the outbox says it is sending.  *)
OneSender ==
  \A k \in Keys :
    (deliveries[k] # None /\ deliveries[k].status = "sending") = (worker[k[3]].key = k)

(* What is announced is true of its incident, by one sender at a time.       *)
AlertsHold == TypeOK /\ AnnouncedIsTrue /\ OneSender
(* No opening is announced after its recovery, and nothing confirmed is sent *)
(* again.                                                                    *)
AnnouncedInOrder == NoOpeningAfterRecovery /\ SentOnce

(* Every queued delivery is sent or given up in the end, so that the outbox  *)
(* drains again and again.                                                   *)
Settled(k) == deliveries[k] = None \/ deliveries[k].status \in {"sent", "failed"}
OutboxDrains == []<>(\A k \in Keys : Settled(k))

(* The shared view catches up with the incidents, and what it shows last of  *)
(* each was considered for an announcement, whatever was overtaken, failed   *)
(* or restarted before.                                                      *)
CaughtUp(i) ==
  incidents[i] # None => Current(i) /\ <<i, incidents[i].transition>> \in seen
ViewCatchesUp == []<>(\A i \in Windows : CaughtUp(i))

(* The outbox drains and the shared view catches up, again and again.        *)
AlertsGoOn == OutboxDrains /\ ViewCatchesUp
=============================================================================
