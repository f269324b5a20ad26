------------------------------ MODULE Telemetry ------------------------------
(***************************************************************************)
(* The backend's telemetry transactions (data.py, runtime_store.py): one   *)
(* asset, the devices that measure it, and every request that writes their *)
(* records, anomaly events, sensor faults and diagnostics.                 *)
(*                                                                         *)
(* Every request holds STORE_LOCK, so it is one step, but what it wrote is *)
(* kept only if the checkpoint of the whole state is: `mem' is the state   *)
(* in memory, `disk' the SQLite checkpoint, `runtime' the lifecycle object *)
(* of the asset, which is neither.  A refused packet takes two             *)
(* transactions, and other requests run between them (`rejecting').        *)
(*                                                                         *)
(* Left out: service health records and latencies, the numeric scores, and *)
(* a health report older than DEVICE_OFFLINE_SEC when it arrives.          *)
(***************************************************************************)
EXTENDS EventLifecycle, Sequences, SequencesExt
CONSTANTS
  Devices, Packets,      \* what the devices may send, again and again
  Reports,               \* health reports, at most one sensor fault in each
  Times,                 \* of measurements and health reports
  MaxRecords,            \* TELEMETRY_MAX_RECORDS_PER_ASSET
  MqttKeys, MaxRequests, MaxRare, None

ASSUME TelemetryConstants ==
  /\ Devices \subseteq Nat \ {0} /\ Devices # {} /\ Times \subseteq Nat \ {0}
  /\ Packets \subseteq [dev : Devices, seq : Nat \ {0}, ts : Times, score : Scores]
  /\ Reports \subseteq [dev : Devices, at : Times, since : Times,
                        status : {"healthy", "active", "recovered"}]
  /\ {MaxRecords, MaxRequests, MaxRare} \subseteq Nat /\ MaxRecords > 0

VARIABLES
  mem, disk,
  runtime,     \* [lc, version] of _LIFECYCLE_RUNTIMES, or None
  rejecting,   \* the refused packet whose diagnostics are not yet written
  cutoff,      \* measurements before it have expired
  answered,    \* history: packets a device knows to be accepted
  evicted,     \* history: packets that newer ones pushed out of the records
  rare         \* how many rare steps were taken

telemetryVars == <<mem, disk, runtime, rejecting, cutoff, answered, evicted, rare>>

Reasons == {"", "score_recovered", "sensor_fault_detected"}
Event == [id : Nat \X Nat, start : Nat, end : Nat, reason : Reasons, points : SUBSET Packets]
Life == [cand : SUBSET Packets, candStart : Nat, exitStart : Nat,
         open : Event \cup {NoEvent}, closed : Event \cup {NoEvent},
         lastKey : Nat \X Nat \X Nat, boundary : Nat, history : SUBSET (Nat \X Nat)]
Held == [lc : Life, version : Nat]
Fault == [dev : Devices, start : Times, end : Times \cup {0}, told : BOOLEAN]
Metrics == [requests : Nat, accepted : Nat, duplicates : Nat, rejected : Nat, local : Nat]
Store == [records : Seq(Packets), keys : SUBSET Packets, events : SUBSET Event,
          faults : SUBSET Fault, checkpoint : Held \cup {None},
          rule : [active : BOOLEAN, version : Nat], mapped : SUBSET Devices,
          reported : [Devices -> Nat], offline : SUBSET Devices, metrics : Metrics,
          quarantine : Nat, mqttKeys : SUBSET MqttKeys, storage : {"healthy", "degraded"}]
ASSUME NothingIsNoValue == NoEvent \notin Event /\ None \notin Held \cup Packets

Empty == [records |-> <<>>, keys |-> {}, events |-> {}, faults |-> {},
          checkpoint |-> None, rule |-> [active |-> TRUE, version |-> 1],
          mapped |-> {CHOOSE d \in Devices : \A e \in Devices : d <= e},
          reported |-> [d \in Devices |-> 0], offline |-> {},
          metrics |-> [requests |-> 0, accepted |-> 0, duplicates |-> 0,
                       rejected |-> 0, local |-> 0],
          quarantine |-> 0, mqttKeys |-> {}, storage |-> "healthy"]

TelemetryInit ==
  /\ mem = Empty /\ disk = Empty /\ runtime = None /\ rejecting = None
  /\ cutoff = 1 /\ answered = {} /\ evicted = {} /\ rare = 0

-----------------------------------------------------------------------------
(* The transaction that STORE_LOCK brackets.                               *)

\* The records that have not expired, in their order.
Unexpired(records) ==
  LET kept[n \in 0 .. Len(records)] ==
        CASE n = 0 -> <<>>
          [] n > 0 /\ records[n].ts >= cutoff -> Append(kept[n - 1], records[n])
          [] OTHER -> kept[n - 1]
  IN  kept[Len(records)]

\* mutant: expired records keep their keys.
Retained_Mut(s) == [s EXCEPT !.records = Unexpired(@)]
\* _enforce_runtime_retention: keys are pruned only when a record expires.
Retained(s) ==
  LET kept == Unexpired(s.records)
  IN  IF Len(kept) = Len(s.records) THEN s
      ELSE [s EXCEPT !.records = kept,
                     !.keys = {p \in @ : \E q \in Range(kept) : PointKey(p) = PointKey(q)}]

\* _persist_runtime_state: what the checkpoint holds when it is saved.
Checkpoint(s) == [Retained(s) EXCEPT !.storage = "healthy"]

\* The lock is released: nothing to save, saved, or the save failed and memory
\* is what it was, with the failure noted after the fact; or the process stopped
\* before it answered.  A restart loads the checkpoint and expires it.
Cost(how, late) == (IF how = "done" THEN 0 ELSE 1) + (IF late THEN 1 ELSE 0)
Release(new, newRuntime, how, late) ==
  LET saved == Checkpoint(new) IN
  /\ rare + Cost(how, late) <= MaxRare /\ rare' = rare + Cost(how, late)
  /\ \/ /\ how = "done" /\ new = mem
        /\ runtime' = newRuntime
        /\ UNCHANGED <<mem, disk>>
     \/ /\ how = "done" /\ new # mem
        /\ mem' = saved /\ disk' = saved /\ runtime' = newRuntime
     \/ /\ how = "failed" /\ new # mem
        /\ mem' = [mem EXCEPT !.storage = "degraded"] /\ runtime' = None
        /\ UNCHANGED disk
     \/ /\ how = "stopped" /\ new # mem
        /\ mem' = saved /\ disk' = saved /\ runtime' = None

\* Requests that wait between two transactions are lost when the process stops.
Waiting(how) == rejecting' = IF how = "stopped" THEN None ELSE rejecting

Restored(s) == IF Retained(s) = s THEN s ELSE Checkpoint(s)

-----------------------------------------------------------------------------
(* Lifecycle of the asset's events.                                        *)

\* _lifecycle_for: the object in memory while the rule is the one it has, else
\* one restored from the checkpoint, without the streaks of another rule.
LifecycleOf(s) ==
  IF runtime # None /\ runtime.version = s.rule.version THEN runtime.lc
  ELSE IF s.checkpoint = None THEN Fresh
  ELSE IF s.checkpoint.version = s.rule.version THEN s.checkpoint.lc
  ELSE DropStreaks(s.checkpoint.lc)

ShowEvent(s, event) ==
  IF event = NoEvent THEN s
  ELSE [s EXCEPT !.events = {e \in @ : e.id # event.id} \cup {event}]

\* persist_transaction: checkpoint and view change together.
Persisted(s, lc, next, t) ==
  ShowEvent([s EXCEPT !.checkpoint = [lc |-> next, version |-> s.rule.version]],
            Updated(lc, next, t))

Faulty(s, d) == \E f \in s.faults : f.dev = d /\ f.end = 0

\* process_accepted_telemetry; a point the lifecycle refuses raises, which the
\* caller notes and otherwise ignores.
Analysed(s, p) ==
  LET lc == LifecycleOf(s)
      next == ProcessPoint(lc, p, Faulty(s, p.dev))
  IN  IF ~s.rule.active /\ ~Faulty(s, p.dev)
      THEN [store |-> s, runtime |-> runtime]
      ELSE IF ~Processable(lc, p)
      THEN [store |-> s, runtime |-> [lc |-> lc, version |-> s.rule.version]]
      ELSE [store |-> Persisted(s, lc, next, p.ts),
            runtime |-> [lc |-> next, version |-> s.rule.version]]

-----------------------------------------------------------------------------
(* POST telemetry.                                                         *)

Known(s, p) == \E q \in s.keys : PointKey(q) = PointKey(p)

Counted(s, what) == [s EXCEPT !.metrics[what] = @ + 1, !.metrics.requests = @ + 1]

\* The oldest arrivals beyond the limit go, with their idempotency keys.
Surplus(records) == Len(records) - MaxRecords
Recorded(s, p) ==
  LET all == Append(s.records, p)
      n == IF Surplus(all) > 0 THEN Surplus(all) ELSE 0
      gone == Range(SubSeq(all, 1, n))
  IN  [s EXCEPT !.records = SubSeq(all, n + 1, Len(all)),
                !.keys = {q \in @ \cup {p} : \A g \in gone : PointKey(q) # PointKey(g)},
                !.offline = @ \ {p.dev}]

\* A packet that comes again or behind a newer one is rare; which ones those are
\* only bounds the instance.
OutOfTurn(p) == \E q \in mem.keys : q.ts >= p.ts

Accept(p, how) ==
  LET stored == Recorded(mem, p)
      result == Analysed(stored, p)
  IN  /\ p.dev \in mem.mapped /\ ~Known(mem, p)
      /\ Release(Counted(result.store, "accepted"), result.runtime, how, OutOfTurn(p))
      /\ evicted' = IF how = "failed" THEN evicted
                    ELSE evicted \cup (Range(mem.records) \ Range(stored.records))
      /\ answered' = IF how = "done" THEN answered \cup {p} ELSE answered
      /\ Waiting(how) /\ UNCHANGED cutoff

Repeat(p, how) ==
  /\ p.dev \in mem.mapped /\ p \in mem.keys
  /\ Release(Counted(mem, "duplicates"), runtime, how, TRUE)
  /\ answered' = IF how = "done" THEN answered \cup {p} ELSE answered
  /\ Waiting(how) /\ UNCHANGED <<cutoff, evicted>>

\* An ApiError: the transaction is undone, which drops the lifecycle object.
Refuse(p) ==
  /\ rejecting = None
  /\ p.dev \notin mem.mapped \/ (Known(mem, p) /\ p \notin mem.keys)
  /\ rejecting' = p /\ runtime' = None
  /\ UNCHANGED <<mem, disk, cutoff, answered, evicted, rare>>

\* The diagnostics of the refusal, in a transaction of their own.
Diagnose(how) ==
  /\ rejecting # None
  /\ Release([Counted(mem, "rejected") EXCEPT !.quarantine = @ + 1], runtime, how, FALSE)
  /\ rejecting' = None
  /\ UNCHANGED <<cutoff, answered, evicted>>

Ingest(p) ==
  /\ mem.metrics.requests < MaxRequests
  /\ \/ \E how \in {"done", "failed", "stopped"} : Accept(p, how) \/ Repeat(p, how)
     \/ Refuse(p)

\* A packet of the MQTT bridge that is no telemetry, under its idempotency key;
\* one that comes again changes nothing.  (Rare, to bound the instance.)
QuarantineMqtt(k, how) ==
  /\ mem.metrics.requests < MaxRequests /\ k \notin mem.mqttKeys
  /\ Release([Counted(mem, "rejected") EXCEPT
                !.metrics.local = @ + 1, !.quarantine = @ + 1, !.mqttKeys = @ \cup {k}],
             runtime, how, TRUE)
  /\ Waiting(how) /\ UNCHANGED <<cutoff, answered, evicted>>

-----------------------------------------------------------------------------
(* Health reports, configuration and time.                                 *)

OpenFault(s, d) == {f \in s.faults : f.dev = d /\ f.end = 0}

\* `told' is history: the report found the device mapped, so that the lifecycle
\* of the asset learned where the fault began, or, once it ended, where it ended.
FaultShown(s, r) ==
  LET open == OpenFault(s, r.dev)
      told == r.dev \in s.mapped
      begun == [dev |-> r.dev, start |-> r.since, end |-> 0, told |-> told]
  IN  CASE r.status = "active" /\ open = {} -> [s EXCEPT !.faults = @ \cup {begun}]
        [] r.status = "active" /\ open # {} ->
             [s EXCEPT !.faults = (@ \ open) \cup {[f EXCEPT !.told = @ \/ told] : f \in open}]
        [] r.status = "recovered" /\ open # {} ->
             [s EXCEPT !.faults =
                (@ \ open) \cup {[f EXCEPT !.end = r.since, !.told = told] : f \in open}]
        [] OTHER -> s

\* _apply_sensor_health_boundary, for the device that is mapped to the asset.
Bounded(s, r) ==
  LET lc == LifecycleOf(s)
      next == ProcessFault(lc, r.since)
  IN  IF r.dev \notin s.mapped THEN [store |-> s, runtime |-> runtime]
      ELSE [store |-> Persisted(s, lc, next, next.boundary),
            runtime |-> [lc |-> next, version |-> s.rule.version]]

ReportHealth(r, how) ==
  LET seen == [mem EXCEPT !.reported[r.dev] = r.at, !.offline = @ \ {r.dev}]
      shown == FaultShown(seen, r)
      result == IF r.status = "active" \/ (r.status = "recovered" /\ shown # seen)
                THEN Bounded(shown, r)
                ELSE [store |-> shown, runtime |-> runtime]
  IN  /\ r.at >= mem.reported[r.dev]
      /\ Release(result.store, result.runtime, how, FALSE)
      /\ Waiting(how) /\ UNCHANGED <<cutoff, answered, evicted>>

\* device_health_for finds that nothing came for DEVICE_OFFLINE_SEC.
Silent(d) ==
  /\ d \notin mem.offline /\ rare < MaxRare /\ rare' = rare + 1
  /\ mem' = Checkpoint([mem EXCEPT !.offline = @ \cup {d}]) /\ disk' = mem'
  /\ UNCHANGED <<runtime, rejecting, cutoff, answered, evicted>>

\* update_anomaly_rule: every update is a new version.
UpdateRule(active) ==
  /\ rare < MaxRare /\ rare' = rare + 1
  /\ mem' = Checkpoint([mem EXCEPT !.rule = [active |-> active, version |-> @.version + 1]])
  /\ disk' = mem'
  /\ UNCHANGED <<runtime, rejecting, cutoff, answered, evicted>>

\* update_device: an asset has at most one active device.  (Only taking the device
\* off counts as rare: one is put in its place at most once for each.)
Remap(d) ==
  /\ d \in mem.mapped \/ mem.mapped = {}
  /\ rare' = (IF d \in mem.mapped THEN rare + 1 ELSE rare) /\ rare' <= MaxRare
  /\ mem' = Checkpoint([mem EXCEPT !.mapped = IF d \in @ THEN {} ELSE {d}])
  /\ disk' = mem'
  /\ UNCHANGED <<runtime, rejecting, cutoff, answered, evicted>>

Age ==
  /\ rare < MaxRare /\ rare' = rare + 1
  /\ \E t \in Times : t >= cutoff
  /\ cutoff' = cutoff + 1
  /\ UNCHANGED <<mem, disk, runtime, rejecting, answered, evicted>>

MaintainRetention(how) ==
  /\ Retained(mem) # mem
  /\ Release(Retained(mem), runtime, how, FALSE)
  /\ Waiting(how) /\ UNCHANGED <<cutoff, answered, evicted>>

Restart ==
  /\ rare < MaxRare /\ rare' = rare + 1
  /\ mem' = Restored(disk) /\ disk' = Restored(disk)
  /\ runtime' = None /\ rejecting' = None
  /\ UNCHANGED <<cutoff, answered, evicted>>

TelemetryNext ==
  \/ \E p \in Packets : Ingest(p)
  \/ \E how \in {"done", "failed", "stopped"} :
       \/ Diagnose(how)
       \/ MaintainRetention(how)
       \/ \E k \in MqttKeys : QuarantineMqtt(k, how)
       \/ \E r \in Reports : ReportHealth(r, how)
  \/ \E d \in Devices : Silent(d) \/ Remap(d)
  \/ \E active \in BOOLEAN : UpdateRule(active)
  \/ Age
  \/ Restart

TelemetrySpec == TelemetryInit /\ [][TelemetryNext]_telemetryVars
-----------------------------------------------------------------------------
(* Properties.                                                             *)

TelemetryTypeOK ==
  /\ {mem, disk} \subseteq Store /\ runtime \in Held \cup {None}
  /\ answered \cup evicted \subseteq Packets /\ rejecting \in Packets \cup {None}
  /\ {cutoff, rare} \subseteq Nat

\* Between requests memory is the checkpoint, but for the note of a failed save;
\* the records and their idempotency keys, written and expired in different
\* places, are the same packets; what the counters say adds up; and a packet the
\* device knows to be accepted is stored until it expires or is pushed out.
StoreConsistent ==
  /\ TelemetryTypeOK
  /\ disk = [mem EXCEPT !.storage = "healthy"]
  /\ mem.keys = Range(mem.records)
  /\ Cardinality({PointKey(p) : p \in mem.keys}) = Len(mem.records)
  /\ LET m == mem.metrics IN
       /\ m.requests = m.accepted + m.duplicates + m.rejected
       /\ mem.quarantine = m.rejected
  /\ \A p \in answered : p \in mem.keys \/ p \in evicted \/ p.ts < cutoff

\* The operators' view and the lifecycle's checkpoint tell the same story, and the
\* object in memory never runs ahead of what was saved.
ViewIsCheckpoint ==
  LET lc == IF mem.checkpoint = None THEN Fresh ELSE mem.checkpoint.lc IN
  /\ {e \in mem.events : e.end = 0} = {lc.open} \ {NoEvent}
  /\ lc.closed # NoEvent => lc.closed \in mem.events
  /\ runtime # None =>
       runtime.lc = IF mem.checkpoint # None /\ runtime.version # mem.checkpoint.version
                    THEN DropStreaks(lc) ELSE lc

\* The events of an asset follow each other in measured time, and no sample is
\* counted in two of them, whatever is repeated, lost, restored or expired.
EventsFollow ==
  \A e, f \in mem.events : e # f =>
    /\ \/ e.end # 0 /\ e.end <= f.start
       \/ f.end # 0 /\ f.end <= e.start
    /\ {PointKey(p) : p \in e.points} \cap {PointKey(p) : p \in f.points} = {}

\* "It must not be possible to erase this audit boundary later": an event that a
\* sensor fault closed is never opened, merged or changed again.
FaultCloseIsFinal ==
  [][\A e \in disk.events :
       e.reason = "sensor_fault_detected" => e \in disk'.events]_telemetryVars

CountedPoints(s) == UNION {e.points : e \in s.events}

\* A sample of a device with a fault that the asset's lifecycle was told of is
\* counted in no event while the fault is open, and one measured before the end of
\* the fault in none that arrives later.  (A device that was not mapped when it
\* reported keeps its fault to itself: "inactive devices still retain their own
\* health/fault history".)
FaultySamplesExcluded ==
  [][\A p \in CountedPoints(disk') \ CountedPoints(disk), f \in disk.faults :
       f.dev = p.dev /\ f.told => f.end # 0 /\ p.ts > f.end]_telemetryVars

\* The lifecycle, its checkpoint and the operators' view tell one story, in which
\* every event has its own time and its own samples.
EventsHold == ViewIsCheckpoint /\ EventsFollow

\* What a sensor fault closed stays closed, and nothing faulty is counted.
FaultsAreRespected == FaultCloseIsFinal /\ FaultySamplesExcluded
=============================================================================
