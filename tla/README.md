# Verification of MotorDiagnosis

TLA+ models of the protocols of this repository, the TLC runs that check them on
small instances, and TLAPS proofs of what matters most. Everything is translated
from the code under `src/`; paths below are relative to it.

## 1. The system and its parts

An ESP32 node (`firmware/esp32_edge_node`) measures a motor, keeps what it cannot
send, and posts it to a Python backend (`motor_diagnosis`) over HTTP, or publishes
it over MQTT to a bridge that posts it. The backend stores telemetry and
measurement windows, runs models on the windows, turns judgements into incidents,
shows these to operators and announces them, and freezes reviewed data into
datasets. Batch programs (`ai/ai1`) build training datasets and models from
recordings and hand their results back.

| Part | State it keeps | Operations | How it meets the others |
| --- | --- | --- | --- |
| MQTT bridge (`mqtt_service.py`) | SQLite: delivery generations, retry rows with claims, session epochs; memory: PUBACK targets | on_message, subscribe and disconnect callbacks, retry worker, PUBACK, garbage collection | MQTT broker (QoS 1, may redeliver), backend over HTTP (answer may be lost), other bridge processes on the same file |
| Durable state (`runtime_store.py`, `DurableStateLock` in `data.py`) | records in memory and their SQLite checkpoint | lock, commit, restore | every writer of `data.py` |
| Telemetry ingest, event lifecycle, sensor faults (`data.py`, `ai/ai2/week3/event_lifecycle.py`) | records, idempotency keys, quarantine, events, fault boundaries, the lifecycle object | accept, duplicate, conflict, quarantine, retention, health reports, rule changes | node and bridge over HTTP |
| Snapshot inbox and inference (`periodic_snapshots.py`, `snapshot_inference.py`) | SQLite: windows, jobs with token, lease, attempts | ingest, prepare, claim, evaluate, finish | board uploads; decides its windows |
| Snapshot incidents (`snapshot_events.py`, `device_lifecycle.py`) | SQLite: event jobs, incidents, projected revision | tick, dispatch, resolve, guard | reads windows, writes the shared view of `data.py`, guards the outbox |
| Alert outbox (`alerts.py`) | SQLite: deliveries, seen observations; memory: busy channels, unsaved results | observe, send, claim, deliver, flush | copies the shared view, external channels |
| Model inputs (`model_inference.py`) | SQLite: inputs, streams | upload, evaluate a group, expire, delete guard | device lifecycle gate |
| Waveform requests (`edge_analysis.py`, firmware) | SQLite: frames, requests; node: outbox files, one request | request, poll, capture, post, list | the node polls and posts |
| Remote configuration (`remote_config.py`, `remote_config.cpp`) | desired revision with history; two blobs of flash | request, deliver, apply, report | the node polls and reports |
| Node's offline buffer (`main.cpp`, `firmware_logic.cpp`) | flash ring, watermark, sequence floor, anchors; queue in RAM | store, replay, consume, reboot | posts to the backend |
| Windows and RF66 incidents (`raw_vibration.py`, `vibration_windows.py`, `rf66_events.py`) | SQLite: windows, streams, verdicts, incidents | batches, analysis, expiry, dispatch | shared view |
| Master data and communication quality (`data.py`, `device_lifecycle.py`, `communication_quality.py`) | sites, assets, devices, points; reported windows | create, change, delete, report, total | the lifecycle gate of every history store |
| Records and datasets of the backend (`data.py`, `ai_results.py`, `model_registry.py`) | rules, events, reviews, notes, audit; versions; baselines, results | every handler under the state lock | operators, producers |
| Training side (`ai/ai1`) | manifests, registries, export directories, outbox files | freeze, approve, roll back, export, send | files and HTTP |
| Rules on streams, field collection (`ai/ai1`) | registered bounds; archives, plans | detect, export, inspect, build | batch programs |
| Operations (`operations.py`, systemd units) | lock, marker, backup folders | backup, resume, drill | the service and its databases |
| Server process (`server.py`, `app.py`) | open stores, threads, stop events | open, serve, close | everything above |
| Everything else | see `PROJECT.json`, components `not_modelled` | numeric features, presentation, credentials, adaptive transmission | |

What is hard in it: several commits to several stores that cannot be atomic
(PUBACK and SQLite; incident and shared view; send and outbox; watermark and
flash slot; memory and checkpoint), answers that are lost after the work was done,
leases that lapse under a living worker, sessions and packet ids that are reused,
measurements that arrive out of order, records that outlive what they refer to,
and a configuration that differs between receipt, evaluation and effect.

## 2. Modules

| Module | Models | Uses |
| --- | --- | --- |
| `MqttRetry` | the bridge: delivery table, retry rows, sessions, callback and worker threads, broker, backend, crashes | |
| `DeliveryLedger` | what the delivery table promises: first outcome kept, acknowledged only after a terminal one | |
| `SnapshotInbox` | what the inbox promises of one device's windows | |
| `SnapshotInference` | inbox, preparation and inference jobs of several processes | implements `SnapshotInbox` |
| `SnapshotEvents` | incidents, their projection, reviews and resolutions | extends `SnapshotInbox` |
| `AlertOutbox` | the outbox, its coordinator and channel threads | extends `SnapshotEvents` |
| `EventLifecycle` | the lifecycle object as operators on its checkpoint | |
| `Telemetry` | the transactions under the state lock: records, keys, quarantine, events, faults | extends `EventLifecycle` |
| `RemoteConfig` | both sides of remote configuration | |
| `FlashRing` | the node's ring, watermark, floor, queue and loop | |
| `WaveformRequests` | requests, captures, posts and listings | |
| `ModelInputs` | uploads, groups of windows, verdicts, expiry, the delete guard | |
| `Maintenance` | backups, resume, drill | |
| `ServerProcess` | opening, serving and closing | |
| `EventRecords`, `Datasets`, `ModelHandoff` | records of operators; dataset versions; baselines and results | each extends the one before |
| `DatasetVersions`, `TrainingHandoff`, `ModelVersions`, `SampleSplits` | training versions and exports; outbox and receipts; models; the search for a split | `TrainingHandoff` extends `DatasetVersions` |
| `MasterData`, `QualityStore` | master data and the gate; communication quality | `QualityStore` extends `MasterData` |
| `RawWindows` | windows, verdicts, RF66 incidents and their view | |
| `RuleStream`, `FieldCollection` | events of a feature stream; recordings and their plan | |
| `MC*` | instances and compositions for TLC | section 3 |
| `*Proofs`, `SetBounds` | theorems; greatest and least elements of sets of numbers, induction on a set of numbers | section 5 |

`map` in `PROJECT.json` names the lines each definition stands for. A name ending
in `_Mut` is a plausible bug of the definition it is named for, used to see that a
property notices it; nothing else refers to it.

### How the models correspond to the code

In general: a SQLite table is a set or function of records, a transaction or a
handler under one lock is one action, a thread between two locks is a program
counter with what it carries, and a crash loses what is in memory. Digests and
checksums are modelled by what they were computed from. Faults are counted by
constants named `Max...`, always in guards, never as state constraints.

**MqttRetry.** `deliv` and `rows` are the two tables, `target` the PUBACK targets,
`epoch` the session. The callback thread and the worker of each bridge (`cb`, `wk`)
step through the code's transactions, HTTP calls and PUBACKs in the code's order;
`_processing_lock` and the session fence are guards. The claim's token is its
process. The time of the next attempt is abstracted. Left out: QoS 0 and the
migration of rows from before session epochs.

**SnapshotInference.** `task` is the inference thread between claim and finish,
where no lock is held; `lapsed` is the clock of a claim; a process may restart with
another model. Refusals that change no table are not steps.

**SnapshotEvents, AlertOutbox.** Windows are numbered by their time. `gate` is the
lifecycle gate held over `Project` (state lock) and `Mark` (SQLite). The coordinator
is event tick, flush, copy of the view, then per unseen transition guard, queue,
seen mark and claim. Policy is a choice that may suppress; retry delay is abstracted.

**Telemetry.** `mem`, `disk` and `runtime` are memory, checkpoint and lifecycle
object, which a failed commit can leave apart; a refused packet takes two
transactions (`rejecting`). The re-entrant lock is one step per request. A fault's
`told` is history, read by no action: whether the report found the device mapped, so
that the lifecycle of the asset learned of it. Mapping a device does not count as a
rare event, taking it off does, so that a fault can be reported while it is off.

**RemoteConfig.** A command is version, id and scope. The node makes one call at a
time; an answer may be lost and a report arrive late; flash has two blobs of which a
write may be torn; the backend may be restored from a backup.

**FlashRing.** Built without `ADAPTIVE_TRANSMISSION_ENABLED`. Power may fail between
any two writes and tear the one to the ring; records decay; NVS may lose the floor.
A packet is its number. Whether a health report goes first is a choice.

**WaveformRequests.** The node's code is compiled only without
`CONTINUOUS_VIBRATION_ENABLED`. The limit on stored captures is a constant that the
runs do not reach. **ModelInputs.** The worker evaluates without a lock; the gate is
held by an upload or a deletion.

**Maintenance.** The service is stopped by backups only; the helper of the timer's
unit is followed by resume-backup whatever happened, an administrator runs it after
a kill. A backup's own `systemctl start` waits for the outcome (`RestartService`), the
one of resume-backup does not (`--no-block`, `operations.py:285`): `ResumeStart` queues
the start, `ResumeUnlink` removes the marker, and `CarryOutStart` is systemd, later, with
success or failure. In between the service is down with no marker on disk, and after a
failure it stays so: `start` keeps what became of the request, and the properties claim
no more than that it was made. **ServerProcess.** Requests have a thread each; the five workers and the
delivery threads are actors that are off, idle or busy with a store.

**RawWindows.** RF66 processing is enabled in the model; the server as configured
switches it off. **MasterData.** Creating or deleting a device is two steps with a
look at the history stores between; `create_install_point` reads its asset before
the lock. **EventRecords.** Every handler is one action. **RuleStream.** The closed
range of contextual rules and the half-open one of legacy rules are both there; the
report of window states is not. **FieldCollection.** A unit is half a window; the
order of hashes is arbitrary.

Smaller abstractions, none of which a property depends on:

- MqttRetry: checks and writes of one thread between which it holds no other state are
  one step: the two transactions of an enqueue (`mqtt_service.py:1153-1188`), the end of
  an unacknowledged row (1493, 1494), the three fences of the worker (1686, 1704, 1734),
  and a read that fails before the write it belongs to (1442, 1663);
- SnapshotInference: a window whose integrity check fails counts as a run of the model;
- AlertOutbox: `RequestSend` reads the event and asks the guard in one step; its retry
  after an SQLite error and test messages are left out;
- WaveformRequests: the second by which a capture may precede its request
  (`edge_analysis.py:378`) is left out;
- EventRecords: a rule comes with its asset; the one an update creates for an asset
  without a rule (`data.py:5486-5490`, 5546) is left out, and so is the refusal to delete an asset with
  devices (2257), which is the business of `MasterData`;
- Datasets: shares are exact tenths where the code computes with floats
  (`data.py:7006-7019`), groups come in any order where it sorts hashes, and events
  cover rows of their asset; device, source and demo data (7103-7118) are not told apart;
- RawWindows: of the bounds on the time of a new window (`window_envelope.py:40`) the
  lower one is not checked and the upper one is now, without the 300 s; incidents stay
  below the limit that refuses more (`rf66_events.py:92`); the dispatcher's two sections
  under the lock (120-131) are one step;
- FieldCollection: the limit on timing errors is agreed on (`field_collection.py:294-295`)
  and the 0.96 s a recording may be off its session are a second;
- TrainingHandoff: the frozen manifest and the training report that the automatic path
  stores beside the result (`train_and_evaluate.py:989-990`) are left out.

## 3. Runs

Parts that share no state are checked in one run: a behaviour chooses its part (its
`stage`, `scene` or `scenario`) and the other parts rest in an initial state. This
adds their state spaces instead of multiplying them and hides nothing, as no action
of one reads a variable of another.

| Run | Question | Bounds |
| --- | --- | --- |
| `faults` | Does the bridge acknowledge or release only what is stored, keep its tables in agreement and implement the ledger? | six scenarios of `MCMqttScenarios`: a crash anywhere with two packet ids or one; crash and HTTP failure; drop and HTTP failure; drop, lost PUBACK and failed SUBACK; drop with failing session and table; two bridges with a take-over and a lapsed claim. Two messages, three deliveries, three epochs |
| `liveness` | Does everything that must come about? | `MCLiveness`: the bridge through one outage, and six stages at small bounds |
| `incidents` | Are incidents true, in order, and shown as they are? | three windows, two models (symmetric), shadow and events, any two rare events |
| `alerts` | Are announcements true, in order, unrepeated and settled? | two windows, one incident, one channel, two attempts, any one rare event |
| `telemetry` | Do memory, checkpoint, events and answers agree? | two devices, eight packets (a number used twice, two equal times), two health reports, six requests, three records kept, one rare event |
| `processes` | Do seven protocols keep their promises? | `MCProcesses`: ring of three slots with one flaw; three commands with two mishaps; two backups of two databases with two setbacks; two waveform requests and captures; two server requests; two processes, models and windows with one failure of each kind; groups of two of three indices with one restart |
| `stores` | Do stores, registries and batch programs keep theirs? | `MCStores`: scenes governance, training, master data, raw windows, shares, streams and collection; the bounds are in `Stores.cfg` |
| `lost_puback`, `rearmed`, `twin_rows`, `overlap`, `stuck_head` | Does the code keep what its comments say? It does not: section 6 | the smallest number of faults that shows it |

A property named in a run may be the conjunction of a component's parts
(`JobsHold`, `RecordsHold`, ...); the parts are defined, with what they mean, in the
component's module.

Two properties of `faults` are about one bridge, and say so: `OneBridgeIsLedger` and
`NoRepeats` do not hold of two bridges that take a session over from each other,
because each may settle the delivery it has in hand. `ReleasedIsStored` is stated
without two histories (`Orderly`), in which a delivery is acknowledged twice: by the
worker and the callback after a dropped connection; and for the DUP that follows a
crash, when the record of the first PUBACK could not be written. If the broker has
meanwhile given the packet id to another message, it takes the second PUBACK for that
message's. Neither side of MQTT 3.1.1 can tell the two apart. With a single message
published nothing can be confused, and the property is claimed of every history.

Why the bounds are enough to meet the cases: two messages make a packet id collide;
one crash between any two commits around a PUBACK is every crash point; two workers
and one lapse make a stale claim finish after its successor; three windows give
opening, recovery and opening again in every order of arrival; two rare events pair
every failure with every other; a ring of three slots fills, wraps and gives up its
oldest; three commands overflow a history of two; two captures of one time on pages
of one make the cursor's tie matter; two backups make one refuse the other, and one
setback is enough for a restart to be left to resume-backup; two reviewers with two
request ids decide on a revision that is no longer current; two contents of a model
version are enough to see a rollback given out for the wrong one.

Fairness. Threads are loops that run while the process lives, so each thread's steps
are weakly fair. Strongly fair are: the callback thread, which waits for a lock the
sleeping worker frees again and again; the claim of each row, taken in the order of a
due time that every attempt moves on; a unit's start, which its timer repeats; and
the node's start of a turn that can read its flash and the backend's answer to a
replay, which the loop tries again and again. systemd is assumed to carry out a queued
start in the end (weak fairness of `CarryOutStart`), not to succeed: `ServiceReturns`
promises the service back unless that start failed. HTTP calls and channels have timeouts;
a lease lapses because time passes; the broker redelivers what was not acknowledged
when a session resumes. Nothing makes a board send, an operator act, a process
restart or a failure happen. In `liveness` the failures are bounded, which is what
the retry loops need to get through. A behaviour has one stage, so two stages share a
strong fairness condition (`SharedFairness`) without weakening it.
Deadlock is not checked: when all messages are released and all faults are used up,
or a process has ended, there is nothing left to do.

## 4. Properties and hazards

`PROJECT.json` lists the hazards of the code at their lines with the properties that
watch them; one without a property says why. Each property has a mutant of the code
on which its run fails.

Hazards read in the code and left out of the list, because a component's abstraction
excludes them: `begin_session` for a clean broker session that fails and is retried
on a timer (`mqtt_service.py:2490`); the INSERT of a row that fails, after which the
message waits for the next connection (1191); the check of `authorized_keys` for
concurrent changes and its replacement, which are two steps (`operations.py:592`).

## 5. Proofs

TLC checks the runs' bounds; the theorems below hold for every value of the
constants, from the assumptions on constants named in the modules. A safety property
is proved from an inductive invariant (`...IInv`), which TLC checked first on the
run's instance; there is one lemma per action, and temporal steps only combine them.

| Module | Theorems | Stated by a run |
| --- | --- | --- |
| `MqttRetryProofs` | `Invariance`, `TypeCorrect`, `AckedIsStored`, `TerminalIsStored`, `IdentitiesApart`; over the scenarios `TablesInvariance`, `SharedTablesAgree`, `LedgerInvariance`, `DeliversOnce`, `TableIsLedger`, `ReleasesStored` | `IInv`, `AckAfterStore`; `TablesAgree`, `NoRepeats`, `OneBridgeIsLedger`, `ReleasedIsStored` |
| `SnapshotInferenceProofs` | `JobsInvariance`, `JobsAreHeld`, `JobsImplementInbox` | `JobsHold`, `ImplementsInbox` |
| `AlertOutboxProofs` | `EventsInvariance`, `IncidentsStayBacked`, `ViewStaysTrue`, `ReviewsStay`; `AlertsInvariance`, `AlertsStayTrue`, `AlertsInOrder` | `IncidentsHold`, `ViewHolds`, `ReviewKept`; `AlertsHold`, `AnnouncedInOrder` |
| `DeviceProofs` | `ConfigInvariance`, `AppliedStaysHeld`, `VerdictsStay`; `RingInvariance`, `BacklogStays`, `DeliveriesInOrder`, `NumbersStayNew` | parts of `DeviceHolds`, `DecisionsStand` |
| `TelemetryProofs` | `TelemetryInvariance`, `StoreStaysConsistent`, `EventsStayTrue`, `FaultsStayRespected` | `StoreConsistent`, `EventsHold`, `FaultsAreRespected` |
| `MCProcessesProofs` | `ServerInvariance`, `ServerIsHeld`; `MaintenanceInvariance`, `BackupsAreHeld`; `InputsInvariance`, `WaveformInvariance`, `CapturesStay`; of the composition: `DevicesHold`, `RequestsStayAnswered`, `UploadsStayBacked`, `DecisionsStay` | `ServerHolds`; `BackupsHold`; `DeviceHolds`, `RequestsHold`, `UploadsHold`, `DecisionsStand` |
| `StoresProofs` | `QualityInvariance`, `MasterDataStays`, `ReportsStay`, `QualityStays`; `HandoffInvariance`, `VersionsStayHonest`, `HandoffsHold`, `TrainingStays`, `RegistryStays`; `RollbacksGoBack`; `GovernanceInvariance`, `AnswersStay`, `VersionsStayFrozen`, `RecordsTellTheTruth`; `WindowsAreKept`, `ViewGoesForward`; `EventsStayRuns` | `QualityHolds`; `TrainingHolds`, `RegistryKeeps`; `RollbacksDescend`; `AnswersHold`, `FrozenAsReviewed`, `RecordsHold`; `RawWindowsHold`, `ViewFollows`; `EventsAreRuns` |

**Bridge.** `AckAfterStore` is not inductive: a PUBACK is the end of a path that began
with an HTTP answer, and in between the fact that the backend has the bytes is only
in a program counter, a local variable or a row. `IInv` says of every place where an
outcome is carried (both threads' locals, rows, generations) that the backend has
stored what it names, and of every program counter before a PUBACK or a completion
that it holds such an outcome. The backend's store only grows.
  The tables (`TablesInv`) need what a callback has in hand: a live identity, and a gate
only before its SUBACK (`CallbacksLive`). Most steps insert no row and bring no identity
to life (`TablesHeld`), and what is collected is void and has no row (`PrunedIsUnused`).
That identities stay apart holds for any number of bridges. That every row has its
generation does not, which the proof showed: a callback of one bridge may insert the row
of an identity that a second bridge has meanwhile voided with a clean session; within the
run's bound on epochs and faults it did not happen. `TablesAgree` now claims it, as it
does the gate, while one bridge runs.
  The ledger (`OneBridgeIsLedger`) and `NoRepeats` need that the two threads of a bridge
agree on the outcome of a delivery (`ThreadsAgree`, in `LedgerIInv`). A delivery is
settled in one of two places: by the callback, while nobody else has it in hand (it has
no row, and the worker is not looking at it), or by the worker, which has its row. Every
other record repeats an outcome that is on disk already, and the PUBACK comes only after
one. The case that shapes the invariant is a DUP that resumes an open delivery while the
worker works on its row: the callback has read "active", the worker posts and settles,
and the callback must then find the row, still unacknowledged, or the delivery open. It
does (`Resumes`): the row of a live identity owes its PUBACK (`qos` 1) and nobody tried
one, so without a target the fence leaves the row, and with one the worker may not send
while a callback holds Paho's mutex. Each action
then only moves generations onward (`Onward`), which is the refinement mapping's step,
and a new message opens one record (`MintRecord`).
  What the broker releases (`ReleasedIsStored`) follows each packet id from the wire to
its PUBACK. `IdsInv` says that among the packets on the wire, the PUBACKs on their way
and the deliveries that a thread of the connected bridge still owes one (`Owes`), an id
names one delivery, and that the broker holds the message of that delivery under it; so
no PUBACK meets another message. That a bridge owes a delivery once is where `Orderly`
is needed: before a crash nothing was sent as a DUP (`FirstConnection`), and after one
every PUBACK that left has its mark in the database. For a single message `SoleInv` is
enough: whatever is acknowledged has its payload.

**Snapshot jobs.** A row and its job agree; a token is at most the attempts counted,
and at most one worker holds a given one; so the worker whose token is the job's is
the latest claimant, and a late one is fenced off. That a model runs at most
MAX_ATTEMPTS times on a window is an argument of counting: the evaluations done and
the claims that may still evaluate are together at most the attempts, for which the
proof uses cardinalities. The refinement maps each step to one of `SnapshotInbox` or
to a stutter.

**Incidents.** A window that decides is the latest received, was judged by the model in
use, and its job is still pending, so it was never used before; every incident was
last changed by a window whose job is settled, hence an earlier one. This gives the
order of incidents of one model (`IncidentsAreEarlier`), whatever the order of
arrival. The view is behind or equal; that a projection always shows the incident as
it is (`ShownIs`) and that a resolution once shown stands make the audit record
unique. Each step that changes incidents is reduced to the replacement of one
(`ReplacedApplied`) and an audit that only changes what is observed (`AuditedIs`).

**Alerts.** The guard asks and the thread sends later; what it found must last that
long. `IsTrue` does, because an incident keeps its mode and its recovery
(`TruthStays`). A thread about to send an opening found the incident open, so no
recovery was sent, and only this thread sends on its channel. A delivery is sending
exactly while the thread of its channel holds it, so what was confirmed is never
claimed again before its result is saved.

**Telemetry.** That events do not overlap or share a sample depends on what the
lifecycle remembers: `Sound` says that what is over lies behind its last key or
boundary, that a candidate begins after every event, and that every sample it holds or
counted is in its history, so that it is refused when it comes again. Each of opening,
merging, closing, suppressing and forgetting the streaks keeps it, given that a point
is only processed beyond both. `FaultsKnown` ties the faults it was told of to its
boundary and its candidate. The lifecycle object follows the checkpoint or is gone
(`RuntimeFollows`), so a failed save or a restart continues from a sound one. For the
records, the keys are those of the records and no key is there twice; an induction on
the length (`AllNaturals`) shows what expiry keeps (`UnexpiredIs`), and a bijection
of positions and keys counts them.
  The proof showed that `FaultySamplesExcluded` used to hold only within the bound of
one rare event: a fault reported, or one that recovers, while the device is not mapped
moves no boundary (`data.py:4034`, "Inactive devices still retain their own
health/fault history"), so a late sample of it may be counted once the device is
mapped again. The property now speaks of faults that the lifecycle was told of.

**Server.** For each step of opening and of closing the invariant names the stores
that are open and the threads that are off; nobody's store closes before its users
are joined.

**Maintenance.** The holder of the lock alone copies; what it copied so far is of one
moment as long as the service is inactive. For backups that do not overlap: while the
service is down there is a marker on disk or systemd was asked for the start; the
marker is there from before the stop, and a helper that is about to remove it has seen
the service started or has queued the start. The theorem does not say that a queued
start succeeds, which no code of the repository looks after.

**Ring.** A record lies in the slot of its ordinal modulo the slots, and numbers grow
with ordinals; the queue is an interval of ordinals above the watermark and below the
next; a packet on its way is newer than everything in flash. A boot takes the largest
ordinal in flash, whose existence for a finite set the proof derives from
well-foundedness, and the floor in NVS exceeds every number in use unless NVS lost it.

**Remote configuration.** The history and its backup hold distinct commands of growing
versions; the node runs the newest command it verified; a report says what it holds.
A decided row is then only met by reports that agree with it.

**Model inputs.** The watermark of a stream is the largest index taken; the queue is
in the order of receipt; the row read first stays the first of the queue until its
verdict. A verdict needs a whole group: an injection of the windows into the interval
of their indices, of the same cardinality, is onto (`GroupIsWhole`).

**Waveforms.** Retention removes a request no earlier than the capture it needs
(`PruneIs`), a number names one capture wherever it is, and the rows beyond a
reader's cursor contain all it has not yet seen, in the order of the listing, also
among rows of one time.

**Master data and quality.** A deletion looks at the history stores, then takes the
lock; the gate (`GateHolds`) keeps the device out of both in between, which is why no
record outlives it. A device may forget a report once it was answered; the report is
then in the table until its bucket is due (`ReportsKept`), and a bucket is a partition
of what was counted, so that sums over items are sums over the range (`ItemsAddUp`).

**Hand-over.** Manifests share lists that callers change, so what is invariant is what a
checksum says (`ManifestInv`), not the manifest; `Digest` holds all checksums that can
be made. A directory says what each export reported, an outbox holds a payload of a
report that was true when it was made, a sender repeats its payload, and a receipt
names the result that was registered for its job.

**Registry of models.** An entry is approved with a time later than that of every entry
approved before, even if the clock goes back, and a rollback goes to an earlier time;
so the versions approved before a rollback's target are a set that is closed and does
not contain its source.

**Governance and records.** A number that was given to a model is never given again;
decisions are made on the revision that was read, and there is one. Of the records: a
rule keeps every version it had, and the edits of an install point, undone from the
latest back to a moment, give its state of then (`StateAt`); events name both by what
they were. The note last changed has the largest number in the history, and an
inspection replaces what is shown unless its visit was earlier.

**Raw windows.** A batch is the recursion of `StoreWindow`; an induction over its windows
(`Sofar`) shows that it keeps every row there was and adds one for each new window, or
fails as a whole. The rows of a stream are judged in the order of its numbers, except
for rows that wait on a gap, so the verdicts of a result are those of the windows just
before it in the same boot (`ChainInv`). An incident keeps the windows it rests on in
its history. That a recovery lies after its opening in the time of measurement needs
that a boot which delivers without metadata was measured after the others
(`LegacyIsLast`, from the comment "Existing firmware remains strictly ordered"). For
the view `ViewInv` relates the four things two commits can leave apart: incident, the
copy the dispatch works on, what is shown and what is marked.

**Streams.** `StreamIs` says of a state after `i` windows which runs are over, that each
begins with the first run above the upper bound after the one before and ends with the
first below the lower, and how many windows at the end count towards the next. It is
kept by a window that cannot be judged, one outside an event and one inside; the
induction over the stream uses that the recursive function exists (`JudgingExists`).

**Composition.** Every step of `MCProcesses` is a step of one part or a stutter of
it, for each part (`PartsStep`), so a part's theorems hold of the whole.

Assumptions that only say that a model value is no record (`BlankIsNoRecord`,
`NoneIsNoRow`, `NoneIsNoEvent`, `NoneIsNoDelivery`, `MarksAreNoCommands`, `UnsetIsNoRecord`, `WaveformMarks`, `AbsentIsNoStream`,
`NothingIsNoValue`, `NobodyIsNoRecord`, `MarksAreNoRecords`, `NothingIsNoFile`): in the
code these are `None`, an empty slot or a failed checksum, which no record equals.
The other assumptions are on sizes and forms: natural numbers, and at least one slot,
database, attempt or device; reports, batches and features are records of the forms
the code parses (`QualityConstants`, `RawConstants`, `StreamAssumption`); times of a
clock are numbers (`TimesAreNumbers`).

Only model-checked, and why: liveness and everything with ENABLED (outside the
prover); `SplitIsFound`, whose search is a RECURSIVE operator, and `DatasetsHold`, which
is about folds over sequences of any length; and that the scenes of `MCStores` compose,
because this module reaches that operator. `StoresProofs` is about the specification of
each part; `MCStores` lets a behaviour choose one and rest in the others.

## 6. Findings

Where a comment says more than the code does:

- `lost_puback` (`mqtt_service.py:1706`): a row marked acknowledged survives a crash
  that the PUBACK does not; the redelivery is merged into it and retired without one;
- `rearmed` (1727): the worker retires a row that a redelivery re-armed after the
  worker read its target;
- `twin_rows` (980): of the two rows of a delivery only the claimed one is marked
  before the PUBACK; after a crash the other is rescheduled for ever.
  No message is lost by these three: it is stored, but stays unacknowledged until the
  next connection, or its row stays in the queue;
- `overlap` (`operations.py:275`): a unit that was refused the lock consumes the
  marker of the backup that holds it and has the service started under it. The backup
  notices, and ends incomplete;
- `stuck_head` (`edge_analysis.py:65`): a capture older than the retention is refused
  for ever and stays at the head of the node's outbox, with everything behind it.

Read in the code and not modelled: a health transition of unknown time waits until
the ring is empty, while it makes every new packet go into the ring
(`main.cpp:5928`, `7338`); `docs/iot-device-health.md:98-125` says it is only delayed.

## 7. What is left

Still only model-checked: liveness, `DatasetsHold` and `SplitIsFound`, for the reasons
at the end of section 5.

Not modelled, and why: numeric feature extraction, model evaluation and training
have no protocol state; web pages and exports only read; authentication decides per
request; adaptive transmission is a build option that is off. `PROJECT.json` says
for each part that is modelled partly what is left out.
