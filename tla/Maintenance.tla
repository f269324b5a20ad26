---------------------------- MODULE Maintenance ----------------------------
(***************************************************************************)
(* operations.py: the backup that stops the service, copies its databases  *)
(* and starts it again, what systemd runs after it (ExecStopPost), and the *)
(* restore drill.                                                          *)
(*                                                                         *)
(* Backups are run by the timer's unit, which is followed by resume-backup *)
(* whatever happened, and by an administrator, who runs resume-backup only *)
(* after a kill.  Any command may fail, any process be killed, the host    *)
(* reboot, somebody start the service, and a file of a backup decay.       *)
(*                                                                         *)
(* The databases are 1..Stores in the order they are copied; a version     *)
(* stands for the contents of one.  The service is stopped by backups only *)
(* (the checks between copies see a state, not a stop and start in         *)
(* between).  A backup waits for the start it asks for; resume-backup only *)
(* queues one, which systemd carries out later.                            *)
(***************************************************************************)
EXTENDS Integers, Sequences
CONSTANTS
  Units, Manuals,     \* runs of the timer's unit, and of an administrator
  Stores,             \* DB_DEFAULTS, by position
  Space,              \* backups the disk has room for
  MaxWrites, MaxSetbacks, NoOne, Nothing, Decayed

ASSUME MaintenanceConstants ==
  /\ Units \cap Manuals = {} /\ NoOne \notin Units \cup Manuals
  /\ Stores \in Nat \ {0} /\ {Space, MaxWrites, MaxSetbacks} \subseteq Nat

Helpers == Units \cup Manuals

VARIABLES
  apart,      \* manual backups are kept clear of the timer's
  service,    \* ActiveState: "active" or "inactive"
  start,      \* of a start resume-backup asked for: "none" pending, "queued" or "failed"
  databases,  \* their versions
  lock,       \* holder of .operations-backup.lock
  marker,     \* .operations-backup-resume.json; history: who wrote it
  pc,         \* where each helper is
  backups,    \* folders: files, manifest, history: the versions when it was begun
  folder,     \* the folder a helper fills
  drill,      \* a restore drill: its source and what it copied
  restored,   \* results of drills that reported verified
  setbacks

maintenanceVars == <<apart, service, start, databases, lock, marker, pc, backups,
                     folder, drill, restored, setbacks>>
scene == <<apart, databases, drill, restored>>

NoDrill == [source |-> 0, files |-> <<>>]

MaintenanceInit ==
  /\ apart \in BOOLEAN
  /\ service = "active" /\ start = "none" /\ databases = [d \in 1..Stores |-> 0]
  /\ lock = NoOne /\ marker = NoOne
  /\ pc = [h \in Helpers |-> "idle"] /\ folder = [h \in Helpers |-> 0]
  /\ backups = <<>> /\ drill = NoDrill /\ restored = {} /\ setbacks = 0

Setback == setbacks < MaxSetbacks /\ setbacks' = setbacks + 1
NoSetback == UNCHANGED setbacks

Written == {databases[d] : d \in 1..Stores}
Goto(h, where) == pc' = [pc EXCEPT ![h] = where]

\* What ends a run of the helper: the unit is followed by resume-backup.
Afterwards(h) == IF h \in Units THEN "post" ELSE "idle"
Release(h) == lock' = IF lock = h THEN NoOne ELSE lock
GiveUp(h) == Goto(h, Afterwards(h)) /\ Release(h)

-----------------------------------------------------------------------------
(* backup_service.                                                         *)

\* No other backup or resume-backup is at work.
Alone(h) == \A g \in Helpers \ {h} : pc[g] \in {"idle", "killed"}

\* discover: the configuration is read off the running process.
Discover(h) ==
  /\ pc[h] = "idle" /\ (apart => Alone(h))
  /\ IF service = "active" THEN Goto(h, "found") /\ UNCHANGED lock ELSE GiveUp(h)
  /\ UNCHANGED <<scene, service, start, marker, backups, folder, setbacks>>

\* maintenance_lock, and discover again.
Lock(h) ==
  /\ pc[h] = "found"
  /\ IF lock = NoOne /\ service = "active"
     THEN lock' = h /\ Goto(h, "locked") ELSE GiveUp(h)
  /\ UNCHANGED <<scene, service, start, marker, backups, folder, setbacks>>

\* mutant: the marker of an earlier backup is not looked for, nor one written.
Marked_Mut(h) == NoOne
Marked(h) == h

\* _backup_service_locked up to write_json(marker); the inventory may refuse.
Mark(h) ==
  /\ pc[h] = "locked"
  /\ \/ /\ marker = NoOne /\ marker' = Marked(h) /\ Goto(h, "marked")
        /\ NoSetback /\ UNCHANGED lock
     \/ marker # NoOne /\ GiveUp(h) /\ NoSetback /\ UNCHANGED marker
     \/ Setback /\ GiveUp(h) /\ UNCHANGED marker
  /\ UNCHANGED <<scene, service, start, backups, folder>>

\* systemctl stop, which takes the place of a queued start; it may fail after the
\* service was stopped all the same.
HaltService == service' = "inactive" /\ start' = "none"

Stop(h) ==
  /\ pc[h] = "marked"
  /\ \/ HaltService /\ Goto(h, "stopped") /\ NoSetback
     \/ (HaltService \/ UNCHANGED <<service, start>>) /\ Goto(h, "restart") /\ Setback
  /\ UNCHANGED <<scene, lock, marker, backups, folder>>

-----------------------------------------------------------------------------
(* make_backup.                                                            *)

\* The free space, and a fresh folder.
MakeFolder(h) ==
  /\ pc[h] = "stopped" /\ NoSetback
  /\ IF Len(backups) < Space
     THEN /\ backups' = Append(backups, [files |-> <<>>, manifest |-> Nothing,
                                         of |-> databases])
          /\ folder' = [folder EXCEPT ![h] = Len(backups) + 1] /\ Goto(h, "check")
     ELSE Goto(h, "restart") /\ UNCHANGED <<backups, folder>>
  /\ UNCHANGED <<scene, service, start, lock, marker>>

Copied(h) == Len(backups[folder[h]].files)

\* stopped(): a start that failed leaves the service in another state.
StillStopped == service = "inactive" /\ start # "failed"

\* stopped() before a copy.
Check(h) ==
  /\ pc[h] = "check" /\ Copied(h) < Stores
  /\ Goto(h, IF StillStopped THEN "copy" ELSE "restart")
  /\ UNCHANGED <<scene, service, start, lock, marker, backups, folder, setbacks>>

\* The copy of one database, and check_database of it.
Copy(h) ==
  /\ pc[h] = "copy"
  /\ \/ /\ backups' = [backups EXCEPT ![folder[h]].files =
                         Append(@, databases[Copied(h) + 1])]
        /\ Goto(h, "recheck") /\ NoSetback
     \/ Setback /\ Goto(h, "restart") /\ UNCHANGED backups
  /\ UNCHANGED <<scene, service, start, lock, marker, folder>>

\* stopped() after a copy.
Recheck(h) ==
  /\ pc[h] = "recheck"
  /\ Goto(h, IF StillStopped THEN "check" ELSE "restart")
  /\ UNCHANGED <<scene, service, start, lock, marker, backups, folder, setbacks>>

\* "completion marker LAST": the digests of the copies.
WriteManifest(h) ==
  /\ pc[h] = "check" /\ Copied(h) = Stores
  /\ \/ /\ backups' = [backups EXCEPT ![folder[h]].manifest = backups[folder[h]].files]
        /\ NoSetback
     \/ Setback /\ UNCHANGED backups
  /\ Goto(h, "restart")
  /\ UNCHANGED <<scene, service, start, lock, marker, folder>>

-----------------------------------------------------------------------------
(* The finally of _backup_service_locked, resume_backup, and mishaps.      *)

RunService == service' = "active" /\ start' = "none"

\* systemctl start, which waits for the outcome.
RestartService(h) ==
  /\ pc[h] = "restart"
  /\ \/ RunService /\ Goto(h, "unmark") /\ NoSetback /\ UNCHANGED lock
     \/ Setback /\ GiveUp(h) /\ UNCHANGED <<service, start>>
  /\ UNCHANGED <<scene, marker, backups, folder>>

Unmark(h) ==
  /\ pc[h] = "unmark" /\ marker' = NoOne /\ GiveUp(h)
  /\ UNCHANGED <<scene, service, start, backups, folder, setbacks>>

\* An administrator whose backup was killed runs resume-backup as well.
CallResume(h) ==
  /\ pc[h] = "killed" /\ (apart => Alone(h)) /\ Goto(h, "post")
  /\ UNCHANGED <<scene, service, start, lock, marker, backups, folder, setbacks>>

Unresumed(h) == marker # NoOne

Resume(h) ==
  /\ pc[h] = "post" /\ Goto(h, IF Unresumed(h) THEN "resuming" ELSE "idle")
  /\ UNCHANGED <<scene, service, start, lock, marker, backups, folder, setbacks>>

\* systemctl --no-block start: the start is queued, and nobody waits for it;
\* the command may fail after it was queued all the same.
ResumeStart(h) ==
  /\ pc[h] = "resuming"
  /\ \/ start' = "queued" /\ Goto(h, "unlinking") /\ NoSetback
     \/ Setback /\ Goto(h, "idle") /\ start' \in {start, "queued"}
  /\ UNCHANGED <<scene, service, lock, marker, backups, folder>>

ResumeUnlink(h) ==
  /\ pc[h] = "unlinking" /\ marker' = NoOne /\ Goto(h, "idle")
  /\ UNCHANGED <<scene, service, start, lock, backups, folder, setbacks>>

\* systemd carries out the queued start; the service may fail to come up.
CarryOutStart ==
  /\ start = "queued"
  /\ \/ RunService
     \/ service = "inactive" /\ start' = "failed" /\ UNCHANGED service
  /\ UNCHANGED <<scene, lock, marker, pc, backups, folder, setbacks>>

\* SIGKILL: nothing of the helper's code runs any more.
Kill(h) ==
  /\ pc[h] \notin {"idle", "killed"} /\ Setback /\ Release(h)
  /\ Goto(h, CASE pc[h] \in {"post", "resuming", "unlinking"} -> "idle"
               [] h \in Units -> "post"
               [] OTHER -> "killed")
  /\ UNCHANGED <<scene, service, start, marker, backups, folder>>

\* The host restarts, and with it the enabled service.
RebootHost ==
  /\ Setback /\ RunService /\ lock' = NoOne
  /\ pc' = [h \in Helpers |-> "idle"]
  /\ drill' = NoDrill
  /\ UNCHANGED <<apart, databases, restored, marker, backups, folder>>

OperatorStart ==
  /\ service = "inactive" /\ RunService
  /\ UNCHANGED <<scene, lock, marker, pc, backups, folder, setbacks>>

ServiceWrites(d) ==
  /\ service = "active"
  /\ \E v \in 1..MaxWrites :
       /\ \A w \in Written : w < v
       /\ databases' = [databases EXCEPT ![d] = v]
  /\ UNCHANGED <<apart, drill, restored, service, start, lock, marker, pc, backups, folder,
                 setbacks>>

-----------------------------------------------------------------------------
(* verify_backup and restore_drill.                                        *)

\* verify_backup of a folder: the digests in the manifest are those of the files.
Verifies(files, manifest) == manifest # Nothing /\ files = manifest

Accepted(files, manifest) == Verifies(files, manifest)

BeginDrill(b) ==
  /\ drill = NoDrill /\ Verifies(backups[b].files, backups[b].manifest)
  /\ drill' = [source |-> b, files |-> <<>>]
  /\ UNCHANGED <<apart, databases, restored, service, start, lock, marker, pc, backups, folder,
                 setbacks>>

CopyBack ==
  /\ drill # NoDrill /\ Len(drill.files) < Stores
  /\ drill' = [drill EXCEPT !.files =
                 Append(@, backups[drill.source].files[Len(drill.files) + 1])]
  /\ UNCHANGED <<apart, databases, restored, service, start, lock, marker, pc, backups, folder,
                 setbacks>>

FinishDrill ==
  /\ drill # NoDrill /\ Len(drill.files) = Stores
  /\ drill' = NoDrill
  /\ restored' = IF Accepted(drill.files, backups[drill.source].manifest)
                 THEN restored \cup {drill} ELSE restored
  /\ UNCHANGED <<apart, databases, service, start, lock, marker, pc, backups, folder, setbacks>>

\* A file of a backup is damaged.
Decay(b, d) ==
  /\ d \in DOMAIN backups[b].files /\ backups[b].manifest # Nothing /\ Setback
  /\ backups[b].files[d] # Decayed
  /\ backups' = [backups EXCEPT ![b].files[d] = Decayed]
  /\ UNCHANGED <<scene, service, start, lock, marker, pc, folder>>

-----------------------------------------------------------------------------
BackupStep(h) ==
  \/ Lock(h) \/ Mark(h) \/ Stop(h) \/ MakeFolder(h)
  \/ Check(h) \/ Copy(h) \/ Recheck(h) \/ WriteManifest(h)
  \/ RestartService(h) \/ Unmark(h)

ResumeStep(h) == Resume(h) \/ ResumeStart(h) \/ ResumeUnlink(h)

MaintenanceNext ==
  \/ \E h \in Helpers :
       Discover(h) \/ BackupStep(h) \/ CallResume(h) \/ ResumeStep(h) \/ Kill(h)
  \/ CarryOutStart \/ RebootHost \/ OperatorStart
  \/ \E d \in 1..Stores : ServiceWrites(d)
  \/ \E b \in DOMAIN backups : BeginDrill(b) \/ (\E d \in 1..Stores : Decay(b, d))
  \/ CopyBack \/ FinishDrill

\* Processes run on, systemd carries out what is queued, and the timer fires
\* (motordiagnosis-backup.timer).
MaintenanceFairness ==
  /\ \A h \in Helpers : WF_maintenanceVars(BackupStep(h) \/ ResumeStep(h))
  /\ WF_maintenanceVars(CarryOutStart)
  /\ \A h \in Units : SF_maintenanceVars(Discover(h))

MaintenanceSpec ==
  MaintenanceInit /\ [][MaintenanceNext]_maintenanceVars /\ MaintenanceFairness
-----------------------------------------------------------------------------
(* Properties.                                                             *)

\* A backup with a manifest, which says "service_stopped", holds all databases as
\* they were at one moment, whoever starts the service while it is made; and what
\* a restore drill reports as verified is that, however the backup has decayed.
BackupsAreOneMoment ==
  /\ \A b \in DOMAIN backups :
       backups[b].manifest # Nothing => backups[b].manifest = backups[b].of
  /\ \A result \in restored : result.files = backups[result.source].of

\* While the service is down because of a backup (backups that do not overlap), the
\* restart is on disk, so that whoever comes after a killed helper knows, or systemd was
\* asked for it.  No more than that: the marker goes when the start is queued, and if
\* the service then fails to come up nothing on disk says that it should run.
StopIsMarked == apart /\ service = "inactive" => marker # NoOne \/ start # "none"

\* Backups are of one moment, and the restart of a service that is down for one is
\* marked or asked for.
BackupsHold == BackupsAreOneMoment /\ StopIsMarked

\* The service comes back after every backup, killed or failed at any point, unless
\* the start that systemd queued for resume-backup fails.
ServiceReturns == apart /\ service = "inactive" ~> service = "active" \/ start = "failed"

\* "ExecStopPost only restarts when this backup actually requested a stop": not
\* while another backup is at work behind its lock.
ResumeSparesOthers ==
  [][\A u \in Units : pc[u] = "resuming" /\ pc'[u] = "unlinking" =>
       lock = NoOne]_maintenanceVars
=============================================================================
