---------------------------- MODULE RemoteConfig ----------------------------
(***************************************************************************)
(* Remote configuration of one device: the desired revision the backend    *)
(* keeps (remote_config.py) and the controller in the firmware that        *)
(* fetches, stores, applies and reports it (remote_config.cpp, main.cpp).  *)
(*                                                                         *)
(* The device makes one bounded HTTP call at a time.  An answer may be     *)
(* lost and a report the device gave up on may still reach the backend;    *)
(* flash writes fail or cannot be read back; the node reboots; the mapping *)
(* changes; the backend is restored from a backup.                         *)
(*                                                                         *)
(* A command is [version, id, scope]: its settings follow from its id, and *)
(* an applied report echoes the settings in flash.                         *)
(***************************************************************************)
EXTENDS Integers, Sequences, SequencesExt
CONSTANTS
  Scopes, Identity,    \* site and asset: of the mapping, and built into the node
  HistoryLimit,        \* HISTORY_LIMIT
  MaxCommands, MaxRemaps, MaxMishaps, NoCommand, Corrupt

ASSUME RemoteConfigConstants ==
  /\ Identity \in Scopes
  /\ HistoryLimit \in Nat \ {0} /\ {MaxCommands, MaxRemaps, MaxMishaps} \subseteq Nat

\* A command as the node stores it, and as a row of the history.
Blob == [version : Nat \ {0}, id : Nat]
HistoryRow == [version : Nat \ {0}, id : Nat, scope : Scopes,
               state : {"pending", "applied", "failed", "rejected"}]
ASSUME MarksAreNoCommands ==
  /\ NoCommand # Corrupt /\ {NoCommand, Corrupt} \cap (Blob \cup HistoryRow) = {}

VARIABLES
  config,    \* DEVICE_CONFIGS[device]
  backup,    \* what a restore brings back
  mapping,   \* [scope, active] of the device
  flash,     \* the stored blob: a command, NoCommand or Corrupt
  node,      \* [active, result, usable]: what the controller holds in memory
  call,      \* the HTTP call under way, or NoCall
  lateReports,      \* reports the node gave up on, that may still arrive
  held,      \* history: commands whose storage the node verified
  issued, remaps, mishaps

configVars == <<config, backup, mapping, flash, node, call, lateReports, held,
                issued, remaps, mishaps>>

NoCall == [kind |-> "none"]
NoResult == [status |-> "none", command |-> NoCommand]
Factory == [version |-> 0, id |-> 0]   \* active_ before any command

Command(c) == [version |-> c.version, id |-> c.id]
Applied(active) == IF active = Factory THEN NoResult
                   ELSE [status |-> "applied", command |-> active]

ConfigInit ==
  /\ config = [version |-> 0, desired |-> NoCommand, lastApplied |-> NoCommand,
               history |-> <<>>]
  /\ backup = config
  /\ mapping = [scope |-> Identity, active |-> TRUE]
  /\ flash = NoCommand
  /\ node = [active |-> Factory, result |-> NoResult, usable |-> TRUE]
  /\ call = NoCall /\ lateReports = {} /\ held = {}
  /\ issued = 0 /\ remaps = 0 /\ mishaps = 0

Mishap == mishaps < MaxMishaps /\ mishaps' = mishaps + 1

-----------------------------------------------------------------------------
(* Operators.                                                              *)

Newest(rows) == SubSeq(rows, IF Len(rows) > HistoryLimit THEN 2 ELSE 1, Len(rows))

\* request_configuration, by an operator who saw the current version.
RequestConfiguration ==
  LET command == [version |-> config.version + 1, id |-> issued + 1,
                  scope |-> mapping.scope, state |-> "pending"]
  IN  /\ issued < MaxCommands /\ issued' = issued + 1
      /\ mapping.active
      /\ config' = [config EXCEPT !.version = @ + 1, !.desired = command,
                                  !.history = Newest(Append(@, command))]
      /\ UNCHANGED <<backup, mapping, flash, node, call, lateReports, held, remaps, mishaps>>

\* update_device: another asset, or the mapping switched off or on.
Remap ==
  /\ remaps < MaxRemaps /\ remaps' = remaps + 1
  /\ mapping' \in [scope : Scopes, active : BOOLEAN] \ {mapping}
  /\ UNCHANGED <<config, backup, flash, node, call, lateReports, held, issued, mishaps>>

TakeBackup ==
  /\ backup # config /\ Mishap /\ backup' = config
  /\ UNCHANGED <<config, mapping, flash, node, call, lateReports, held, issued, remaps>>

RestoreBackup ==
  /\ backup # config /\ Mishap /\ config' = backup
  /\ UNCHANGED <<backup, mapping, flash, node, call, lateReports, held, issued, remaps>>

-----------------------------------------------------------------------------
(* The backend's side of a call.                                           *)

\* pending_configuration: the desired command, applied or not.
PendingConfiguration ==
  IF ~mapping.active \/ (config.desired # NoCommand /\ config.desired.scope # mapping.scope)
  THEN [kind |-> "got", code |-> 409]
  ELSE [kind |-> "got", code |-> 200, scope |-> mapping.scope,
        desired |-> IF config.desired = NoCommand THEN NoCommand ELSE Command(config.desired)]

\* report_configuration.
CurrentCommand(report) ==
  /\ mapping.active /\ config.desired # NoCommand
  /\ Command(config.desired) = report.command
  /\ config.desired.scope = mapping.scope

\* mutant: a delayed failure overwrites an applied result.
Acceptable_Mut(report) == CurrentCommand(report)
Acceptable(report) ==
  CurrentCommand(report) /\ (config.desired.state = "applied" => report.status = "applied")

Reported(report) ==
  LET updated == [config.desired EXCEPT !.state = report.status]
      Row(r) == IF r.id = updated.id THEN updated ELSE r
  IN  IF ~Acceptable(report) \/ config.desired.state = report.status THEN config
      ELSE [config EXCEPT
              !.desired = updated,
              !.history = [i \in DOMAIN @ |-> Row(@[i])],
              !.lastApplied = IF report.status = "applied" THEN updated ELSE @]

ServeGet ==
  /\ call.kind = "get" /\ call' = PendingConfiguration
  /\ UNCHANGED <<config, backup, mapping, flash, node, lateReports, held, issued, remaps, mishaps>>

ServePost ==
  /\ call.kind = "post"
  /\ config' = Reported(call.report)
  /\ call' = [kind |-> "posted", code |-> IF Acceptable(call.report) THEN 200 ELSE 409]
  /\ UNCHANGED <<backup, mapping, flash, node, lateReports, held, issued, remaps, mishaps>>

ServeLate(report) ==
  /\ config' = Reported(report) /\ lateReports' = lateReports \ {report}
  /\ UNCHANGED <<backup, mapping, flash, node, call, held, issued, remaps, mishaps>>

-----------------------------------------------------------------------------
(* The node: serviceRemoteConfiguration.                                   *)

Service ==
  /\ node.usable /\ call = NoCall
  /\ call' = IF node.result = NoResult THEN [kind |-> "get"]
             ELSE [kind |-> "post", report |-> node.result]
  /\ UNCHANGED <<config, backup, mapping, flash, node, lateReports, held, issued, remaps, mishaps>>

Refusal(desired, status) == [status |-> status, command |-> desired]

\* Controller::receive of a command that need not be stored.
Unstored(desired) ==
  CASE desired.version < node.active.version -> Refusal(desired, "rejected")
    [] desired = node.active -> Applied(node.active)
    [] OTHER -> Refusal(desired, "rejected")

\* A command that is not for this node leaves no result.
ReceiveOther ==
  /\ call.kind = "got" /\ call.code = 200
  /\ call.scope # Identity \/ call.desired = NoCommand
  /\ node' = [node EXCEPT !.result = NoResult] /\ call' = NoCall
  /\ UNCHANGED <<config, backup, mapping, flash, lateReports, held, issued, remaps, mishaps>>

\* An answer with a command for this node.
ForNode ==
  call.kind = "got" /\ call.code = 200 /\ call.scope = Identity /\ call.desired # NoCommand

ReceiveOld ==
  /\ ForNode /\ call.desired.version <= node.active.version
  /\ node' = [node EXCEPT !.result = Unstored(call.desired)] /\ call' = NoCall
  /\ UNCHANGED <<config, backup, mapping, flash, lateReports, held, issued, remaps, mishaps>>

\* mutant: the command counts as applied although it could not be stored.
StoredOn_Mut(desired, how) ==
  [node EXCEPT !.active = desired, !.result = Applied(desired)]
\* persistRemoteConfiguration verified the blob, or not: then nothing changes.
StoredOn(desired, how) ==
  IF how = "verified"
  THEN [node EXCEPT !.active = desired, !.result = Applied(desired)]
  ELSE [node EXCEPT !.result = Refusal(desired, "failed")]

ReceiveNew(how) ==
  /\ ForNode /\ call.desired.version > node.active.version
  /\ IF how = "verified" THEN UNCHANGED mishaps ELSE Mishap
  /\ flash' = IF how = "unwritten" THEN flash ELSE call.desired
  /\ held' = IF how = "verified" THEN held \cup {call.desired} ELSE held
  /\ node' = StoredOn(call.desired, how) /\ call' = NoCall
  /\ UNCHANGED <<config, backup, mapping, lateReports, issued, remaps>>

\* An error, which a poll tries again.
ReceiveError ==
  /\ call.kind = "got" /\ call.code = 409 /\ call' = NoCall
  /\ UNCHANGED <<config, backup, mapping, flash, node, lateReports, held, issued, remaps, mishaps>>

\* mutant: a superseded result is reported again and again.
Settles_Mut(code) == code = 200
\* "A superseded result must not block fetching the newer command."
Settles(code) == code \in {200, 409}
ReceiveVerdict ==
  /\ call.kind = "posted" /\ call' = NoCall
  /\ node' = IF Settles(call.code) THEN [node EXCEPT !.result = NoResult] ELSE node
  /\ UNCHANGED <<config, backup, mapping, flash, lateReports, held, issued, remaps, mishaps>>

\* A report that was sent and not yet served may still arrive.
Abandoned == IF call.kind = "post" THEN {{}, {call.report}} ELSE {{}}

TimeOut ==
  /\ call # NoCall /\ Mishap /\ call' = NoCall
  /\ \E rest \in Abandoned : lateReports' = lateReports \cup rest
  /\ UNCHANGED <<config, backup, mapping, flash, node, held, issued, remaps>>

\* initializeRemoteConfiguration; a blob that cannot be read disables the channel.
Booted(blob) ==
  CASE blob = Corrupt -> [active |-> Factory, result |-> NoResult, usable |-> FALSE]
    [] blob = NoCommand -> [active |-> Factory, result |-> NoResult, usable |-> TRUE]
    [] OTHER -> [active |-> blob, result |-> Applied(blob), usable |-> TRUE]

RebootNode ==
  /\ Mishap
  /\ \E rest \in Abandoned : lateReports' = lateReports \cup rest
  /\ \/ flash' = flash
     \/ flash # NoCommand /\ flash' = Corrupt
     \/ ForNode /\ node.usable /\ call.desired.version > node.active.version
        /\ flash' = call.desired
  /\ held' = IF flash' \in {NoCommand, Corrupt} THEN held ELSE held \cup {flash'}
  /\ node' = Booted(flash') /\ call' = NoCall
  /\ UNCHANGED <<config, backup, mapping, issued, remaps>>

-----------------------------------------------------------------------------
ControllerStep ==
  \/ Service
  \/ ReceiveOther \/ ReceiveOld \/ ReceiveError \/ ReceiveVerdict
  \/ \E how \in {"verified", "unwritten", "unverified"} : ReceiveNew(how)

ConfigNext ==
  \/ RequestConfiguration \/ Remap \/ TakeBackup \/ RestoreBackup
  \/ ServeGet \/ ServePost
  \/ \E report \in lateReports : ServeLate(report)
  \/ ControllerStep
  \/ TimeOut \/ RebootNode

\* The main loop runs and the backend answers; mishaps come to an end.
ConfigFairness == WF_configVars(ControllerStep) /\ WF_configVars(ServeGet \/ ServePost)

ConfigSpec == ConfigInit /\ [][ConfigNext]_configVars /\ ConfigFairness
-----------------------------------------------------------------------------
(* Properties.                                                             *)

\* What the backend shows as applied was stored and read back by the node, the
\* newest such command is `lastApplied', `desired' is the last row of the history,
\* and unless a backup or an unreadable blob hides it the node still holds it.
AppliedIsHeld ==
  /\ \A row \in Range(config.history) : row.state = "applied" => Command(row) \in held
  /\ config.desired # NoCommand => config.desired = Last(config.history)
  /\ config.lastApplied # NoCommand =>
       /\ Command(config.lastApplied) \in held
       /\ flash = Corrupt \/ flash.version >= config.lastApplied.version
       /\ \A row \in Range(config.history) :
            row.state = "applied" => row.version <= config.lastApplied.version
  /\ node.active # Factory => node.active \in held

\* A verdict stands: a row that says applied, or whose command was superseded, is
\* never rewritten, and only a restore from a backup takes the version back; the
\* node never replaces a command it verified by an older one.
VerdictStands ==
  [][ \/ RestoreBackup
      \/ /\ config'.version >= config.version
         /\ \A r \in Range(config.history), s \in Range(config'.history) :
              r.id = s.id /\ r # s => r = config.desired /\ r.state # "applied"
         /\ flash # flash' /\ flash \in held /\ flash' # Corrupt =>
              flash'.version > flash.version ]_configVars

\* When the mapping and the operators come to rest the node holds the last command
\* for it and the backend knows so; or it refuses a revision a backup brought back,
\* or cannot read its storage.
ConfigSettles ==
  <>[](\/ ~node.usable \/ ~mapping.active \/ mapping.scope # Identity
       \/ config.desired = NoCommand
       \/ config.desired.scope # Identity
       \/ config.desired.state = "applied"
       \/ config.desired.state = "rejected" /\ node.active.version >= config.desired.version)
=============================================================================
