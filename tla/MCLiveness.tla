----------------------------- MODULE MCLiveness -----------------------------
(* What must come about in the end: MqttRetry through an outage, and the   *)
(* stages of MCProcesses at small bounds.  The fairness of a component is  *)
(* that of its module, on its stage.                                       *)
EXTENDS MCMqttScenarios, MCProcesses

LivenessInit ==
  /\ stage \in {"mqtt", "device", "backup", "waveform", "server", "snapshots", "node"}
  /\ ProcessesStart /\ OutageInit

LivenessNext ==
  \/ ProcessesNext /\ UNCHANGED <<vars, scenario>>
  \/ stage = "mqtt" /\ ScenarioNext /\ UNCHANGED processVars

MqttFairness ==
  /\ WF_vars(stage = "mqtt" /\ ReceivePuback)
  /\ \A b \in Bridges :
       /\ WF_vars(stage = "mqtt" /\ SessionStep(b)) /\ WF_vars(stage = "mqtt" /\ WorkerStep(b))
       /\ \A k \in Keys : SF_vars(stage = "mqtt" /\ ClaimRow(b, k))
BackupFairness ==
  /\ \A h \in Helpers : WF_maintenanceVars(stage = "backup" /\ (BackupStep(h) \/ ResumeStep(h)))
  /\ WF_maintenanceVars(stage = "backup" /\ CarryOutStart)
NodeFairness ==
  WF_ringVars(stage = "node" /\ Boot) /\ WF_ringVars(stage = "node" /\ LoopStep)
\* A behaviour has one stage, so two components share a condition without weakening it.
SharedFairness ==
  /\ \A h \in Units :
       SF_processVars(\/ stage = "backup" /\ Discover(h) /\ UNCHANGED <<stage, besideBackup>>
                      \/ /\ stage = "node" /\ StartLoop(TRUE, TRUE, TRUE)
                         /\ UNCHANGED <<stage, besideNode>>)
  /\ \A b \in Bridges :
       SF_<<vars, ringVars>>(\/ stage = "mqtt" /\ CallbackStep(b) /\ UNCHANGED ringVars
                             \/ stage = "node" /\ ReplayAcknowledged /\ UNCHANGED vars)
DeviceFairness ==
  /\ WF_configVars(stage = "device" /\ ControllerStep)
  /\ WF_configVars(stage = "device" /\ (ServeGet \/ ServePost))
WaveformLiveness == WF_waveformVars(stage = "waveform" /\ EdgeStep)
ServerLiveness ==
  /\ WF_serverVars(stage = "server" /\ (TellNext \/ CloseNext))
  /\ \A a \in Actors :
       WF_serverVars(stage = "server" /\ EndWork(a)) /\ WF_serverVars(stage = "server" /\ Leave(a))
  /\ \A r \in Requests : WF_serverVars(stage = "server" /\ ProcessRequest(r))
SnapshotFairness ==
  /\ \A w \in Windows :
       WF_jobVars(stage = "snapshots" /\ Prepare(w)) /\ WF_jobVars(stage = "snapshots" /\ Lapse(w))
  /\ \A p \in Workers :
       /\ WF_jobVars(stage = "snapshots" /\ Evaluate(p))
       /\ WF_jobVars(stage = "snapshots" /\ Finish(p))
       /\ WF_jobVars(stage = "snapshots" /\ \E w \in Windows : Claim(p, w))

LivenessSpec ==
  /\ LivenessInit /\ [][LivenessNext]_<<processVars, vars, scenario>>
  /\ MqttFairness /\ BackupFairness /\ NodeFairness /\ SharedFairness /\ DeviceFairness
  /\ WaveformLiveness /\ ServerLiveness /\ SnapshotFairness
-----------------------------------------------------------------------------
\* The service comes back after backups, the outbox moves, closing comes to its end, and
\* the node's backlog is settled.
ProcessesGoOn == ServiceReturns /\ OutboxMoves /\ CloseEnds /\ BacklogDrains
=============================================================================
