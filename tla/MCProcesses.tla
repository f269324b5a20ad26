---------------------------- MODULE MCProcesses ----------------------------
(* Queues, hand-shakes and processes of the system that share no state,    *)
(* checked in one run: a behaviour is about one of them, its stage, and    *)
(* the others rest in one of their initial states.                         *)
EXTENDS RemoteConfig, Maintenance, WaveformRequests, ServerProcess, SnapshotInference,
        ModelInputs, FlashRing
CONSTANTS w1, w2, modelA, modelB

AllOnce == [k \in FailureKinds |-> 1]

VARIABLE stage

processVars ==
  <<stage, configVars, maintenanceVars, waveformVars, serverVars, jobVars, inputsVars,
    ringVars>>

ProcessesStart ==
  /\ ConfigInit /\ WaveformInit
  /\ (stage # "backup" => apart = TRUE) /\ MaintenanceInit
  /\ (stage # "server" => inferring = FALSE) /\ ServerInit
  /\ (stage # "snapshots" => model = [p \in Workers |-> Unset]) /\ JobsInit
  /\ (stage # "uploads" => checkpoint = CHOOSE m \in Models : TRUE) /\ ModelInputsInit
  /\ RingInit

ProcessesInit ==
  /\ stage \in {"device", "backup", "waveform", "server", "snapshots", "uploads", "node"}
  /\ ProcessesStart

besideBackup == <<configVars, waveformVars, serverVars, jobVars, inputsVars, ringVars>>
besideNode == <<configVars, maintenanceVars, waveformVars, serverVars, jobVars, inputsVars>>

ProcessesNext ==
  /\ UNCHANGED stage
  /\ \/ /\ stage = "device" /\ ConfigNext
        /\ UNCHANGED <<maintenanceVars, waveformVars, serverVars, jobVars, inputsVars, ringVars>>
     \/ stage = "backup" /\ MaintenanceNext /\ UNCHANGED besideBackup
     \/ /\ stage = "waveform" /\ WaveformNext
        /\ UNCHANGED <<configVars, maintenanceVars, serverVars, jobVars, inputsVars, ringVars>>
     \/ /\ stage = "server" /\ ServerNext
        /\ UNCHANGED <<configVars, maintenanceVars, waveformVars, jobVars, inputsVars, ringVars>>
     \/ /\ stage = "snapshots" /\ JobsNext
        /\ UNCHANGED <<configVars, maintenanceVars, waveformVars, serverVars, inputsVars,
                       ringVars>>
     \/ /\ stage = "uploads" /\ ModelInputsNext
        /\ UNCHANGED <<configVars, maintenanceVars, waveformVars, serverVars, jobVars, ringVars>>
     \/ stage = "node" /\ RingNext /\ UNCHANGED besideNode

ProcessesSpec == ProcessesInit /\ [][ProcessesNext]_processVars
-----------------------------------------------------------------------------
(* Properties: those of a component under one name.                        *)

\* Waveform requests are answered once, where they were asked, and listings are whole.
RequestsHold == RequestsAreAnswered /\ ListingsAreWhole
\* Model inputs: taken once, judged in whole groups, and their device stays registered.
UploadsHold == AcceptedOnce /\ VerdictsAreBacked /\ HistoryKeepsDevice
\* The node: what it says it applied it holds, and what it says it stored it keeps.
DeviceHolds == AppliedIsHeld /\ BacklogIsKept
\* What was decided or kept stays: verdicts on commands, captures, the order in which
\* uploads are evaluated and packets delivered, and the numbers of packets.
DecisionsStand ==
  VerdictStands /\ CapturesAreKept /\ EvaluatedInOrder /\ DeliveredInOrder /\ NumbersAreNew
=============================================================================
