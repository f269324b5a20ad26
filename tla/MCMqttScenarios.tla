-------------------------- MODULE MCMqttScenarios --------------------------
(* The fault scenarios of MqttRetry in one run.  A behaviour keeps to its  *)
(* scenario: the bridges that run, the messages and their packet ids, the  *)
(* faults that strike, and how far deliveries and epochs count.            *)
EXTENDS MCMqttRetry
VARIABLE scenario

\* The bridge that every scenario runs is one of the bridges.
ASSUME ScenarioAssumption == b1 \in Bridges

Scenarios ==
  {[bridges |-> {b1}, mids |-> TwoMids, bound |-> 3, faults |-> Once({"crash"})],
   [bridges |-> {b1}, mids |-> SharedMid, bound |-> 3, faults |-> Once({"crash", "http"})],
   [bridges |-> {b1}, mids |-> SharedMid, bound |-> 3, faults |-> Once({"drop", "http"})],
   [bridges |-> {b1}, mids |-> SharedMid, bound |-> 3,
     faults |-> Once({"drop", "puback", "suback"})],
   [bridges |-> {b1}, mids |-> SharedMid, bound |-> 3,
    faults |-> Once({"drop", "session", "db", "suback"})],
   [bridges |-> {b1, b2}, mids |-> (m1 :> {i1}), bound |-> 2, faults |-> Once({"drop", "lease"})]}

Within ==
  /\ \A i \in Mids : inflight'[i] # None =>
       inflight'[i] \in DOMAIN scenario.mids /\ i \in scenario.mids[inflight'[i]]
  /\ \A b \in Bridges \ scenario.bridges :
       phase'[b] = "off" /\ cb'[b] = IdleCb /\ wk'[b] = IdleWk
  /\ \A k \in FaultKinds : faults'[k] <= scenario.faults[k]
  /\ minted' <= scenario.bound /\ epoch' <= scenario.bound

ScenarioNext == Next /\ Within /\ UNCHANGED scenario
ScenarioInit == Init /\ scenario \in Scenarios
ScenarioSpec == ScenarioInit /\ [][ScenarioNext]_<<vars, scenario>>

\* For liveness: connections are dropped and requests fail, but what is fair is done.
Outage == [bridges |-> Bridges, mids |-> MidsOf, bound |-> MaxEpoch, faults |-> MaxFaults]
OutageInit == Init /\ scenario = Outage
OutageSpec == OutageInit /\ [][ScenarioNext]_<<vars, scenario>> /\ Fairness
-----------------------------------------------------------------------------
\* The tables that several threads write agree: a packet id has one live identity; and,
\* while no other bridge can take the session over and void what a callback has in hand,
\* a row that waits for completion has its generation and no row stays gated once the
\* session is ready.
TablesAgree ==
  /\ OneIdentity
  /\ scenario.bridges = {b1} => RowsHaveGeneration /\ ReadyIsUngated

\* No connection has dropped, and no bridge that stopped failed to write its database: a
\* PUBACK that went out is not sent again for the DUP that follows.
Orderly == faults["drop"] = 0 /\ (faults["crash"] = 0 \/ faults["db"] = 0)

\* The broker forgets a message only when the backend has it.  After a dropped connection
\* a delivery may be acknowledged by the worker and again when its DUP comes, and so it
\* may when the record of a resumed DUP's PUBACK fails: a broker that has given the packet
\* id to another message at once takes the second PUBACK for the other's.
ReleasedIsStored ==
  (\A m \in published : published = {m}) \/ Orderly => ReleasedAfterStore

\* One bridge implements the ledger (DeliveryLedger); two that share a session may each
\* settle a delivery.
OneBridgeIsLedger ==
  Ledger!Init /\ [][scenario.bridges = {b1} => Ledger!Next]_(Ledger!vars)

\* One bridge never posts again what is terminal on disk ("without repeating delivery");
\* a second one that takes the session over may, its predecessor being unaware of it.
NoRepeats ==
  [][scenario.bridges = {b1} =>
       \A b \in Bridges, d \in Deliveries :
         Posts(b, d) => gens[d] = None \/ gens[d].state = "active"]_vars
=============================================================================
