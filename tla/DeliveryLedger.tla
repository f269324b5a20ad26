--------------------------- MODULE DeliveryLedger ---------------------------
(***************************************************************************)
(* What the bridge promises about a delivery, whatever threads, retries,   *)
(* redeliveries and restarts do inside it: a delivery is opened once, it   *)
(* is settled with one outcome that the backend already keeps, it may be   *)
(* acknowledged only while that outcome is on record, and it is never      *)
(* reopened.  MqttRetry implements this with the rows of                   *)
(* mqtt_delivery_generations as the ledger.                                *)
(***************************************************************************)
CONSTANTS Deliveries, Outcomes

VARIABLES
  ledger,        \* the record of each delivery
  kept,          \* <<delivery, outcome>>: the backend keeps its bytes there
  acknowledged   \* deliveries for which a PUBACK was sent

vars == <<ledger, kept, acknowledged>>

Init ==
  /\ ledger = [d \in Deliveries |-> "none"]
  /\ kept = {}
  /\ acknowledged = {}

Open(d)   == ledger[d] = "none" /\ ledger'[d] = "open"
Settle(d) == ledger[d] = "open" /\ \E out \in Outcomes :
               <<d, out>> \in kept /\ ledger'[d] = out
Forget(d) == ledger[d] # "none" /\ ledger'[d] = "gone"
Same(d)   == ledger'[d] = ledger[d]

(* One transaction may open a delivery and forget others.                   *)
Record ==
  /\ DOMAIN ledger' = Deliveries
  /\ \A d \in Deliveries : Open(d) \/ Settle(d) \/ Forget(d) \/ Same(d)

Acknowledge ==
  /\ acknowledged \subseteq acknowledged'
  /\ \A d \in acknowledged' \ acknowledged : ledger[d] \in Outcomes

Next == Record /\ Acknowledge /\ kept \subseteq kept'

Spec == Init /\ [][Next]_vars
=============================================================================
