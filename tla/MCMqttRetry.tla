---------------------------- MODULE MCMqttRetry ----------------------------
(* Small instances of MqttRetry: which messages share a payload or a packet *)
(* id, and which kinds of fault may strike, and how often.                  *)
EXTENDS MqttRetry, TLC
CONSTANTS b1, b2, m1, m2, p1, p2, i1, i2

TwoPayloads == (m1 :> p1) @@ (m2 :> p2)
TwoMids     == (m1 :> {i1}) @@ (m2 :> {i2})
SharedMid   == [m \in Msgs |-> {i1}]
AnyMid      == [m \in Msgs |-> Mids]

OnePayload  == [m \in Msgs |-> p1]

Once(S) == [k \in FaultKinds |-> IF k \in S THEN 1 ELSE 0]
Outages     == Once({"drop", "http"})
OneCrash    == Once({"crash"})
DropAndStop == Once({"drop", "crash"})
TwoDrops    == [Once({}) EXCEPT !["drop"] = 2]
AnyOnce     == Once(FaultKinds)
=============================================================================
