----------------------------- MODULE MCTelemetry -----------------------------
(* Two devices and the packets they may send: one sequence number is used  *)
(* twice, and two measurements have the same time.                         *)
EXTENDS Telemetry

Point(d, n, t, score) == [dev |-> d, seq |-> n, ts |-> t, score |-> score]
SentPackets ==
  {Point(1, 1, 1, "high"), Point(1, 2, 2, "high"), Point(1, 3, 3, "low"),
   Point(1, 4, 4, "low"), Point(1, 4, 4, "high"), Point(1, 5, 5, "high"),
   Point(1, 6, 6, "high"), Point(2, 1, 3, "high")}

Report(d, at, since, status) == [dev |-> d, at |-> at, since |-> since, status |-> status]
SentReports ==
  {Report(1, 3, 2, "active"), Report(1, 5, 4, "recovered")}
=============================================================================
