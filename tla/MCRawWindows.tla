---------------------------- MODULE MCRawWindows ----------------------------
(* Three anomalous windows and three normal ones of a boot, live, with a   *)
(* hole that is filled later, a window measured after the device was moved *)
(* to asset "b" without a new boot, and a window of the next boot.         *)
EXTENDS RawWindows
W(boot, idx, verdict) == [boot |-> boot, idx |-> idx, verdict |-> verdict, asset |-> "a"]
Live(ws) == [mode |-> "priority", windows |-> ws]
SentBatches ==
  {Live(<<W(1, 0, "high"), W(1, 1, "high")>>), Live(<<W(1, 2, "high")>>),
   Live(<<W(1, 3, "low"), W(1, 4, "low"), W(1, 5, "low")>>),
   [mode |-> "replay", windows |-> <<W(1, 2, "high"), W(1, 3, "low")>>],
   [mode |-> "legacy", windows |-> <<W(2, 0, "high")>>],
   Live(<<[W(1, 6, "low") EXCEPT !.asset = "b"]>>)}
Boots == <<0, 7>>
=============================================================================
