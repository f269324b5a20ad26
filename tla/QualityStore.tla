---------------------------- MODULE QualityStore ----------------------------
(***************************************************************************)
(* The communication quality store (communication_quality.py) beside the   *)
(* master data: windows that devices report again until they are answered, *)
(* each under (device, boot, window), kept for a retention time; and the   *)
(* device identities it reserves, which outlast the windows.               *)
(*                                                                         *)
(* A report names the mapping it was measured under.  Ingest holds the     *)
(* gate, so the mapping it looked up is still the device's when the row is *)
(* written.  The counters of a report are its content.                     *)
(***************************************************************************)
EXTENDS MasterData
CONSTANTS
  Reports,          \* [dev, asset, boot, id, from, to, content]
  Retention, Horizon, Width

ASSUME QualityConstants ==
  /\ Reports \subseteq [dev : Devices, asset : Assets, boot : Nat, id : Nat,
                        from : Nat, to : Nat, content : Nat]
  /\ \A r \in Reports : r.from < r.to
  /\ {Retention, Horizon, Width} \subseteq Nat /\ Width > 0

VARIABLES
  windows,     \* communication_windows
  now,
  answered     \* history: reports the device knows to be stored

qualityVars == <<windows, now, answered>>
QualityInit == MasterInit /\ windows = {} /\ now = 0 /\ answered = {}

WindowKey(r) == [dev |-> r.dev, boot |-> r.boot, id |-> r.id]
KeptReports(rows, time) == {w \in rows : w.to + Retention > time}

Overlaps(r, w) == w.dev = r.dev /\ w.boot = r.boot /\ w.from < r.to /\ w.to > r.from

Reserve(d) == histories \cup {d}

Disposition(r) ==
  LET rows == KeptReports(windows, now) IN
  IF \E w \in rows : WindowKey(w) = WindowKey(r) /\ w # r THEN "conflict"
  ELSE IF r \in rows THEN "duplicate"
  ELSE IF r.to + Retention <= now THEN "expired"
  ELSE IF \E w \in rows : Overlaps(r, w) THEN "overlap"
  ELSE "stored"

\* The answer may be lost; a refusal rolls the clean-up back as well.
IngestReport(r, lost) ==
  LET what == Disposition(r) IN
  /\ gate = Nobody /\ Active(r.dev) /\ devices[r.dev].asset = r.asset /\ r.to <= now + 1
  /\ windows' = CASE what \in {"conflict", "overlap"} -> windows
                  [] what \in {"duplicate", "expired"} -> KeptReports(windows, now)
                  [] what = "stored" -> KeptReports(windows, now) \cup {r}
  /\ histories' = IF what = "stored" THEN Reserve(r.dev) ELSE histories
  /\ answered' = IF what \in {"stored", "duplicate"} /\ ~lost THEN answered \cup {r}
                 ELSE answered
  /\ UNCHANGED <<sites, assets, ruleSets, installPoints, devices, packets, configs, visits,
                 references, others, rare, now>>

Prune ==
  /\ windows' = KeptReports(windows, now)
  /\ UNCHANGED <<masterVars, now, answered>>

Tick == now < Horizon /\ now' = now + 1 /\ UNCHANGED <<masterVars, windows, answered>>

QualityNext ==
  \/ MasterNext /\ UNCHANGED qualityVars
  \/ \E r \in Reports, lost \in BOOLEAN : IngestReport(r, lost)
  \/ Prune
  \/ Tick

QualitySpec == QualityInit /\ [][QualityNext]_<<masterVars, qualityVars>>

-----------------------------------------------------------------------------
(* Queries: windows whose end lies in (start, end], in buckets.            *)

SelectedReports(d, a, start, end) ==
  {w \in KeptReports(windows, now) : w.dev = d /\ w.asset = a /\ start < w.to /\ w.to <= end}

\* mutant: a window that ends on a boundary goes to the bucket that starts there.
BucketOf_Mut(w) == (w.to \div Width) * Width
BucketOf(w) == ((w.to - 1) \div Width) * Width

Buckets(start, end) ==
  {b \in {k * Width : k \in 0..(end \div Width)} : b >= (start \div Width) * Width /\ b < end}
InBucket(d, a, start, end, b) == {w \in SelectedReports(d, a, start, end) : BucketOf(w) = b}
CrossBoundary(d, a, start, end, b) ==
  {w \in InBucket(d, a, start, end, b) : w.from < IF b > start THEN b ELSE start}

-----------------------------------------------------------------------------
(* Properties.                                                             *)

\* A report the device may forget is stored unchanged until it expires; no time of
\* a boot is counted twice, however often and in whatever order reports come; and a
\* device keeps its identity for as long as it has a window.
ReportsKept ==
  /\ \A r \in answered : r \in windows \/ r.to + Retention <= now
  /\ \A v, w \in windows : v # w => WindowKey(v) # WindowKey(w) /\ ~(
       v.dev = w.dev /\ v.boot = w.boot /\ v.from < w.to /\ w.from < v.to)
  /\ {w.dev : w \in windows} \subseteq histories

\* Every window of a range is shown in exactly one of its buckets, which lies in the
\* range: the items add up to the summary.
ItemsAddUp ==
  \A d \in {w.dev : w \in windows}, a \in {w.asset : w \in windows}, start \in 0..Horizon :
  \A end \in start + 1..Horizon + 1 :
    LET all == SelectedReports(d, a, start, end) IN
    /\ all = UNION {InBucket(d, a, start, end, b) : b \in Buckets(start, end)}
    /\ \A b \in Buckets(start, end) :
         \A w \in InBucket(d, a, start, end, b) \ CrossBoundary(d, a, start, end, b) :
           b <= w.from /\ w.to <= b + Width

\* Master data: the lists agree with each other and no record outlives what it refers to.
MasterDataHolds == ListsAgree /\ NoOrphanRecords
\* Quality windows: no accepted report is lost and the totals are its items' sums.
ReportsHold == ReportsKept /\ ItemsAddUp
\* What is registered and what is reported of it, while either changes under the other.
QualityHolds == MasterDataHolds /\ ReportsHold
=============================================================================
