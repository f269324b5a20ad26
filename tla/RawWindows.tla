----------------------------- MODULE RawWindows -----------------------------
(***************************************************************************)
(* The window store of one device (vibration_windows.py, raw_vibration.py) *)
(* and the RF66 incidents derived from it (rf66_events.py).                *)
(*                                                                         *)
(* Windows arrive in batches, live or replayed, again when an answer was   *)
(* lost, and are analysed later by a worker.  Each result extends a chain  *)
(* of consecutive verdicts; three anomalous windows open an incident and   *)
(* three normal ones close it, in the transaction of the result.  Incidents*)
(* are copied into the runtime state by a dispatcher that may stop between *)
(* its two commits.                                                        *)
(*                                                                         *)
(* Windows are measured one after the other: index and start time agree.   *)
(* Scores and features are the verdict; only incidents, no alerts.         *)
(***************************************************************************)
EXTENDS Integers, Sequences, FiniteSets, SequencesExt, FiniteSetsExt
CONSTANTS
  Batches,        \* [mode, windows]: what the device may send, again and again
  BootTime,       \* when the first window of a boot was measured
  Fresh,          \* MAX_AGE of an observation
  WindowRetention, EndTime,
  MaxRows, MaxPending, MaxRareSteps, NoRow

Windows == UNION {Range(b.windows) : b \in Batches}
At(w) == BootTime[w.boot] + w.idx
IncidentId(w, version) == [boot |-> w.boot, idx |-> w.idx, asset |-> w.asset, model |-> version]

ASSUME RawConstants ==
  /\ \A b \in Batches : /\ b.mode \in {"legacy", "priority", "replay"}
                        /\ b.windows \in Seq(Range(b.windows))
  /\ \A w \in Windows : w.boot \in DOMAIN BootTime /\ w.idx \in Nat /\ w.asset # NoRow
  /\ \A boot \in DOMAIN BootTime : BootTime[boot] \in Int
  /\ \A w \in Windows, version \in {1, 2} : IncidentId(w, version) # NoRow
  /\ {Fresh, WindowRetention, EndTime, MaxRows, MaxPending, MaxRareSteps} \subseteq Nat

VARIABLES
  rows,        \* vibration_windows with raw_delivery
  streams,     \* window_streams: per boot [idx, asset]
  heads,       \* raw_confirmation_heads: per lane the ordinal
  ordinal,     \* the next one
  picked,      \* the row the worker is analysing, or NoRow
  lifecycle,   \* rf66_event_state
  incidents,   \* rf66_incidents
  copied,      \* incidents the dispatcher has read and not yet shown
  marking,     \* the one it has shown and not yet marked, or NoRow
  view,        \* EVENTS, with the operator's review
  asset, time, model,
  stored,      \* history: windows ever stored
  acked,       \* history: windows the device knows to be stored
  rareSteps

storeVars == <<rows, streams, heads, ordinal, picked, stored, acked>>
incidentVars == <<lifecycle, incidents>>
viewVars == <<copied, marking, view>>
worldVars == <<asset, time, model>>
rawVars == <<storeVars, incidentVars, viewVars, worldVars, rareSteps>>

Idle == [active |-> NoRow, boot |-> 0, idx |-> 0, asset |-> NoRow, model |-> 0,
         at |-> -1, hits |-> <<>>]
Mountings == {w.asset : w \in Windows}

RawInit ==
  /\ rows = {} /\ ordinal = 1 /\ picked = NoRow
  /\ streams = [b \in DOMAIN BootTime |-> [idx |-> -1, asset |-> NoRow]]
  /\ heads = [lane \in {"live", "history"} |-> 0]
  /\ lifecycle = Idle /\ incidents = {} /\ copied = {} /\ marking = NoRow /\ view = {}
  /\ asset \in Mountings /\ time = 0 /\ model = 1
  /\ stored = {} /\ acked = {} /\ rareSteps = 0

Rare == rareSteps < MaxRareSteps /\ rareSteps' = rareSteps + 1
IsFresh(w) == time - At(w) \in 0..Fresh

-----------------------------------------------------------------------------
(* Ingest: one batch is one transaction.                                   *)

\* mutant: work that was accepted and not processed expires too.
Unexpired_Mut(all) == {r \in all : At(r.w) + WindowRetention >= time}
\* "Never silently expire accepted but unprocessed work."
Unexpired(all) ==
  {r \in all : r.status = "queued" \/ At(r.w) + WindowRetention >= time}

SameKey(r, w) == r.w.boot = w.boot /\ r.w.idx = w.idx

\* accept_reordered: a replay may fill a hole behind the stream.
InOrder(s, w, mode) ==
  LET stream == s.streams[w.boot] IN
  \/ stream.asset = NoRow
  \/ /\ stream.asset = w.asset
     /\ w.idx > stream.idx \/ (mode = "replay" /\ w.idx < stream.idx)

Room(s) ==
  /\ Cardinality(s.rows) < MaxRows
  /\ Cardinality({r \in s.rows : r.status = "queued"}) < MaxPending

Insert(s, w, mode) ==
  LET last == s.streams[w.boot].idx
      row == [n |-> s.ordinal, w |-> w, mode |-> mode, status |-> "queued", lane |-> "none",
              gap |-> w.idx > last + 1, verdicts |-> <<>>, model |-> 0]
  IN  [s EXCEPT !.rows = @ \cup {row}, !.ordinal = @ + 1,
                !.streams[w.boot] = IF w.idx > last THEN [idx |-> w.idx, asset |-> w.asset]
                                    ELSE @]

Failed == [ok |-> FALSE]
StoreWindow(s, w, mode) ==
  IF ~s.ok \/ \E r \in s.rows : SameKey(r, w) /\ r.w # w THEN Failed
  ELSE IF \E r \in s.rows : r.w = w THEN s
  ELSE IF InOrder(s, w, mode) /\ Room(s) THEN Insert(s, w, mode) ELSE Failed

Batched(b) ==
  LET after[k \in 0..Len(b.windows)] ==
        IF k = 0
        THEN [ok |-> TRUE, rows |-> Unexpired(rows), streams |-> streams, ordinal |-> ordinal]
        ELSE StoreWindow(after[k - 1], b.windows[k], b.mode)
  IN  after[Len(b.windows)]

\* A refused batch leaves nothing but the expiry, which was committed before.
Ingest(b, lost) ==
  LET s == Batched(b)
      ws == Range(b.windows) IN
  /\ \A w \in ws : w.asset = asset /\ At(w) <= time
  /\ lost => Rare
  /\ ~lost => UNCHANGED rareSteps
  /\ IF s.ok
     THEN /\ rows' = s.rows /\ streams' = s.streams /\ ordinal' = s.ordinal
          /\ stored' = stored \cup ws
          /\ acked' = IF lost THEN acked ELSE acked \cup ws
     ELSE /\ rows' = Unexpired(rows)
          /\ UNCHANGED <<streams, ordinal, stored, acked>>
  /\ UNCHANGED <<heads, picked, incidentVars, viewVars, worldVars>>

-----------------------------------------------------------------------------
(* The worker: tick.                                                       *)

Priority(r) == IF r.mode = "priority" THEN 0 ELSE 1
Precedes(r, q) ==
  \/ Priority(r) < Priority(q)
  \/ /\ Priority(r) = Priority(q)
     /\ At(r.w) < At(q.w) \/ (At(r.w) = At(q.w) /\ r.n < q.n)

Queued == {r \in rows : r.status = "queued"}

Pick ==
  /\ picked = NoRow /\ Queued # {}
  /\ picked' = CHOOSE r \in Queued : \A q \in Queued \ {r} : Precedes(r, q)
  /\ UNCHANGED <<rows, streams, heads, ordinal, stored, acked, incidentVars, viewVars,
                 worldVars, rareSteps>>

Lane(r) == CASE r.mode = "legacy" -> "none"
             [] r.mode = "priority" /\ IsFresh(r.w) -> "live"
             [] OTHER -> "history"

\* The row before this one in its lane, if any: a set of at most one.
HeadRow(lane) == {q \in rows : q.n = heads[lane]}
Behind(r, lane) == \E q \in HeadRow(lane) : At(q.w) >= At(r.w)
Previous(r, lane) ==
  CASE lane = "none" -> LET older == {q \in rows : q.n < r.n} IN
                        {q \in older : \A p \in older : p.n <= q.n}
    [] lane = "history" -> {q \in rows : q.w.boot = r.w.boot /\ q.w.idx = r.w.idx - 1
                                          /\ q.lane = "history"}
    [] lane = "live" -> IF Behind(r, lane) THEN {} ELSE HeadRow(lane)

Continues(r, q) ==
  /\ q.w.boot = r.w.boot /\ q.w.asset = r.w.asset /\ q.model = model
  /\ ~r.gap /\ r.w.idx = q.w.idx + 1
  /\ q.status = "completed"

LastThree(seq) == SubSeq(seq, IF Len(seq) > 3 THEN Len(seq) - 2 ELSE 1, Len(seq))

\* finalize_result: the chain of verdicts that this window confirms.
Confirmed(r, lane) ==
  LET before == {q \in Previous(r, lane) : Continues(r, q)} IN
  IF r.w.verdict = "bad" THEN <<>>
  ELSE LastThree(Append(IF before = {} THEN <<>> ELSE (CHOOSE q \in before : TRUE).verdicts,
                        r.w.verdict))

Result(r, lane) ==
  [r EXCEPT !.status = IF r.w.verdict = "bad" THEN "unavailable" ELSE "completed",
            !.lane = lane, !.verdicts = Confirmed(r, lane), !.model = model]

-----------------------------------------------------------------------------
(* RF66Events.apply, for a window that is not history.                     *)

ActiveIncident == {i \in incidents : i.id = lifecycle.active}
Replace(i, j) == (incidents \ {i}) \cup {j}

Hits(w) ==
  LET continuous == /\ lifecycle.boot = w.boot /\ lifecycle.idx = w.idx - 1
                    /\ lifecycle.asset = w.asset /\ lifecycle.model = model
  IN  IF w.verdict = "bad" \/ ~IsFresh(w) THEN <<>>
      ELSE IF continuous THEN LastThree(Append(lifecycle.hits, w.verdict)) ELSE <<w.verdict>>

SameTarget(i, w) == i.asset = w.asset /\ i.model = model
Observed(i, w) == IF Hits(w) # <<>> /\ SameTarget(i, w) THEN "observing" ELSE "unknown"

Opened(w) ==
  [id |-> IncidentId(w, model), asset |-> w.asset, model |-> model, from |-> w,
   status |-> "open", until |-> NoRow, observed |-> "observing", rev |-> 1, projected |-> 0]
Closed(i, w) == [i EXCEPT !.status = "closed", !.until = w, !.observed = "recovered",
                          !.rev = @ + 1]

Observe(i, w) ==
  IF Hits(w) = <<"low", "low", "low">> /\ SameTarget(i, w) THEN Closed(i, w)
  ELSE IF i.observed # Observed(i, w)
       THEN [i EXCEPT !.observed = Observed(i, w), !.rev = @ + 1] ELSE i

\* What the incidents become and which of them stays active.
Applied(w) ==
  IF ActiveIncident # {}
  THEN LET i == CHOOSE i \in ActiveIncident : TRUE
           j == Observe(i, w)
       IN  [incidents |-> Replace(i, j),
            active |-> IF j.status = "closed" THEN NoRow ELSE j.id]
  ELSE IF Hits(w) = <<"high", "high", "high">>
  THEN [incidents |-> incidents \cup {Opened(w)}, active |-> Opened(w).id]
  ELSE [incidents |-> incidents, active |-> NoRow]

Applies(r, lane) == lane # "history" /\ (lane = "none" \/ lifecycle.at < At(r.w))

-----------------------------------------------------------------------------
\* The result, its chain and the incident, in one transaction.
Finish ==
  LET r == picked
      lane == Lane(r)
      w == r.w IN
  /\ picked # NoRow /\ picked' = NoRow
  /\ rows' = (rows \ {r}) \cup {Result(r, lane)}
  /\ heads' = IF lane = "none" \/ Behind(r, lane) THEN heads
              ELSE [heads EXCEPT ![lane] = r.n]
  /\ IF Applies(r, lane)
     THEN /\ incidents' = Applied(w).incidents
          /\ lifecycle' = [active |-> Applied(w).active, boot |-> w.boot, idx |-> w.idx,
                           asset |-> w.asset, model |-> model, at |-> At(w), hits |-> Hits(w)]
     ELSE UNCHANGED incidentVars
  /\ UNCHANGED <<streams, ordinal, stored, acked, viewVars, worldVars, rareSteps>>

\* The write fails, or the process restarts, perhaps with another model.
Abort(newModel) ==
  /\ Rare /\ picked' = NoRow /\ copied' = {} /\ marking' = NoRow /\ model' = newModel
  /\ UNCHANGED <<rows, streams, heads, ordinal, stored, acked, incidentVars, view, asset, time>>

-----------------------------------------------------------------------------
(* RF66Events.dispatch and resolve, the operators and the world.           *)

Stale(i) == i.id = lifecycle.active /\ time - lifecycle.at > Fresh /\ i.observed # "unknown"
Missing == {IF Stale(i) THEN [i EXCEPT !.observed = "unknown", !.rev = @ + 1] ELSE i :
            i \in incidents}

Dispatch ==
  /\ copied = {} /\ marking = NoRow
  /\ incidents' = Missing
  /\ copied' = {i \in Missing : i.projected < i.rev}
  /\ copied' # {}
  /\ UNCHANGED <<storeVars, lifecycle, marking, view, worldVars, rareSteps>>

Shown(id) == {e \in view : e.inc.id = id}
Show(i) ==
  /\ marking = NoRow /\ i \in copied /\ copied' = copied \ {i} /\ marking' = i
  /\ view' = LET old == Shown(i.id) IN
             IF old = {} THEN view \cup {[inc |-> i, reviewed |-> FALSE]}
             ELSE (view \ old) \cup {IF e.inc.rev < i.rev THEN [e EXCEPT !.inc = i] ELSE e :
                                     e \in old}
  /\ UNCHANGED <<storeVars, incidentVars, worldVars, rareSteps>>

\* mutant: the incident is marked although it has changed since it was copied.
MarkedAs_Mut(i, copy) == i.rev
MarkedAs(i, copy) == IF i.rev = copy.rev THEN copy.rev ELSE i.projected
Mark ==
  /\ marking # NoRow /\ marking' = NoRow
  /\ incidents' = {IF i.id = marking.id THEN [i EXCEPT !.projected = MarkedAs(i, marking)] ELSE i :
                   i \in incidents}
  /\ UNCHANGED <<storeVars, lifecycle, copied, view, worldVars, rareSteps>>

Resolve(i) ==
  /\ Rare /\ i \in incidents /\ i.status = "open"
  /\ incidents' = Replace(i, [i EXCEPT !.status = "closed", !.rev = @ + 1,
                                           !.observed = "operator_resolved"])
  /\ lifecycle' = IF lifecycle.active = i.id
                  THEN [lifecycle EXCEPT !.active = NoRow, !.hits = <<>>] ELSE lifecycle
  /\ UNCHANGED <<storeVars, viewVars, worldVars>>

Review(e) ==
  /\ Rare /\ e \in view /\ ~e.reviewed
  /\ view' = (view \ {e}) \cup {[e EXCEPT !.reviewed = TRUE]}
  /\ UNCHANGED <<storeVars, incidentVars, copied, marking, worldVars>>

Pass ==
  /\ time < EndTime /\ time' = time + 1
  /\ UNCHANGED <<storeVars, incidentVars, viewVars, asset, model, rareSteps>>

Remount ==
  /\ Rare /\ asset' \in Mountings \ {asset}
  /\ UNCHANGED <<storeVars, incidentVars, viewVars, time, model>>

RawNext ==
  \/ \E b \in Batches, lost \in BOOLEAN : Ingest(b, lost)
  \/ Pick \/ Finish
  \/ \E newModel \in {1, 2} : Abort(newModel)
  \/ Dispatch \/ Mark
  \/ \E i \in copied : Show(i)
  \/ \E i \in incidents : Resolve(i)
  \/ \E e \in view : Review(e)
  \/ Pass \/ Remount

RawSpec == RawInit /\ [][RawNext]_rawVars
-----------------------------------------------------------------------------
(* Properties.                                                             *)

\* A window the device may forget is kept until it has been analysed and has
\* expired, and the row the worker holds is still there when it has finished.
WindowsKept ==
  /\ \A w \in acked : (\E r \in rows : r.w = w) \/ At(w) + WindowRetention < time
  /\ picked # NoRow => picked \in rows
  /\ \A q, r \in rows : SameKey(q, r.w) => q = r

Measured(boot, idx, verdict, a) ==
  \E w \in stored : w.boot = boot /\ w.idx = idx /\ w.verdict = verdict /\ w.asset = a

\* The k verdicts of a result are those of the k consecutive windows that end with
\* it, whatever the order in which they came and were analysed.
ChainsAreConsecutive ==
  \A r \in rows : \A k \in DOMAIN r.verdicts :
    Measured(r.w.boot, r.w.idx - Len(r.verdicts) + k, r.verdicts[k], r.w.asset)

ThreeOf(w, verdict) ==
  \A k \in 0..2 : Measured(w.boot, w.idx - k, verdict, w.asset)

\* "Existing firmware remains strictly ordered": a boot that delivers without metadata
\* delivers all its windows so, and was measured after all others.
LegacyIsLast ==
  \A b, c \in Batches : b.mode = "legacy" =>
    \A w \in Range(b.windows), v \in Range(c.windows) :
      IF v.boot = w.boot THEN c.mode = "legacy" ELSE At(v) < At(w)

\* Three consecutive anomalous windows stand behind every incident, and three normal
\* ones of the same target behind every recovery, measured later where the device says
\* how it delivers (without, nothing compares times); a device has at most one open
\* incident, the one that its windows still move.
IncidentsBacked ==
  /\ \A i \in incidents :
       /\ ThreeOf(i.from, "high")
       /\ i.until # NoRow => /\ ThreeOf(i.until, "low") /\ i.until.asset = i.asset
                             /\ LegacyIsLast => At(i.until) > At(i.from) + 2
  /\ Cardinality({i \in incidents : i.status = "open"}) <= 1

\* Windows are kept while they are due, and incidents rest on consecutive ones.
RawWindowsHold == WindowsKept /\ ChainsAreConsecutive /\ IncidentsBacked

\* Operators see every incident: one that counts as shown is shown as it is, and
\* what they see never goes back, whatever stops between the two commits; nor does
\* a review get lost.
ViewFollows ==
  [][/\ \A i \in incidents' : i.projected = i.rev =>
          \E e \in view' : e.inc.id = i.id /\ e.inc.rev = i.rev /\ e.inc.status = i.status
     /\ \A e \in view : \E f \in view' :
          /\ f.inc.id = e.inc.id /\ f.inc.rev >= e.inc.rev /\ (e.reviewed => f.reviewed)
          /\ e.inc.status = "closed" => f.inc.status = "closed"]_rawVars
=============================================================================
