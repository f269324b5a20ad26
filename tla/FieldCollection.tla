--------------------------- MODULE FieldCollection ---------------------------
(***************************************************************************)
(* Collections of normal recordings (field_collection.py): the windows of  *)
(* a session are exported from the store, inspected against the session's  *)
(* limits, and sessions are put together into a plan whose runs go whole   *)
(* into calibration or evaluation.                                         *)
(*                                                                         *)
(* A unit of time is half a window; what an export may be off its session  *)
(* (Tolerance) is a second, about three units.  One node records; its      *)
(* uptime and the kept time part when its clock is set.  A session's     *)
(* fields, the order of the hashes and the wording of audits are abstract. *)
(***************************************************************************)
EXTENDS Integers, Sequences, FiniteSets, SequencesExt, FiniteSetsExt
CONSTANTS
  Sessions,     \* [id, run, context, from, to, confirmed, valid, missing, invalid, timing]
  Corrections,  \* of the node's clock
  EndOfDay, MaxMishaps

Slot == 2
Tolerance == 3

ASSUME CollectionAssumption ==
  /\ Corrections \subseteq Int /\ {EndOfDay, MaxMishaps} \subseteq Nat
  /\ \A s \in Sessions : s.from < s.to /\ {s.valid, s.missing, s.invalid, s.timing} \subseteq Nat

VARIABLES
  node,      \* [uptime, boot, index, offset]
  kept,    \* vibration_windows: [boot, index, uptime, captured, valid]
  archives,  \* [session -> [rows, damaged]]: the directories export made
  plan,      \* <<>>, then collection.json
  mishaps
collectionVars == <<node, kept, archives, plan, mishaps>>

CollectionInit ==
  /\ node = [uptime |-> 0, boot |-> 1, index |-> 1, offset |-> 0]
  /\ kept = {} /\ archives = [s \in {} |-> <<>>] /\ plan = <<>> /\ mishaps = 0

Mishap == mishaps < MaxMishaps /\ mishaps' = mishaps + 1

-----------------------------------------------------------------------------
(* The node and the store.                                                 *)

Captured == [boot |-> node.boot, index |-> node.index, uptime |-> node.uptime,
             captured |-> node.uptime + node.offset]
Onward == [node EXCEPT !.uptime = @ + Slot, !.index = @ + 1]
Recording == plan = <<>> /\ node.uptime < EndOfDay

RecordWindow ==
  /\ Recording
  /\ node' = Onward /\ kept' = kept \cup {Captured @@ [valid |-> TRUE]}
  /\ UNCHANGED <<archives, plan, mishaps>>
Spoil ==
  /\ Recording /\ Mishap
  /\ node' = Onward /\ kept' \in {kept, kept \cup {Captured @@ [valid |-> FALSE]}}
  /\ UNCHANGED <<archives, plan>>
SetClock ==
  /\ Recording /\ Mishap
  /\ \E c \in Corrections : node' = [node EXCEPT !.offset = @ + c]
  /\ UNCHANGED <<kept, archives, plan>>
Stall ==
  /\ Recording /\ Mishap
  /\ node' = [node EXCEPT !.uptime = @ + 1]
  /\ UNCHANGED <<kept, archives, plan>>
\* Uptime goes on here; the store only ever compares it within one boot.
Reboot ==
  /\ Recording /\ Mishap
  /\ node' = [node EXCEPT !.boot = @ + 1, !.index = 1]
  /\ UNCHANGED <<kept, archives, plan>>
\* Retention takes the oldest window.
Forget ==
  /\ plan = <<>> /\ Mishap
  /\ \E w \in kept : /\ \A v \in kept : w.captured <= v.captured
                       /\ kept' = kept \ {w}
  /\ UNCHANGED <<node, archives, plan>>

-----------------------------------------------------------------------------
(* Inspection.                                                             *)

Inside(s, w) == s.from <= w.captured /\ w.captured + Slot <= s.to
Identity(w) == <<w.boot, w.index>>
Neighbours(rows) == {i \in 1..(Len(rows) - 1) : rows[i].boot = rows[i + 1].boot}
Step(rows, i) == rows[i + 1].index - rows[i].index
Magnitude(x) == IF x < 0 THEN -x ELSE x

Sequential(rows) ==
  /\ \A i, j \in DOMAIN rows : i # j => Identity(rows[i]) # Identity(rows[j])
  /\ \A i, j \in DOMAIN rows : i < j /\ rows[i].boot = rows[j].boot =>
       rows[i].index < rows[j].index /\ rows[i].uptime < rows[j].uptime

\* The clock against the uptime, from the first window on.
Drift(rows, i) == (rows[i].captured - rows[1].captured) - (rows[i].uptime - rows[1].uptime)
Lost(rows) == FoldSet(LAMBDA i, n : n + Step(rows, i) - 1, 0, Neighbours(rows))
Error(rows, i) == Magnitude(rows[i + 1].uptime - rows[i].uptime - Slot * Step(rows, i))
Invalid(rows) == Cardinality({i \in DOMAIN rows : ~rows[i].valid})

Covers(s, rows) ==
  LET first == Head(rows)
      last == rows[Len(rows)] IN
  /\ Len(rows) >= (s.to - s.from) \div Slot - 1
  /\ first.captured - s.from <= Slot + Tolerance
  /\ s.to - (last.captured + Slot) <= Slot + Tolerance
  /\ last.uptime - first.uptime + Slot + 2 * Slot >= s.to - s.from

\* inspect: passesCollectionChecks.
Passes(s, rows) ==
  /\ Sequential(rows) /\ s.confirmed
  /\ Len(rows) >= 2 /\ Cardinality({rows[i].boot : i \in DOMAIN rows}) = 1
  /\ \A i \in DOMAIN rows : Magnitude(Drift(rows, i)) <= Tolerance
  /\ Len(rows) - Invalid(rows) >= s.valid /\ Invalid(rows) <= s.invalid /\ Lost(rows) <= s.missing
  /\ \A i \in Neighbours(rows) : Error(rows, i) <= s.timing
  /\ Covers(s, rows)

\* One snapshot of the store, by the time it was captured.
Export(s) ==
  /\ plan = <<>> /\ s \notin DOMAIN archives
  /\ LET rows == SetToSortSeq({w \in kept : Inside(s, w)},
                              LAMBDA v, w : v.captured < w.captured)
     IN  archives' = archives @@ (s :> [rows |-> rows, damaged |-> FALSE])
  /\ UNCHANGED <<node, kept, plan, mishaps>>

Damage(s) ==
  /\ plan = <<>> /\ Mishap /\ s \in DOMAIN archives
  /\ archives' = [archives EXCEPT ![s].damaged = TRUE]
  /\ UNCHANGED <<node, kept, plan>>

-----------------------------------------------------------------------------
(* The plan.                                                               *)

RowsOf(s) == {Identity(w) : w \in Range(archives[s].rows)}
RunsOf(chosen, context) == {s.run : s \in {s \in chosen : s.context = context}}

Disjoint(chosen) == \A s, t \in chosen : s # t => RowsOf(s) \cap RowsOf(t) = {}

\* A quarter of the runs of each context, one at least, by the order of their hashes.
Quarter(n) == Max({1, (n + 3) \div 4})
EvaluationRuns(chosen) ==
  {runs \in SUBSET {s.run : s \in chosen} :
     \A context \in {s.context : s \in chosen} :
       LET own == RunsOf(chosen, context)
       IN  Cardinality(runs \cap own) = Quarter(Cardinality(own))}

\* check_archive, and the checks of the session.
ReadyArchives == {s \in DOMAIN archives : ~archives[s].damaged /\ Passes(s, archives[s].rows)}

BuildPlan(chosen) ==
  /\ plan = <<>> /\ chosen # {}
  /\ Disjoint(chosen)
  /\ \A s, t \in chosen : s.run = t.run => s.context = t.context
  /\ \A s \in chosen : Cardinality(RunsOf(chosen, s.context)) >= 2
  /\ \E runs \in EvaluationRuns(chosen) :
       plan' = <<[s \in chosen |-> IF s.run \in runs THEN "evaluation" ELSE "calibration"]>>
  /\ UNCHANGED <<node, kept, archives, mishaps>>

CollectionNext ==
  \/ RecordWindow \/ Spoil \/ SetClock \/ Stall \/ Reboot \/ Forget
  \/ \E s \in Sessions : Export(s) \/ Damage(s)
  \/ \E chosen \in SUBSET ReadyArchives : BuildPlan(chosen)

-----------------------------------------------------------------------------
(* Properties.                                                             *)

\* What a model is calibrated on and what it is evaluated on share no window of the
\* node, whatever was exported twice, and every context has its share of both; and a
\* session in a plan is one stretch of measuring: its windows are those the node
\* measured then, in that order, but for the losses its limits allow, and it is as long
\* as was asked for but for less than two windows, even if exported too early.
PlansAreSound ==
  plan # <<>> =>
  LET split == plan[1]
      Held(name) == UNION {RowsOf(s) : s \in {s \in DOMAIN split : split[s] = name}}
      Contexts(name) == {s.context : s \in {s \in DOMAIN split : split[s] = name}}
  IN  /\ Held("evaluation") \cap Held("calibration") = {}
      /\ Contexts("evaluation") = Contexts("calibration")
      /\ \A s \in DOMAIN split :
           LET rows == archives[s].rows
               span == rows[Len(rows)].index - Head(rows).index + 1
           IN  /\ \A i \in DOMAIN rows :
                    Magnitude(rows[i].uptime - Head(rows).uptime
                              - Slot * (rows[i].index - Head(rows).index)) <= s.timing * (i - 1)
               /\ span - Len(rows) <= s.missing
               /\ s.to - s.from - span * Slot < 2 * Slot
=============================================================================
