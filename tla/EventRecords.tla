---------------------------- MODULE EventRecords ----------------------------
(***************************************************************************)
(* What operators keep beside the measurements (data.py): anomaly rules    *)
(* and parameters, installation points, events with their reviews, notes   *)
(* and evidence, environment inspections and the audit log.                *)
(*                                                                         *)
(* Every handler runs under the state lock, so each is one action.  What   *)
(* is hard is the past: an event refers to a rule, a place and a label     *)
(* that have since been changed, and the records kept in several lists     *)
(* must still tell the same story.                                         *)
(*                                                                         *)
(* left bounds how often each kind of operation happens.                   *)
(***************************************************************************)
EXTENDS Integers, Sequences, FiniteSets, SequencesExt, FiniteSetsExt
CONSTANTS
  AssetIds, Thresholds, Hysteresis, Labels, Categories, Severities, LastTime,
  Budgets, None

ASSUME RecordsAssumption ==
  /\ Thresholds \cup Hysteresis \cup Severities \cup {LastTime} \subseteq Nat
  /\ None \notin AssetIds \cup Labels \cup Categories

VARIABLES
  parameters,   \* PARAMETERS, as far as the rules need them
  rules,        \* ANOMALY_RULES
  points,       \* INSTALL_POINTS, one per asset
  events,       \* EVENTS with EVENT_EVIDENCE_SNAPSHOTS
  reviews,      \* EVENT_REVIEW_HISTORY
  notes, noteHistory,
  inspections, environment,   \* of the device of each asset
  audit,        \* AUDIT_LOGS
  clock, left,
  placed        \* history: what each point was at the end of each moment

ruleVars == <<parameters, rules>>
pointVars == <<points, placed>>
eventRecords == <<events, reviews>>
noteVars == <<notes, noteHistory>>
visitVars == <<inspections, environment>>
recordVars == <<ruleVars, pointVars, eventRecords, noteVars, visitVars, audit, clock, left>>

Spend(kind) == left[kind] > 0 /\ left' = [left EXCEPT ![kind] = @ - 1]
Audited(target, before, after) ==
  audit' = Append(audit, [target |-> target, before |-> before, after |-> after])

\* build_anomaly_rules: the defaults are the parameters of the moment.
NewRule(ps) == [version |-> 1, threshold |-> ps.threshold, hysteresis |-> ps.hysteresis,
                history |-> <<>>]
Current(rule) == [version |-> rule.version, threshold |-> rule.threshold,
                  hysteresis |-> rule.hysteresis]

RecordsInit ==
  /\ parameters = [threshold |-> Max(Thresholds), hysteresis |-> Min(Hysteresis)]
  /\ rules \in {[a \in as |-> NewRule(parameters)] : as \in SUBSET AssetIds \ {{}}}
  /\ points = [a \in {} |-> None] /\ placed = [a \in AssetIds |-> [t \in {} |-> None]]
  /\ events = {} /\ reviews = <<>> /\ notes = {} /\ noteHistory = <<>>
  /\ inspections = <<>> /\ environment = [a \in AssetIds |-> [status |-> None, at |-> 0]]
  /\ audit = <<>> /\ clock = 1 /\ left \in Budgets

-----------------------------------------------------------------------------
(* Rules and parameters.                                                   *)

Revised(rule, threshold, hysteresis) ==
  [rule EXCEPT !.history = Append(@, Current(rule)), !.threshold = threshold,
               !.hysteresis = hysteresis, !.version = Len(rule.history) + 2]

UpdateRule(a, threshold, hysteresis) ==
  /\ Spend("rule") /\ a \in DOMAIN rules
  /\ hysteresis < threshold
  /\ rules' = [rules EXCEPT ![a] = Revised(@, threshold, hysteresis)]
  /\ Audited(<<"rule", a>>, Current(rules[a]), Current(rules'[a]))
  /\ UNCHANGED <<parameters, pointVars, eventRecords, noteVars, visitVars, clock>>

\* Every rule takes the value, and only the parameter is audited.
UpdateParameter(key, value) ==
  LET After(rule) == [threshold |-> rule.threshold, hysteresis |-> rule.hysteresis,
                      version |-> 0, history |-> <<>>]
      Next(a) == [After(rules[a]) EXCEPT ![key] = value] IN
  /\ Spend("rule")
  /\ \A a \in DOMAIN rules : Next(a).hysteresis < Next(a).threshold
  /\ parameters' = [parameters EXCEPT ![key] = value]
  /\ rules' = [a \in DOMAIN rules |-> Revised(rules[a], Next(a).threshold, Next(a).hysteresis)]
  /\ Audited(<<"parameter", key>>, parameters[key], value)
  /\ UNCHANGED <<pointVars, eventRecords, noteVars, visitVars, clock>>

CreateRuledAsset(a) ==
  /\ Spend("asset") /\ a \in AssetIds \ DOMAIN rules
  /\ rules' = [b \in DOMAIN rules \cup {a} |-> IF b = a THEN NewRule(parameters) ELSE rules[b]]
  /\ UNCHANGED <<parameters, pointVars, eventRecords, noteVars, visitVars, audit, clock>>

\* mutant: an asset goes although events refer to its rule.
Unreferred_Mut(a) == TRUE
Unreferred(a) == \A r \in events \cup Range(inspections) : r.asset # a
\* Datasets and their rows may refer to an asset as well.
DeleteRuledAsset(a, kept) ==
  /\ Spend("asset") /\ a \in DOMAIN rules /\ a \notin kept /\ Unreferred(a)
  /\ rules' = [b \in DOMAIN rules \ {a} |-> rules[b]]
  /\ points' = [b \in DOMAIN points \ {a} |-> points[b]]
  /\ placed' = [placed EXCEPT ![a] = [t \in {} |-> None]]
  /\ UNCHANGED <<parameters, eventRecords, noteVars, visitVars, audit, clock>>

-----------------------------------------------------------------------------
(* Installation points and the evidence of an event.                       *)

Surveyed(a, state) ==
  /\ placed' = [placed EXCEPT ![a] = [t \in DOMAIN @ \cup {clock} |->
                                      IF t = clock THEN state ELSE @[t]]]
  /\ UNCHANGED <<ruleVars, eventRecords, noteVars, visitVars, audit, clock>>

Install(a, state) ==
  /\ Spend("point") /\ a \in DOMAIN rules \ DOMAIN points
  /\ points' = [b \in DOMAIN points \cup {a} |->
                  IF b = a THEN [created |-> clock, state |-> state, edits |-> <<>>]
                            ELSE points[b]]
  /\ Surveyed(a, state)

Moved(p, state) ==
  [p EXCEPT !.state = state, !.edits = Append(@, [at |-> clock, before |-> p.state])]
Move(a, state) ==
  /\ Spend("point") /\ a \in DOMAIN points /\ points[a].state # state
  /\ points' = [points EXCEPT ![a] = Moved(@, state)]
  /\ Surveyed(a, state)

\* snapshot_for: undo the edits that came after the event, from the last to the first that
\* did not, which leaves what the earliest of them replaced.
Undone(edit, at) == edit.at > at
StateAt(p, at) ==
  LET undone == {k \in DOMAIN p.edits : \A j \in k..Len(p.edits) : Undone(p.edits[j], at)} IN
  IF undone = {} THEN p.state ELSE p.edits[Min(undone)].before
PlacedAt(a, at) ==
  IF a \notin DOMAIN points \/ points[a].created > at \/ StateAt(points[a], at) = "inactive"
    THEN None ELSE StateAt(points[a], at)

\* History: the place by the record of every moment.
Seen(a, at) ==
  IF at \in DOMAIN placed[a] /\ placed[a][at] # "inactive" THEN placed[a][at] ELSE None

\* What an event records when it is made: late events refer to an earlier moment.
RaiseEvent(a, at) ==
  /\ Spend("event") /\ a \in DOMAIN rules
  /\ events' = events \cup {[id |-> Cardinality(events) + 1, asset |-> a, at |-> at,
                             version |-> rules[a].version, rule |-> Current(rules[a]),
                             place |-> PlacedAt(a, at), truth |-> Seen(a, at),
                             label |-> "needs_review", reviewed |-> FALSE]}
  /\ UNCHANGED <<ruleVars, pointVars, reviews, noteVars, visitVars, audit, clock>>

\* anomaly_rule_version_for
AppliedRule(e) ==
  LET rule == rules[e.asset]
      found == {s \in {Current(rule)} \cup Range(rule.history) : s.version = e.version}
  IN  IF e.asset \notin DOMAIN rules \/ found = {} THEN None
      ELSE IF Current(rule) \in found THEN Current(rule) ELSE CHOOSE s \in found : TRUE

-----------------------------------------------------------------------------
(* Reviews and notes.                                                      *)

Labeled(e, label) == [e EXCEPT !.label = label, !.reviewed = label # "needs_review"]
ReviewEvent(e, label) ==
  /\ Spend("review")
  /\ events' = (events \ {e}) \cup {Labeled(e, label)}
  /\ reviews' = Append(reviews, [event |-> e.id, before |-> e.label, after |-> label])
  /\ Audited(<<"event", e.id>>, e.label, label)
  /\ UNCHANGED <<ruleVars, pointVars, noteVars, visitVars, clock>>

ChangeSequence(version) == Len(noteHistory) + 1

Noted(note, action, before, after) ==
  /\ noteHistory' = Append(noteHistory, [note |-> note.id, action |-> action,
                                           version |-> note.version,
                                         category |-> note.category])
  /\ Audited(<<"note", note.id>>, before, after)
  /\ UNCHANGED <<ruleVars, pointVars, eventRecords, visitVars, clock>>

CreateNote(e, category) ==
  LET note == [id |-> Cardinality(notes) + 1, event |-> e.id, category |-> category, version |-> 1,
               changed |-> ChangeSequence(1), deleted |-> FALSE] IN
  /\ Spend("note")
  /\ notes' = notes \cup {note}
  /\ Noted(note, "created", None, note)

UpdateNote(n, category) ==
  LET note == [n EXCEPT !.category = category, !.version = @ + 1,
                        !.changed = ChangeSequence(n.version + 1)] IN
  /\ Spend("note") /\ ~n.deleted
  /\ notes' = (notes \ {n}) \cup {note}
  /\ Noted(note, "updated", n, note)

DeleteNote(n) ==
  LET note == [n EXCEPT !.deleted = TRUE, !.version = @ + 1,
                        !.changed = ChangeSequence(n.version + 1)] IN
  /\ Spend("note") /\ ~n.deleted
  /\ notes' = (notes \ {n}) \cup {note}
  /\ Noted(note, "deleted", n, None)

\* event_notes_for: the first of a category when the latest change comes first.
Standing(e) == {n \in notes : n.event = e.id /\ ~n.deleted}
LatestOf(e, category) ==
  {n \in Standing(e) : n.category = category
     /\ \A m \in Standing(e) : m.category = category =>
          m.changed < n.changed \/ (m.changed = n.changed /\ m.id <= n.id)}

-----------------------------------------------------------------------------
(* Environment inspections.                                                *)


Supersedes(a, at) == environment[a].at = 0 \/ environment[a].at <= at

\* A report may come days after the visit.
Inspect(a, severity, at) ==
  /\ Spend("visit") /\ a \in DOMAIN rules
  /\ inspections' = Append(inspections, [asset |-> a, at |-> at, status |-> severity])
  /\ environment' = IF Supersedes(a, at)
                      THEN [environment EXCEPT ![a] = [status |-> severity, at |-> at]]
                       ELSE environment
  /\ Audited(<<"visit", Len(inspections) + 1>>, None, severity)
  /\ UNCHANGED <<ruleVars, pointVars, eventRecords, noteVars, clock>>

PassTime ==
  /\ clock < LastTime /\ clock' = clock + 1
  /\ placed' = [a \in AssetIds |-> IF clock \in DOMAIN placed[a]
                  THEN [t \in DOMAIN placed[a] \cup {clock + 1} |->
                          IF t = clock + 1 THEN placed[a][clock] ELSE placed[a][t]]
                  ELSE placed[a]]
  /\ UNCHANGED <<ruleVars, points, eventRecords, noteVars, visitVars, audit, left>>

RecordsNext ==
  \/ \E a \in AssetIds, t \in Thresholds, h \in Hysteresis : UpdateRule(a, t, h)
  \/ \E t \in Thresholds : UpdateParameter("threshold", t)
  \/ \E h \in Hysteresis : UpdateParameter("hysteresis", h)
  \/ \E a \in AssetIds : CreateRuledAsset(a)
  \/ \E a \in AssetIds, s \in {"north", "inactive"} : Install(a, s) \/ Move(a, s)
  \/ \E a \in AssetIds, at \in 1..clock : RaiseEvent(a, at)
  \/ \E e \in events, label \in Labels : ReviewEvent(e, label)
  \/ \E e \in events, c \in Categories : CreateNote(e, c)
  \/ \E n \in notes, c \in Categories : UpdateNote(n, c)
  \/ \E n \in notes : DeleteNote(n)
  \/ \E a \in AssetIds, s \in Severities, at \in 1..clock : Inspect(a, s, at)
  \/ PassTime
-----------------------------------------------------------------------------
(* Properties.                                                             *)

\* An event shows the rule that was in force when it was raised and the place the
\* sensor had at the moment it happened, whatever has been edited or deleted since.
EvidenceHolds ==
  \A e \in events :
    /\ AppliedRule(e) = e.rule
    /\ e.place = e.truth

\* The note shown for a category is the one last changed in it.
NoteIsLatest(e, c) ==
  LET mine == {k \in DOMAIN noteHistory : \E n \in Standing(e) :
                 n.id = noteHistory[k].note /\ n.version = noteHistory[k].version
                 /\ n.category = c}
  IN  {n.id : n \in LatestOf(e, c)} = IF mine = {} THEN {} ELSE {noteHistory[Max(mine)].note}

\* The environment shown for an asset is that of its latest visit.
VisitIsLatest(a) ==
  LET visits == {k \in DOMAIN inspections : inspections[k].asset = a}
      latest == Max({inspections[k].at : k \in visits})
      last == inspections[Max({k \in visits : inspections[k].at = latest})]
  IN  environment[a] = [status |-> last.status, at |-> last.at]

\* What is shown as the latest is the latest: the note last changed in its category,
\* and the inspection of the latest visit, however late it was reported.
LatestShown ==
  /\ \A e \in events, c \in Categories : NoteIsLatest(e, c)
  /\ \A a \in {i.asset : i \in Range(inspections)} : VisitIsLatest(a)

\* What the records say of an event stays true, and what they show last is the last.
RecordsHold == EvidenceHolds /\ LatestShown
=============================================================================
