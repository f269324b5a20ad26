---------------------------- MODULE ModelVersions ----------------------------
(***************************************************************************)
(* ModelVersionRegistry and BaselineVersionRegistry (model_version.py):    *)
(* versions are registered, approved, rolled back to, activated.  Records  *)
(* are the registry's own; the wall clock that stamps approvals may be set *)
(* back or stand still.                                                    *)
(***************************************************************************)
EXTENDS Integers, FiniteSets
CONSTANTS
  ModelNames, Contents,  \* versions and what is registered under them
  Times,                 \* what the clock may read
  Environments           \* production, staging, development

ASSUME TimesAreNumbers == Times \subseteq Int

VARIABLES
  entries,      \* ModelVersionRegistry: records [version, content, status, at]
  frequencyBaselines,    \* BaselineVersionRegistry: records [id, content, status]
  rollbacks     \* history: the action records given out

modelVars == <<entries, frequencyBaselines, rollbacks>>
ModelsInit == entries = {} /\ frequencyBaselines = {} /\ rollbacks = {}

Names(records) == {r.version : r \in records}
Replaced(records, old, new) == (records \ {old}) \cup {new}

Register(v, content) ==
  /\ v \notin Names(entries)
  /\ entries' = entries \cup {[version |-> v, content |-> content,
                              status |-> "registered", at |-> -1]}
  /\ UNCHANGED <<frequencyBaselines, rollbacks>>
ApproveModel(e, now) ==
  /\ e.status = "registered"
  /\ entries' = Replaced(entries, e, [e EXCEPT !.status = "approved", !.at = now])
  /\ UNCHANGED <<frequencyBaselines, rollbacks>>

\* mutant: what was approved at the same moment may be gone back to.
ApprovedBefore_Mut(target, from) == target.at <= from.at
ApprovedBefore(target, from) == target.at < from.at
Rollback(from, target, environment) ==
  /\ from # target /\ from.status = "approved" /\ target.status = "approved"
  /\ ApprovedBefore(target, from)
  /\ rollbacks' = rollbacks \cup
       {[from |-> from.version, to |-> target.version, content |-> target.content,
         environment |-> environment]}
  /\ UNCHANGED <<entries, frequencyBaselines>>

RegisterBaseline(v, content) ==
  /\ v \notin Names(frequencyBaselines)
  /\ frequencyBaselines' = frequencyBaselines \cup {[version |-> v, content |-> content,
                                                    status |-> "draft"]}
  /\ UNCHANGED <<entries, rollbacks>>
ApproveBaseline(b) ==
  /\ b.status = "draft"
  /\ frequencyBaselines' = Replaced(frequencyBaselines, b, [b EXCEPT !.status = "approved"])
  /\ UNCHANGED <<entries, rollbacks>>
Activate(b) ==
  /\ b.status = "approved"
  /\ frequencyBaselines' = Replaced(frequencyBaselines, b, [b EXCEPT !.status = "active"])
  /\ UNCHANGED <<entries, rollbacks>>

ModelStep ==
  \/ \E v \in ModelNames, content \in Contents :
       Register(v, content) \/ RegisterBaseline(v, content)
  \/ \E e \in entries, now \in Times : ApproveModel(e, now)
  \/ \E e, f \in entries, environment \in Environments : Rollback(e, f, environment)
  \/ \E b \in frequencyBaselines : ApproveBaseline(b) \/ Activate(b)
ModelsSpec == ModelsInit /\ [][ModelStep]_modelVars

-----------------------------------------------------------------------------
\* However the clock moves, the rollbacks given out never lead round in a circle, and
\* each still names a version that is approved with the content it was given out for.
RollbacksDescend ==
  LET names == Names(entries)
      Closed(reached) == \A r \in rollbacks : r.from \in reached => r.to \in reached
      After(v) == {r.to : r \in {x \in rollbacks : x.from = v}}
  IN  /\ \A v \in names : \E reached \in SUBSET names :
           After(v) \subseteq reached /\ Closed(reached) /\ v \notin reached
      /\ \A r \in rollbacks : \E e \in entries :
           e.version = r.to /\ e.content = r.content /\ e.status = "approved"
=============================================================================
