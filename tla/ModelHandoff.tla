---------------------------- MODULE ModelHandoff ----------------------------
(***************************************************************************)
(* Baselines, model versions and the hand-over of training results         *)
(* (model_registry.py, ai_results.py) on frozen dataset versions.          *)
(*                                                                         *)
(* A producer sends a result again when its answer is lost, with the same  *)
(* or with another content; reviewers decide on what they read some time   *)
(* ago and repeat requests, too.  Contents are what the digests of the     *)
(* code tell apart; artifacts, metrics and texts are part of the content.  *)
(***************************************************************************)
EXTENDS Datasets
CONSTANTS
  Results,     \* [producer, job, version, content, dataset, baseline]
  Reviewers, Requests

VARIABLES
  baselines,   \* BASELINE_VERSIONS
  models,      \* MODEL_VERSIONS
  opened,      \* what a reviewer has on the screen: [actor, version, revision, content]
  accepted,    \* history: submissions answered with accepted
  decided      \* history: [actor, version, decision] answered with the record

handoffVars == <<baselines, models, opened, accepted, decided>>
allVars == <<governedVars, handoffVars>>

HandoffInit ==
  /\ DatasetsInit
  /\ baselines = <<>> /\ models = {} /\ opened = {} /\ accepted = {} /\ decided = {}

HandoffRest ==
  UNCHANGED <<ruleVars, pointVars, eventRecords, noteVars, visitVars, clock, datasetVars>>

Frozen(k) == k \in DOMAIN datasets
CreateBaseline(k, a) ==
  LET record == [version |-> Len(baselines) + 1, dataset |-> k, asset |-> a] IN
  /\ Spend("baseline") /\ Frozen(k) /\ a \in DOMAIN rules
  /\ baselines' = Append(baselines, record)
  /\ Audited(<<"baseline", record.version>>, None, record)
  /\ HandoffRest /\ UNCHANGED <<models, opened, accepted, decided>>

\* create_model_version: the guards a hand-over goes through as well.
Registrable(r) ==
  /\ Frozen(r.dataset) /\ r.baseline \in DOMAIN baselines
  /\ baselines[r.baseline].dataset = r.dataset
  /\ \A m \in models : m.version # r.version
Registered(r, creator, job) ==
  [version |-> r.version, content |-> r.content, dataset |-> r.dataset, baseline |-> r.baseline,
   creator |-> creator, job |-> job, status |-> "pending", revision |-> 0, history |-> <<>>]

RegisterByHand(actor, r) ==
  /\ Spend("model") /\ Registrable(r)
  /\ models' = models \cup {Registered(r, actor, None)}
  /\ Audited(<<"model", r.version>>, None, r.content)
  /\ HandoffRest /\ UNCHANGED <<baselines, opened, accepted, decided>>

SameJob(r) == {m \in models : m.job = <<r.producer, r.job>>}
IsDuplicate(m, r) ==
  /\ m.content = r.content /\ m.version = r.version
  /\ m.dataset = r.dataset /\ m.baseline = r.baseline

\* submit_result; the answer of a duplicate is the model registered before.
SubmitResult(r) ==
  /\ Spend("model")
  /\ IF SameJob(r) # {}
     THEN /\ \E m \in SameJob(r) : IsDuplicate(m, r)
          /\ UNCHANGED <<models, audit>>
     ELSE /\ Registrable(r)
          /\ models' = models \cup {Registered(r, r.producer, <<r.producer, r.job>>)}
          /\ Audited(<<"model", r.version>>, None, r.content)
  /\ accepted' = accepted \cup {r}
  /\ HandoffRest /\ UNCHANGED <<baselines, opened, decided>>

\* versions_for: a reviewer loads a model and looks at it for a while.
OpenModel(actor, m) ==
  /\ Spend("open")
  /\ opened' = opened \cup {[actor |-> actor, version |-> m.version, revision |-> m.revision]}
  /\ HandoffRest /\ UNCHANGED <<audit, baselines, models, accepted, decided>>

Request(o, id, decision) ==
  [id |-> id, actor |-> o.actor, decision |-> decision, revision |-> o.revision]
Earlier(m, id) == {h \in Range(m.history) : h.id = id}
\* mutant: a repeated request id is answered without comparing its content.
IsRepetition_Mut(h, request) == TRUE
IsRepetition(h, request) == h = request

\* review_model: what was reviewed must be current and still open.
Reviewable(m, request) == m.revision = request.revision /\ m.status = "pending"
ReviewModel(o, m, id, decision) ==
  LET request == Request(o, id, decision) IN
  /\ Spend("decide") /\ m.version = o.version
  /\ m.job # None /\ m.creator # o.actor
  /\ IF Earlier(m, id) # {}
     THEN /\ \E h \in Earlier(m, id) : IsRepetition(h, request)
          /\ UNCHANGED <<models, audit>>
     ELSE /\ Reviewable(m, request)
          /\ models' = (models \ {m}) \cup
               {[m EXCEPT !.status = decision, !.revision = @ + 1, !.history = Append(@, request)]}
          /\ Audited(<<"model", m.version>>, m.status, decision)
  /\ decided' = decided \cup {[actor |-> o.actor, version |-> m.version, decision |-> decision]}
  /\ HandoffRest /\ UNCHANGED <<baselines, opened, accepted>>

DropAsset(a) ==
  /\ DeleteRuledAsset(a, Kept \cup {b.asset : b \in Range(baselines)})
  /\ UNCHANGED <<datasetVars, handoffVars>>

HandoffSteps ==
  \/ \E a \in AssetIds : DropAsset(a)
  \/ \E k \in DOMAIN datasets, a \in AssetIds : CreateBaseline(k, a)
  \/ \E actor \in Reviewers, r \in Results : RegisterByHand(actor, r)
  \/ \E r \in Results : SubmitResult(r)
  \/ \E actor \in Reviewers, m \in models : OpenModel(actor, m)
  \/ \E o \in opened, m \in models, id \in Requests, decision \in {"approved", "rejected"} :
       ReviewModel(o, m, id, decision)

HandoffNext == (DatasetsNext /\ UNCHANGED handoffVars) \/ HandoffSteps
GovernanceSpec == HandoffInit /\ [][HandoffNext]_allVars
-----------------------------------------------------------------------------
(* Properties.                                                             *)

\* Whatever was answered holds: an accepted submission is registered as it was
\* sent, once for its job; a decision that was confirmed is the decision the
\* model has, made once, by somebody who did not submit it; and a model's
\* baseline was made from the version it was trained on.
AnswersHold ==
  /\ \A r \in accepted : \E m \in models :
       m.job = <<r.producer, r.job>> /\ m.version = r.version /\ m.content = r.content
  /\ \A m, n \in models : m.job # None /\ m.job = n.job => m = n
  /\ \A d \in decided : \E m \in models :
       /\ m.version = d.version /\ m.status = d.decision
       /\ m.creator # d.actor /\ Len(m.history) = 1
  /\ \A m \in models : baselines[m.baseline].dataset = m.dataset
=============================================================================
