--------------------------- MODULE TrainingHandoff ---------------------------
(***************************************************************************)
(* A training job on a frozen version and the hand-over of its result to   *)
(* the backend (train_and_evaluate.py, result_handoff.py).                 *)
(*                                                                         *)
(* The result is first written to an outbox file that is never replaced;   *)
(* processes send it, with a bounded number of attempts, lose answers or   *)
(* stop, and leave a receipt.  A digest is what it was computed from.      *)
(***************************************************************************)
EXTENDS DatasetVersions
CONSTANTS
  Jobs,        \* job ids, unique by a random part
  Targets,     \* target bindings: backend dataset and baseline
  Outboxes,    \* paths of outbox files
  Senders,     \* processes that send an outbox
  MaxAttempts

Report == [dataset : VersionId, digest : Digest, independent : BOOLEAN,
           read : Digest]
Payload == [job : Jobs, target : Targets, dataset : VersionId, digest : Digest,
            independent : BOOLEAN]
Answers == {"accepted", "duplicate", "conflict", "refused", "busy"}
Sending == [path : Outboxes, payload : Payload, attempt : Nat, answer : Answers \cup {Nothing}]
ASSUME NothingIsNoFile == Nothing \notin Report \cup Payload \cup Sending \cup Answers

VARIABLES
  reports,     \* [Jobs -> Nothing or the stored report]
  artifacts,   \* [Jobs -> Nothing, "trained" or "other"]: bytes of the selected artifact
  outbox,      \* [Outboxes -> Nothing or payload]
  receipts,    \* [Outboxes -> Nothing or payload its digest is of]
  senders,     \* [Senders -> Nothing or [path, payload, attempt, answer]]
  stray,       \* requests whose sender gave up waiting
  results      \* [Jobs -> Nothing or payload]: what the backend registered

trainingVars == <<reports, artifacts, outbox, receipts, senders, stray, results>>
handoverVars == <<outbox, receipts, senders, stray, results>>
systemVars == <<versionVars, trainingVars>>

TrainingInit ==
  /\ VersionsInit
  /\ reports = [j \in Jobs |-> Nothing] /\ artifacts = [j \in Jobs |-> Nothing]
  /\ outbox = [p \in Outboxes |-> Nothing] /\ receipts = [p \in Outboxes |-> Nothing]
  /\ senders = [x \in Senders |-> Nothing]
  /\ stray = {} /\ results = [j \in Jobs |-> Nothing]

DataRest == UNCHANGED <<setVars, exportVars>>

\* _verify_independent_holdout_claim
Independent(m) == m.rows.sample \notin Leaky
Declared(m) == Independent(m)

\* run_training_job, up to the stored report
Train(s, j) ==
  LET m == held[s] IN
  /\ Use("train") /\ m # Nothing /\ reports[j] = Nothing
  /\ m.status = "frozen" /\ Verifies(m, FALSE)
  /\ m.note = "independent" => Declared(m)
  /\ reports' = [reports EXCEPT ![j] =
       [dataset |-> m.id, digest |-> m.digest, independent |-> Declared(m), read |-> Stable(m)]]
  /\ artifacts' = [artifacts EXCEPT ![j] = "trained"]
  /\ DataRest /\ UNCHANGED handoverVars
\* The artifact is a file: it may be replaced or removed later.
ReplaceArtifact(j) ==
  /\ Use("fault") /\ artifacts[j] = "trained"
  /\ \E what \in {Nothing, "other"} : artifacts' = [artifacts EXCEPT ![j] = what]
  /\ DataRest /\ UNCHANGED <<reports, handoverVars>>

\* store_immutable: nothing but the same content may be there already.
MayStore(files, path, value) == files[path] \in {Nothing, value}
Stored(files, path, value) ==
  IF MayStore(files, path, value) THEN [files EXCEPT ![path] = value] ELSE files

\* build_submission and prepare_handoff, with the manifest in s
Submission(j, m, target) ==
  [job |-> j, target |-> target, dataset |-> m.id, digest |-> m.digest,
   independent |-> reports[j].independent]
Prepare(s, j, target, path) ==
  LET m == held[s] IN
  /\ Use("prepare") /\ m # Nothing /\ reports[j] # Nothing
  /\ Verifies(m, FALSE) /\ reports[j].dataset = m.id /\ reports[j].digest = m.digest
  /\ artifacts[j] = "trained"
  /\ outbox' = Stored(outbox, path, Submission(j, m, target))
  /\ DataRest /\ UNCHANGED <<reports, artifacts, receipts, senders, stray, results>>

-----------------------------------------------------------------------------
(* send_pending and, external to it, the backend's submit_result.          *)

\* What the backend answers to a payload: it registers the first of a job.
Answer(payload) ==
  IF results[payload.job] = Nothing THEN "accepted"
  ELSE IF results[payload.job] = payload THEN "duplicate" ELSE "conflict"
Accepted(payload) == IF results[payload.job] = Nothing
                     THEN [results EXCEPT ![payload.job] = payload] ELSE results

HandoverRest == DataRest /\ UNCHANGED <<reports, artifacts, outbox>>
Begin(x, path) ==
  /\ Use("send") /\ senders[x] = Nothing /\ outbox[path] # Nothing
  /\ senders' = [senders EXCEPT ![x] =
       [path |-> path, payload |-> outbox[path], attempt |-> 1, answer |-> Nothing]]
  /\ HandoverRest /\ UNCHANGED <<receipts, stray, results>>
Waiting(x) == senders[x] # Nothing /\ senders[x].answer = Nothing
Handle(x) ==
  /\ Waiting(x) /\ UNCHANGED allowance
  /\ \/ /\ senders' = [senders EXCEPT ![x].answer = Answer(senders[x].payload)]
        /\ results' = Accepted(senders[x].payload)
     \/ /\ \E refusal \in {"refused", "busy"} : senders' = [senders EXCEPT ![x].answer = refusal]
        /\ UNCHANGED results
  /\ HandoverRest /\ UNCHANGED <<receipts, stray>>
HandleStray(payload) ==
  /\ results' = Accepted(payload) /\ stray' = stray \ {payload}
  /\ HandoverRest /\ UNCHANGED <<receipts, senders, allowance>>

\* An acknowledgement of this payload is stored as its receipt.
Acknowledged(x) ==
  /\ ~Waiting(x) /\ senders[x] # Nothing /\ senders[x].answer \in {"accepted", "duplicate"}
  /\ receipts' = Stored(receipts, senders[x].path, senders[x].payload)
  /\ senders' = [senders EXCEPT ![x] = Nothing]
  /\ HandoverRest /\ UNCHANGED <<stray, results, allowance>>
\* 4xx, or an answer that does not fit, ends the sending.
Rejected(x) ==
  /\ senders[x] # Nothing /\ senders[x].answer \in {"conflict", "refused"}
  /\ senders' = [senders EXCEPT ![x] = Nothing]
  /\ HandoverRest /\ UNCHANGED <<receipts, stray, results, allowance>>
\* An answer is lost, late, 429 or 5xx; the request may still be on its way.
Strays(x) == IF Waiting(x) THEN {stray, stray \cup {senders[x].payload}} ELSE {stray}
Again(sending) == [sending EXCEPT !.attempt = @ + 1, !.answer = Nothing]
Retry(x) ==
  /\ senders[x] # Nothing
  /\ senders' = [senders EXCEPT ![x] =
       IF @.attempt < MaxAttempts THEN Again(@) ELSE Nothing]
  /\ stray' \in Strays(x)
  /\ HandoverRest /\ UNCHANGED <<receipts, results, allowance>>
StopSender(x) ==
  /\ Use("fault") /\ senders[x] # Nothing
  /\ senders' = [senders EXCEPT ![x] = Nothing] /\ stray' \in Strays(x)
  /\ HandoverRest /\ UNCHANGED <<receipts, results>>

TrainingStep ==
  \/ \E s \in Slots, j \in Jobs : \/ Train(s, j)
                                  \/ \E t \in Targets, p \in Outboxes : Prepare(s, j, t, p)
  \/ \E j \in Jobs : ReplaceArtifact(j)
  \/ \E x \in Senders : \/ \E p \in Outboxes : Begin(x, p)
                        \/ Handle(x) \/ Acknowledged(x) \/ Rejected(x) \/ Retry(x) \/ StopSender(x)
  \/ \E payload \in stray : HandleStray(payload)
SystemStep == (VersionStep /\ UNCHANGED trainingVars) \/ TrainingStep
SystemSpec == TrainingInit /\ [][SystemStep]_systemVars

-----------------------------------------------------------------------------
\* A receipt is only there when the backend has registered the very result in the
\* outbox beside it, whatever was retried, lost, answered late or prepared again.
ReceiptsHold ==
  \A p \in Outboxes : receipts[p] # Nothing =>
    receipts[p] = outbox[p] /\ results[receipts[p].job] = receipts[p]

\* What the backend registered names the rows the model was trained on, and calls its
\* test independent only when no specimen was in two parts of them.
ResultsAreBacked ==
  \A j \in Jobs : results[j] # Nothing =>
    LET read == reports[j].read IN
    /\ results[j].dataset.suffix = [labels |-> read.labels, fingerprint |-> read.rows]
    /\ results[j].independent => read.rows.sample \notin Leaky

\* Training hand-over: an export, a receipt and a result each stand on what they name.
HandoffHolds == ExportsHold /\ ReceiptsHold /\ ResultsAreBacked
\* From the manifest to the backend: what is frozen is honest, and what is handed over
\* rests on it.
TrainingHolds == VersionsAreHonest /\ HandoffHolds
=============================================================================
